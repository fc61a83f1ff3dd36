----------------------------- MODULE Authenticater ----------------------------
(***************************************************************************)
(* authentication/Authenticater.java: a device is let through once a TCP   *)
(* segment of it has carried the key; the results wait in a circular       *)
(* buffer for the log-in page.  macAddress is a plain HashSet that the     *)
(* handler threads share: while one of them is in add(), a contains() may  *)
(* miss a member, and two overlapping add() may lose one.                  *)
(***************************************************************************)
EXTENDS Dispatch

CONSTANT
  BufferSize   \* the capacity of the buffer: 100 in the code

ASSUME BufferAssumption == BufferSize \in Nat \ {0}

VARIABLES
  buffer,      \* the results, oldest first
  macAddress,  \* the devices let through
  seen         \* seen[s]: macAddress as the thread of s found it when its add() began

authVars == <<buffer, macAddress, seen>>

Result == [host : Host, code : 0 .. 1]

AuthType ==
  /\ buffer \in Seq(Result) /\ Len(buffer) <= BufferSize
  /\ macAddress \subseteq Host
  /\ seen \in [Switch -> SUBSET Host]

InitAuthenticater ==
  /\ buffer = <<>>
  /\ macAddress = {}
  /\ seen = [s \in Switch |-> {}]

\* ConcurrentCircularBuffer.add() is synchronized and drops the oldest result.
BufferAdd(h, code) ==
  buffer' = IF Len(buffer) < BufferSize
            THEN Append(buffer, [host |-> h, code |-> code])
            ELSE Append(Tail(buffer), [host |-> h, code |-> code])

\* What macAddress.contains(h) may return.
Contains(h) ==
  {h \in macAddress} \cup (IF \E s \in Switch : thread[s].at = "admit" THEN {FALSE} ELSE {})

\* Slip: a packet that is no TCP segment ends the chain.
PassSegments(s) ==
  /\ Called(s, "Authenticater")
  /\ LET msg == thread[s].msg IN
       IF msg.kind # "frame" \/ msg.data = "other"
       THEN Stop(s)
       ELSE TRUE \in Contains(msg.host) /\ Continue(s, "Authenticater")
  /\ UNCHANGED authVars

\* Packets of the controllers have protocol NONE: they are no TCP segments.
Pass(s) ==
  /\ Called(s, "Authenticater")
  /\ LET msg == thread[s].msg IN
       msg.kind = "frame" => (msg.data = "other" \/ TRUE \in Contains(msg.host))
  /\ Continue(s, "Authenticater")
  /\ UNCHANGED authVars

\* A segment of a device that is not in the set: without data, line 88 throws.
Examine(s) ==
  /\ Called(s, "Authenticater")
  /\ LET msg == thread[s].msg IN
       /\ msg.kind = "frame"
       /\ msg.data # "other"
       /\ FALSE \in Contains(msg.host)
       /\ CASE msg.data = "none"  -> Stop(s)
            [] msg.data = "key"   -> Goto(s, "accept")
            [] msg.data = "wrong" -> Goto(s, "refuse")
  /\ UNCHANGED authVars

Refuse(s) ==
  /\ thread[s].at = "refuse"
  /\ BufferAdd(thread[s].msg.host, 0)
  /\ Stop(s)
  /\ UNCHANGED <<macAddress, seen>>

\* Slip: the device is let through without a result for the page.
AcceptSilently(s) ==
  /\ thread[s].at = "accept"
  /\ seen' = [seen EXCEPT ![s] = macAddress]
  /\ Goto(s, "admit")
  /\ UNCHANGED <<buffer, macAddress>>

Accept(s) ==
  /\ thread[s].at = "accept"
  /\ BufferAdd(thread[s].msg.host, 1)
  /\ seen' = [seen EXCEPT ![s] = macAddress]
  /\ Goto(s, "admit")
  /\ UNCHANGED macAddress

Admit(s) ==
  /\ thread[s].at = "admit"
  /\ \E others \in {macAddress, seen[s]} : macAddress' = others \cup {thread[s].msg.host}
  /\ seen' = [seen EXCEPT ![s] = {}]
  /\ Continue(s, "Authenticater")
  /\ UNCHANGED buffer

Authenticate(s) ==
  \/ Pass(s)
  \/ Examine(s)
  \/ Refuse(s)
  \/ Accept(s)
  \/ Admit(s)
===============================================================================
