---------------------------- MODULE PacketInProofs ----------------------------
(***************************************************************************)
(* Proofs about PacketIn, for any set of switches, devices and             *)
(* informations and any bounds.  The invariant has a part per listener;    *)
(* each part is kept by that listener's own steps and by every step that   *)
(* leaves its variables alone and treats its messages as the dispatcher    *)
(* does (AuthFrame, EastWestFrame, MeterFrame).                            *)
(***************************************************************************)
EXTENDS PacketIn, TLAPS

\* A thread that is not idle has a message in hand.
DispatchInv ==
  /\ DispatchType
  /\ \A s \in Switch : thread[s].at # "idle" => thread[s].msg # NULL

AuthSteps == {"accept", "refuse", "admit"}

\* The success of h is in the buffer, or newer results may have pushed it out.
Shown(h) == Len(buffer) < BufferSize => [host |-> h, code |-> 1] \in Range(buffer)

AuthInv ==
  /\ AuthType
  /\ \A s \in Switch : thread[s].at \in AuthSteps => thread[s].msg \in Frame
  /\ \A h \in macAddress : Shown(h)
  /\ \A s \in Switch : \A h \in seen[s] : Shown(h)
  /\ \A s \in Switch : thread[s].at = "admit" => Shown(thread[s].msg.host)

Packet(i) == [kind |-> "info", info |-> i]

\* The thread of the boundary switch has i in hand and has not dealt with it.
InHand(i) ==
  /\ thread[Boundary].msg = Packet(i)
  /\ "EastWestCommunication" \in thread[Boundary].rest

EastWestInv ==
  /\ EastWestType
  /\ \A s \in Switch : thread[s].msg \in InfoPacket => s = Boundary /\ thread[s].at \in {"call", "list"}
  /\ \A s \in Switch : thread[s].at = "list" =>
       /\ thread[s].msg \in InfoPacket
       /\ "EastWestCommunication" \in thread[s].rest
       /\ thread[s].msg.info \notin Range(list)
  /\ \A i \in Info : (\E n \in {1, 2} : copy[<<i, n>>] = "arrived") => i \in Range(list) \/ InHand(i)
  /\ ListedOnce

\* The thread of Dst is about to count a probe, or may do so later.
Uncounted ==
  /\ thread[Dst].msg = Probe
  /\ thread[Dst].at = "call"
  /\ "NetworkMeter" \in thread[Dst].rest

\* No record is short of its delay, but while a thread is about to compute it.
DelayInv ==
  \A r \in Record :
    record[r].ctossw /\ record[r].ctodsw /\ ~record[r].crossed
    => record[r].delay \/ \E s \in Switch : walk[s].at = r /\ thread[s].at = "check"

\* In a round that is under way the packets of the round are still to be sent.
Unsent == IF meter \in {"clear", "measure"} THEN 1 ELSE 0

Counts ==
  /\ size <= made
  /\ modCount = round + made
  /\ made + probes + (IF Uncounted THEN 1 ELSE 0) + Unsent <= round
  /\ \A s \in Switch : echoes[s] + Unsent <= round

MeterSteps == {"grow", "store", "echo", "set", "check"}

MeterInv ==
  /\ MeterType
  /\ Counts
  /\ \A s \in Switch : thread[s].msg = Probe => s = Dst
  /\ \A s \in Switch : thread[s].at \in MeterSteps => thread[s].msg \in {Probe, Echo}
  /\ \A s \in Switch : thread[s].at \in {"grow", "store"} => walk[s].cursor \in 1 .. made
  /\ \A s \in Switch : thread[s].at \in {"set", "check"} <=> walk[s].at \in Record
  /\ DelayInv

IInv == DispatchInv /\ AuthInv /\ EastWestInv /\ MeterInv

-----------------------------------------------------------------------------
(* The dispatcher *)

USE DispatchAssumption, BufferAssumption, BoundaryAssumption, LinkAssumption

\* The kinds of message are told apart, and none is NULL.
LEMMA Kinds ==
  /\ \A m \in Frame : m.kind = "frame" /\ m.host \in Host
  /\ \A m \in InfoPacket : m.kind = "info" /\ m.info \in Info /\ m = Packet(m.info)
  /\ Probe.kind = "probe" /\ Echo.kind = "echo"
  /\ \A i \in Info : Packet(i) \in InfoPacket /\ Packet(i).info = i
  /\ NULL \notin Frame /\ NULL \notin InfoPacket /\ NULL # Probe /\ NULL # Echo
BY DEF Frame, InfoPacket, Probe, Echo, Packet

\* What the four ways to move a thread do.
LEMMA GotoThread ==
  ASSUME DispatchInv, NEW s \in Switch, NEW at, Goto(s, at), thread[s].at # "idle",
         at \in {"accept", "refuse", "admit", "list", "grow", "store", "echo", "set", "check"}
  PROVE  /\ DispatchInv'
         /\ \A t \in Switch \ {s} : thread'[t] = thread[t]
         /\ thread'[s] = [msg |-> thread[s].msg, rest |-> thread[s].rest, at |-> at]
BY DEF DispatchInv, DispatchType, Goto, Thread

LEMMA StopThread ==
  ASSUME DispatchInv, NEW s \in Switch, Stop(s)
  PROVE  /\ DispatchInv'
         /\ \A t \in Switch \ {s} : thread'[t] = thread[t]
         /\ thread'[s] = Idle
BY DEF DispatchInv, DispatchType, Stop, Thread, Idle

LEMMA ContinueThread ==
  ASSUME DispatchInv, NEW s \in Switch, NEW l, Continue(s, l), thread[s].at # "idle"
  PROVE  /\ DispatchInv'
         /\ \A t \in Switch \ {s} : thread'[t] = thread[t]
         /\ \/ thread[s].rest \subseteq {l} /\ thread'[s] = Idle
            \/ thread'[s] = [msg |-> thread[s].msg, rest |-> thread[s].rest \ {l}, at |-> "call"]
<1> DEFINE rest == thread[s].rest \ {l}
           next == IF rest = {} THEN Idle ELSE [msg |-> thread[s].msg, rest |-> rest, at |-> "call"]
<1>1. thread' = [thread EXCEPT ![s] = next] /\ UNCHANGED delivered
  BY DEF Continue
<1>2. next \in Thread /\ (next.at # "idle" => next.msg # NULL)
  BY DEF DispatchInv, DispatchType, Thread, Idle
<1> HIDE DEF next
<1>3. DispatchInv' /\ thread'[s] = next /\ \A t \in Switch \ {s} : thread'[t] = thread[t]
  BY <1>1, <1>2 DEF DispatchInv, DispatchType
<1> QED BY <1>3 DEF next

\* The same of a Continue whose listener does not matter.
LEMMA Continued ==
  ASSUME DispatchInv, NEW s \in Switch, \E l : Continue(s, l), thread[s].at # "idle"
  PROVE  /\ DispatchInv'
         /\ \A t \in Switch \ {s} : thread'[t] = thread[t]
         /\ thread'[s] = Idle \/ (thread'[s].at = "call" /\ thread'[s].msg = thread[s].msg
                                  /\ thread'[s].rest \subseteq thread[s].rest)
<1>1. PICK l : Continue(s, l)
  OBVIOUS
<1>2. /\ DispatchInv'
      /\ \A t \in Switch \ {s} : thread'[t] = thread[t]
      /\ \/ thread[s].rest \subseteq {l} /\ thread'[s] = Idle
         \/ thread'[s] = [msg |-> thread[s].msg, rest |-> thread[s].rest \ {l}, at |-> "call"]
  BY <1>1, ContinueThread, Zenon
<1> QED BY <1>2

LEMMA DeliverThread ==
  ASSUME DispatchInv, NEW s \in Switch, NEW msg, NEW rest, NEW at, Deliver(s, msg, rest, at),
         [msg |-> msg, rest |-> rest, at |-> at] \in Thread, msg # NULL
  PROVE  /\ DispatchInv'
         /\ thread[s] = Idle
         /\ \A t \in Switch \ {s} : thread'[t] = thread[t]
         /\ thread'[s] = [msg |-> msg, rest |-> rest, at |-> at]
BY DEF DispatchInv, DispatchType, Deliver

-----------------------------------------------------------------------------
(* What a listener's step may do to the thread, for the others' parts to be *)
(* kept: to leave their steps and their messages alone.                     *)

Others(s) == \A t \in Switch \ {s} : thread'[t] = thread[t]

AuthAside(s) == Others(s) /\ thread'[s].at \notin AuthSteps

EastWestAside(s) ==
  /\ Others(s)
  /\ \/ thread[s].msg \notin InfoPacket /\ thread'[s].msg \notin InfoPacket /\ thread'[s].at # "list"
     \/ /\ thread[s].at = "call" /\ thread'[s].at = "call"
        /\ thread'[s].msg = thread[s].msg
        /\ "EastWestCommunication" \in thread[s].rest => "EastWestCommunication" \in thread'[s].rest
     \/ "EastWestCommunication" \notin thread[s].rest /\ thread'[s] = Idle

MeterAside(s) ==
  /\ Others(s)
  /\ thread[s].at \notin MeterSteps /\ thread'[s].at \notin MeterSteps
  /\ thread'[s].msg = Probe =>
       /\ thread[s].msg = Probe
       /\ thread[s].at = "call"
       /\ thread'[s].rest \subseteq thread[s].rest

\* A Continue is aside for whomever the message is not meant for.
LEMMA ContinueAside ==
  ASSUME DispatchInv, NEW s \in Switch, \E l : Continue(s, l), thread[s].at # "idle"
  PROVE  /\ AuthAside(s)
         /\ thread[s].msg \notin InfoPacket => EastWestAside(s)
         /\ thread[s].at \notin MeterSteps /\ (thread[s].msg = Probe => thread[s].at = "call") => MeterAside(s)
<1>1. /\ DispatchInv'
      /\ \A t \in Switch \ {s} : thread'[t] = thread[t]
      /\ thread'[s] = Idle \/ (thread'[s].at = "call" /\ thread'[s].msg = thread[s].msg
                               /\ thread'[s].rest \subseteq thread[s].rest)
  BY Continued
<1> QED BY <1>1, Kinds DEF AuthAside, EastWestAside, MeterAside, Others, AuthSteps, MeterSteps, Idle

\* Another listener's Continue leaves the packet of an information to its receiver.
LEMMA ContinuePacket ==
  ASSUME DispatchInv, NEW s \in Switch, thread[s].at = "call",
         \E l : l # "EastWestCommunication" /\ Continue(s, l)
  PROVE  EastWestAside(s)
<1>1. PICK l : l # "EastWestCommunication" /\ Continue(s, l)
  OBVIOUS
<1>2. thread[s].at # "idle"
  OBVIOUS
<1>3. /\ DispatchInv'
      /\ \A t \in Switch \ {s} : thread'[t] = thread[t]
      /\ \/ thread[s].rest \subseteq {l} /\ thread'[s] = Idle
         \/ thread'[s] = [msg |-> thread[s].msg, rest |-> thread[s].rest \ {l}, at |-> "call"]
  BY <1>1, <1>2, ContinueThread, Zenon
<1> QED BY <1>1, <1>3 DEF EastWestAside, Others

-----------------------------------------------------------------------------
(* The authentication *)

\* The steps that do not touch the authentication's variables.
LEMMA AuthFrame ==
  ASSUME AuthInv, UNCHANGED authVars,
         \A t \in Switch : thread'[t] = thread[t] \/ thread'[t].at \notin AuthSteps
  PROVE  AuthInv'
BY DEF AuthInv, AuthType, authVars, Shown, AuthSteps

\* A result that is added: the type, and what stays shown.
LEMMA BufferAddShown ==
  ASSUME AuthType, NEW h \in Host, NEW code \in 0 .. 1, BufferAdd(h, code)
  PROVE  /\ buffer' \in Seq(Result) /\ Len(buffer') <= BufferSize
         /\ \A g \in Host : Shown(g) => Shown(g)'
         /\ Len(buffer') < BufferSize => [host |-> h, code |-> code] \in Range(buffer')
<1> DEFINE new == [host |-> h, code |-> code]
<1>1. new \in Result
  BY DEF Result
<1> HIDE DEF new
<1>2. CASE Len(buffer) < BufferSize
  <2>1. buffer' = Append(buffer, new)
    BY <1>2 DEF BufferAdd, new
  <2>2. Len(buffer') = Len(buffer) + 1 /\ buffer'[Len(buffer) + 1] = new
        /\ \A i \in 1 .. Len(buffer) : buffer'[i] = buffer[i]
    BY <1>1, <2>1 DEF AuthType
  <2>3. Range(buffer) \subseteq Range(buffer') /\ new \in Range(buffer')
    BY <1>1, <2>1, <2>2 DEF Range, AuthType
  <2> QED BY <1>1, <1>2, <2>1, <2>2, <2>3 DEF AuthType, Shown, new
<1>3. CASE ~(Len(buffer) < BufferSize)
  <2>1. buffer' = Append(Tail(buffer), new)
    BY <1>3 DEF BufferAdd, new
  <2>2. buffer # <<>> /\ Len(buffer) = BufferSize
    BY <1>3 DEF AuthType
  <2>3. Tail(buffer) \in Seq(Result) /\ Len(Tail(buffer)) = Len(buffer) - 1
    BY <2>2 DEF AuthType
  <2>4. buffer' \in Seq(Result) /\ Len(buffer') = BufferSize
    BY <1>1, <2>1, <2>2, <2>3
  <2> QED BY <2>4 DEF Shown
<1> QED BY <1>2, <1>3

\* The steps of receive() keep the authentication's part.
LEMMA AuthenticateAuth ==
  ASSUME IInv, NEW s \in Switch, Authenticate(s)
  PROVE  DispatchInv' /\ AuthInv'
<1> USE DEF IInv
<1>1. CASE Pass(s)
  <2>1. (\E l : Continue(s, l)) /\ thread[s].at # "idle" /\ UNCHANGED authVars
    BY <1>1, Zenon DEF Pass, Called
  <2>2. /\ DispatchInv'
        /\ \A t \in Switch \ {s} : thread'[t] = thread[t]
        /\ thread'[s] = Idle \/ thread'[s].at = "call"
    BY <2>1, Continued
  <2> QED BY <2>1, <2>2, AuthFrame DEF AuthSteps, Idle
<1>2. CASE Examine(s)
  <2>1. thread[s].at = "call" /\ thread[s].msg.kind = "frame" /\ UNCHANGED authVars
    BY <1>2 DEF Examine, Called
  <2>2. thread[s].msg \in Frame
    BY <2>1, Kinds DEF DispatchInv, DispatchType, Thread
  <2>3. thread[s].msg.data \in {"other", "none", "key", "wrong"}
    BY <2>2 DEF Frame
  <2>4. Stop(s) \/ Goto(s, "accept") \/ Goto(s, "refuse")
    BY <1>2, <2>3 DEF Examine
  <2>5. CASE Stop(s)
    BY <2>1, <2>5, StopThread, AuthFrame DEF AuthSteps, Idle
  <2>6. ASSUME NEW at \in {"accept", "refuse"}, Goto(s, at)
        PROVE  DispatchInv' /\ AuthInv'
    <3>1. /\ DispatchInv'
          /\ \A t \in Switch \ {s} : thread'[t] = thread[t]
          /\ thread'[s] = [msg |-> thread[s].msg, rest |-> thread[s].rest, at |-> at]
      BY <2>1, <2>6, GotoThread
    <3> QED BY <2>1, <2>2, <3>1 DEF AuthInv, AuthType, authVars, Shown, AuthSteps
  <2> QED BY <2>4, <2>5, <2>6
<1>3. CASE Refuse(s)
  <2>1. thread[s].msg.host \in Host
    BY <1>3, Kinds DEF Refuse, AuthInv, AuthSteps
  <2>2. buffer' \in Seq(Result) /\ Len(buffer') <= BufferSize
        /\ \A g \in Host : Shown(g) => Shown(g)'
    <3>1. BufferAdd(thread[s].msg.host, 0) /\ AuthType /\ 0 \in 0 .. 1
      BY <1>3 DEF Refuse, AuthInv
    <3> QED BY <2>1, <3>1, BufferAddShown, Zenon
  <2>3. DispatchInv' /\ (\A t \in Switch \ {s} : thread'[t] = thread[t]) /\ thread'[s] = Idle
    BY <1>3, StopThread DEF Refuse
  <2> QED BY <1>3, <2>2, <2>3, Kinds, SMTT(30) DEF Refuse, AuthInv, AuthType, AuthSteps, Idle
<1>4. CASE Accept(s)
  <2>1. thread[s].msg.host \in Host /\ thread[s].msg \in Frame
    BY <1>4, Kinds DEF Accept, AuthInv, AuthSteps
  <2>2. /\ buffer' \in Seq(Result) /\ Len(buffer') <= BufferSize
        /\ \A g \in Host : Shown(g) => Shown(g)'
        /\ Len(buffer') < BufferSize => [host |-> thread[s].msg.host, code |-> 1] \in Range(buffer')
    <3>1. BufferAdd(thread[s].msg.host, 1) /\ AuthType /\ 1 \in 0 .. 1
      BY <1>4 DEF Accept, AuthInv
    <3> QED BY <2>1, <3>1, BufferAddShown, Zenon
  <2>3. DispatchInv' /\ (\A t \in Switch \ {s} : thread'[t] = thread[t])
        /\ thread'[s].msg = thread[s].msg /\ thread'[s].at = "admit"
    <3>1. Goto(s, "admit") /\ thread[s].at # "idle"
      BY <1>4 DEF Accept
    <3>2. thread'[s] = [msg |-> thread[s].msg, rest |-> thread[s].rest, at |-> "admit"]
          /\ DispatchInv' /\ \A t \in Switch \ {s} : thread'[t] = thread[t]
      BY <3>1, GotoThread, Zenon
    <3> QED BY <3>2
  <2>4. seen' = [seen EXCEPT ![s] = macAddress] /\ macAddress' = macAddress
    BY <1>4 DEF Accept
  <2>5. AuthType' /\ \A t \in Switch : \A h \in seen'[t] : h \in macAddress \/ h \in seen[t]
    BY <2>2, <2>4 DEF AuthInv, AuthType
  <2>6. \A h \in macAddress' : Shown(h)'
    BY <2>2, <2>4 DEF AuthInv, AuthType
  <2>7. \A t \in Switch : \A h \in seen'[t] : Shown(h)'
    BY <2>2, <2>5 DEF AuthInv, AuthType
  <2>8. \A t \in Switch : thread'[t].at = "admit" => Shown(thread[t].msg.host)'
    <3> SUFFICES ASSUME NEW t \in Switch, thread'[t].at = "admit" PROVE Shown(thread[t].msg.host)'
      OBVIOUS
    <3>1. CASE t = s
      BY <2>2, <2>3, <3>1 DEF Shown
    <3>2. CASE t # s
      BY <2>2, <2>3, <3>2, Kinds DEF AuthInv, AuthSteps
    <3> QED BY <3>1, <3>2
  <2>9. \A t \in Switch : thread'[t].at \in AuthSteps => thread'[t].msg \in Frame
    BY <2>1, <2>3 DEF AuthInv
  <2> QED BY <2>3, <2>5, <2>6, <2>7, <2>8, <2>9 DEF AuthInv, Shown
<1>5. CASE Admit(s)
  <2>1. thread[s].at = "admit" /\ thread[s].msg.host \in Host /\ Shown(thread[s].msg.host)
    BY <1>5, Kinds DEF Admit, AuthInv, AuthSteps
  <2>2. DispatchInv' /\ \A t \in Switch : thread'[t] = thread[t] \/ thread'[t].at \notin AuthSteps
    <3>1. (\E l : Continue(s, l)) /\ thread[s].at # "idle"
      BY <1>5, Zenon DEF Admit
    <3>2. /\ DispatchInv'
          /\ \A t \in Switch \ {s} : thread'[t] = thread[t]
          /\ thread'[s] = Idle \/ thread'[s].at = "call"
      BY <3>1, Continued
    <3> QED BY <3>2 DEF AuthSteps, Idle
  <2>3. UNCHANGED buffer /\ seen' = [seen EXCEPT ![s] = {}]
        /\ macAddress' \subseteq macAddress \cup seen[s] \cup {thread[s].msg.host}
    BY <1>5 DEF Admit
  <2>4. AuthType' /\ \A h : Shown(h)' <=> Shown(h)
    BY <2>1, <2>3 DEF AuthInv, AuthType, Shown
  <2>5. \A h \in macAddress' : Shown(h)
    BY <2>1, <2>3 DEF AuthInv
  <2>6. \A t \in Switch : \A h \in seen'[t] : h \in seen[t]
    BY <2>3 DEF AuthInv, AuthType
  <2> QED BY <2>2, <2>3, <2>4, <2>5, <2>6 DEF AuthInv, AuthSteps, Shown
<1> QED BY <1>1, <1>2, <1>3, <1>4, <1>5 DEF Authenticate

\* And they are aside for the other listeners.
LEMMA AuthenticateAside ==
  ASSUME IInv, NEW s \in Switch, Authenticate(s)
  PROVE  EastWestAside(s) /\ MeterAside(s)
<1> USE DEF IInv
<1>1. CASE Pass(s)
  <2>1. (\E l : Continue(s, l)) /\ thread[s].at = "call"
    BY <1>1, Zenon DEF Pass, Called
  <2>2. \E l : l # "EastWestCommunication" /\ Continue(s, l)
    <3>1. "Authenticater" # "EastWestCommunication" /\ Continue(s, "Authenticater")
      BY <1>1 DEF Pass
    <3> QED BY <3>1, Zenon
  <2> QED BY <2>1, <2>2, ContinueAside, ContinuePacket DEF MeterSteps
<1>2. CASE Examine(s)
  <2>1. thread[s].at = "call" /\ thread[s].msg \in Frame
    BY <1>2, Kinds DEF Examine, Called, DispatchInv, DispatchType, Thread
  <2>2. Stop(s) \/ Goto(s, "accept") \/ Goto(s, "refuse")
    BY <1>2, <2>1 DEF Examine, Frame
  <2>3. CASE Stop(s)
    BY <2>1, <2>3, StopThread, Kinds DEF EastWestAside, MeterAside, Others, MeterSteps, Idle
  <2>4. ASSUME NEW at \in {"accept", "refuse"}, Goto(s, at)
        PROVE  EastWestAside(s) /\ MeterAside(s)
    <3>1. /\ \A t \in Switch \ {s} : thread'[t] = thread[t]
          /\ thread'[s] = [msg |-> thread[s].msg, rest |-> thread[s].rest, at |-> at]
      BY <2>1, <2>4, GotoThread
    <3> QED BY <2>1, <3>1, Kinds DEF EastWestAside, MeterAside, Others, MeterSteps
  <2> QED BY <2>2, <2>3, <2>4
<1>3. CASE Refuse(s) \/ Accept(s) \/ Admit(s)
  <2>1. thread[s].at \in AuthSteps /\ thread[s].msg \in Frame
    BY <1>3 DEF Refuse, Accept, Admit, AuthInv, AuthSteps
  <2>2. CASE Refuse(s)
    BY <2>1, <2>2, StopThread, Kinds DEF Refuse, EastWestAside, MeterAside, Others, AuthSteps, MeterSteps, Idle
  <2>3. CASE Accept(s)
    <3>1. Goto(s, "admit") /\ thread[s].at # "idle"
      BY <2>3 DEF Accept
    <3>2. thread'[s] = [msg |-> thread[s].msg, rest |-> thread[s].rest, at |-> "admit"]
          /\ DispatchInv' /\ \A t \in Switch \ {s} : thread'[t] = thread[t]
      BY <3>1, GotoThread, Zenon
    <3> QED BY <2>1, <3>2, Kinds DEF EastWestAside, MeterAside, Others, AuthSteps, MeterSteps
  <2>4. CASE Admit(s)
    <3>1. (\E l : Continue(s, l)) /\ thread[s].at # "idle"
      BY <2>4, Zenon DEF Admit
    <3> QED BY <2>1, <3>1, ContinueAside, Kinds DEF AuthSteps, MeterSteps
  <2> QED BY <1>3, <2>2, <2>3, <2>4
<1> QED BY <1>1, <1>2, <1>3 DEF Authenticate

-----------------------------------------------------------------------------
(* The receiver of the neighbour partition's information *)

\* The steps that leave copy and list, and the packets of informations, alone.
LEMMA EastWestFrame ==
  ASSUME DispatchInv, EastWestInv, UNCHANGED eastWestVars, NEW s \in Switch, EastWestAside(s)
  PROVE  EastWestInv'
<1>1. EastWestType' /\ ListedOnce' /\ list' = list /\ copy' = copy
  BY DEF EastWestInv, EastWestType, ListedOnce, eastWestVars
<1>2. \A t \in Switch : thread'[t].msg \in InfoPacket => t = Boundary /\ thread'[t].at \in {"call", "list"}
  BY Kinds DEF EastWestInv, EastWestAside, Others, Idle
<1>3. \A t \in Switch : thread'[t].at = "list" =>
        /\ thread'[t].msg \in InfoPacket
        /\ "EastWestCommunication" \in thread'[t].rest
        /\ thread'[t].msg.info \notin Range(list)
  BY DEF EastWestInv, EastWestAside, Others, Idle
<1>4. \A i \in Info : InHand(i) => InHand(i)'
  BY Kinds DEF EastWestAside, Others, InHand, Idle
<1> QED BY <1>1, <1>2, <1>3, <1>4 DEF EastWestInv

\* The steps of its receive() keep its part.
LEMMA ReceiveEastWest ==
  ASSUME IInv, NEW s \in Switch, Receive(s)
  PROVE  DispatchInv' /\ EastWestInv'
<1> USE DEF IInv
<1>1. CASE IgnorePacket(s)
  <2>1. (\E l : Continue(s, l)) /\ thread[s].at = "call" /\ thread[s].msg.kind # "info" /\ UNCHANGED eastWestVars
    BY <1>1, Zenon DEF IgnorePacket, Called
  <2>2. DispatchInv' /\ EastWestAside(s)
    BY <2>1, Continued, ContinueAside, Kinds
  <2> QED BY <2>1, <2>2, EastWestFrame
<1>2. CASE ListLooksUp(s)
  <2>1. /\ thread[s].at = "call" /\ thread[s].msg \in InfoPacket /\ UNCHANGED eastWestVars
        /\ "EastWestCommunication" \in thread[s].rest
    BY <1>2, Kinds DEF ListLooksUp, Called, DispatchInv, DispatchType, Thread, Frame
  <2>2. s = Boundary /\ thread[s].msg = Packet(thread[s].msg.info) /\ thread[s].msg.info \in Info
    BY <2>1, Kinds DEF EastWestInv
  <2>3. CASE thread[s].msg.info \in Range(list)
    <3>1. DispatchInv' /\ Others(s) /\ thread'[s].at # "list"
          /\ (thread'[s] = Idle \/ (thread'[s].at = "call" /\ thread'[s].msg = thread[s].msg))
      <4>1. (\E l : Continue(s, l)) /\ thread[s].at # "idle"
        <5>1. Continue(s, "EastWestCommunication")
          BY <1>2, <2>3 DEF ListLooksUp
        <5> QED BY <2>1, <5>1, Zenon
      <4>2. /\ DispatchInv'
            /\ \A t \in Switch \ {s} : thread'[t] = thread[t]
            /\ thread'[s] = Idle \/ (thread'[s].at = "call" /\ thread'[s].msg = thread[s].msg
                                     /\ thread'[s].rest \subseteq thread[s].rest)
        BY <4>1, Continued
      <4> QED BY <4>2 DEF Others, Idle
    <3>2. \A i \in Info : InHand(i) => i \in Range(list)
      BY <2>2, <2>3, Kinds DEF InHand
    <3>3. \A t \in Switch : thread'[t].msg \in InfoPacket => t = Boundary /\ thread'[t].at \in {"call", "list"}
      BY <2>1, <2>2, <3>1, Kinds DEF EastWestInv, Others, Idle
    <3> QED BY <2>1, <3>1, <3>2, <3>3 DEF EastWestInv, EastWestType, ListedOnce, eastWestVars, Others
  <2>4. CASE thread[s].msg.info \notin Range(list)
    <3>1. Goto(s, "list") /\ thread[s].at # "idle"
      BY <1>2, <2>1, <2>4 DEF ListLooksUp
    <3>2. thread'[s] = [msg |-> thread[s].msg, rest |-> thread[s].rest, at |-> "list"]
          /\ DispatchInv' /\ \A t \in Switch \ {s} : thread'[t] = thread[t]
      BY <3>1, GotoThread, Zenon
    <3>3. \A i \in Info : InHand(i) => InHand(i)'
      BY <2>2, <3>2 DEF InHand
    <3> QED BY <2>1, <2>2, <2>4, <3>2, <3>3 DEF EastWestInv, EastWestType, ListedOnce, eastWestVars
  <2> QED BY <2>3, <2>4
<1>3. CASE ListAdds(s)
  <2>1. /\ thread[s].at = "list" /\ copy' = copy /\ list' = Append(list, thread[s].msg.info)
        /\ thread[s].msg \in InfoPacket /\ thread[s].msg.info \in Info
        /\ thread[s].msg.info \notin Range(list)
        /\ s = Boundary /\ thread[s].msg = Packet(thread[s].msg.info)
    BY <1>3, Kinds DEF ListAdds, EastWestInv
  <2>2. DispatchInv' /\ Others(s)
        /\ (thread'[s] = Idle \/ (thread'[s].at = "call" /\ thread'[s].msg = thread[s].msg))
    <3>1. (\E l : Continue(s, l)) /\ thread[s].at # "idle"
      BY <1>3, <2>1, Zenon DEF ListAdds
    <3> QED BY <3>1, Continued DEF Others
  <2> DEFINE new == thread[s].msg.info
  <2>3. list \in Seq(Info) /\ new \in Info
    BY <2>1 DEF EastWestInv, EastWestType
  <2>4. list' \in Seq(Info) /\ Len(list') = Len(list) + 1 /\ list'[Len(list) + 1] = new
        /\ \A i \in 1 .. Len(list) : list'[i] = list[i]
    <3> HIDE DEF new
    <3> QED BY <2>1, <2>3 DEF new
  <2>5. Range(list) \cup {new} \subseteq Range(list')
    BY <2>3, <2>4 DEF Range
  <2>6. ListedOnce'
    <3>1. \A i \in 1 .. Len(list) : list[i] # new
      BY <2>1, <2>3 DEF Range
    <3> QED BY <2>3, <2>4, <3>1 DEF ListedOnce, EastWestInv
  <2>7. \A t \in Switch : thread'[t].msg \in InfoPacket => t = Boundary /\ thread'[t].at \in {"call", "list"}
    BY <2>1, <2>2, Kinds DEF EastWestInv, Others, Idle
  <2>8. \A t \in Switch : thread'[t].at # "list"
    BY <2>1, <2>2 DEF EastWestInv, Others, Idle
  <2>9. \A i \in Info : InHand(i) => i = new
    BY <2>1, Kinds DEF InHand
  <2> QED BY <2>1, <2>2, <2>4, <2>5, <2>6, <2>7, <2>8, <2>9 DEF EastWestInv, EastWestType
<1> QED BY <1>1, <1>2, <1>3 DEF Receive

LEMMA ReceiveAside ==
  ASSUME IInv, NEW s \in Switch, Receive(s)
  PROVE  AuthAside(s) /\ MeterAside(s)
<1> USE DEF IInv
<1>1. CASE thread[s].at = "call" /\ \E l : Continue(s, l)
  BY <1>1, ContinueAside DEF MeterSteps
<1>2. CASE ListLooksUp(s) /\ Goto(s, "list")
  <2>1. thread[s].at = "call" /\ thread[s].at # "idle" /\ thread[s].msg # Probe
    BY <1>2, Kinds DEF ListLooksUp, Called
  <2>2. thread'[s] = [msg |-> thread[s].msg, rest |-> thread[s].rest, at |-> "list"]
        /\ DispatchInv' /\ \A t \in Switch \ {s} : thread'[t] = thread[t]
    BY <1>2, <2>1, GotoThread, Zenon
  <2> QED BY <2>1, <2>2 DEF AuthAside, MeterAside, Others, AuthSteps, MeterSteps
<1>3. CASE ListAdds(s)
  <2>1. thread[s].at = "list" /\ thread[s].msg \in InfoPacket
    BY <1>3 DEF ListAdds, EastWestInv
  <2>2. (\E l : Continue(s, l)) /\ thread[s].at # "idle"
    BY <1>3, <2>1, Zenon DEF ListAdds
  <2> QED BY <2>1, <2>2, ContinueAside, Kinds DEF MeterSteps
<1>4. IgnorePacket(s) \/ ListLooksUp(s) =>
        thread[s].at = "call" /\ ((\E l : Continue(s, l)) \/ (ListLooksUp(s) /\ Goto(s, "list")))
  BY Zenon DEF IgnorePacket, ListLooksUp, Called
<1> QED BY <1>1, <1>2, <1>3, <1>4 DEF Receive

-----------------------------------------------------------------------------
(* The delay meter *)

\* The steps that leave the meter's variables, and its messages, alone.
LEMMA MeterFrame ==
  ASSUME DispatchInv, MeterInv, UNCHANGED meterVars, NEW s \in Switch, MeterAside(s)
  PROVE  MeterInv'
<1>1. MeterType'
  BY DEF MeterInv, MeterType, meterVars, meterThread, sent, timeList, records
<1>2. /\ meter' = meter /\ round' = round /\ made' = made /\ size' = size /\ modCount' = modCount
      /\ probes' = probes /\ echoes' = echoes /\ walk' = walk /\ record' = record
  BY DEF meterVars, meterThread, sent, timeList, records
<1>3. Uncounted' => Uncounted
  BY DEF Uncounted, MeterAside, Others
<1>4. Counts'
  BY <1>2, <1>3 DEF MeterInv, MeterType, Counts, Unsent
<1>5. DelayInv'
  BY <1>2 DEF MeterInv, DelayInv, MeterAside, Others, MeterSteps
<1> QED BY <1>1, <1>2, <1>4, <1>5 DEF MeterInv, MeterAside, Others, MeterSteps

LEMMA MeterSelfAside ==
  ASSUME IInv, NEW s \in Switch, Meter(s)
  PROVE  AuthAside(s) /\ EastWestAside(s) /\ DispatchInv'
<1> USE DEF IInv
<1>1. CASE NotMeasured(s)
  <2>1. (\E l : Continue(s, l)) /\ thread[s].at = "call"
    BY <1>1, Zenon DEF NotMeasured, Called
  <2>2. \E l : l # "EastWestCommunication" /\ Continue(s, l)
    <3>1. "NetworkMeter" # "EastWestCommunication" /\ Continue(s, "NetworkMeter")
      BY <1>1 DEF NotMeasured
    <3> QED BY <3>1, Zenon
  <2> QED BY <2>1, <2>2, Continued, ContinueAside, ContinuePacket
<1>2. CASE TimeStore(s)
  <2>1. (\E l : Continue(s, l)) /\ thread[s].at # "idle"
    BY <1>2, Zenon DEF TimeStore
  <2>2. thread[s].msg \notin InfoPacket
    BY <1>2, Kinds DEF TimeStore, MeterInv, MeterSteps
  <2> QED BY <2>1, <2>2, Continued, ContinueAside
<1>3. ASSUME Meter(s), ~NotMeasured(s), ~TimeStore(s)
      PROVE  /\ thread[s].msg \in {Probe, Echo} /\ thread[s].at # "idle"
             /\ \/ Stop(s)
                \/ \E at \in MeterSteps : Goto(s, at)
  <2>1. thread[s].msg \in {Probe, Echo} /\ thread[s].at # "idle"
    BY <1>3 DEF Meter, TimeAdd, TimeGrow, EchoNext, EchoSet, EchoCheck, Called, MeterInv, MeterSteps
  <2>2. Stop(s) \/ Goto(s, "grow") \/ Goto(s, "store") \/ Goto(s, "set") \/ Goto(s, "check") \/ Goto(s, "echo")
    BY <1>3 DEF Meter, TimeAdd, TimeGrow, EchoNext, EchoSet, EchoCheck
  <2> QED BY <2>1, <2>2, Zenon DEF MeterSteps
<1>4. ASSUME thread[s].msg \in {Probe, Echo}, thread[s].at # "idle", Stop(s)
      PROVE  AuthAside(s) /\ EastWestAside(s) /\ DispatchInv'
  BY <1>4, StopThread, Kinds DEF AuthAside, EastWestAside, Others, AuthSteps, Idle
<1>5. ASSUME thread[s].msg \in {Probe, Echo}, thread[s].at # "idle", NEW at \in MeterSteps, Goto(s, at)
      PROVE  AuthAside(s) /\ EastWestAside(s) /\ DispatchInv'
  <2>1. at \in {"accept", "refuse", "admit", "list", "grow", "store", "echo", "set", "check"}
    BY <1>5 DEF MeterSteps
  <2>2. thread'[s] = [msg |-> thread[s].msg, rest |-> thread[s].rest, at |-> at]
        /\ DispatchInv' /\ \A t \in Switch \ {s} : thread'[t] = thread[t]
    BY <1>5, <2>1, GotoThread, Zenon
  <2> QED BY <1>5, <2>2, Kinds DEF AuthAside, EastWestAside, Others, AuthSteps, MeterSteps
<1> QED BY <1>1, <1>2, <1>3, <1>4, <1>5

\* What the type and the counts say of the counters.
LEMMA MeterCounts ==
  ASSUME MeterInv
  PROVE  /\ round \in 0 .. MaxRound /\ probes \in 0 .. MaxRound /\ made \in 0 .. MaxRound
         /\ size \in 0 .. made /\ modCount = round + made
         /\ made + probes + Unsent <= round
         /\ Uncounted => made + probes + Unsent + 1 <= round
         /\ Unsent \in {0, 1}
BY DEF MeterInv, MeterType, Counts, Unsent

\* A probe is counted: the record is made, the modification counted.
LEMMA TimeAddMeter ==
  ASSUME IInv, NEW s \in Switch, TimeAdd(s)
  PROVE  MeterInv'
<1> USE DEF IInv
<1>1. /\ thread[s].at = "call" /\ "NetworkMeter" \in thread[s].rest /\ thread[s].msg = Probe
      /\ made' = made + 1 /\ modCount' = modCount + 1
      /\ walk' = [walk EXCEPT ![s].cursor = size + 1]
      /\ UNCHANGED <<meterThread, sent, slot, size, record>>
  BY DEF TimeAdd, Called
<1>2. thread'[s] = [msg |-> thread[s].msg, rest |-> thread[s].rest, at |-> "grow"]
      /\ DispatchInv' /\ \A t \in Switch \ {s} : thread'[t] = thread[t]
  <2>1. Goto(s, "grow") /\ thread[s].at # "idle"
    BY <1>1 DEF TimeAdd
  <2> QED BY <2>1, GotoThread, Zenon
<1>3. s = Dst /\ Uncounted /\ ~Uncounted'
  BY <1>1, <1>2 DEF MeterInv, Uncounted
<1>4. Counts' /\ made' \in 1 .. MaxRound /\ size + 1 \in 1 .. made'
  <2>1. UNCHANGED <<meter, round, probes, echoes, size>> /\ Unsent' = Unsent
    BY <1>1 DEF meterThread, sent, Unsent
  <2>2. /\ made' \in 1 .. MaxRound /\ size + 1 \in 1 .. made' /\ modCount' = round' + made'
        /\ made' + probes' + Unsent' <= round'
    BY <1>1, <1>3, <2>1, MeterCounts
  <2>3. \A t \in Switch : echoes'[t] + Unsent' <= round'
    BY <2>1 DEF MeterInv, Counts
  <2>4. size' <= made'
    BY <2>1, <2>2, MeterCounts
  <2>5. probes' \in Nat /\ Unsent' \in Nat /\ made' + probes' + 0 + Unsent' = made' + probes' + Unsent'
    BY <2>1, <2>2, MeterCounts
  <2> HIDE DEF IInv
  <2> QED BY <1>3, <2>2, <2>3, <2>4, <2>5 DEF Counts
<1>5. MeterType'
  <2>1. modCount' \in 0 .. 2 * MaxRound /\ size + 1 \in 0 .. MaxRound
    BY <1>1, <1>4, MeterCounts DEF meterThread, Counts
  <2> QED BY <1>1, <1>4, <2>1 DEF MeterInv, MeterType, meterThread, sent
<1>6. /\ \A t \in Switch \ {s} : walk'[t] = walk[t]
      /\ walk'[s].cursor = size + 1 /\ walk'[s].at = walk[s].at
  BY <1>1 DEF MeterInv, MeterType
<1>7. DelayInv'
  BY <1>1, <1>2, <1>6 DEF MeterInv, DelayInv
<1>8. \A t \in Switch : thread'[t].at \in {"grow", "store"} => walk'[t].cursor \in 1 .. made'
  BY <1>1, <1>2, <1>4, <1>6, MeterCounts DEF MeterInv
<1> QED BY <1>1, <1>2, <1>3, <1>4, <1>5, <1>6, <1>7, <1>8 DEF MeterInv, MeterSteps

\* The rest of add().
LEMMA TimeGrowMeter ==
  ASSUME IInv, NEW s \in Switch, TimeGrow(s)
  PROVE  MeterInv'
<1> USE DEF IInv
<1>1. /\ thread[s].at = "grow" /\ size' = walk[s].cursor
      /\ UNCHANGED <<meterThread, sent, slot, modCount, records, walk>>
  BY DEF TimeGrow
<1>2. thread'[s] = [msg |-> thread[s].msg, rest |-> thread[s].rest, at |-> "store"]
      /\ DispatchInv' /\ \A t \in Switch \ {s} : thread'[t] = thread[t]
  <2>1. Goto(s, "store") /\ thread[s].at # "idle"
    BY <1>1 DEF TimeGrow
  <2> QED BY <2>1, GotoThread, Zenon
<1>3. Uncounted' => Uncounted
  BY <1>2 DEF Uncounted
<1>4. MeterType' /\ Counts' /\ DelayInv'
  BY <1>1, <1>2, <1>3 DEF MeterInv, MeterType, Counts, Unsent, DelayInv, meterThread, sent, records
<1> QED BY <1>1, <1>2, <1>4 DEF MeterInv, MeterSteps, records

LEMMA TimeStoreMeter ==
  ASSUME IInv, NEW s \in Switch, TimeStore(s)
  PROVE  MeterInv'
<1> USE DEF IInv
<1>1. /\ thread[s].at = "store"
      /\ slot' = [slot EXCEPT ![walk[s].cursor] = made]
      /\ walk' = [walk EXCEPT ![s] = NoWalk]
      /\ UNCHANGED <<meterThread, sent, size, modCount, records>>
  BY DEF TimeStore
<1>2. walk[s].cursor \in 1 .. made /\ made \in Record /\ walk[s].cursor \in Record
  BY <1>1, SMTT(30) DEF MeterInv, MeterType, Record
<1>3. /\ \A t \in Switch \ {s} : thread'[t] = thread[t]
      /\ \/ thread[s].rest \subseteq {"NetworkMeter"} /\ thread'[s] = Idle
         \/ thread'[s] = [msg |-> thread[s].msg, rest |-> thread[s].rest \ {"NetworkMeter"}, at |-> "call"]
  <2>1. Continue(s, "NetworkMeter") /\ thread[s].at # "idle"
    BY <1>1 DEF TimeStore
  <2> QED BY <2>1, ContinueThread, Zenon
<1>4. ~Uncounted' \/ (Uncounted /\ s # Dst)
  BY <1>3, Kinds DEF Uncounted, Idle
<1>5. MeterType' /\ Counts'
  BY <1>1, <1>2, <1>4 DEF MeterInv, MeterType, Counts, Unsent, NoWalk, meterThread, sent, records
<1>6. /\ \A t \in Switch \ {s} : walk'[t] = walk[t]
      /\ walk'[s].at = None
      /\ thread'[s].at \in {"idle", "call"} /\ (thread'[s].msg = Probe => thread[s].msg = Probe)
  BY <1>1, <1>3, Kinds DEF MeterInv, MeterType, NoWalk, Idle
<1>7. None \notin Record /\ walk[s].at \notin Record
  BY <1>1 DEF MeterInv, None, Record
<1>8. DelayInv'
  BY <1>1, <1>3, <1>6, <1>7 DEF MeterInv, DelayInv, records
<1> QED BY <1>1, <1>3, <1>5, <1>6, <1>7, <1>8 DEF MeterInv, MeterSteps, records

\* The steps of handleEchoReply().
LEMMA EchoStep ==
  ASSUME IInv, NEW s \in Switch, NEW at \in {"echo", "set", "check"}, Goto(s, at), thread[s].at \in MeterSteps,
         UNCHANGED <<meterThread, sent, timeList, made>>,
         MeterType', DelayInv',
         \A t \in Switch \ {s} : walk'[t] = walk[t],
         at \in {"set", "check"} <=> walk'[s].at \in Record
  PROVE  MeterInv'
<1> USE DEF IInv
<1>1. thread'[s] = [msg |-> thread[s].msg, rest |-> thread[s].rest, at |-> at]
      /\ \A t \in Switch \ {s} : thread'[t] = thread[t]
  <2>1. at \in {"accept", "refuse", "admit", "list", "grow", "store", "echo", "set", "check"}
        /\ thread[s].at # "idle"
    BY DEF MeterSteps
  <2> QED BY <2>1, GotoThread, Zenon
<1>2. (Uncounted' <=> Uncounted) \/ (~Uncounted' /\ Uncounted)
  BY <1>1 DEF Uncounted
<1>3. Counts'
  BY <1>2 DEF MeterInv, MeterType, Counts, Unsent, meterThread, sent, timeList
<1> QED BY <1>1, <1>3 DEF MeterInv, MeterSteps

\* The loop ends, or comes to a record.
LEMMA EchoNextMeter ==
  ASSUME IInv, NEW s \in Switch, EchoNext(s)
  PROVE  MeterInv'
<1> USE DEF IInv
<1> DEFINE i == walk[s].cursor + 1
           r == IF i <= size /\ walk[s].expected = modCount THEN slot[i] ELSE None
<1>1. thread[s].at = "echo" /\ UNCHANGED <<meterThread, sent, timeList, made>> /\ walk[s].at \notin Record
  BY DEF EchoNext, MeterInv
<1>2. CASE r = None
  <2>1. walk' = [walk EXCEPT ![s] = NoWalk] /\ Stop(s) /\ record' = record
    BY <1>2 DEF EchoNext
  <2>2. thread'[s] = Idle /\ \A t \in Switch \ {s} : thread'[t] = thread[t]
    BY <2>1, StopThread
  <2>3. Uncounted' => Uncounted
    BY <2>2, Kinds DEF Uncounted, Idle
  <2>4. MeterType' /\ walk'[s].at = None /\ (\A t \in Switch \ {s} : walk'[t] = walk[t])
    BY <1>1, <2>1 DEF MeterInv, MeterType, NoWalk, meterThread, sent, timeList
  <2>5. Counts'
    BY <1>1, <2>3 DEF MeterInv, MeterType, Counts, Unsent, meterThread, sent, timeList
  <2>6. DelayInv'
    BY <1>1, <2>1, <2>2, <2>4 DEF MeterInv, DelayInv
  <2>7. None \notin Record
    BY DEF None, Record
  <2> QED BY <1>1, <2>2, <2>4, <2>5, <2>6, <2>7, Kinds DEF MeterInv, MeterSteps, Idle
<1>3. CASE r # None
  <2>1. i \in 1 .. size /\ i \in Record /\ r \in Record
    <3>1. walk[s].cursor \in Nat /\ i <= size /\ r = slot[i]
      BY <1>3 DEF MeterInv, MeterType
    <3>2. i \in 1 .. size /\ i \in Record
      BY <3>1, MeterCounts DEF Record
    <3> QED BY <1>3, <3>1, <3>2 DEF MeterInv, MeterType
  <2>2. /\ walk' = [walk EXCEPT ![s].cursor = i, ![s].at = r]
        /\ record' = [record EXCEPT ![r].crossed = record[r].crossed \/ \E t \in Switch : walk[t].at = r]
        /\ Goto(s, "set")
    BY <1>3 DEF EchoNext
  <2> HIDE DEF r, i
  <2>3. /\ \A t \in Switch \ {s} : walk'[t] = walk[t]
        /\ walk'[s] = [cursor |-> i, expected |-> walk[s].expected, at |-> r]
    BY <2>2, ZenonT(40) DEF MeterInv, MeterType
  <2>4. /\ \A q \in Record \ {r} : record'[q] = record[q]
        /\ record'[r].ctossw = record[r].ctossw /\ record'[r].ctodsw = record[r].ctodsw
        /\ record'[r].delay = record[r].delay
        /\ ~record'[r].crossed => ~record[r].crossed /\ \A t \in Switch : walk[t].at # r
    BY <2>1, <2>2, ZenonT(40) DEF MeterInv, MeterType
  <2>5. MeterType'
    <3>1. record' \in [Record -> [ctossw : BOOLEAN, ctodsw : BOOLEAN, delay : BOOLEAN, crossed : BOOLEAN]]
      BY <2>1, <2>2, ZenonT(40) DEF MeterInv, MeterType
    <3>2. walk' \in [Switch -> [cursor : 0 .. MaxRound, expected : 0 .. 2 * MaxRound, at : Record \cup {None}]]
      <4>1. walk'[s] \in [cursor : 0 .. MaxRound, expected : 0 .. 2 * MaxRound, at : Record \cup {None}]
        <5>1. walk[s].expected \in 0 .. 2 * MaxRound
          BY DEF MeterInv, MeterType
        <5>2. i \in 0 .. MaxRound
          BY <2>1 DEF Record
        <5> HIDE DEF IInv
        <5> QED BY <2>1, <2>3, <5>1, <5>2
      <4>2. walk' = [walk EXCEPT ![s] = walk'[s]]
        BY <2>2 DEF MeterInv, MeterType
      <4> QED BY <4>1, <4>2 DEF MeterInv, MeterType
    <3> QED BY <1>1, <3>1, <3>2 DEF MeterInv, MeterType, meterThread, sent, timeList
  <2>6. \A t \in Switch \ {s} : thread'[t] = thread[t]
    BY <2>2 DEF Goto, DispatchInv, DispatchType
  <2>7. DelayInv'
    BY <1>1, <2>1, <2>3, <2>4, <2>6 DEF MeterInv, DelayInv
  <2>8. thread[s].at \in MeterSteps /\ walk'[s].at \in Record
    BY <1>1, <2>1, <2>3 DEF MeterSteps
  <2> QED BY <1>1, <2>2, <2>3, <2>5, <2>7, <2>8, EchoStep
<1> QED BY <1>2, <1>3

\* One of the two times is set.
LEMMA EchoSetMeter ==
  ASSUME IInv, NEW s \in Switch, EchoSet(s)
  PROVE  MeterInv'
<1> USE DEF IInv
<1> DEFINE r == walk[s].at
<1>1. thread[s].at = "set" /\ UNCHANGED <<meterThread, sent, timeList, made, walk>> /\ Goto(s, "check")
  BY DEF EchoSet
<1>2. r \in Record
  BY <1>1 DEF MeterInv
<1>3. record' = [record EXCEPT ![r].ctossw = TRUE] \/ record' = [record EXCEPT ![r].ctodsw = TRUE]
  BY DEF EchoSet
<1>4. \A q \in Record \ {r} : record'[q] = record[q]
  BY <1>2, <1>3 DEF MeterInv, MeterType
<1>5. MeterType'
  <2>1. CASE record' = [record EXCEPT ![r].ctossw = TRUE]
    BY <1>1, <1>2, <2>1, ZenonT(40) DEF MeterInv, MeterType, meterThread, sent, timeList
  <2>2. CASE record' = [record EXCEPT ![r].ctodsw = TRUE]
    BY <1>1, <1>2, <2>2, ZenonT(40) DEF MeterInv, MeterType, meterThread, sent, timeList
  <2> QED BY <1>3, <2>1, <2>2
<1>6. thread'[s].at = "check" /\ \A t \in Switch \ {s} : thread'[t] = thread[t]
  BY <1>1 DEF Goto, DispatchInv, DispatchType, Thread
<1>7. DelayInv'
  BY <1>1, <1>2, <1>4, <1>6 DEF MeterInv, DelayInv
<1> QED BY <1>1, <1>2, <1>5, <1>7, EchoStep DEF MeterSteps

\* The delay is computed of two times that are both set, unless the other
\* thread has been at the record too.
LEMMA EchoCheckMeter ==
  ASSUME IInv, NEW s \in Switch, EchoCheck(s)
  PROVE  MeterInv'
<1> USE DEF IInv
<1> DEFINE r == walk[s].at
<1>1. thread[s].at = "check" /\ UNCHANGED <<meterThread, sent, timeList, made>> /\ Goto(s, "echo")
      /\ walk' = [walk EXCEPT ![s].at = None]
  BY DEF EchoCheck
<1>2. r \in Record
  BY <1>1 DEF MeterInv
<1>3. PICK both \in Sees(s) : record' = [record EXCEPT ![r].delay = record[r].delay \/ both]
  BY DEF EchoCheck
<1>4. both \in BOOLEAN /\ (record[r].ctossw /\ record[r].ctodsw /\ ~record[r].crossed => both = TRUE)
  BY <1>2, <1>3 DEF Sees, MeterInv, MeterType
<1>5. /\ \A q \in Record \ {r} : record'[q] = record[q]
      /\ record'[r].ctossw = record[r].ctossw /\ record'[r].ctodsw = record[r].ctodsw
      /\ record'[r].crossed = record[r].crossed
      /\ record'[r].delay = (record[r].delay \/ both)
  BY <1>2, <1>3 DEF MeterInv, MeterType
<1>6. /\ \A t \in Switch \ {s} : walk'[t] = walk[t]
      /\ walk'[s].at = None
  BY <1>1 DEF MeterInv, MeterType
<1>7. MeterType'
  <2>1. record' \in [Record -> [ctossw : BOOLEAN, ctodsw : BOOLEAN, delay : BOOLEAN, crossed : BOOLEAN]]
    BY <1>2, <1>3, <1>4 DEF MeterInv, MeterType
  <2>2. walk' \in [Switch -> [cursor : 0 .. MaxRound, expected : 0 .. 2 * MaxRound, at : Record \cup {None}]]
    BY <1>1 DEF MeterInv, MeterType
  <2> QED BY <1>1, <2>1, <2>2 DEF MeterInv, MeterType, meterThread, sent, timeList
<1>8. \A t \in Switch \ {s} : thread'[t] = thread[t]
  BY <1>1 DEF Goto, DispatchInv, DispatchType
<1>9. DelayInv'
  BY <1>1, <1>2, <1>4, <1>5, <1>6, <1>8 DEF MeterInv, DelayInv
<1>10. None \notin Record
  BY DEF None, Record
<1> QED BY <1>1, <1>6, <1>7, <1>9, <1>10, EchoStep DEF MeterSteps

LEMMA MeterKept ==
  ASSUME IInv, NEW s \in Switch, Meter(s)
  PROVE  MeterInv'
<1>1. CASE NotMeasured(s)
  <2>1. (\E l : Continue(s, l)) /\ thread[s].at = "call" /\ UNCHANGED meterVars
    BY <1>1, Zenon DEF NotMeasured, Called
  <2>2. MeterAside(s) /\ DispatchInv
    BY <2>1, ContinueAside DEF IInv, MeterSteps
  <2> QED BY <2>1, <2>2, MeterFrame DEF IInv
<1> QED BY <1>1, TimeAddMeter, TimeGrowMeter, TimeStoreMeter, EchoNextMeter, EchoSetMeter, EchoCheckMeter
        DEF Meter

\* The meter thread.
LEMMA MeasureKept ==
  ASSUME IInv, NextMeterBegin \/ ClearSize \/ DoTimeDelay
  PROVE  DispatchInv' /\ MeterInv' /\ UNCHANGED dispatchVars
<1> USE DEF IInv
<1>1. DispatchInv' /\ UNCHANGED dispatchVars /\ (Uncounted' <=> Uncounted)
  BY DEF NextMeterBegin, ClearSize, DoTimeDelay, dispatchVars, DispatchInv, DispatchType, Uncounted
<1>2. CASE NextMeterBegin
  <2>1. /\ meter = "sleep" /\ meter' = "clear" /\ round \in 0 .. MaxRound - 1 /\ round' = round + 1
        /\ modCount' = modCount + 1 /\ UNCHANGED <<probes, echoes, size, made, record, walk>>
        /\ slot' = [j \in Record |-> IF j <= size THEN None ELSE slot[j]]
    BY <1>2, MeterCounts DEF NextMeterBegin, sent, records
  <2>2. Unsent = 0 /\ Unsent' = 1
    BY <2>1 DEF Unsent
  <2>3. modCount' \in 0 .. 2 * MaxRound /\ round' \in 0 .. MaxRound
    BY <2>1, MeterCounts
  <2>4. MeterType'
    BY <2>1, <2>3 DEF MeterInv, MeterType
  <2>5. Counts'
    BY <1>1, <2>1, <2>2, MeterCounts DEF MeterInv, MeterType, Counts
  <2> QED BY <1>1, <2>1, <2>4, <2>5 DEF MeterInv, DelayInv, dispatchVars
<1>3. CASE ClearSize
  <2>1. /\ Unsent' = Unsent /\ size' = 0 /\ meter' = "measure"
        /\ UNCHANGED <<round, probes, echoes, slot, modCount, made, record, walk>>
    BY <1>3 DEF ClearSize, sent, records, Unsent
  <2>2. MeterType'
    BY <2>1 DEF MeterInv, MeterType
  <2>3. Counts'
    BY <1>1, <2>1, MeterCounts DEF MeterInv, MeterType, Counts
  <2> QED BY <1>1, <2>1, <2>2, <2>3 DEF MeterInv, DelayInv, dispatchVars
<1>4. CASE DoTimeDelay
  <2>1. meter = "measure" /\ Unsent = 1 /\ UNCHANGED <<round, slot, size, modCount, made, record, walk>>
    BY <1>4 DEF DoTimeDelay, timeList, records, Unsent
  <2>2. CASE meter' = "sleep" /\ probes' = probes + 1
             /\ echoes' = [s \in Switch |-> IF s \in {Src, Dst} THEN echoes[s] + 1 ELSE echoes[s]]
    <3>1. Unsent' = 0
      BY <2>2 DEF Unsent
    <3>2. probes' \in 0 .. MaxRound
      BY <2>1, <2>2, MeterCounts
    <3>3. \A s \in Switch : echoes[s] \in Nat /\ echoes[s] + 1 <= round
      BY <2>1 DEF MeterInv, MeterType, Counts
    <3>4. \A s \in Switch : echoes'[s] \in 0 .. MaxRound /\ echoes'[s] <= round
      BY <2>2, <3>3, MeterCounts
    <3>5. MeterType'
      BY <2>1, <2>2, <3>2, <3>4 DEF MeterInv, MeterType
    <3>6. Counts'
      <4>1. made' + probes' + Unsent' <= round' /\ (Uncounted => made' + probes' + 1 + Unsent' <= round')
            /\ made' + probes' + 0 + Unsent' = made' + probes' + Unsent'
        BY <2>1, <2>2, <3>1, MeterCounts
      <4>2. \A s \in Switch : echoes'[s] + Unsent' <= round'
        BY <2>1, <3>1, <3>4
      <4> QED BY <1>1, <2>1, <4>1, <4>2 DEF MeterInv, Counts
    <3> QED BY <1>1, <2>1, <3>5, <3>6 DEF MeterInv, DelayInv, dispatchVars
  <2>3. CASE meter' = "dead" /\ UNCHANGED <<probes, echoes>>
    <3>1. Unsent' = 0
      BY <2>3 DEF Unsent
    <3>2. MeterType'
      BY <2>1, <2>3 DEF MeterInv, MeterType
    <3>3. Counts'
      BY <1>1, <2>1, <2>3, <3>1, MeterCounts DEF MeterInv, MeterType, Counts
    <3> QED BY <1>1, <2>1, <3>2, <3>3 DEF MeterInv, DelayInv, dispatchVars
  <2> QED BY <1>4, <2>2, <2>3 DEF DoTimeDelay, sent
<1> QED BY <1>1, <1>2, <1>3, <1>4

-----------------------------------------------------------------------------
(* Arrivals *)

\* A packet that comes in is aside for the listeners it is not meant for.
LEMMA PacketArrives ==
  ASSUME DispatchInv, NEW s \in Switch, NEW msg \in Frame \cup InfoPacket \cup {Probe}, PacketIn(s, msg)
  PROVE  /\ DispatchInv' /\ AuthAside(s)
         /\ msg \notin InfoPacket => EastWestAside(s)
         /\ msg # Probe => MeterAside(s)
         /\ thread[s] = Idle /\ Others(s)
         /\ thread'[s] = [msg |-> msg, rest |-> Listener, at |-> "call"]
<1>1. [msg |-> msg, rest |-> Listener, at |-> "call"] \in Thread /\ msg # NULL
  BY Kinds DEF Thread
<1>2. /\ DispatchInv'
      /\ thread[s] = Idle
      /\ \A t \in Switch \ {s} : thread'[t] = thread[t]
      /\ thread'[s] = [msg |-> msg, rest |-> Listener, at |-> "call"]
  <2>1. Deliver(s, msg, Listener, "call")
    BY DEF PacketIn
  <2> QED BY <1>1, <2>1, DeliverThread, Zenon
<1> QED BY <1>2, Kinds DEF AuthAside, EastWestAside, MeterAside, Others, AuthSteps, MeterSteps, Idle

LEMMA ArrivalsKept ==
  ASSUME IInv, Arrivals
  PROVE  IInv'
<1>1. ASSUME NEW s \in Switch, NEW frame \in Frame, FrameArrives(s, frame)
      PROVE  IInv'
  <2>1. PacketIn(s, frame) /\ UNCHANGED authVars /\ UNCHANGED eastWestVars /\ UNCHANGED meterVars
    BY <1>1 DEF FrameArrives
  <2>2. DispatchInv' /\ AuthAside(s) /\ EastWestAside(s) /\ MeterAside(s)
    BY <2>1, PacketArrives, Kinds DEF IInv
  <2> QED BY <2>1, <2>2, AuthFrame, EastWestFrame, MeterFrame DEF IInv, AuthAside, Others
<1>2. ASSUME NEW i \in Info, NEW n \in {1, 2}, Post(i, n), UNCHANGED <<authVars, meterVars>>
      PROVE  IInv'
  <2>1. copy' = [copy EXCEPT ![<<i, n>>] = "sent"] /\ list' = list /\ thread' = thread /\ delivered' = delivered
        /\ UNCHANGED authVars /\ UNCHANGED meterVars
    BY <1>2 DEF Post, dispatchVars
  <2>2. DispatchInv' /\ AuthInv'
    BY <2>1, AuthFrame DEF IInv, DispatchInv, DispatchType
  <2>3. EastWestType' /\ \A j \in Info : \A m \in {1, 2} : copy'[<<j, m>>] = "arrived" => copy[<<j, m>>] = "arrived"
    BY <2>1 DEF IInv, EastWestInv, EastWestType, Copy
  <2>4. EastWestInv'
    BY <2>1, <2>3 DEF IInv, EastWestInv, InHand, ListedOnce
  <2>5. MeterInv'
    BY <2>1 DEF IInv, MeterInv, MeterType, Counts, DelayInv, Uncounted, Unsent,
                meterVars, meterThread, sent, timeList, records
  <2> QED BY <2>2, <2>4, <2>5 DEF IInv
<1>3. ASSUME NEW i \in Info, NEW n \in {1, 2}, InfoArrives(i, n), UNCHANGED <<authVars, meterVars>>
      PROVE  IInv'
  <2>1. copy' = [copy EXCEPT ![<<i, n>>] = "arrived"] /\ list' = list /\ PacketIn(Boundary, Packet(i))
        /\ UNCHANGED authVars /\ UNCHANGED meterVars
    BY <1>3 DEF InfoArrives, Packet
  <2>2. DispatchInv' /\ AuthAside(Boundary) /\ MeterAside(Boundary)
        /\ thread[Boundary] = Idle /\ Others(Boundary)
        /\ thread'[Boundary] = [msg |-> Packet(i), rest |-> Listener, at |-> "call"]
    BY <2>1, PacketArrives, Kinds DEF IInv
  <2>3. AuthInv' /\ MeterInv'
    BY <2>1, <2>2, AuthFrame, MeterFrame DEF IInv, AuthAside, Others
  <2>4. EastWestType' /\ \A j \in Info \ {i} : \A m \in {1, 2} : copy'[<<j, m>>] = "arrived" => copy[<<j, m>>] = "arrived"
    BY <2>1 DEF IInv, EastWestInv, EastWestType, Copy
  <2>5. InHand(i)' /\ \A j \in Info : ~InHand(j)
    BY <2>2, Kinds DEF InHand, Listener, Idle
  <2>6. \A t \in Switch : thread'[t].msg \in InfoPacket => t = Boundary /\ thread'[t].at \in {"call", "list"}
    BY <2>2 DEF IInv, EastWestInv, Others
  <2>7. \A t \in Switch : thread'[t].at = "list" =>
          /\ thread'[t].msg \in InfoPacket
          /\ "EastWestCommunication" \in thread'[t].rest
          /\ thread'[t].msg.info \notin Range(list)
    BY <2>2 DEF IInv, EastWestInv, Others
  <2>8. \A j \in Info : (\E m \in {1, 2} : copy'[<<j, m>>] = "arrived") => j \in Range(list) \/ InHand(j)'
    BY <2>4, <2>5 DEF IInv, EastWestInv
  <2>9. EastWestInv'
    BY <2>1, <2>4, <2>6, <2>7, <2>8 DEF IInv, EastWestInv, ListedOnce
  <2> QED BY <2>2, <2>3, <2>9 DEF IInv
<1>4. ASSUME ProbeArrives, UNCHANGED <<authVars, eastWestVars>>
      PROVE  IInv'
  <2>1. /\ probes > 0 /\ probes' = probes - 1 /\ PacketIn(Dst, Probe)
        /\ UNCHANGED <<meterThread, echoes, timeList, records, walk>>
        /\ UNCHANGED authVars /\ UNCHANGED eastWestVars
    BY <1>4 DEF ProbeArrives
  <2>2. DispatchInv' /\ AuthAside(Dst) /\ EastWestAside(Dst)
        /\ thread[Dst] = Idle /\ Others(Dst)
        /\ thread'[Dst] = [msg |-> Probe, rest |-> Listener, at |-> "call"]
    BY <2>1, PacketArrives, Kinds DEF IInv
  <2>3. AuthInv' /\ EastWestInv'
    BY <2>1, <2>2, AuthFrame, EastWestFrame DEF IInv, AuthAside, Others
  <2>4. ~Uncounted /\ Uncounted'
    BY <2>2 DEF Uncounted, Idle, Listener
  <2>5. UNCHANGED <<meter, round, slot, size, modCount, made, record, walk, echoes>> /\ Unsent' = Unsent
    BY <2>1 DEF meterThread, timeList, records, Unsent
  <2>6. probes' \in 0 .. MaxRound /\ made' + probes' + 1 + Unsent' <= round'
    BY <2>1, <2>5, MeterCounts DEF IInv
  <2>7. MeterType' /\ Counts'
    BY <2>4, <2>5, <2>6 DEF IInv, MeterInv, MeterType, Counts
  <2>8. DelayInv'
    BY <2>2, <2>5 DEF IInv, MeterInv, DelayInv, Others, Idle
  <2>9. MeterInv'
    BY <2>2, <2>5, <2>7, <2>8 DEF IInv, MeterInv, MeterSteps, Others, Idle
  <2> QED BY <2>2, <2>3, <2>9 DEF IInv
<1>5. ASSUME NEW s \in Switch, EchoArrives(s), UNCHANGED <<authVars, eastWestVars>>
      PROVE  IInv'
  <2>1. /\ echoes[s] > 0 /\ echoes' = [echoes EXCEPT ![s] = echoes[s] - 1]
        /\ walk' = [walk EXCEPT ![s].expected = modCount]
        /\ UNCHANGED <<meterThread, probes, timeList, records>>
        /\ UNCHANGED authVars /\ UNCHANGED eastWestVars
    BY <1>5 DEF EchoArrives
  <2>2. /\ DispatchInv'
        /\ thread[s] = Idle
        /\ \A t \in Switch \ {s} : thread'[t] = thread[t]
        /\ thread'[s] = [msg |-> Echo, rest |-> {}, at |-> "echo"]
    <3>1. Deliver(s, Echo, {}, "echo") /\ DispatchInv /\ Echo # NULL
          /\ [msg |-> Echo, rest |-> {}, at |-> "echo"] \in Thread
      BY <1>5, Kinds DEF EchoArrives, IInv, Thread
    <3> QED BY <3>1, DeliverThread, Zenon
  <2>3. AuthAside(s) /\ EastWestAside(s)
    BY <2>2, Kinds DEF AuthAside, EastWestAside, Others, AuthSteps, Idle
  <2>4. AuthInv' /\ EastWestInv'
    BY <2>1, <2>2, <2>3, AuthFrame, EastWestFrame DEF IInv, AuthAside, Others
  <2>5. UNCHANGED <<meter, round, slot, size, modCount, made, record, probes>> /\ Unsent' = Unsent
    BY <2>1 DEF meterThread, timeList, records, Unsent
  <2>6. Uncounted' => Uncounted
    BY <2>2, Kinds DEF Uncounted, Probe, Echo
  <2>7. \A t \in Switch : echoes'[t] \in 0 .. MaxRound /\ echoes'[t] <= echoes[t]
    BY <2>1 DEF IInv, MeterInv, MeterType
  <2>8. /\ \A t \in Switch \ {s} : walk'[t] = walk[t]
        /\ walk'[s].cursor = walk[s].cursor /\ walk'[s].at = walk[s].at
    BY <2>1 DEF IInv, MeterInv, MeterType
  <2>9. MeterType'
    BY <2>1, <2>5, <2>7 DEF IInv, MeterInv, MeterType
  <2>10. Counts'
    <3>1. \A t \in Switch : echoes'[t] + Unsent' <= round'
      BY <2>5, <2>7, MeterCounts DEF IInv, MeterInv, MeterType, Counts
    <3> QED BY <2>5, <2>6, <3>1, MeterCounts DEF IInv, MeterInv, Counts
  <2>11. DelayInv'
    BY <2>2, <2>5, <2>8 DEF IInv, MeterInv, DelayInv, Idle
  <2>12. MeterInv'
    BY <2>2, <2>5, <2>8, <2>9, <2>10, <2>11 DEF IInv, MeterInv, MeterSteps, Idle, Probe, Echo
  <2> QED BY <2>2, <2>4, <2>12 DEF IInv
<1> QED BY <1>1, <1>2, <1>3, <1>4, <1>5 DEF Arrivals

-----------------------------------------------------------------------------
(* The invariant *)

LEMMA InitIInv == Init => IInv
<1> SUFFICES ASSUME Init PROVE IInv
  OBVIOUS
<1>1. thread = [s \in Switch |-> Idle] /\ Idle \in Thread /\ Idle.at = "idle" /\ Idle.msg = NULL /\ Idle.rest = {}
  BY DEF Init, InitDispatch, Idle, Thread
<1>2. DispatchInv
  BY <1>1 DEF Init, InitDispatch, DispatchInv, DispatchType
<1>3. AuthInv
  BY <1>1 DEF Init, InitAuthenticater, AuthInv, AuthType, AuthSteps
<1>4. EastWestInv
  BY <1>1, Kinds DEF Init, InitEastWest, EastWestInv, EastWestType, Copy, ListedOnce
<1>5. MeterType
  BY DEF Init, InitNetworkMeter, MeterType, NewRecord, NoWalk
<1>6. ~Uncounted /\ Unsent = 0 /\ Counts
  BY <1>1 DEF Init, InitNetworkMeter, Uncounted, Unsent, Counts
<1>7. /\ \A r \in Record : ~record[r].ctossw
      /\ \A s \in Switch : walk[s].at \notin Record
  BY DEF Init, InitNetworkMeter, NewRecord, NoWalk, None, Record
<1>8. MeterInv
  BY <1>1, <1>5, <1>6, <1>7, Kinds DEF MeterInv, MeterSteps, DelayInv
<1> QED BY <1>2, <1>3, <1>4, <1>8 DEF IInv

\* A step of one listener keeps its own part, and is aside for the others.
LEMMA HandleKept ==
  ASSUME IInv, NEW s \in Switch, Handle(s)
  PROVE  IInv'
<1>1. CASE Authenticate(s) /\ UNCHANGED <<eastWestVars, meterVars>>
  <2>1. UNCHANGED eastWestVars /\ UNCHANGED meterVars
    BY <1>1
  <2> QED BY <1>1, <2>1, AuthenticateAuth, AuthenticateAside, EastWestFrame, MeterFrame DEF IInv
<1>2. CASE Receive(s) /\ UNCHANGED <<authVars, meterVars>>
  <2>1. UNCHANGED authVars /\ UNCHANGED meterVars
    BY <1>2
  <2>2. AuthAside(s) /\ MeterAside(s) /\ DispatchInv' /\ EastWestInv'
    BY <1>2, ReceiveEastWest, ReceiveAside
  <2> QED BY <2>1, <2>2, AuthFrame, MeterFrame DEF IInv, AuthAside, Others
<1>3. CASE Meter(s) /\ UNCHANGED <<authVars, eastWestVars>>
  <2>1. UNCHANGED authVars /\ UNCHANGED eastWestVars
    BY <1>3
  <2>2. AuthAside(s) /\ EastWestAside(s) /\ DispatchInv' /\ MeterInv'
    BY <1>3, MeterSelfAside, MeterKept
  <2> QED BY <2>1, <2>2, AuthFrame, EastWestFrame DEF IInv, AuthAside, Others
<1> QED BY <1>1, <1>2, <1>3 DEF Handle

LEMMA NextIInv == IInv /\ [Next]_vars => IInv'
<1> SUFFICES ASSUME IInv, [Next]_vars PROVE IInv'
  OBVIOUS
<1>1. CASE Arrivals
  BY <1>1, ArrivalsKept
<1>2. ASSUME NEW s \in Switch, Handle(s)
      PROVE  IInv'
  BY <1>2, HandleKept
<1>3. CASE Measure
  <2>1. DispatchInv' /\ MeterInv' /\ thread' = thread /\ UNCHANGED authVars /\ UNCHANGED eastWestVars
    BY <1>3, MeasureKept DEF Measure, dispatchVars
  <2>2. AuthInv'
    BY <2>1, AuthFrame DEF IInv
  <2>3. EastWestInv'
    BY <2>1 DEF IInv, EastWestInv, EastWestType, InHand, ListedOnce, eastWestVars
  <2> QED BY <2>1, <2>2, <2>3 DEF IInv
<1>4. CASE UNCHANGED vars
  <2>1. UNCHANGED <<thread, delivered>> /\ UNCHANGED authVars /\ UNCHANGED eastWestVars /\ UNCHANGED meterVars
    BY <1>4 DEF vars, dispatchVars
  <2>2. DispatchInv' /\ AuthInv'
    BY <2>1, AuthFrame DEF IInv, DispatchInv, DispatchType
  <2>3. EastWestInv'
    BY <2>1 DEF IInv, EastWestInv, EastWestType, InHand, ListedOnce, eastWestVars
  <2>4. MeterInv'
    BY <2>1 DEF IInv, MeterInv, MeterType, Counts, DelayInv, Uncounted, Unsent,
                meterVars, meterThread, sent, timeList, records
  <2> QED BY <2>2, <2>3, <2>4 DEF IInv
<1> QED BY <1>1, <1>2, <1>3, <1>4 DEF Next

LEMMA IInvHolds == Spec => []IInv
BY InitIInv, NextIInv, PTL DEF Spec

\* The threads, the buffer, the list and the meter stay within their types: the
\* slot a record is stored into is one that the list has.
THEOREM TypeCorrect == Spec => []TypeOK
<1>1. IInv => TypeOK
  BY DEF IInv, DispatchInv, AuthInv, EastWestInv, MeterInv, TypeOK
<1> QED BY <1>1, IInvHolds, PTL

\* The list of the neighbour's informations has no duplicate.
THEOREM ListHasNoDuplicate == Spec => []ListedOnce
<1>1. IInv => ListedOnce
  BY DEF IInv, EastWestInv
<1> QED BY <1>1, IInvHolds, PTL

\* No listener, in whatever order they are called, keeps an information that
\* came in from the list.
THEOREM PostIsListed == Spec => []PostSurvives
<1>1. IInv => PostSurvives
  BY DEF IInv, EastWestInv, PostSurvives, InHand, Packet
<1> QED BY <1>1, IInvHolds, PTL

\* No device is let through without a success for the page to show.
THEOREM AdmissionIsShown == Spec => []AdmittedIsShown
<1>1. IInv => AdmittedIsShown
  BY DEF IInv, AuthInv, AdmittedIsShown, Shown
<1> QED BY <1>1, IInvHolds, PTL

\* A record that both echo replies have reached has its delay.
THEOREM DelayIsComputed == Spec => []DelayComplete
<1>1. IInv => DelayComplete
  <2> SUFFICES ASSUME IInv, NEW r \in 1 .. made,
                      record[r].ctossw /\ record[r].ctodsw /\ ~record[r].crossed,
                      \A s \in Switch : walk[s].at # r
               PROVE  record[r].delay
    BY DEF DelayComplete
  <2>1. r \in Record
    BY MeterCounts DEF IInv, Record
  <2> QED BY <2>1 DEF IInv, MeterInv, DelayInv
<1> QED BY <1>1, IInvHolds, PTL
===============================================================================
