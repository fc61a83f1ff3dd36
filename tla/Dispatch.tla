------------------------------- MODULE Dispatch -------------------------------
(***************************************************************************)
(* How Floodlight calls the repository's packet-in listeners, as their     *)
(* registration and their return values show it (external): the messages   *)
(* of one switch are handled one after the other, those of two switches by *)
(* two threads at once.  Each listener either lets the next one see the    *)
(* packet (CONTINUE) or ends the chain (STOP, or an exception).            *)
(*                                                                         *)
(* None of the three listeners names another in isCallbackOrderingPrereq   *)
(* or -Postreq: their order is open, and the model chooses it anew for     *)
(* each packet.                                                            *)
(***************************************************************************)
EXTENDS Integers, Sequences, Functions

CONSTANTS
  Switch,
  Host,          \* the devices, by MAC address
  Info,          \* the flow information the neighbour partition posts
  MaxDelivered,  \* bound: the messages that are delivered
  NULL

Listener == {"Authenticater", "EastWestCommunication", "NetworkMeter"}

\* What the listeners tell apart in a packet: a device's frame that is no TCP
\* segment, or a segment without data, with the key Y, or with other data; the
\* packets the controllers send themselves, with six and with five fields.
Frame == [kind : {"frame"}, host : Host, data : {"other", "none", "key", "wrong"}]
InfoPacket == [kind : {"info"}, info : Info]
Probe == [kind |-> "probe"]
Echo == [kind |-> "echo"]

ASSUME DispatchAssumption ==
  /\ MaxDelivered \in Nat
  /\ NULL \notin Frame \cup InfoPacket \cup {Probe, Echo}

VARIABLES
  thread,    \* thread[s]: the message of switch s in hand, the listeners to call, the next step
  delivered  \* the number of messages delivered

dispatchVars == <<thread, delivered>>

Thread == [msg : Frame \cup InfoPacket \cup {Probe, Echo, NULL},
           rest : SUBSET Listener,
           at : {"idle", "call", "accept", "refuse", "admit", "list",
                 "grow", "store", "echo", "set", "check"}]

Idle == [msg |-> NULL, rest |-> {}, at |-> "idle"]

DispatchType ==
  /\ thread \in [Switch -> Thread]
  /\ delivered \in 0 .. MaxDelivered

InitDispatch ==
  /\ thread = [s \in Switch |-> Idle]
  /\ delivered = 0

\* A message of s comes to the front; `rest' are the listeners to call.
Deliver(s, msg, rest, at) ==
  /\ thread[s] = Idle
  /\ delivered < MaxDelivered
  /\ delivered' = delivered + 1
  /\ thread' = [thread EXCEPT ![s] = [msg |-> msg, rest |-> rest, at |-> at]]

PacketIn(s, msg) == Deliver(s, msg, Listener, "call")

\* The thread of s calls listener l with the packet.
Called(s, l) == thread[s].at = "call" /\ l \in thread[s].rest

Goto(s, at) ==
  /\ thread' = [thread EXCEPT ![s].at = at]
  /\ UNCHANGED delivered

\* The end of the chain: Command.STOP, or an exception.
Stop(s) ==
  /\ thread' = [thread EXCEPT ![s] = Idle]
  /\ UNCHANGED delivered

\* Command.CONTINUE of listener l, in the middle of the chain and at its end.
Continue(s, l) ==
  /\ LET rest == thread[s].rest \ {l} IN
       thread' = [thread EXCEPT ![s] =
         IF rest = {} THEN Idle ELSE [msg |-> @.msg, rest |-> rest, at |-> "call"]]
  /\ UNCHANGED delivered
===============================================================================
