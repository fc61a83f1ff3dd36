------------------------------- MODULE EastWest -------------------------------
(***************************************************************************)
(* eastwestcommunication, and its client in RESTfulAPI: the flow           *)
(* information that one partition posts to its controller is sent to the   *)
(* other one in packets over the link between their boundary switches.     *)
(* The controller modelled is the receiver.  EastWestComm.sendInfo posts   *)
(* each information twice, and a packet may get lost.                      *)
(*                                                                         *)
(* A packet comes in at the boundary switch only: nothing of the           *)
(* repository forwards it.  Two addresses and six fields are what          *)
(* isDoingSendPacket and handlePacketIn tell such a packet by; the         *)
(* packets of the delay meter have the same addresses and five fields.     *)
(***************************************************************************)
EXTENDS Dispatch

CONSTANT
  Boundary   \* the receiver's switch on the link between the partitions

ASSUME BoundaryAssumption == Boundary \in Switch

Copy == Info \X {1, 2}

VARIABLES
  copy,      \* copy[c]: what has become of the packet of a post
  list       \* DealPacketInMessage.list

eastWestVars == <<copy, list>>

EastWestType ==
  /\ copy \in [Copy -> {"unsent", "sent", "arrived"}]
  /\ list \in Seq(Info)

InitEastWest ==
  /\ copy = [c \in Copy |-> "unsent"]
  /\ list = <<>>

\* The second post of an information follows the first.  A packet that gets lost,
\* or that the sender does not send as it throws for want of the switch or the
\* port, is one that never arrives.
Post(i, n) ==
  /\ copy[<<i, n>>] = "unsent"
  /\ n = 2 => copy[<<i, 1>>] # "unsent"
  /\ copy' = [copy EXCEPT ![<<i, n>>] = "sent"]
  /\ UNCHANGED <<dispatchVars, list>>

\* Packets may overtake each other.
InfoArrives(i, n) ==
  /\ copy[<<i, n>>] = "sent"
  /\ copy' = [copy EXCEPT ![<<i, n>>] = "arrived"]
  /\ PacketIn(Boundary, [kind |-> "info", info |-> i])
  /\ UNCHANGED list

\* Other packets have other addresses, or another number of fields.
IgnorePacket(s) ==
  /\ Called(s, "EastWestCommunication")
  /\ thread[s].msg.kind # "info"
  /\ Continue(s, "EastWestCommunication")
  /\ UNCHANGED eastWestVars

\* Slip: the text is looked up in another form than it is added in.
ListLooksUpBare(s) ==
  /\ Called(s, "EastWestCommunication")
  /\ thread[s].msg.kind = "info"
  /\ Goto(s, "list")
  /\ UNCHANGED eastWestVars

ListLooksUp(s) ==
  /\ Called(s, "EastWestCommunication")
  /\ thread[s].msg.kind = "info"
  /\ IF thread[s].msg.info \in Range(list) THEN Continue(s, "EastWestCommunication") ELSE Goto(s, "list")
  /\ UNCHANGED eastWestVars

ListAdds(s) ==
  /\ thread[s].at = "list"
  /\ list' = Append(list, thread[s].msg.info)
  /\ Continue(s, "EastWestCommunication")
  /\ UNCHANGED copy

Receive(s) ==
  \/ IgnorePacket(s)
  \/ ListLooksUp(s)
  \/ ListAdds(s)
===============================================================================
