---------------------------- MODULE MCController ----------------------------
(***************************************************************************)
(* Instances of the overlay for TLC.                                       *)
(***************************************************************************)
EXTENDS ControllerProperties, StartKey

\* The largest key of Bytes bytes, and the code's start keys.
MCMaxKey == Radix^Bytes - 1
MCStart  == [n \in Node |-> [i \in Finger |-> CreateStartKey(n, i)]]

-----------------------------------------------------------------------------
(* Callers of the overlay that use only some of its operations. *)

\* Controllers enter (either call) and nobody leaves.
JoinsNext ==
  \/ \E n, boot \in Node, takeOver \in BOOLEAN : JoinRing(n, boot, takeOver)
  \/ FixFinger
  \/ Finished
  \/ TakeOver
  \/ \E d \in Device, c \in Node, sameKey \in BOOLEAN : Handover(d, c, sameKey)

SpecJoins == Init /\ [][JoinsNext]_vars

\* The order of Test.java: the ring is established before the first device
\* appears; then devices move about and controllers leave.  A device of Own
\* keeps its key object, another one makes one for each handover.
EstablishedNext ==
  \/ /\ \A d \in Device : reported[d] = NULL
     /\ \E n, boot \in Node : JoinRing(n, boot, FALSE)
  \/ FixFinger
  \/ Finished
  \/ \E n \in Node : LeaveChordRing(n)
  \/ \E d \in Device, c \in Node : Handover(d, c, d \in Own)

SpecEstablished == Init /\ [][EstablishedNext]_vars

\* Every operation, by controllers that do not come back once they have left.
MobilityNext ==
  \/ \E n \in Node \ Departed(ring), boot \in Node, takeOver \in BOOLEAN :
       JoinRing(n, boot, takeOver)
  \/ FixFinger
  \/ Finished
  \/ TakeOver
  \/ \E n \in Node : LeaveChordRing(n)
  \/ \E d \in Device, c \in Node :
       /\ \A m \in Members(ring) : c <= m
       /\ Handover(d, c, TRUE)

SpecMobility == Init /\ [][MobilityNext]_vars
=============================================================================
