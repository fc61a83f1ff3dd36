---------------------------- MODULE Supervision -----------------------------
(***************************************************************************)
(* What the overlay promises, without pointers, fingers, tables or         *)
(* failures: controllers enter and leave one at a time, and a handover is  *)
(* only ever recorded at the controller that consistent hashing assigns    *)
(* the device to at that moment, the first member clockwise from its key.  *)
(***************************************************************************)
EXTENDS ChordKey

CONSTANTS Node, Device, NULL

VARIABLES members, reported

vars == <<members, reported>>

Init ==
  /\ members = {}
  /\ reported = [d \in Device |-> NULL]

Enter(n) ==
  /\ n \notin members
  /\ members' = members \cup {n}
  /\ UNCHANGED reported

Leave(n) ==
  /\ n \in members
  /\ members' = members \ {n}
  /\ UNCHANGED reported

Report(d, s, c) ==
  /\ c \in members
  /\ IsSuccessorOf(s, d, members)
  /\ reported' = [reported EXCEPT ![d] =
                    [supervisor |-> s, current |-> c,
                     previous |-> IF @ = NULL THEN c ELSE @.current]]
  /\ UNCHANGED members

Next ==
  \/ \E n \in Node : Enter(n) \/ Leave(n)
  \/ \E d \in Device, s, c \in Node : Report(d, s, c)

Spec == Init /\ [][Next]_vars
=============================================================================
