--------------------------- MODULE LoadBalancing ----------------------------
(***************************************************************************)
(* LoadBalancing.DoubleHashing: when the supervisory controller of a       *)
(* device has a long table, it asks for the backlog of the partition       *)
(* (NetworkCalculus), and when that is large other controllers are probed, *)
(* ever farther along the successor pointers.  The model is one call, at   *)
(* any moment of the curves' life, and ends with it.                       *)
(*                                                                         *)
(* The ring stands still during the call: positions count successors from  *)
(* the supervisory controller, which is at 0, and the successor of the     *)
(* last position is 0.  A table's size is told apart only by how it        *)
(* compares with the threshold, and chosen when the call first looks.      *)
(***************************************************************************)
EXTENDS NetworkCalculus

CONSTANTS
  RingSize,       \* number of controllers
  Q,              \* LoadBalancing.q
  ControllerMum,  \* Controller.controllerMum: 0, its setter has no caller
  MaxBacklog,     \* LoadBalancing.MaxBacklog
  NULL

Position == 0 .. RingSize - 1
Size == {"below", "at", "above"}   \* the threshold of 100 entries

ASSUME BalancingAssumption ==
  /\ RingSize \in Nat \ {0}
  /\ Q \in Nat \ {0}
  /\ ControllerMum \in Nat
  /\ MaxBacklog \in Int
  /\ NULL \notin Position /\ NULL \notin Size

VARIABLES
  size,     \* the size of the table at each position, NULL until looked at
  stage,    \* "idle", "asking" for the backlog, "probe" in the loop, "done", "thrown"
  j,        \* the loop variable
  answer    \* the position of the node returned, or NULL

callVars == <<size, stage, j, answer>>
vars == <<curveVars, callVars>>

\* key1 successors away; a negative key1 skips the inner loop.
Stride == Q - (ControllerMum % Q)
Key1(i) == JavaInt(i * Stride)

\* Slip: the loop variable left out, so that one controller is probed for ever.
ProbedOnce(i) == Stride % RingSize

Probed(i) == IF Key1(i) > 0 THEN Key1(i) % RingSize ELSE 0

\* The variables stay in their types; j is an int.
TypeOK ==
  /\ CurvesTypeOK
  /\ size \in [Position -> Size \cup {NULL}]
  /\ stage \in {"idle", "asking", "probe", "done", "thrown"}
  /\ j \in Ints
  /\ answer \in Position \cup {NULL}

Init ==
  /\ InitCurves
  /\ size = [p \in Position |-> NULL]
  /\ stage = "idle"
  /\ j = 1
  /\ answer = NULL

Return(p) ==
  /\ stage' = "done"
  /\ answer' = p

\* The size found at position p.
Looks(p, s) == size[p] \in {s, NULL} /\ size' = [size EXCEPT ![p] = s]

\* The if: its second half is evaluated, and the curves are asked for, only
\* when the table of the supervisory controller is above the threshold.
Call ==
  /\ stage = "idle"
  /\ \/ Looks(0, "above") /\ Ask
        /\ stage' = "asking" /\ UNCHANGED answer
     \/ \E s \in Size \ {"above"} : Looks(0, s)
        /\ Return(0) /\ UNCHANGED curveVars
  /\ UNCHANGED j

\* The answer is compared; without one (null) the call throws.
Check ==
  /\ stage = "asking"
  /\ \/ request = "failed" /\ stage' = "thrown" /\ UNCHANGED answer
     \/ request = "served" /\ result.backlog > MaxBacklog /\ stage' = "probe" /\ UNCHANGED answer
     \/ request = "served" /\ result.backlog <= MaxBacklog /\ Return(0)
  /\ UNCHANGED <<curveVars, size, j>>

\* Slip: a loop variable that never overflows.
ProbeForever ==
  /\ stage = "probe"
  /\ Key1(j) # MaxInt
  /\ \/ Looks(Probed(j), "below") /\ Return(Probed(j)) /\ UNCHANGED j
     \/ \E s \in Size \ {"below"} : Looks(Probed(j), s)
        /\ j' = j + 1 /\ UNCHANGED <<stage, answer>>
  /\ UNCHANGED curveVars

\* Slip: the negation of the check's comparison instead of the probes' own.
ProbeNotAbove ==
  /\ stage = "probe"
  /\ Key1(j) # MaxInt
  /\ \/ \E s \in Size \ {"above"} : Looks(Probed(j), s) /\ Return(Probed(j)) /\ UNCHANGED j
     \/ Looks(Probed(j), "above") /\ j' = JavaInt(j + 1) /\ UNCHANGED <<stage, answer>>
  /\ UNCHANGED curveVars

\* One iteration of the outer loop, which has no exit of its own; the farthest
\* int ends it: k <= MaxInt never fails, and the inner loop never ends.
Probe ==
  /\ stage = "probe"
  /\ Key1(j) # MaxInt
  /\ \/ Looks(Probed(j), "below") /\ Return(Probed(j)) /\ UNCHANGED j
     \/ \E s \in Size \ {"below"} : Looks(Probed(j), s)
        /\ j' = JavaInt(j + 1) /\ UNCHANGED <<stage, answer>>
  /\ UNCHANGED curveVars

\* The curves go on until the call has its answer.
Curves == stage \in {"idle", "asking"} /\ NextCurves /\ UNCHANGED callVars

Next == Curves \/ Call \/ Check \/ Probe

Spec == Init /\ [][Next]_vars

-----------------------------------------------------------------------------
\* A device is sent away from its supervisory controller only under backlog, and
\* only to a controller with room: the check tolerates a table of exactly the
\* threshold, the probes do not.
RedirectedToRoom ==
  stage = "done" /\ answer # 0 =>
    result.backlog > MaxBacklog /\ size[0] = "above" /\ size[answer] = "below"

\* As many probes as there are controllers look at all of them, if the stride has
\* no factor in common with their number: when the loop goes on, none has room.
\* (With seven controllers every probe is the overloaded one until key1 overflows.)
ProbesReachRoom ==
  stage = "probe" /\ j \notin 1 .. RingSize => \A p \in Position : size[p] \in {"at", "above"}

\* While the byte counter fits an int, an overloaded controller keeps a device
\* only if the partition's backlog was within bounds when the call asked: the
\* two points the answer is computed from may be of different rounds, and may
\* then only exaggerate it.
KeptWithinBacklog ==
  stage = "done" /\ size[0] = "above" /\ answer = 0 /\ rxBytes <= MaxInt =>
    arriveCurve[result.point] - departCurve[result.point] <= MaxBacklog
=============================================================================
