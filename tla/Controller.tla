----------------------------- MODULE Controller -----------------------------
(***************************************************************************)
(* The overlay of overlay/Controller.java: controllers join and leave the  *)
(* Chord ring and keep, in the table of the controller a mobile device's   *)
(* key is mapped to, the controllers that device was and is attached to.   *)
(*                                                                         *)
(* One thread calls the methods (Test.java), so an operation runs to its   *)
(* end, or to the exception that aborts it, before the next one starts.    *)
(* The only operation cut into steps is a join, whose fixFingers() makes   *)
(* one lookup per finger over the fingers it has already set; `job' is     *)
(* where that call stands and every other operation waits for it.  The     *)
(* caller may catch an exception and go on with the state it leaves.       *)
(***************************************************************************)
EXTENDS ChordNode

CONSTANTS
  Device,                 \* the keys of the mobile devices
  ConcurrentModification  \* ConcurrentModificationException

ASSUME DeviceAssumption ==
  /\ Device \subseteq Keys
  /\ ConcurrentModification \notin Keys

VARIABLES
  ring,      \* the pointers of every ChordNode
  table,     \* table[n][d]: the entry of device d in n's SupervisedTable
  devices,   \* devices[n]: the devices whose own key object is in n's list
  job,       \* the fixFingers() call that is running, or NULL
  thrown,    \* what the last operation threw, or NULL
  reported   \* history: the handovers of each device that were recorded

vars == <<ring, table, devices, job, thrown, reported>>

(***************************************************************************)
(* An Entry is a Java object that tables share: leaving and joining copy   *)
(* the reference.  `object' is its identity, which only addEntry() makes.  *)
(* User and Time are left out.                                             *)
(***************************************************************************)
Entry  == [object : Node, current : Node, previous : Node]
Report == [supervisor : Node, current : Node, previous : Node]
Job    == [node : Node, finger : 0 .. FingerCount, takeOver : BOOLEAN]

ASSUME EntryAssumption == NULL \notin Entry \cup Report

Held(n) == {d \in Device : table[n][d] # NULL}

TypeOK ==
  /\ ring \in Ring
  /\ table \in [Node -> [Device -> Entry \cup {NULL}]]
  /\ devices \in [Node -> SUBSET Device]
  /\ job \in Job \cup {NULL}
  /\ thrown \in {NULL, NullPointer, StackOverflow, ConcurrentModification}
  /\ reported \in [Device -> Report \cup {NULL}]

Init ==
  /\ ring = NewRing
  /\ table = [n \in Node |-> [d \in Device |-> NULL]]
  /\ devices = [n \in Node |-> {}]
  /\ job = NULL
  /\ thrown = NULL
  /\ reported = [d \in Device |-> NULL]

-----------------------------------------------------------------------------
(* Membership *)

\* jionChord(boot), or joinChordRing(boot) when takeOver.  The first node
\* bootstraps on itself, a later one on a member.  When the lookup throws,
\* join() has only reset a predecessor that was null already.
JoinRing(n, boot, takeOver) ==
  LET s == FindSuccessor(ring, boot, n) IN
  /\ job = NULL
  /\ n \notin Members(ring)
  /\ boot \in IF Members(ring) = {} THEN {n} ELSE Members(ring)
  /\ IF s \in Node
     THEN /\ ring' = Link(ring, n, s)
          /\ job' = [node |-> n, finger |-> 0, takeOver |-> takeOver]
          /\ thrown' = NULL
     ELSE /\ thrown' = s
          /\ UNCHANGED <<ring, job>>
  /\ UNCHANGED <<table, devices, reported>>

\* One iteration of fixFingers(); an exception abandons the rest of the call.
FixFinger ==
  /\ job # NULL
  /\ job.finger < FingerCount
  /\ LET s == FindSuccessor(ring, job.node, Start[job.node][job.finger]) IN
     IF s \in Node
     THEN /\ ring' = SetFinger(ring, job.node, job.finger, s)
          /\ job' = [job EXCEPT !.finger = @ + 1]
          /\ UNCHANGED thrown
     ELSE /\ thrown' = s
          /\ job' = NULL
          /\ UNCHANGED ring
  /\ UNCHANGED <<table, devices, reported>>

\* fixFingers() returns in jionChord() and leaveChordRing(): nothing follows.
Finished ==
  /\ job # NULL
  /\ job.finger = FingerCount
  /\ ~job.takeOver
  /\ job' = NULL
  /\ UNCHANGED <<ring, table, devices, thrown, reported>>

\* The loop of joinChordRing().  Keys come in ascending order, so the first
\* one decides: if it moves, the iterator fails on the next key, if there is
\* one; if it is above the node's key, so are all the others.
TakeOver ==
  /\ job # NULL
  /\ job.finger = FingerCount
  /\ job.takeOver
  /\ LET n     == job.node
         s     == ring.succ[n]
         first == {d \in Held(s) : d <= n /\ \A e \in Held(s) : d <= e}
     IN /\ table' = [m \in Node |-> [d \in Device |->
                       IF d \in first /\ m = s THEN NULL
                       ELSE IF d \in first /\ m = n THEN table[s][d]
                       ELSE table[m][d]]]
        /\ thrown' = IF first # {} /\ Held(s) \ first # {}
                     THEN ConcurrentModification ELSE thrown
  /\ job' = NULL
  /\ UNCHANGED <<ring, devices, reported>>

\* Slip: the leaver's table goes with it.
LeaveWithTable(n) ==
  /\ job = NULL
  /\ n \in Members(ring)
  /\ ring' = Unlink(ring, n)
  /\ job' = [node |-> ring.succ[n], finger |-> 0, takeOver |-> FALSE]
  /\ thrown' = NULL
  /\ UNCHANGED <<table, devices, reported>>

\* The leaver's entries are put into its successor's table and stay in its own.
LeaveChordRing(n) ==
  LET s == ring.succ[n] IN
  /\ job = NULL
  /\ n \in Members(ring)
  /\ ring' = Unlink(ring, n)
  /\ table' = [table EXCEPT ![s] =
                 [d \in Device |-> IF d \in Held(n) THEN table[n][d] ELSE table[s][d]]]
  /\ job' = [node |-> s, finger |-> 0, takeOver |-> FALSE]
  /\ thrown' = NULL
  /\ UNCHANGED <<devices, reported>>

-----------------------------------------------------------------------------
(* Mobility *)

\* Slip: the constructor leaves the previous controller unset.
AddEntryAlone(s, d, c) ==
  \E id \in Node :
    table' = [table EXCEPT ![s][d] = [object |-> id, current |-> c, previous |-> NULL]]

\* addEntry(): a new Entry object replaces the one s may hold.
AddEntry(s, d, c) ==
  LET others == {table[m][d].object : m \in {x \in Node \ {s} : d \in Held(x)}}
  IN  \E id \in Node \ others :
        /\ \A other \in Node \ others : id <= other
        /\ table' = [table EXCEPT ![s][d] =
                       [object |-> id, current |-> c, previous |-> c]]

\* Slip: the current controller is set before it is saved as the previous one.
UpdateEntryLate(s, d, c) ==
  table' = [m \in Node |-> [e \in Device |->
              IF e = d /\ d \in Held(m) /\ table[m][d].object = table[s][d].object
              THEN [table[m][d] EXCEPT !.current = c, !.previous = c]
              ELSE table[m][e]]]

\* updateEntry(): the object is updated wherever a table refers to it.
UpdateEntry(s, d, c) ==
  table' = [m \in Node |-> [e \in Device |->
              IF e = d /\ d \in Held(m) /\ table[m][d].object = table[s][d].object
              THEN [table[m][d] EXCEPT !.current = c, !.previous = table[s][d].current]
              ELSE table[m][e]]]

\* The truth a handover to c recorded at s should leave behind.
Recorded(d, s, c) ==
  [reported EXCEPT ![d] = [supervisor |-> s, current |-> c,
                           previous |-> IF @ = NULL THEN c ELSE @.current]]

\* Device d attaches to controller c: c finds the supervisory controller, which
\* runs updateSupervisedTable() on itself.  The device list is searched by
\* reference, so a key object made afresh for this handover is never in it.
Handover(d, c, sameKey) ==
  LET s == FindSuccessor(ring, c, d) IN
  /\ job = NULL
  /\ c \in Members(ring)
  /\ \/ /\ s \notin Node
        /\ thrown' = s
        /\ UNCHANGED <<table, devices, reported>>
     \/ /\ s \in Node
        /\ sameKey /\ d \in devices[s]
        /\ d \in Held(s)
        /\ UpdateEntry(s, d, c)
        /\ reported' = Recorded(d, s, c)
        /\ thrown' = NULL
        /\ UNCHANGED devices
     \/ /\ s \in Node
        /\ sameKey /\ d \in devices[s]
        /\ d \notin Held(s)
        /\ thrown' = NullPointer
        /\ UNCHANGED <<table, devices, reported>>
     \/ /\ s \in Node
        /\ ~(sameKey /\ d \in devices[s])
        /\ AddEntry(s, d, c)
        /\ devices' = IF sameKey THEN [devices EXCEPT ![s] = @ \cup {d}] ELSE devices
        /\ reported' = Recorded(d, s, c)
        /\ thrown' = NULL
  /\ UNCHANGED <<ring, job>>

-----------------------------------------------------------------------------
Next ==
  \/ \E n, boot \in Node, takeOver \in BOOLEAN : JoinRing(n, boot, takeOver)
  \/ FixFinger
  \/ Finished
  \/ TakeOver
  \/ \E n \in Node : LeaveChordRing(n)
  \/ \E d \in Device, c \in Node, sameKey \in BOOLEAN : Handover(d, c, sameKey)

Spec == Init /\ [][Next]_vars
=============================================================================
