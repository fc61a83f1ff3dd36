---------------------------- MODULE RecordProofs ----------------------------
(***************************************************************************)
(* Theorems about the mobility records of the overlay, for every set of    *)
(* controllers and devices: what the tables keep, and what the controller  *)
(* that a device is mapped to knows while the ring is established first.   *)
(***************************************************************************)
EXTENDS MCController, ControllerProofs

(***************************************************************************)
(* No operation loses a device's last entry.                               *)
(***************************************************************************)

\* A node that could still open an empty ring has no entries: one that has left
\* has no successor, and its own lookup throws.
NewcomersEmpty ==
  \A n \in Node : n \notin Members(ring) /\ ring.succ[n] = n => Held(n) = {}

\* So a joiner that takes over from itself has nothing to take.
LoneTakesNothing ==
  job # NULL => (job.takeOver /\ ring.succ[job.node] = job.node => Held(job.node) = {})

KeepInv == IInv /\ NewcomersEmpty /\ LoneTakesNothing

LEMMA InitKeep == Init => KeepInv
BY InitIInv DEF Init, KeepInv, NewcomersEmpty, LoneTakesNothing, Held

LEMMA JoinKeeps ==
  ASSUME KeepInv, IInv', NEW n \in Node, NEW boot \in Node, NEW takeOver \in BOOLEAN,
         JoinRing(n, boot, takeOver)
  PROVE  KeepInv' /\ Members(ring) \subseteq Members(ring') /\ table' = table
<1> DEFINE s == FindSuccessor(ring, boot, n)
<1>1. /\ ring \in Ring /\ WellFormed(ring) /\ n \in Keys /\ Ordered(ring)
      /\ n \notin Members(ring)
      /\ boot \in IF Members(ring) = {} THEN {n} ELSE Members(ring)
      /\ table' = table
  BY RingAssumption DEF KeepInv, IInv, TypeOK, JoinRing, WellFormed
<1>2. CASE s \in Node
  <2>1. /\ ring' = Link(ring, n, s)
        /\ job' = [node |-> n, finger |-> 0, takeOver |-> takeOver]
    BY <1>2 DEF JoinRing
  <2>2. CASE Members(ring) = {}
    <3>1. ring.succ[n] \in {n, NULL}
      BY <1>1 DEF WellFormed, OutsidersUnlinked
    <3>2. s = n /\ ring.succ[n] = n
      BY <1>1, <1>2, <2>2, <3>1, LookupOfSelf
    <3>3. /\ \A z \in Node : z # n => ring'.succ[z] = ring.succ[z]
          /\ Members(ring') = {n}
      BY <1>1, <2>1, <2>2, <3>2, LinkFirst
    <3>4. Held(n) = {}
      BY <1>1, <3>2 DEF KeepInv, NewcomersEmpty
    <3>5. NewcomersEmpty'
      BY <1>1, <2>2, <3>3 DEF KeepInv, NewcomersEmpty, Held
    <3>6. LoneTakesNothing'
      BY <1>1, <2>1, <3>4 DEF LoneTakesNothing, Held
    <3> QED
      BY <1>1, <2>2, <3>5, <3>6 DEF KeepInv
  <2>3. CASE Members(ring) # {}
    <3>1. s \in Members(ring)
      BY <1>1, <1>2, <2>3, LookupAnswer DEF IsSuccessorOf
    <3>2. ring.pred[s] \in Members(ring)
      BY <1>1, <3>1, MembersClosed
    <3>3. /\ ring'.succ[n] = s
          /\ \A z \in Node \ {n, ring.pred[s]} : ring'.succ[z] = ring.succ[z]
          /\ Members(ring') = Members(ring) \cup {n}
      BY <1>1, <2>1, <3>1, LinkNext
    <3>4. NewcomersEmpty'
      BY <1>1, <3>2, <3>3 DEF KeepInv, NewcomersEmpty, Held
    <3>5. LoneTakesNothing'
      BY <1>1, <2>1, <3>1, <3>3 DEF LoneTakesNothing, Held
    <3> QED
      BY <1>1, <3>3, <3>4, <3>5 DEF KeepInv
  <2> QED
    BY <2>2, <2>3
<1>3. CASE s \notin Node
  BY <1>1, <1>3 DEF JoinRing, KeepInv, NewcomersEmpty, LoneTakesNothing, Held
<1> QED
  BY <1>2, <1>3

LEMMA FixFingerKeeps ==
  ASSUME KeepInv, IInv', FixFinger
  PROVE  KeepInv' /\ Members(ring') = Members(ring) /\ table' = table
<1>1. table' = table /\ ring \in Ring /\ job \in Job /\ Members(ring') = Members(ring)
  BY FixFingerIInv DEF KeepInv, IInv, TypeOK, FixFinger
<1>2. ring'.succ = ring.succ
  BY <1>1 DEF FixFinger, SetFinger, Ring
<1>3. job' # NULL => job'.node = job.node /\ job'.takeOver = job.takeOver
  BY <1>1 DEF FixFinger, Job
<1>4. NewcomersEmpty'
  BY <1>1, <1>2 DEF KeepInv, NewcomersEmpty, Held
<1>5. LoneTakesNothing'
  BY <1>1, <1>2, <1>3 DEF KeepInv, LoneTakesNothing, Held, FixFinger
<1> QED
  BY <1>1, <1>4, <1>5 DEF KeepInv

\* The entry that moves is at the joiner when it is gone from the successor.
LEMMA TakeOverKeeps ==
  ASSUME KeepInv, IInv', TakeOver
  PROVE  KeepInv' /\ \A d \in Device : Kept(d) => Kept(d)'
<1> DEFINE n     == job.node
           s     == ring.succ[n]
           first == {d \in Held(s) : d <= n /\ \A e \in Held(s) : d <= e}
<1>1. /\ table' = [m \in Node |-> [d \in Device |->
                     IF d \in first /\ m = s THEN NULL
                     ELSE IF d \in first /\ m = n THEN table[s][d]
                     ELSE table[m][d]]]
      /\ ring' = ring /\ job' = NULL
  BY DEF TakeOver
<1>2. n \in Members(ring) /\ s \in Members(ring) /\ Members(ring) \subseteq Node
  <2>1. n \in Members(ring) /\ Ordered(ring) /\ ring \in Ring
    BY DEF KeepInv, IInv, TypeOK, JobKnown, WellFormed, TakeOver
  <2> QED
    BY <2>1, MembersClosed DEF Members
<1>3. s = n => first = {}
  BY DEF KeepInv, LoneTakesNothing, TakeOver
<1> HIDE DEF first
<1>4. ASSUME NEW d \in Device, Kept(d) PROVE Kept(d)'
  <2>1. PICK m \in Members(ring) : table[m][d] # NULL
    BY <1>4 DEF Kept, Held
  <2>2. CASE d \in first /\ m = s
    <3>1. n # s /\ table'[n][d] # NULL
      BY <1>1, <1>2, <1>3, <2>1, <2>2
    <3> QED
      BY <1>1, <1>2, <3>1 DEF Kept, Held
  <2>3. CASE d \in first /\ m # s
    <3>1. table[s][d] # NULL
      BY <2>3 DEF first, Held
    <3>2. n # s /\ table'[n][d] # NULL
      BY <1>1, <1>2, <1>3, <2>3, <3>1
    <3> QED
      BY <1>1, <1>2, <3>2 DEF Kept, Held
  <2>4. CASE d \notin first
    <3>1. table'[m][d] # NULL
      BY <1>1, <1>2, <2>1, <2>4
    <3> QED
      BY <1>1, <2>1, <3>1 DEF Kept, Held
  <2> QED
    BY <2>2, <2>3, <2>4
<1>5. NewcomersEmpty'
  <2>1. \A m \in Node \ Members(ring), d \in Device : table'[m][d] = table[m][d]
    BY <1>1, <1>2
  <2> QED
    BY <1>1, <2>1 DEF KeepInv, NewcomersEmpty, Held
<1> QED
  BY <1>1, <1>4, <1>5 DEF KeepInv, LoneTakesNothing

\* The leaver's table goes to its successor.
LEMMA LeaveKeeps ==
  ASSUME KeepInv, IInv', NEW n \in Node, LeaveChordRing(n)
  PROVE  KeepInv' /\ \A d \in Device : Kept(d) /\ Members(ring') # {} => Kept(d)'
<1> DEFINE s == ring.succ[n]
           p == ring.pred[n]
<1>1. /\ ring \in Ring /\ Ordered(ring) /\ n \in Members(ring)
      /\ table \in [Node -> [Device -> Entry \cup {NULL}]]
      /\ table' = [table EXCEPT ![s] =
                     [d \in Device |-> IF d \in Held(n) THEN table[n][d] ELSE table[s][d]]]
      /\ ring' = Unlink(ring, n)
      /\ job' = [node |-> s, finger |-> 0, takeOver |-> FALSE]
  BY DEF KeepInv, IInv, TypeOK, WellFormed, LeaveChordRing
<1>2. s \in Members(ring) /\ p \in Members(ring) /\ Members(ring) \subseteq Node
  BY <1>1, MembersClosed DEF Members
<1>3. /\ \A z \in Node \ {n, p} : ring'.succ[z] = ring.succ[z]
      /\ ring'.succ[n] = NULL
      /\ Members(ring') = Members(ring) \ {n}
  BY <1>1, UnlinkFields
<1>4. /\ \A m \in Node \ {s} : table'[m] = table[m]
      /\ \A d \in Device : table[n][d] # NULL \/ table[s][d] # NULL => table'[s][d] # NULL
  BY <1>1, <1>2 DEF Held
<1>5. NewcomersEmpty'
  <2>1. ASSUME NEW z \in Node, z \notin Members(ring'), ring'.succ[z] = z
        PROVE  Held(z)' = {}
    <3>1. z # n
      BY <1>2, <1>3, <2>1, NotNodes
    <3>2. z \notin Members(ring) /\ ring.succ[z] = z
      BY <1>2, <1>3, <2>1, <3>1
    <3>3. table'[z] = table[z]
      BY <1>2, <1>4, <3>2
    <3> QED
      BY <3>2, <3>3 DEF KeepInv, NewcomersEmpty, Held
  <2> QED
    BY <2>1 DEF NewcomersEmpty
<1>6. ASSUME NEW d \in Device, Kept(d), Members(ring') # {} PROVE Kept(d)'
  <2>1. PICK m \in Members(ring) : table[m][d] # NULL
    BY <1>6 DEF Kept, Held
  <2>2. s # n
    <3>1. PICK other \in Members(ring) : other # n
      BY <1>3, <1>6
    <3> QED
      BY <1>1, <3>1, MembersClosed
  <2>3. CASE m = n \/ m = s
    <3>1. s \in Members(ring') /\ table'[s][d] # NULL
      BY <1>2, <1>3, <1>4, <2>1, <2>2, <2>3
    <3> QED
      BY <3>1 DEF Kept, Held
  <2>4. CASE m # n /\ m # s
    <3>1. m \in Members(ring') /\ table'[m][d] # NULL
      BY <1>2, <1>3, <1>4, <2>1, <2>4
    <3> QED
      BY <3>1 DEF Kept, Held
  <2> QED
    BY <2>3, <2>4
<1>7. LoneTakesNothing'
  BY <1>1 DEF LoneTakesNothing
<1> QED
  BY <1>5, <1>6, <1>7 DEF KeepInv

\* A handover only writes an entry of a member, and empties none.
LEMMA HandoverWrites ==
  ASSUME IInv, NEW d \in Device, NEW c \in Node, NEW sameKey \in BOOLEAN,
         Handover(d, c, sameKey)
  PROVE  \A m \in Node, e \in Device :
           /\ table[m][e] # NULL => table'[m][e] # NULL
           /\ m \notin Members(ring) => (table'[m][e] # NULL => table[m][e] # NULL)
<1> DEFINE s == FindSuccessor(ring, c, d)
<1>1. /\ ring \in Ring /\ WellFormed(ring) /\ c \in Members(ring) /\ d \in Keys
      /\ table \in [Node -> [Device -> Entry \cup {NULL}]]
  BY DeviceAssumption DEF IInv, TypeOK, Handover
<1>2. CASE table' = table
  BY <1>2
<1>3. CASE s \in Node /\ d \in Held(s) /\ UpdateEntry(s, d, c)
  <2> DEFINE written(m) == [table[m][d] EXCEPT !.current = c, !.previous = table[s][d].current]
  <2>1. ASSUME NEW m \in Node, d \in Held(m), table[m][d].object = table[s][d].object
        PROVE  written(m) # NULL
    <3>1. table[m][d] \in Entry /\ table[s][d] \in Entry
      BY <1>1, <1>3, <2>1 DEF Held
    <3>2. written(m) \in Entry
      BY <3>1 DEF Entry
    <3> QED
      BY <3>2, EntryAssumption
  <2> QED
    BY <1>1, <1>3, <2>1 DEF UpdateEntry, Held
<1>4. CASE s \in Node /\ AddEntry(s, d, c)
  <2>1. s \in Members(ring)
    BY <1>1, <1>4, LookupAnswer DEF IsSuccessorOf
  <2>2. PICK id \in Node :
          table' = [table EXCEPT ![s][d] = [object |-> id, current |-> c, previous |-> c]]
    BY <1>4 DEF AddEntry
  <2>3. [object |-> id, current |-> c, previous |-> c] # NULL
    BY EntryAssumption DEF Entry
  <2> QED
    BY <1>1, <1>4, <2>1, <2>2, <2>3
<1> QED
  BY <1>2, <1>3, <1>4 DEF Handover

LEMMA NextKeeps ==
  ASSUME KeepInv, [Next]_vars
  PROVE  KeepInv' /\ \A d \in Device : Kept(d) /\ Members(ring') # {} => Kept(d)'
<1>1. IInv'
  BY NextIInv DEF KeepInv
<1>2. ASSUME Members(ring) \subseteq Members(ring'), table' = table
      PROVE  \A d \in Device : Kept(d) => Kept(d)'
  BY <1>2 DEF Kept, Held
<1>3. ASSUME NEW n \in Node, NEW boot \in Node, NEW takeOver \in BOOLEAN,
             JoinRing(n, boot, takeOver)
      PROVE  KeepInv' /\ \A d \in Device : Kept(d) => Kept(d)'
  <2>1. KeepInv' /\ Members(ring) \subseteq Members(ring') /\ table' = table
    BY <1>1, <1>3, JoinKeeps
  <2> QED
    BY <1>2, <2>1
<1>4. CASE FixFinger
  <2>1. KeepInv' /\ Members(ring) \subseteq Members(ring') /\ table' = table
    BY <1>1, <1>4, FixFingerKeeps
  <2> QED
    BY <1>2, <2>1
<1>5. CASE Finished \/ UNCHANGED vars
  <2>1. ring' = ring /\ table' = table /\ (job' = NULL \/ job' = job)
    BY <1>5 DEF Finished, vars
  <2>2. KeepInv'
    BY <1>1, <2>1 DEF KeepInv, NewcomersEmpty, LoneTakesNothing, Held
  <2> QED
    BY <1>2, <2>1, <2>2
<1>6. CASE TakeOver
  BY <1>1, <1>6, TakeOverKeeps
<1>7. ASSUME NEW n \in Node, LeaveChordRing(n)
      PROVE  KeepInv' /\ \A d \in Device : Kept(d) /\ Members(ring') # {} => Kept(d)'
  BY <1>1, <1>7, LeaveKeeps
<1>8. ASSUME NEW d \in Device, NEW c \in Node, NEW sameKey \in BOOLEAN,
             Handover(d, c, sameKey)
      PROVE  KeepInv' /\ \A e \in Device : Kept(e) => Kept(e)'
  <2>1. ring' = ring /\ job' = job /\ job = NULL
    BY <1>8 DEF Handover
  <2>2. \A m \in Node, e \in Device :
          /\ table[m][e] # NULL => table'[m][e] # NULL
          /\ m \notin Members(ring) => (table'[m][e] # NULL => table[m][e] # NULL)
    BY <1>8, HandoverWrites DEF KeepInv
  <2>3. KeepInv'
    BY <1>1, <2>1, <2>2 DEF KeepInv, NewcomersEmpty, LoneTakesNothing, Held
  <2>4. \A e \in Device : Kept(e) => Kept(e)'
    BY <2>1, <2>2 DEF Kept, Held, Members
  <2> QED
    BY <2>3, <2>4
<1> QED
  BY <1>3, <1>4, <1>5, <1>6, <1>7, <1>8 DEF Next

\* No operation loses the last entry of a device while a controller remains,
\* controllers that come back included.
THEOREM EntriesAreKept == Spec => EntryNeverLost
<1>1. Init => KeepInv
  BY InitKeep
<1>2. KeepInv /\ [Next]_vars => KeepInv'
  BY NextKeeps
<1>3. KeepInv /\ [Next]_vars
      => [\A d \in Device : Kept(d) /\ Members(ring)' # {} => Kept(d)']_vars
  <2>1. ASSUME KeepInv, [Next]_vars
        PROVE  \A d \in Device : Kept(d) /\ Members(ring)' # {} => Kept(d)'
    BY <2>1, NextKeeps DEF Members
  <2> QED
    BY <2>1
<1> QED
  BY <1>1, <1>2, <1>3, PTL DEF Spec, EntryNeverLost

(***************************************************************************)
(* The ring established before the first device appears.                   *)
(***************************************************************************)

\* Two members cannot both be the first one met from k.
LEMMA OneSupervisor ==
  ASSUME NEW g \in Ring, NEW k \in Keys, NEW s, NEW t,
         IsSuccessorOf(s, k, Members(g)), IsSuccessorOf(t, k, Members(g))
  PROVE  s = t
<1>1. s \in Keys /\ t \in Keys /\ Pos(k, s) <= Pos(k, t) /\ Pos(k, t) <= Pos(k, s)
  BY RingAssumption DEF IsSuccessorOf, Members
<1>2. Pos(k, s) \in Nat /\ Pos(k, t) \in Nat
  BY <1>1, PosType, MaxKeyAssumption DEF Keys
<1>3. Pos(k, s) = Pos(k, t)
  BY <1>1, <1>2
<1> QED
  BY <1>1, <1>3, PosType

\* Going on from the first member met leads to the others before it is met again.
LEMMA NextOnTheWay ==
  ASSUME NEW k \in Keys, NEW n \in Keys, NEW s \in Keys, NEW m \in Keys,
         m # n, Pos(k, n) <= Pos(k, s), Pos(k, n) <= Pos(k, m), s # n,
         Pos(n, s) <= Pos(n, m)
  PROVE  Pos(k, s) <= Pos(k, m)
BY MaxKeyAssumption, SMT DEF Pos, Keys

\* When its supervisor leaves, a key is mapped to the supervisor's successor;
\* when another member leaves, it stays where it is.
LEMMA MappedAfterLeave ==
  ASSUME NEW g \in Ring, Ordered(g), NEW n \in Members(g), NEW k \in Keys,
         NEW t, IsSuccessorOf(t, k, Members(g)),
         Members(g) \ {n} # {}
  PROVE  IsSuccessorOf(IF t = n THEN g.succ[n] ELSE t, k, Members(g) \ {n})
<1>1. CASE t # n
  BY <1>1 DEF IsSuccessorOf
<1>2. CASE t = n
  <2> DEFINE s == g.succ[n]
  <2>1. PICK other \in Members(g) : other # n
    OBVIOUS
  <2>2. s \in Members(g) /\ s # n /\ s \in Keys /\ n \in Keys
    BY <2>1, MembersClosed
  <2>3. ASSUME NEW m \in Members(g), m # n PROVE Pos(k, s) <= Pos(k, m)
    <3>1. m \in Keys /\ Pos(n, s) <= Pos(n, m)
      BY <2>3, MembersClosed
    <3>2. Pos(k, n) <= Pos(k, s) /\ Pos(k, n) <= Pos(k, m)
      BY <1>2, <2>2, <2>3 DEF IsSuccessorOf
    <3> QED
      BY <2>2, <2>3, <3>1, <3>2, NextOnTheWay
  <2> QED
    BY <1>2, <2>2, <2>3 DEF IsSuccessorOf
<1> QED
  BY <1>1, <1>2

\* No entry before the first report of its device.
Unreported == \A d \in Device : reported[d] = NULL => \A n \in Node : d \notin Held(n)

\* An entry of a member is of a device the member supervises, and up to date.
HeldRight ==
  \A m \in Members(ring), d \in Device :
    d \in Held(m) => /\ IsSuccessorOf(m, d, Members(ring))
                     /\ table[m][d].current = reported[d].current

\* The member that supervises a reported device has its entry.
SupervisorHolds ==
  \A d \in Device :
    reported[d] # NULL /\ Members(ring) # {} =>
      \E s \in Members(ring) : IsSuccessorOf(s, d, Members(ring)) /\ d \in Held(s)

\* Until the first leave the member a device of Own was reported to has its key
\* object and knows where it came from.
OwnKnown(d) ==
  LET s == reported[d].supervisor
  IN  /\ IsSuccessorOf(s, d, Members(ring))
      /\ d \in devices[s]
      /\ d \in Held(s)
      /\ table[s][d].previous = reported[d].previous

OwnTraced ==
  Departed(ring) = {} => \A d \in Own : reported[d] # NULL => OwnKnown(d)

EstablishedInv == IInv /\ Unreported /\ HeldRight /\ SupervisorHolds /\ OwnTraced

LEMMA EstablishedLocates == EstablishedInv => CurrentLocated /\ TraceExact
<1> SUFFICES ASSUME EstablishedInv PROVE CurrentLocated /\ TraceExact
  OBVIOUS
<1>1. ring \in Ring /\ Device \subseteq Keys /\ Own \subseteq Device
  BY DeviceAssumption, OwnAssumption DEF EstablishedInv, IInv, TypeOK
<1>2. ASSUME NEW d \in Device, reported[d] # NULL, Members(ring) # {},
             NEW s \in Members(ring), IsSuccessorOf(s, d, Members(ring))
      PROVE  d \in Held(s) /\ table[s][d].current = reported[d].current
  <2>1. PICK t \in Members(ring) : IsSuccessorOf(t, d, Members(ring)) /\ d \in Held(t)
    BY <1>2 DEF EstablishedInv, SupervisorHolds
  <2>2. s = t
    BY <1>1, <1>2, <2>1, OneSupervisor
  <2> QED
    BY <2>1, <2>2 DEF EstablishedInv, HeldRight
<1>3. CurrentLocated
  BY <1>2 DEF CurrentLocated, CurrentExact
<1>4. ASSUME Departed(ring) = {}, NEW d \in Own, reported[d] # NULL
      PROVE  LET entry == table[reported[d].supervisor][d]
             IN  entry # NULL /\ entry.current = reported[d].current
                              /\ entry.previous = reported[d].previous
  <2>1. OwnKnown(d)
    BY <1>4 DEF EstablishedInv, OwnTraced
  <2> QED
    BY <1>1, <2>1 DEF OwnKnown, EstablishedInv, HeldRight, IsSuccessorOf, Held
<1>5. TraceExact
  BY <1>4 DEF TraceExact
<1> QED
  BY <1>3, <1>5

LEMMA InitEstablished == Init => EstablishedInv
BY InitIInv, InitWellFormed, OwnAssumption
   DEF Init, EstablishedInv, Unreported, HeldRight, SupervisorHolds, OwnTraced, Held

\* Nobody enters once a device has been reported, so the tables are empty then.
LEMMA JoinEstablished ==
  ASSUME EstablishedInv, IInv', NEW n \in Node, NEW boot \in Node,
         \A d \in Device : reported[d] = NULL, JoinRing(n, boot, FALSE)
  PROVE  EstablishedInv'
<1>1. /\ UNCHANGED <<table, devices, reported>>
      /\ Own \subseteq Device
      /\ Members(ring') \subseteq Node
  BY OwnAssumption DEF JoinRing, Members
<1>2. \A m \in Node, d \in Device : table[m][d] = NULL
  BY DEF EstablishedInv, Unreported, Held
<1> QED
  BY <1>1, <1>2 DEF EstablishedInv, Unreported, HeldRight, SupervisorHolds, OwnTraced, Held

LEMMA FixFingerEstablished ==
  ASSUME EstablishedInv, IInv', FixFinger
  PROVE  EstablishedInv'
<1>1. /\ UNCHANGED <<table, devices, reported>>
      /\ Members(ring') = Members(ring) /\ ring \in Ring
  BY FixFingerIInv DEF EstablishedInv, IInv, TypeOK, FixFinger
<1>2. Departed(ring') = Departed(ring)
  BY <1>1 DEF FixFinger, SetFinger, Ring, Departed
<1> QED
  BY <1>1, <1>2 DEF EstablishedInv, Unreported, HeldRight, SupervisorHolds, OwnTraced, OwnKnown, Held

LEMMA LeaveEstablished ==
  ASSUME EstablishedInv, IInv', NEW n \in Node, LeaveChordRing(n)
  PROVE  EstablishedInv'
<1> DEFINE s == ring.succ[n]
<1>1. /\ ring \in Ring /\ Ordered(ring) /\ n \in Members(ring)
      /\ table \in [Node -> [Device -> Entry \cup {NULL}]]
      /\ table' = [table EXCEPT ![s] =
                     [d \in Device |-> IF d \in Held(n) THEN table[n][d] ELSE table[s][d]]]
      /\ ring' = Unlink(ring, n)
      /\ UNCHANGED <<devices, reported>>
      /\ Device \subseteq Keys
  BY DeviceAssumption DEF EstablishedInv, IInv, TypeOK, WellFormed, LeaveChordRing
<1>2. s \in Members(ring) /\ Members(ring) \subseteq Node
  BY <1>1, MembersClosed DEF Members
<1>3. ring'.succ[n] = NULL /\ Members(ring') = Members(ring) \ {n}
  BY <1>1, UnlinkFields
<1>4. /\ \A m \in Node \ {s} : table'[m] = table[m]
      /\ \A d \in Device : table'[s][d] = IF d \in Held(n) THEN table[n][d] ELSE table[s][d]
  BY <1>1, <1>2
<1>5. Unreported'
  BY <1>1, <1>2, <1>4 DEF EstablishedInv, Unreported, Held
<1>6. ASSUME NEW m \in Members(ring'), NEW d \in Device, table'[m][d] # NULL
      PROVE  /\ IsSuccessorOf(m, d, Members(ring'))
             /\ table'[m][d].current = reported[d].current
  <2>1. m \in Members(ring) /\ m # n /\ m \in Node
    BY <1>2, <1>3, <1>6
  <2>2. CASE m = s /\ d \in Held(n)
    <3>1. IsSuccessorOf(n, d, Members(ring)) /\ table[n][d].current = reported[d].current
      BY <1>1, <2>2 DEF EstablishedInv, HeldRight
    <3>2. IsSuccessorOf(s, d, Members(ring) \ {n})
      BY <1>1, <2>1, <3>1, MappedAfterLeave
    <3> QED
      BY <1>3, <1>4, <2>2, <3>1, <3>2
  <2>3. CASE ~(m = s /\ d \in Held(n))
    <3>1. table'[m][d] = table[m][d]
      BY <1>4, <2>1, <2>3
    <3>2. d \in Held(m)
      BY <1>6, <3>1 DEF Held
    <3>3. IsSuccessorOf(m, d, Members(ring)) /\ table[m][d].current = reported[d].current
      BY <2>1, <3>2 DEF EstablishedInv, HeldRight
    <3>4. IsSuccessorOf(m, d, Members(ring) \ {n})
      BY <1>1, <2>1, <3>3, MappedAfterLeave
    <3> QED
      BY <1>3, <3>1, <3>3, <3>4
  <2> QED
    BY <2>2, <2>3
<1>7. HeldRight'
  BY <1>1, <1>6 DEF HeldRight, Held
<1>8. SupervisorHolds'
  <2>1. ASSUME NEW d \in Device, reported[d] # NULL, Members(ring') # {}
        PROVE  \E t \in Members(ring') :
                 IsSuccessorOf(t, d, Members(ring')) /\ table'[t][d] # NULL
    <3>1. PICK t \in Members(ring) : IsSuccessorOf(t, d, Members(ring)) /\ d \in Held(t)
      BY <1>1, <2>1 DEF EstablishedInv, SupervisorHolds
    <3> DEFINE u == IF t = n THEN s ELSE t
    <3>2. IsSuccessorOf(u, d, Members(ring'))
      <4>1. d \in Keys /\ Members(ring) \ {n} # {}
        BY <1>1, <1>3, <2>1
      <4>2. IsSuccessorOf(IF t = n THEN ring.succ[n] ELSE t, d, Members(ring) \ {n})
        BY <1>1, <3>1, <4>1, MappedAfterLeave, Zenon
      <4> QED
        BY <1>3, <4>2
    <3>3. table'[u][d] # NULL
      BY <1>1, <1>2, <1>4, <3>1 DEF Held
    <3> QED
      BY <3>2, <3>3 DEF IsSuccessorOf
  <2> QED
    BY <1>1, <2>1 DEF SupervisorHolds, Held
<1>9. Departed(ring') # {}
  BY <1>1, <1>2, <1>3 DEF Departed
<1> QED
  BY <1>5, <1>7, <1>8, <1>9 DEF EstablishedInv, OwnTraced

\* What a handover that is recorded writes: the supervisor's entry of d, and
\* entries of d at nodes that are not members.
HandoverRecorded(d, s, c) ==
  /\ IsSuccessorOf(s, d, Members(ring))
  /\ reported' = Recorded(d, s, c)
  /\ \A m \in Node, e \in Device : e # d => table'[m][e] = table[m][e]
  /\ \A m \in Members(ring) \ {s} : d \in Held(m) <=> d \in Held(m)'
  /\ d \in Held(s)' /\ table'[s][d].current = c
  /\ \A m \in Node : devices[m] \subseteq devices'[m]

\* Whether the entry is new or updated, with an own key it says where d was.
OwnRecorded(d, s, c) ==
  /\ d \in devices'[s]
  /\ \/ d \in devices[s] /\ d \in Held(s) /\ table'[s][d].previous = table[s][d].current
     \/ d \notin devices[s] /\ table'[s][d].previous = c

LEMMA HandoverCases ==
  ASSUME IInv, NEW d \in Device, NEW c \in Node, NEW sameKey \in BOOLEAN,
         Handover(d, c, sameKey)
  PROVE  \/ UNCHANGED <<ring, table, devices, reported>>
         \/ /\ ring' = ring
            /\ \E s \in Members(ring) : /\ HandoverRecorded(d, s, c)
                                        /\ sameKey => OwnRecorded(d, s, c)
<1> DEFINE s == FindSuccessor(ring, c, d)
<1>1. /\ ring \in Ring /\ WellFormed(ring) /\ c \in Members(ring) /\ d \in Keys
      /\ table \in [Node -> [Device -> Entry \cup {NULL}]]
      /\ devices \in [Node -> SUBSET Device]
      /\ ring' = ring
  BY DeviceAssumption DEF IInv, TypeOK, Handover
<1>2. CASE UNCHANGED <<table, devices, reported>>
  BY <1>1, <1>2
<1>3. ASSUME s \in Node PROVE IsSuccessorOf(s, d, Members(ring)) /\ s \in Members(ring)
  BY <1>1, <1>3, LookupAnswer DEF IsSuccessorOf
<1>4. CASE /\ s \in Node /\ sameKey /\ d \in devices[s] /\ d \in Held(s)
           /\ UpdateEntry(s, d, c) /\ reported' = Recorded(d, s, c) /\ devices' = devices
  <2> DEFINE written(m) == [table[m][d] EXCEPT !.current = c, !.previous = table[s][d].current]
  <2>1. /\ \A m \in Node, e \in Device : e # d => table'[m][e] = table[m][e]
        /\ \A m \in Node : d \notin Held(m) => table'[m][d] = table[m][d]
        /\ \A m \in Node : d \in Held(m) => table'[m][d] \in {table[m][d], written(m)}
        /\ table'[s][d] = written(s)
    BY <1>1, <1>4 DEF UpdateEntry
  <2>2. ASSUME NEW m \in Node, d \in Held(m)
        PROVE  /\ written(m) \in Entry /\ written(m) # NULL
               /\ written(m).current = c /\ written(m).previous = table[s][d].current
    <3>1. table[m][d] \in Entry /\ table[s][d] \in Entry
      BY <1>1, <1>4, <2>2 DEF Held
    <3>2. written(m) \in Entry /\ written(m).current = c /\ written(m).previous = table[s][d].current
      BY <3>1 DEF Entry
    <3> QED
      BY <3>2, EntryAssumption
  <2> HIDE DEF written
  <2>3. \A m \in Node : d \in Held(m) <=> d \in Held(m)'
    BY <2>1, <2>2 DEF Held
  <2>4. HandoverRecorded(d, s, c)
    BY <1>1, <1>3, <1>4, <2>1, <2>2, <2>3 DEF HandoverRecorded, Members
  <2>5. OwnRecorded(d, s, c)
    BY <1>4, <2>1, <2>2 DEF OwnRecorded
  <2> QED
    BY <1>1, <1>3, <1>4, <2>4, <2>5
<1>5. CASE /\ s \in Node /\ ~(sameKey /\ d \in devices[s])
           /\ AddEntry(s, d, c) /\ reported' = Recorded(d, s, c)
           /\ devices' = IF sameKey THEN [devices EXCEPT ![s] = @ \cup {d}] ELSE devices
  <2>1. PICK id \in Node :
          table' = [table EXCEPT ![s][d] = [object |-> id, current |-> c, previous |-> c]]
    BY <1>5 DEF AddEntry
  <2>2. [object |-> id, current |-> c, previous |-> c] # NULL
    BY EntryAssumption DEF Entry
  <2>3. /\ \A m \in Node, e \in Device : e # d => table'[m][e] = table[m][e]
        /\ \A m \in Node \ {s} : table'[m] = table[m]
        /\ table'[s][d] = [object |-> id, current |-> c, previous |-> c]
    BY <1>1, <1>5, <2>1
  <2>4. /\ \A m \in Node : devices[m] \subseteq devices'[m]
        /\ sameKey => d \in devices'[s]
    BY <1>1, <1>5
  <2>5. HandoverRecorded(d, s, c)
    BY <1>1, <1>3, <1>5, <2>2, <2>3, <2>4 DEF HandoverRecorded, Held, Members
  <2>6. sameKey => OwnRecorded(d, s, c)
    BY <1>5, <2>3, <2>4 DEF OwnRecorded
  <2> QED
    BY <1>1, <1>3, <1>5, <2>5, <2>6
<1> QED
  BY <1>2, <1>4, <1>5 DEF Handover

LEMMA HandoverEstablished ==
  ASSUME EstablishedInv, IInv', NEW d \in Device, NEW c \in Node, Handover(d, c, d \in Own)
  PROVE  EstablishedInv'
<1>1. /\ ring \in Ring /\ Device \subseteq Keys /\ Own \subseteq Device
      /\ reported \in [Device -> Report \cup {NULL}]
      /\ table \in [Node -> [Device -> Entry \cup {NULL}]]
      /\ Members(ring) \subseteq Node
  BY DeviceAssumption, OwnAssumption DEF EstablishedInv, IInv, TypeOK, Members
<1>2. CASE UNCHANGED <<ring, table, devices, reported>>
  BY <1>2 DEF EstablishedInv, Unreported, HeldRight, SupervisorHolds, OwnTraced, OwnKnown, Held
<1>3. ASSUME ring' = ring, NEW s \in Members(ring), HandoverRecorded(d, s, c),
             d \in Own => OwnRecorded(d, s, c)
      PROVE  EstablishedInv'
  <2>1. /\ reported'[d].supervisor = s /\ reported'[d].current = c
        /\ reported'[d].previous = IF reported[d] = NULL THEN c ELSE reported[d].current
        /\ reported'[d] # NULL
        /\ \A e \in Device : e # d => reported'[e] = reported[e]
    <3>1. reported' = Recorded(d, s, c) /\ s \in Node
      BY <1>1, <1>3 DEF HandoverRecorded
    <3> DEFINE r == [supervisor |-> s, current |-> c,
                     previous |-> IF reported[d] = NULL THEN c ELSE reported[d].current]
    <3>2. reported' = [reported EXCEPT ![d] = r]
      BY <3>1 DEF Recorded
    <3>3. r \in Report
      BY <1>1, <3>1 DEF Report
    <3>4. r # NULL
      BY <3>3, EntryAssumption
    <3> HIDE DEF r
    <3>5. reported'[d] = r /\ \A e \in Device : e # d => reported'[e] = reported[e]
      BY <1>1, <3>2
    <3> QED
      BY <3>4, <3>5 DEF r
  <2>2. Unreported'
    <3>1. ASSUME NEW e \in Device, reported'[e] = NULL, NEW m \in Node PROVE table'[m][e] = NULL
      <4>1. e # d /\ reported[e] = NULL
        BY <2>1, <3>1
      <4> QED
        BY <1>3, <4>1 DEF HandoverRecorded, EstablishedInv, Unreported, Held
    <3> QED
      BY <3>1 DEF Unreported, Held
  <2>3. \A m \in Members(ring) : d \in Held(m)' => m = s
    <3>1. ASSUME NEW m \in Members(ring), d \in Held(m)', m # s PROVE FALSE
      <4>1. d \in Held(m)
        BY <1>3, <3>1 DEF HandoverRecorded
      <4>2. IsSuccessorOf(m, d, Members(ring)) /\ IsSuccessorOf(s, d, Members(ring))
        BY <1>3, <4>1 DEF EstablishedInv, HeldRight, HandoverRecorded
      <4> QED
        BY <1>1, <3>1, <4>2, OneSupervisor
    <3> QED
      BY <3>1
  <2>4. HeldRight'
    <3>1. ASSUME NEW m \in Members(ring'), NEW e \in Device, e \in Held(m)'
          PROVE  /\ IsSuccessorOf(m, e, Members(ring'))
                 /\ table'[m][e].current = reported'[e].current
      <4>1. CASE e = d
        BY <1>3, <2>1, <2>3, <3>1, <4>1 DEF HandoverRecorded
      <4>2. CASE e # d
        BY <1>1, <1>3, <2>1, <3>1, <4>2 DEF HandoverRecorded, EstablishedInv, HeldRight, Held
      <4> QED
        BY <4>1, <4>2
    <3> QED
      BY <3>1 DEF HeldRight, Members
  <2>5. SupervisorHolds'
    <3>1. ASSUME NEW e \in Device, reported'[e] # NULL
          PROVE  \E t \in Members(ring) : IsSuccessorOf(t, e, Members(ring)) /\ e \in Held(t)'
      <4>1. CASE e = d
        BY <1>3, <4>1 DEF HandoverRecorded
      <4>2. CASE e # d
        BY <1>1, <1>3, <2>1, <3>1, <4>2
           DEF HandoverRecorded, EstablishedInv, SupervisorHolds, Held
      <4> QED
        BY <4>1, <4>2
    <3> QED
      BY <1>3, <3>1 DEF SupervisorHolds, Members
  <2>6. ASSUME Departed(ring) = {}, NEW e \in Own, reported'[e] # NULL, e # d
        PROVE  OwnKnown(e)'
    <3>1. OwnKnown(e) /\ reported'[e] = reported[e]
      BY <1>1, <2>1, <2>6 DEF EstablishedInv, OwnTraced
    <3> QED
      BY <1>1, <1>3, <2>6, <3>1 DEF OwnKnown, HandoverRecorded, IsSuccessorOf, Held, Members
  <2>7. ASSUME Departed(ring) = {}, d \in Own
        PROVE  OwnKnown(d)'
    <3>1. CASE reported[d] = NULL
      <4>1. d \notin Held(s)
        BY <1>1, <3>1 DEF EstablishedInv, Unreported
      <4>2. table'[s][d].previous = c
        BY <1>3, <2>7, <4>1 DEF OwnRecorded
      <4> QED
        BY <1>3, <2>1, <2>7, <3>1, <4>2 DEF OwnKnown, OwnRecorded, HandoverRecorded, Members
    <3>2. CASE reported[d] # NULL
      <4>1. OwnKnown(d)
        BY <2>7, <3>2 DEF EstablishedInv, OwnTraced
      <4>2. reported[d].supervisor = s
        BY <1>1, <1>3, <4>1, OneSupervisor DEF OwnKnown, HandoverRecorded
      <4>3. d \in devices[s] /\ d \in Held(s)
        BY <4>1, <4>2 DEF OwnKnown
      <4>4. table'[s][d].previous = table[s][d].current
        BY <1>3, <2>7, <4>3 DEF OwnRecorded
      <4>5. table[s][d].current = reported[d].current
        BY <1>3, <4>3 DEF EstablishedInv, HeldRight
      <4> QED
        BY <1>3, <2>1, <2>7, <3>2, <4>4, <4>5
           DEF OwnKnown, OwnRecorded, HandoverRecorded, Members
    <3> QED
      BY <3>1, <3>2
  <2>8. OwnTraced'
    BY <1>3, <2>6, <2>7 DEF OwnTraced, Departed
  <2> QED
    BY <2>2, <2>4, <2>5, <2>8 DEF EstablishedInv
<1> QED
  <2>1. IInv /\ (d \in Own) \in BOOLEAN
    BY DEF EstablishedInv
  <2>2. \/ UNCHANGED <<ring, table, devices, reported>>
        \/ /\ ring' = ring
           /\ \E s \in Members(ring) :
                HandoverRecorded(d, s, c) /\ (d \in Own => OwnRecorded(d, s, c))
    BY <2>1, HandoverCases, Zenon
  <2> QED
    BY <1>2, <1>3, <2>2

LEMMA NextEstablished ==
  EstablishedInv /\ [EstablishedNext]_vars => EstablishedInv'
<1> SUFFICES ASSUME EstablishedInv, [EstablishedNext]_vars PROVE EstablishedInv'
  OBVIOUS
<1>1. IInv'
  <2>1. \A n, boot \in Node : JoinRing(n, boot, FALSE) => Next
    BY Zenon DEF Next
  <2>2. \A d \in Device, c \in Node : Handover(d, c, d \in Own) => Next
    <3>1. \A d \in Device : (d \in Own) \in BOOLEAN
      OBVIOUS
    <3> QED
      BY <3>1, Zenon DEF Next
  <2>3. EstablishedNext => Next
    BY <2>1, <2>2, Zenon DEF EstablishedNext, Next
  <2> QED
    BY <2>3, NextIInv DEF EstablishedInv
<1>2. ASSUME NEW n \in Node, NEW boot \in Node,
             \A d \in Device : reported[d] = NULL, JoinRing(n, boot, FALSE)
      PROVE  EstablishedInv'
  BY <1>1, <1>2, JoinEstablished
<1>3. CASE FixFinger
  BY <1>1, <1>3, FixFingerEstablished
<1>4. CASE Finished \/ UNCHANGED vars
  BY <1>1, <1>4 DEF Finished, vars, EstablishedInv, Unreported, HeldRight,
                    SupervisorHolds, OwnTraced, OwnKnown, Held
<1>5. ASSUME NEW n \in Node, LeaveChordRing(n)
      PROVE  EstablishedInv'
  BY <1>1, <1>5, LeaveEstablished
<1>6. ASSUME NEW d \in Device, NEW c \in Node, Handover(d, c, d \in Own)
      PROVE  EstablishedInv'
  BY <1>1, <1>6, HandoverEstablished
<1>7. CASE \E d \in Device, c \in Node : Handover(d, c, d \in Own)
  <2>1. PICK d \in Device, c \in Node : Handover(d, c, d \in Own)
    BY <1>7, Zenon
  <2> QED
    BY <1>6, <2>1, Zenon
<1>8. CASE \E n \in Node : LeaveChordRing(n)
  BY <1>5, <1>8
<1>9. CASE /\ \A d \in Device : reported[d] = NULL
           /\ \E n, boot \in Node : JoinRing(n, boot, FALSE)
  BY <1>2, <1>9
<1> QED
  BY <1>3, <1>4, <1>7, <1>8, <1>9, Zenon DEF EstablishedNext

LEMMA EstablishedInvariance == SpecEstablished => []EstablishedInv
<1>1. Init => EstablishedInv
  BY InitEstablished
<1>2. EstablishedInv /\ [EstablishedNext]_vars => EstablishedInv'
  BY NextEstablished
<1> QED
  BY <1>1, <1>2, PTL DEF SpecEstablished

\* The controller a device is now mapped to knows where it is attached,
\* whichever of the controllers have gone.
THEOREM SupervisorLocates == SpecEstablished => []CurrentLocated
<1>1. EstablishedInv => CurrentLocated
  BY EstablishedLocates
<1> QED
  BY <1>1, EstablishedInvariance, PTL

\* Until the first leave it also knows where a device of Own came from.
THEOREM SupervisorTraces == SpecEstablished => []TraceExact
<1>1. EstablishedInv => TraceExact
  BY EstablishedLocates
<1> QED
  BY <1>1, EstablishedInvariance, PTL
=============================================================================
