-------------------------- MODULE ControllerProofs --------------------------
(***************************************************************************)
(* Theorems about the overlay, for every set of controllers and devices,   *)
(* every number of fingers and every choice of start keys.  The first part *)
(* is about the pointer operations of a well-formed ring: what a lookup    *)
(* may answer, and that joins and leaves keep the ring well formed.        *)
(***************************************************************************)
EXTENDS ControllerProperties, WellFoundedInduction, TLAPS

(***************************************************************************)
(* Clockwise distances.                                                    *)
(***************************************************************************)

\* Distances are positions of the ring, and distinct keys are distinct distances
\* away.
LEMMA PosType ==
  ASSUME NEW x \in Keys, NEW y \in Keys
  PROVE  /\ Pos(x, y) \in Keys
         /\ \A z \in Keys : Pos(x, y) = Pos(x, z) => y = z
BY MaxKeyAssumption, SMT DEF Pos, Keys

\* A lookup may stop where the key is on the arc up to the next member.
LEMMA StopIsSuccessor ==
  ASSUME NEW x \in Keys, NEW s \in Keys, NEW k \in Keys, NEW m \in Keys,
         IsBetween(k, x, s) \/ k = s,
         s # x,
         m # x => Pos(x, s) <= Pos(x, m)
  PROVE  Pos(k, s) <= Pos(k, m)
BY MaxKeyAssumption, SMT DEF IsBetween, Pos, Keys

\* The predecessor p of the successor s of a new key n: n comes before s.
LEMMA InsertBefore ==
  ASSUME NEW p \in Keys, NEW s \in Keys, NEW n \in Keys, NEW m \in Keys,
         n # p, n # s, p # s,
         Pos(n, s) <= Pos(n, p),
         Pos(p, s) <= Pos(p, m)
  PROVE  Pos(p, n) <= Pos(p, m)
BY MaxKeyAssumption, SMT DEF Pos, Keys

\* The arc from any other member x to its successor t does not hold n.
LEMMA InsertElsewhere ==
  ASSUME NEW x \in Keys, NEW t \in Keys, NEW n \in Keys, NEW s \in Keys,
         n # x, n # t, t # s, t # x,
         s # x => Pos(x, t) <= Pos(x, s),
         Pos(n, s) <= Pos(n, t)
  PROVE  Pos(x, t) <= Pos(x, n)
BY MaxKeyAssumption, SMT DEF Pos, Keys

\* Without n, the member p before it is followed by the member s after it.
LEMMA RemoveBetween ==
  ASSUME NEW p \in Keys, NEW s \in Keys, NEW n \in Keys, NEW m \in Keys,
         n # p, n # s, m # p, m # n,
         Pos(p, n) <= Pos(p, m),
         Pos(n, s) <= Pos(n, m)
  PROVE  s # p /\ Pos(p, s) <= Pos(p, m)
BY MaxKeyAssumption, SMT DEF Pos, Keys

(***************************************************************************)
(* Lookups.                                                                *)
(***************************************************************************)

\* Null and the exceptions are not nodes.
LEMMA NotNodes ==
  NULL \notin Node /\ NullPointer \notin Node /\ StackOverflow \notin Node
BY RingAssumption

\* The recursion never leaves the members and the nodes that have left.
LEMMA VisitedKnown ==
  ASSUME NEW g \in Ring, WellFormed(g),
         NEW n \in Members(g) \cup Departed(g), NEW k \in Keys
  PROVE  Visited(g, n, k) \subseteq Members(g) \cup Departed(g)
<1> DEFINE S == Members(g) \cup Departed(g)
<1>1. S \in SUBSET Node
  BY DEF Members, Departed
<1>2. ASSUME NEW x \in S, ~Stops(g, x, k)
      PROVE  Forward(g, x, k) \in S
  <2>1. x \in Members(g)
    BY <1>2 DEF Stops, Departed
  <2>2. g.succ[x] \in Members(g)
    BY <2>1 DEF WellFormed, Ordered, NextMember
  <2>3. x \in Node
    BY <1>1
  <2> DEFINE node == ClosestPrecedingNode(g, x, k)
  <2>4. node # x => \E i \in Finger : node = g.finger[x][i]
    BY DEF ClosestPrecedingNode
  <2>5. CASE node = x
    BY <2>2, <2>5 DEF Forward
  <2>6. CASE node # x
    <3>1. PICK i \in Finger : node = g.finger[x][i]
      BY <2>4, <2>6
    <3>2. node \in S
      BY <2>3, <2>6, <3>1 DEF WellFormed, FingersKnown
    <3> QED
      BY <2>6, <3>2 DEF Forward
  <2> QED
    BY <2>5, <2>6
<1>3. n \in S
  OBVIOUS
<1> QED
  BY <1>1, <1>2, <1>3 DEF Visited

\* Whatever the fingers, a lookup that answers names the first member
\* clockwise from the key.
LEMMA LookupAnswer ==
  ASSUME NEW g \in Ring, WellFormed(g),
         NEW n \in Members(g) \cup Departed(g), NEW k \in Keys,
         FindSuccessor(g, n, k) \in Node
  PROVE  IsSuccessorOf(FindSuccessor(g, n, k), k, Members(g))
<1> DEFINE ends == {x \in Visited(g, n, k) : Stops(g, x, k)}
           last == CHOOSE x \in ends : TRUE
           s    == g.succ[last]
<1>1. ends # {} /\ s # NULL /\ FindSuccessor(g, n, k) = s
  BY NotNodes DEF FindSuccessor
<1>2. last \in ends
  BY <1>1
<1>3. last \in Members(g) /\ Stops(g, last, k)
  <2>1. last \in Members(g) \cup Departed(g) /\ Stops(g, last, k)
    BY <1>2, VisitedKnown
  <2> QED
    BY <1>1, <2>1 DEF Departed
<1>4. /\ s \in Members(g)
      /\ \A m \in Members(g) \ {last} : s # last /\ Pos(last, s) <= Pos(last, m)
  BY <1>3 DEF WellFormed, Ordered, NextMember
<1>5. Members(g) \subseteq Keys
  BY RingAssumption DEF Members
<1>6. ASSUME NEW m \in Members(g)
      PROVE  Pos(k, s) <= Pos(k, m)
  <2>1. CASE s = last
    <3>1. m = s
      BY <1>4, <2>1
    <3>2. Pos(k, s) \in Keys
      BY <1>4, <1>5, PosType
    <3> QED
      BY <3>1, <3>2, MaxKeyAssumption, SMT DEF Keys
  <2>2. CASE s # last
    <3>1. IsBetween(k, last, s) \/ k = s
      BY <1>1, <1>3, <2>2 DEF Stops
    <3>2. m # last => Pos(last, s) <= Pos(last, m)
      BY <1>4
    <3>3. last \in Keys /\ s \in Keys /\ m \in Keys
      BY <1>3, <1>4, <1>5
    <3> QED
      BY <2>2, <3>1, <3>2, <3>3, StopIsSuccessor
  <2> QED
    BY <2>1, <2>2
<1> QED
  BY <1>1, <1>4, <1>6 DEF IsSuccessorOf

\* A set of naturals has a least one.
LEMMA LeastNatural ==
  ASSUME NEW S \in SUBSET Nat, S # {}
  PROVE  \E x \in S : \A y \in S : x <= y
<1> DEFINE R == {p \in Nat \X Nat : p[1] < p[2]}
<1>1. IsWellFoundedOn(OpToRel(<, Nat), Nat)
  BY NatLessThanWellFounded, Zenon
<1>2. OpToRel(<, Nat) = R
  BY DEF OpToRel
<1>3. IsWellFoundedOn(R, Nat)
  BY <1>1, <1>2, Zenon
<1>4. \A x, y \in Nat : <<x, y>> \in R <=> x < y
  OBVIOUS
<1> HIDE DEF R
<1>5. PICK x \in S : \A y \in S : ~(<<y, x>> \in R)
  BY <1>3, WFMin
<1>6. ASSUME NEW y \in S PROVE x <= y
  <2>1. x \in Nat /\ y \in Nat /\ ~(y < x)
    BY <1>4, <1>5
  <2> QED BY <2>1
<1> QED BY <1>6

\* How far a lookup of k has to go from x; from k itself once round the ring.
Way(x, k) == IF x = k THEN MaxKey + 1 ELSE Pos(x, k)

LEMMA WayType ==
  ASSUME NEW x \in Keys, NEW k \in Keys
  PROVE  Way(x, k) \in Nat
<1>1. Pos(x, k) \in Nat
  BY PosType, MaxKeyAssumption DEF Keys
<1>2. MaxKey + 1 \in Nat
  BY MaxKeyAssumption
<1> QED BY <1>1, <1>2 DEF Way

\* A finger between x and k is nearer to k.
LEMMA FingerApproaches ==
  ASSUME NEW x \in Keys, NEW y \in Keys, NEW k \in Keys, IsBetween(y, x, k)
  PROVE  Way(y, k) < Way(x, k)
BY MaxKeyAssumption, SMT DEF IsBetween, Way, Pos, Keys

\* So is a successor that does not end the lookup, unless k is a boundary key,
\* which isBetween leaves out of the arc that wraps.
LEMMA SuccessorApproaches ==
  ASSUME NEW x \in Keys, NEW y \in Keys, NEW k \in Keys \ {0, MaxKey},
         y # x, y # k, ~IsBetween(k, x, y)
  PROVE  Way(y, k) < Way(x, k)
BY MaxKeyAssumption, SMT DEF IsBetween, Way, Pos, Keys

\* The set of visited nodes holds the first one and follows the recursion.
LEMMA VisitedFollows ==
  ASSUME NEW g, NEW n \in Node, NEW k, NEW Limit \in SUBSET Node, n \in Limit,
         \A x \in Limit : Stops(g, x, k) \/ Forward(g, x, k) \in Limit
  PROVE  /\ n \in Visited(g, n, k) /\ Visited(g, n, k) \subseteq Limit
         /\ \A x \in Visited(g, n, k) : Stops(g, x, k) \/ Forward(g, x, k) \in Visited(g, n, k)
BY DEF Visited

\* While nobody has left, a lookup of any key but the two boundary ones ends:
\* every call is nearer to the key than its caller.
LEMMA LookupEnds ==
  ASSUME NEW g \in Ring, WellFormed(g), Departed(g) = {},
         NEW n \in Members(g), NEW k \in Keys \ {0, MaxKey}
  PROVE  FindSuccessor(g, n, k) \in Node
<1> DEFINE S == Members(g)
           V == Visited(g, n, k)
           ends == {x \in V : Stops(g, x, k)}
<1>1. S \in SUBSET Node /\ Node \subseteq Keys
  BY RingAssumption DEF Members
<1>2. ASSUME NEW x \in S
      PROVE  g.succ[x] \in S /\ g.succ[x] # NULL
  BY <1>1, <1>2, NotNodes DEF WellFormed, Ordered, NextMember, Members
<1>3. ASSUME NEW x \in S, ~Stops(g, x, k)
      PROVE  Forward(g, x, k) \in S /\ Way(Forward(g, x, k), k) < Way(x, k)
  <2> DEFINE node == ClosestPrecedingNode(g, x, k)
             hit(i) == IsBetween(g.finger[x][i], x, k)
             best(i) == hit(i) /\ \A j \in Finger : hit(j) => j <= i
  <2>1. CASE node = x
    <3>1. Forward(g, x, k) = g.succ[x]
      BY <2>1 DEF Forward
    <3>2. g.succ[x] \in S /\ g.succ[x] # x /\ g.succ[x] # k /\ ~IsBetween(k, x, g.succ[x])
      BY <1>2, <1>3 DEF Stops
    <3>3. Way(g.succ[x], k) < Way(x, k)
      BY <1>1, <3>2, SuccessorApproaches
    <3> QED BY <3>1, <3>2, <3>3
  <2>2. CASE node # x
    <3>1. \E i \in Finger : best(i)
      BY <2>2 DEF ClosestPrecedingNode
    <3>2. node = g.finger[x][CHOOSE i \in Finger : best(i)]
      BY <3>1 DEF ClosestPrecedingNode
    <3>3. PICK i \in Finger : node = g.finger[x][i] /\ hit(i)
      BY <3>1, <3>2
    <3>4. node \in S
      BY <1>1, <2>2, <3>3 DEF WellFormed, FingersKnown
    <3>5. Forward(g, x, k) = node
      BY <2>2 DEF Forward
    <3>6. Way(node, k) < Way(x, k)
      BY <1>1, <3>3, <3>4, FingerApproaches
    <3> QED BY <3>4, <3>5, <3>6
  <2> QED BY <2>1, <2>2
<1>4. /\ n \in V /\ V \subseteq S
      /\ \A x \in V : Stops(g, x, k) \/ Forward(g, x, k) \in V
  <2>1. \A x \in S : Stops(g, x, k) \/ Forward(g, x, k) \in S
    BY <1>3
  <2> QED BY <1>1, <2>1, VisitedFollows
<1>5. ends # {}
  <2>1. SUFFICES ASSUME ends = {} PROVE FALSE
    OBVIOUS
  <2> DEFINE W == {Way(x, k) : x \in V}
  <2>2. \A x \in V : Way(x, k) \in Nat
    BY <1>1, <1>4, WayType
  <2>3. W \in SUBSET Nat /\ W # {}
    BY <1>4, <2>2
  <2>4. PICK w \in W : \A v \in W : w <= v
    BY <2>3, LeastNatural
  <2>5. PICK x \in V : w = Way(x, k)
    BY <2>4
  <2>6. Forward(g, x, k) \in V /\ Way(Forward(g, x, k), k) < Way(x, k)
    BY <1>3, <1>4, <2>1
  <2>7. Way(x, k) <= Way(Forward(g, x, k), k)
    BY <2>4, <2>5, <2>6
  <2> QED BY <2>2, <2>6, <2>7
<1> DEFINE last == CHOOSE x \in ends : TRUE
<1>6. last \in S
  BY <1>4, <1>5
<1>7. g.succ[last] \in Node /\ g.succ[last] # NULL
  BY <1>1, <1>2, <1>6
<1> QED BY <1>5, <1>7 DEF FindSuccessor

\* A node outside the ring that looks itself up answers itself or throws.
LEMMA LookupOfSelf ==
  ASSUME NEW g \in Ring, NEW n \in Node, g.succ[n] \in {n, NULL},
         FindSuccessor(g, n, n) \in Node
  PROVE  FindSuccessor(g, n, n) = n /\ g.succ[n] = n
<1> DEFINE ends == {x \in Visited(g, n, n) : Stops(g, x, n)}
           last == CHOOSE x \in ends : TRUE
<1>1. ends # {} /\ g.succ[last] # NULL /\ FindSuccessor(g, n, n) = g.succ[last]
  BY NotNodes DEF FindSuccessor
<1>2. last \in Visited(g, n, n)
  BY <1>1
<1>3. Visited(g, n, n) \subseteq {n}
  <2>1. Stops(g, n, n)
    BY DEF Stops
  <2>2. {n} \in {S \in SUBSET Node :
                   /\ n \in S
                   /\ \A x \in S : Stops(g, x, n) \/ Forward(g, x, n) \in S}
    BY <2>1
  <2>3. \A x \in Visited(g, n, n) : x \in {n}
    BY <2>2 DEF Visited
  <2> QED
    BY <2>3
<1> QED
  BY <1>1, <1>2, <1>3


(***************************************************************************)
(* Joining and leaving.                                                    *)
(***************************************************************************)

\* Rings that differ in the successor, or the predecessor, of x, which is y in h.
SuccessorChanged(g, h, x, y) ==
  /\ h \in Ring
  /\ h.succ[x] = y
  /\ \A z \in Node : z # x => h.succ[z] = g.succ[z]
  /\ h.pred = g.pred
  /\ h.finger = g.finger

PredecessorChanged(g, h, x, y) ==
  /\ h \in Ring
  /\ h.pred[x] = y
  /\ \A z \in Node : z # x => h.pred[z] = g.pred[z]
  /\ h.succ = g.succ
  /\ h.finger = g.finger

\* That is what setSuccessor() and setPredecessor() do.
LEMMA Setters ==
  ASSUME NEW g \in Ring, NEW x \in Node, NEW y \in Node \cup {NULL}
  PROVE  /\ SuccessorChanged(g, SetSuccessor(g, x, y), x, y)
         /\ PredecessorChanged(g, SetPredecessor(g, x, y), x, y)
<1>1. SuccessorChanged(g, SetSuccessor(g, x, y), x, y)
  BY DEF SetSuccessor, SuccessorChanged, Ring
<1>2. PredecessorChanged(g, SetPredecessor(g, x, y), x, y)
  BY DEF SetPredecessor, PredecessorChanged, Ring
<1> QED
  BY <1>1, <1>2

\* stabilize() with nobody behind the successor, and with somebody else there.
LEMMA StabilizeCases ==
  ASSUME NEW g \in Ring, NEW n \in Node, NEW s \in Node, NEW p \in Node,
         g.succ[n] = s
  PROVE  /\ g.pred[s] = NULL => Stabilize(g, n) = SetPredecessor(g, s, n)
         /\ g.pred[s] = p /\ p # n =>
              Stabilize(g, n) = SetPredecessor(SetSuccessor(g, p, n), s, n)
         /\ g.pred[s] = n /\ s = n =>
              Stabilize(g, n) = SetPredecessor(SetSuccessor(g, n, n), n, n)
<1>1. /\ SuccessorChanged(g, SetSuccessor(g, p, n), p, n)
      /\ SuccessorChanged(g, SetSuccessor(g, n, n), n, n)
  BY Setters
<1>2. /\ p # n => SetSuccessor(g, p, n).succ[n] = s
      /\ SetSuccessor(g, n, n).succ[n] = n
  BY <1>1 DEF SuccessorChanged
<1>3. CASE g.pred[s] = NULL
  BY <1>3, NotNodes DEF Stabilize, NotifyPredecessor
<1>4. CASE g.pred[s] = p /\ p # n
  BY <1>2, <1>4, NotNodes DEF Stabilize, NotifyPredecessor
<1>5. CASE g.pred[s] = n /\ s = n
  BY <1>2, <1>5, NotNodes DEF Stabilize, NotifyPredecessor
<1> QED
  BY <1>3, <1>4, <1>5

\* join() resets the predecessor and sets the successor.
LEMMA JoinFields ==
  ASSUME NEW g \in Ring, NEW n \in Node, NEW s \in Node
  PROVE  /\ Join(g, n, s) \in Ring
         /\ Join(g, n, s).succ[n] = s
         /\ Join(g, n, s).pred[n] = NULL
         /\ \A z \in Node : z # n => /\ Join(g, n, s).succ[z] = g.succ[z]
                                     /\ Join(g, n, s).pred[z] = g.pred[z]
         /\ Join(g, n, s).finger = g.finger
<1> DEFINE h == SetPredecessor(g, n, NULL)
<1>1. PredecessorChanged(g, h, n, NULL)
  BY Setters
<1>2. h \in Ring
  BY <1>1 DEF PredecessorChanged
<1>3. SuccessorChanged(h, Join(g, n, s), n, s)
  BY <1>2, Setters DEF Join
<1> QED
  BY <1>1, <1>3 DEF PredecessorChanged, SuccessorChanged

\* The first node becomes its own successor and predecessor.
LEMMA LinkFirst ==
  ASSUME NEW g \in Ring, NEW n \in Node, Members(g) = {}
  PROVE  /\ Link(g, n, n) \in Ring
         /\ Link(g, n, n).succ[n] = n
         /\ Link(g, n, n).pred[n] = n
         /\ \A z \in Node : z # n => /\ Link(g, n, n).succ[z] = g.succ[z]
                                     /\ Link(g, n, n).pred[z] = g.pred[z]
         /\ Link(g, n, n).finger = g.finger
         /\ Members(Link(g, n, n)) = {n}
<1> DEFINE joined  == Join(g, n, n)
           settled == SetPredecessor(joined, n, n)
           moved   == SetSuccessor(settled, n, n)
           h       == SetPredecessor(moved, n, n)
<1>1. /\ joined \in Ring /\ joined.succ[n] = n /\ joined.pred[n] = NULL
      /\ \A z \in Node : z # n => joined.succ[z] = g.succ[z] /\ joined.pred[z] = g.pred[z]
      /\ joined.finger = g.finger
  BY JoinFields
<1>2. Stabilize(joined, n) = settled
  BY <1>1, StabilizeCases
<1>3. PredecessorChanged(joined, settled, n, n)
  BY <1>1, Setters
<1>4. settled \in Ring /\ settled.succ[n] = n /\ settled.pred[n] = n
  BY <1>1, <1>3 DEF PredecessorChanged
<1>5. Stabilize(settled, n) = h
  BY <1>4, StabilizeCases
<1>6. Link(g, n, n) = h
  BY <1>1, <1>2, <1>4, <1>5 DEF Link
<1>7. SuccessorChanged(settled, moved, n, n)
  BY <1>4, Setters
<1>8. PredecessorChanged(moved, h, n, n)
  <2>1. moved \in Ring
    BY <1>7 DEF SuccessorChanged
  <2> QED
    BY <2>1, Setters
<1> HIDE DEF joined, settled, moved, h
<1>9. /\ h \in Ring /\ h.succ[n] = n /\ h.pred[n] = n
      /\ \A z \in Node : z # n => h.succ[z] = g.succ[z] /\ h.pred[z] = g.pred[z]
      /\ h.finger = g.finger
  BY <1>1, <1>3, <1>7, <1>8 DEF SuccessorChanged, PredecessorChanged
<1>10. Members(h) = {n}
  BY <1>9, NotNodes DEF Members
<1> QED
  BY <1>6, <1>9, <1>10

\* A later node comes between its successor and the successor's predecessor.
LEMMA LinkNext ==
  ASSUME NEW g \in Ring, Ordered(g),
         NEW n \in Node, n \notin Members(g),
         NEW s \in Members(g), NEW p, p = g.pred[s]
  PROVE  /\ Link(g, n, s) \in Ring
         /\ Link(g, n, s).succ[p] = n
         /\ Link(g, n, s).succ[n] = s
         /\ \A z \in Node \ {n, p} : Link(g, n, s).succ[z] = g.succ[z]
         /\ Link(g, n, s).pred[s] = n
         /\ Link(g, n, s).pred[n] = p
         /\ \A z \in Node \ {n, s} : Link(g, n, s).pred[z] = g.pred[z]
         /\ Link(g, n, s).finger = g.finger
         /\ Members(Link(g, n, s)) = Members(g) \cup {n}
<1> DEFINE joined  == Join(g, n, s)
           moved   == SetSuccessor(joined, p, n)
           settled == SetPredecessor(moved, s, n)
           h       == SetPredecessor(settled, n, p)
<1>1. p \in Members(g)
  BY DEF Ordered, TwoWay
<1>2. n # p /\ n # s /\ p # NULL /\ p \in Node /\ s \in Node
  BY <1>1, NotNodes DEF Members
<1>3. /\ joined \in Ring /\ joined.succ[n] = s /\ joined.pred[n] = NULL
      /\ \A z \in Node : z # n => joined.succ[z] = g.succ[z] /\ joined.pred[z] = g.pred[z]
      /\ joined.finger = g.finger
  BY <1>2, JoinFields
<1>4. Stabilize(joined, n) = settled
  <2>1. joined.pred[s] = p
    BY <1>2, <1>3
  <2> QED
    BY <1>2, <1>3, <2>1, StabilizeCases
<1>5. SuccessorChanged(joined, moved, p, n)
  BY <1>2, <1>3, Setters
<1>6. moved \in Ring /\ moved.succ[p] = n /\ moved.pred[n] = NULL
  BY <1>2, <1>3, <1>5 DEF SuccessorChanged
<1>7. PredecessorChanged(moved, settled, s, n)
  BY <1>2, <1>6, Setters
<1>8. settled \in Ring /\ settled.succ[p] = n /\ settled.pred[n] = NULL
  BY <1>2, <1>6, <1>7 DEF PredecessorChanged
<1>9. Stabilize(settled, p) = h
  BY <1>2, <1>8, StabilizeCases
<1>10. Link(g, n, s) = h
  <2>1. joined.pred[s] = p
    BY <1>2, <1>3
  <2> QED
    BY <1>2, <1>4, <1>9, <2>1 DEF Link
<1>11. PredecessorChanged(settled, h, n, p)
  BY <1>2, <1>8, Setters
<1> HIDE DEF joined, settled, moved, h
<1>12. /\ h \in Ring
       /\ h.succ[p] = n /\ h.succ[n] = s
       /\ \A z \in Node \ {n, p} : h.succ[z] = g.succ[z]
       /\ h.pred[s] = n /\ h.pred[n] = p
       /\ \A z \in Node \ {n, s} : h.pred[z] = g.pred[z]
       /\ h.finger = g.finger
  BY <1>2, <1>3, <1>5, <1>7, <1>11 DEF SuccessorChanged, PredecessorChanged
<1>13. Members(h) = Members(g) \cup {n}
  BY <1>2, <1>12, NotNodes DEF Members
<1> QED
  BY <1>10, <1>12, <1>13

\* A leaver's neighbours are joined to each other; the last member goes alone.
LEMMA UnlinkFields ==
  ASSUME NEW g \in Ring, Ordered(g), NEW n \in Members(g),
         NEW s, s = g.succ[n], NEW p, p = g.pred[n]
  PROVE  /\ Unlink(g, n) \in Ring
         /\ Unlink(g, n).succ[n] = NULL
         /\ p # n => Unlink(g, n).succ[p] = s
         /\ \A z \in Node \ {n, p} : Unlink(g, n).succ[z] = g.succ[z]
         /\ Unlink(g, n).pred[n] = NULL
         /\ s # n => Unlink(g, n).pred[s] = p
         /\ \A z \in Node \ {n, s} : Unlink(g, n).pred[z] = g.pred[z]
         /\ Unlink(g, n).finger = g.finger
         /\ Members(Unlink(g, n)) = Members(g) \ {n}
<1> DEFINE h1 == SetPredecessor(g, s, p)
           h2 == SetSuccessor(h1, p, s)
           h3 == SetSuccessor(h2, n, NULL)
           h4 == SetPredecessor(h3, n, NULL)
<1>1. s \in Members(g) /\ p \in Members(g)
  BY DEF Ordered, NextMember, TwoWay
<1>2. s \in Node /\ p \in Node /\ n \in Node
  BY <1>1 DEF Members
<1>3. PredecessorChanged(g, h1, s, p)
  BY <1>2, Setters
<1>4. SuccessorChanged(h1, h2, p, s)
  <2>1. h1 \in Ring
    BY <1>3 DEF PredecessorChanged
  <2> QED
    BY <1>2, <2>1, Setters
<1>5. SuccessorChanged(h2, h3, n, NULL)
  <2>1. h2 \in Ring
    BY <1>4 DEF SuccessorChanged
  <2> QED
    BY <1>2, <2>1, Setters
<1>6. PredecessorChanged(h3, h4, n, NULL)
  <2>1. h3 \in Ring
    BY <1>5 DEF SuccessorChanged
  <2> QED
    BY <1>2, <2>1, Setters
<1>7. Unlink(g, n) = h4
  BY DEF Unlink
<1> HIDE DEF h1, h2, h3, h4
<1>8. /\ h4 \in Ring
      /\ h4.succ[n] = NULL
      /\ p # n => h4.succ[p] = s
      /\ \A z \in Node \ {n, p} : h4.succ[z] = g.succ[z]
      /\ h4.pred[n] = NULL
      /\ s # n => h4.pred[s] = p
      /\ \A z \in Node \ {n, s} : h4.pred[z] = g.pred[z]
      /\ h4.finger = g.finger
  BY <1>2, <1>3, <1>4, <1>5, <1>6 DEF SuccessorChanged, PredecessorChanged
<1>9. Members(h4) = Members(g) \ {n}
  BY <1>1, <1>2, <1>8, NotNodes DEF Members
<1> QED
  BY <1>7, <1>8, <1>9

\* Members are keys, and their successors and predecessors are members.
LEMMA MembersClosed ==
  ASSUME NEW g \in Ring, Ordered(g), NEW x \in Members(g)
  PROVE  /\ x \in Node /\ x \in Keys /\ x # NULL
         /\ g.succ[x] \in Members(g) /\ g.pred[x] \in Members(g)
         /\ g.pred[g.succ[x]] = x /\ g.succ[g.pred[x]] = x
         /\ \A m \in Members(g) : m # x => g.succ[x] # x /\ Pos(x, g.succ[x]) <= Pos(x, m)
BY RingAssumption, NotNodes DEF Members, Ordered, NextMember, TwoWay

\* The first node makes a ring.
LEMMA FirstWellFormed ==
  ASSUME NEW g \in Ring, WellFormed(g), NEW n \in Node, Members(g) = {}
  PROVE  WellFormed(Link(g, n, n))
<1> DEFINE h == Link(g, n, n)
<1>1. /\ h \in Ring /\ h.succ[n] = n /\ h.pred[n] = n
      /\ \A z \in Node : z # n => h.succ[z] = g.succ[z]
      /\ h.finger = g.finger
      /\ Members(h) = {n}
  BY LinkFirst
<1> HIDE DEF h
<1>2. Ordered(h)
  BY <1>1 DEF Ordered, NextMember, TwoWay
<1>3. OutsidersUnlinked(h)
  BY <1>1 DEF WellFormed, OutsidersUnlinked
<1>4. FingersKnown(h)
  BY <1>1 DEF WellFormed, FingersKnown, Departed
<1> QED
  BY <1>2, <1>3, <1>4 DEF WellFormed, h

\* A node linked before the member that follows its key keeps the ring ordered.
LEMMA NextWellFormed ==
  ASSUME NEW g \in Ring, WellFormed(g),
         NEW n \in Node, n \notin Members(g),
         NEW s, IsSuccessorOf(s, n, Members(g))
  PROVE  WellFormed(Link(g, n, s))
<1> DEFINE h == Link(g, n, s)
           p == g.pred[s]
<1>1. Ordered(g)
  BY DEF WellFormed
<1>2. s \in Members(g) /\ \A m \in Members(g) : Pos(n, s) <= Pos(n, m)
  BY DEF IsSuccessorOf
<1>3. p \in Members(g) /\ p \in Node /\ g.succ[p] = s
  BY <1>1, <1>2, MembersClosed
<1>4. /\ h \in Ring
      /\ h.succ[p] = n /\ h.succ[n] = s
      /\ \A z \in Node \ {n, p} : h.succ[z] = g.succ[z]
      /\ h.pred[s] = n /\ h.pred[n] = p
      /\ \A z \in Node \ {n, s} : h.pred[z] = g.pred[z]
      /\ h.finger = g.finger
      /\ Members(h) = Members(g) \cup {n}
  BY <1>1, <1>2, LinkNext
<1>5. n # p /\ n # s /\ n \in Keys /\ n # NULL
  BY <1>2, <1>3, RingAssumption, NotNodes
<1> HIDE DEF h, p
<1>6. ASSUME NEW x \in Members(h)
      PROVE  NextMember(h, x)
  <2>1. CASE x = n
    BY <1>2, <1>4, <1>5, <2>1 DEF NextMember
  <2>2. CASE x = p
    <3>1. ASSUME NEW m \in Members(h) \ {p}
          PROVE  Pos(p, n) <= Pos(p, m)
      <4>1. CASE m = n
        BY <1>1, <1>3, <1>5, <4>1, MembersClosed, PosType, MaxKeyAssumption, SMT DEF Keys
      <4>2. CASE m # n
        <5>1. m \in Members(g) /\ m # p
          BY <1>4, <4>2
        <5>2. s # p /\ Pos(p, s) <= Pos(p, m)
          BY <1>1, <1>3, <5>1, MembersClosed
        <5>3. Pos(n, s) <= Pos(n, p)
          BY <1>2, <1>3
        <5>4. p \in Keys /\ s \in Keys /\ m \in Keys
          BY <1>1, <1>2, <1>3, <5>1, MembersClosed
        <5> QED
          BY <1>5, <5>2, <5>3, <5>4, InsertBefore
      <4> QED
        BY <4>1, <4>2
    <3> QED
      BY <1>4, <1>5, <2>2, <3>1 DEF NextMember
  <2>3. CASE x # n /\ x # p
    <3> DEFINE t == g.succ[x]
    <3>1. x \in Members(g)
      BY <1>4, <2>3
    <3>2. /\ t \in Members(g) /\ t # x
          /\ \A m \in Members(g) : m # x => Pos(x, t) <= Pos(x, m)
      BY <1>1, <1>3, <2>3, <3>1, MembersClosed
    <3>3. t # s
      BY <1>1, <2>3, <3>1, MembersClosed DEF p
    <3>4. h.succ[x] = t
      BY <1>1, <1>4, <2>3, <3>1, MembersClosed
    <3>5. Pos(x, t) <= Pos(x, n)
      <4>1. x \in Keys /\ t \in Keys /\ s \in Keys
        BY <1>1, <1>2, <3>1, <3>2, MembersClosed
      <4>2. n # t /\ Pos(n, s) <= Pos(n, t)
        BY <1>2, <3>2
      <4>3. s # x => Pos(x, t) <= Pos(x, s)
        BY <1>2, <3>2
      <4> HIDE DEF t
      <4> QED
        BY <1>5, <2>3, <3>2, <3>3, <4>1, <4>2, <4>3, InsertElsewhere
    <3> QED
      BY <1>4, <3>2, <3>4, <3>5 DEF NextMember
  <2> QED
    BY <2>1, <2>2, <2>3
<1>7. ASSUME NEW x \in Members(h)
      PROVE  TwoWay(h, x)
  <2>1. CASE x = n
    BY <1>3, <1>4, <2>1 DEF TwoWay
  <2>2. CASE x # n
    <3>1. /\ x \in Members(g) /\ x \in Node
          /\ g.succ[x] \in Members(g) /\ g.pred[x] \in Members(g)
          /\ g.succ[x] \in Node /\ g.pred[x] \in Node
          /\ g.pred[g.succ[x]] = x /\ g.succ[g.pred[x]] = x
      BY <1>1, <1>4, <2>2, MembersClosed
    <3>2. h.pred[h.succ[x]] = x
      <4>1. CASE x = p
        BY <1>4, <4>1
      <4>2. CASE x # p
        BY <1>4, <2>2, <3>1, <4>2 DEF p
      <4> QED
        BY <4>1, <4>2
    <3>3. h.pred[x] \in Members(h) /\ h.succ[h.pred[x]] = x
      <4>1. CASE x = s
        BY <1>4, <4>1
      <4>2. CASE x # s
        BY <1>3, <1>4, <2>2, <3>1, <4>2
      <4> QED
        BY <4>1, <4>2
    <3> QED
      BY <3>2, <3>3 DEF TwoWay
  <2> QED
    BY <2>1, <2>2
<1>8. OutsidersUnlinked(h)
  BY <1>3, <1>4 DEF WellFormed, OutsidersUnlinked
<1>9. FingersKnown(h)
  <2>1. Departed(g) \subseteq Departed(h) \cup {n}
    BY <1>2, <1>3, <1>4, <1>1, MembersClosed DEF Departed
  <2> QED
    BY <1>4, <2>1 DEF WellFormed, FingersKnown
<1> QED
  BY <1>6, <1>7, <1>8, <1>9 DEF WellFormed, Ordered, h

\* A ring stays ordered without the member that leaves.
LEMMA UnlinkWellFormed ==
  ASSUME NEW g \in Ring, WellFormed(g), NEW n \in Members(g)
  PROVE  WellFormed(Unlink(g, n))
<1> DEFINE h == Unlink(g, n)
           s == g.succ[n]
           p == g.pred[n]
<1>1. Ordered(g)
  BY DEF WellFormed
<1>2. /\ n \in Node /\ n \in Keys /\ s \in Members(g) /\ p \in Members(g)
      /\ g.pred[s] = n /\ g.succ[p] = n
      /\ \A m \in Members(g) : m # n => s # n /\ Pos(n, s) <= Pos(n, m)
  BY <1>1, MembersClosed
<1>3. /\ h \in Ring
      /\ h.succ[n] = NULL
      /\ p # n => h.succ[p] = s
      /\ \A z \in Node \ {n, p} : h.succ[z] = g.succ[z]
      /\ s # n => h.pred[s] = p
      /\ \A z \in Node \ {n, s} : h.pred[z] = g.pred[z]
      /\ h.finger = g.finger
      /\ Members(h) = Members(g) \ {n}
  BY <1>1, UnlinkFields
<1>4. s \in Node /\ p \in Node
  BY <1>1, <1>2, MembersClosed
<1>5. s = n => p = n
  BY <1>2
<1> HIDE DEF h, s, p
<1>6. ASSUME NEW x \in Members(h)
      PROVE  NextMember(h, x) /\ TwoWay(h, x)
  <2>1. /\ x \in Members(g) /\ x # n /\ x \in Node /\ x \in Keys
        /\ g.succ[x] \in Members(g) /\ g.pred[x] \in Members(g)
        /\ g.succ[x] \in Node /\ g.pred[x] \in Node
        /\ g.pred[g.succ[x]] = x /\ g.succ[g.pred[x]] = x
        /\ \A m \in Members(g) : m # x => g.succ[x] # x /\ Pos(x, g.succ[x]) <= Pos(x, m)
    BY <1>1, <1>3, MembersClosed
  <2>2. s # n /\ p # n
    BY <1>2, <2>1 DEF p, s
  <2>3. NextMember(h, x)
    <3>1. CASE x = p
      <4>1. ASSUME NEW m \in Members(h) \ {p}
            PROVE  s # p /\ Pos(p, s) <= Pos(p, m)
        <5>1. m \in Members(g) /\ m # n /\ m # p
          BY <1>3, <4>1
        <5>2. Pos(p, n) <= Pos(p, m)
          BY <1>2, <2>1, <3>1, <5>1
        <5>3. Pos(n, s) <= Pos(n, m)
          BY <1>2, <5>1
        <5>4. p \in Keys /\ s \in Keys /\ m \in Keys
          BY <1>1, <1>2, <5>1, MembersClosed
        <5> QED
          BY <1>2, <2>2, <5>1, <5>2, <5>3, <5>4, RemoveBetween
      <4> QED
        BY <1>2, <1>3, <2>2, <3>1, <4>1 DEF NextMember
    <3>2. CASE x # p
      <4>1. g.succ[x] # n
        BY <2>1, <3>2 DEF p
      <4> QED
        BY <1>3, <2>1, <3>2, <4>1 DEF NextMember
    <3> QED
      BY <3>1, <3>2
  <2>4. TwoWay(h, x)
    <3>1. h.pred[h.succ[x]] = x
      <4>1. CASE x = p
        BY <1>3, <2>2, <4>1
      <4>2. CASE x # p
        <5>1. g.succ[x] # n
          BY <2>1, <4>2 DEF p
        <5>2. g.succ[x] # s
          BY <1>2, <2>1
        <5>3. h.succ[x] = g.succ[x]
          BY <1>3, <2>1, <4>2
        <5> QED
          BY <1>3, <2>1, <5>1, <5>2, <5>3
      <4> QED
        BY <4>1, <4>2
    <3>2. h.pred[x] \in Members(h) /\ h.succ[h.pred[x]] = x
      <4>1. CASE x = s
        BY <1>2, <1>3, <2>2, <4>1
      <4>2. CASE x # s
        BY <1>2, <1>3, <2>1, <4>2 DEF p, s
      <4> QED
        BY <4>1, <4>2
    <3> QED
      BY <3>1, <3>2 DEF TwoWay
  <2> QED
    BY <2>3, <2>4
<1>7. OutsidersUnlinked(h)
  BY <1>2, <1>3, <1>4 DEF WellFormed, OutsidersUnlinked
<1>8. FingersKnown(h)
  <2>1. Departed(g) \subseteq Departed(h)
    BY <1>1, <1>2, <1>3, <1>4, MembersClosed, NotNodes DEF Departed
  <2>2. n \in Departed(h)
    BY <1>2, <1>3 DEF Departed
  <2> QED
    BY <1>3, <2>1, <2>2 DEF WellFormed, FingersKnown
<1> QED
  BY <1>6, <1>7, <1>8 DEF WellFormed, Ordered, h

\* A finger set to a member leaves the ring as it is.
LEMMA FingerWellFormed ==
  ASSUME NEW g \in Ring, WellFormed(g), NEW n \in Node, NEW i \in Finger,
         NEW s \in Members(g)
  PROVE  /\ SetFinger(g, n, i, s) \in Ring
         /\ Members(SetFinger(g, n, i, s)) = Members(g)
         /\ WellFormed(SetFinger(g, n, i, s))
<1> DEFINE h == SetFinger(g, n, i, s)
<1>1. s \in Node
  BY DEF Members
<1>2. /\ h \in Ring /\ h.succ = g.succ /\ h.pred = g.pred
      /\ \A x \in Node, j \in Finger : h.finger[x][j] \in {s, g.finger[x][j]}
  BY <1>1 DEF SetFinger, Ring
<1> HIDE DEF h
<1>3. Members(h) = Members(g) /\ Departed(h) = Departed(g)
  BY <1>2 DEF Members, Departed
<1>4. Ordered(h) /\ OutsidersUnlinked(h)
  BY <1>2, <1>3 DEF WellFormed, Ordered, NextMember, TwoWay, OutsidersUnlinked
<1>5. FingersKnown(h)
  BY <1>2, <1>3 DEF WellFormed, FingersKnown
<1> QED
  BY <1>2, <1>3, <1>4, <1>5 DEF WellFormed, h

(***************************************************************************)
(* The overlay: the steps of the controllers.                              *)
(***************************************************************************)

\* The node whose fingers are being fixed is a member, or it departed as the
\* last one; one that takes over keys is a member.
JobKnown ==
  job # NULL => /\ job.node \in Members(ring) \cup Departed(ring)
                /\ job.takeOver => job.node \in Members(ring)

\* The inductive invariant: OrderedRing needs the answers of lookups, which need
\* to know what fingers can point to and what the outsiders' pointers are.
IInv == TypeOK /\ WellFormed(ring) /\ JobKnown

\* The initial ring has no members.
LEMMA InitWellFormed ==
  /\ NewRing \in Ring
  /\ Members(NewRing) = {}
  /\ WellFormed(NewRing)
<1>1. NewRing \in Ring /\ Members(NewRing) = {}
  BY DEF NewRing, Ring, Members
<1>2. WellFormed(NewRing)
  BY <1>1 DEF WellFormed, Ordered, OutsidersUnlinked, FingersKnown, NewRing
<1> QED
  BY <1>1, <1>2

LEMMA InitIInv == Init => IInv
<1> SUFFICES ASSUME Init PROVE IInv
  OBVIOUS
<1>1. TypeOK
  BY InitWellFormed DEF Init, TypeOK
<1>2. WellFormed(ring) /\ JobKnown
  BY InitWellFormed DEF Init, JobKnown
<1> QED
  BY <1>1, <1>2 DEF IInv

\* The two ways a successful join links its node, and that it adds that member.
LEMMA JoinLinks ==
  ASSUME IInv, NEW n \in Node, NEW boot \in Node, n \notin Members(ring),
         boot \in IF Members(ring) = {} THEN {n} ELSE Members(ring),
         NEW s, s = FindSuccessor(ring, boot, n), s \in Node
  PROVE  /\ Link(ring, n, s) \in Ring
         /\ WellFormed(Link(ring, n, s))
         /\ Members(Link(ring, n, s)) = Members(ring) \cup {n}
<1>1. ring \in Ring /\ WellFormed(ring) /\ n \in Keys
  BY RingAssumption DEF IInv, TypeOK
<1>2. CASE Members(ring) = {}
  <2>1. ring.succ[n] \in {n, NULL}
    BY <1>1 DEF WellFormed, OutsidersUnlinked
  <2>2. s = n
    BY <1>1, <1>2, <2>1, LookupOfSelf
  <2>3. WellFormed(Link(ring, n, n))
    BY <1>1, <1>2, FirstWellFormed
  <2>4. Link(ring, n, n) \in Ring /\ Members(Link(ring, n, n)) = {n}
    BY <1>1, <1>2, LinkFirst
  <2> QED
    BY <1>2, <2>2, <2>3, <2>4
<1>3. CASE Members(ring) # {}
  <2>1. IsSuccessorOf(s, n, Members(ring))
    BY <1>1, <1>3, LookupAnswer
  <2>2. s \in Members(ring) /\ Ordered(ring)
    BY <1>1, <2>1 DEF IsSuccessorOf, WellFormed
  <2>3. WellFormed(Link(ring, n, s))
    BY <1>1, <2>1, NextWellFormed
  <2>4. /\ Link(ring, n, s) \in Ring
        /\ Members(Link(ring, n, s)) = Members(ring) \cup {n}
    BY <1>1, <2>2, LinkNext
  <2> QED
    BY <2>3, <2>4
<1> QED
  BY <1>2, <1>3

\* What a lookup can return.
LEMMA LookupType ==
  ASSUME NEW g \in Ring, NEW n, NEW k, FindSuccessor(g, n, k) \notin Node
  PROVE  FindSuccessor(g, n, k) \in {NullPointer, StackOverflow}
<1> DEFINE ends == {x \in Visited(g, n, k) : Stops(g, x, k)}
           last == CHOOSE x \in ends : TRUE
<1>1. CASE ends = {}
  BY <1>1 DEF FindSuccessor
<1>2. CASE ends # {}
  <2>1. last \in Node
    BY <1>2 DEF Visited
  <2>2. g.succ[last] \in Node \cup {NULL}
    BY <2>1 DEF Ring
  <2> QED
    BY <1>2, <2>2 DEF FindSuccessor
<1> QED
  BY <1>1, <1>2

LEMMA JoinRingIInv ==
  ASSUME IInv, NEW n \in Node, NEW boot \in Node, NEW takeOver \in BOOLEAN,
         JoinRing(n, boot, takeOver)
  PROVE  IInv'
<1> DEFINE s == FindSuccessor(ring, boot, n)
<1>1. CASE s \in Node
  <2>1. /\ ring' = Link(ring, n, s)
        /\ job' = [node |-> n, finger |-> 0, takeOver |-> takeOver]
        /\ thrown' = NULL
        /\ UNCHANGED <<table, devices, reported>>
        /\ n \notin Members(ring)
        /\ boot \in IF Members(ring) = {} THEN {n} ELSE Members(ring)
    BY <1>1 DEF JoinRing
  <2>2. /\ ring' \in Ring /\ WellFormed(ring')
        /\ Members(ring') = Members(ring) \cup {n}
    BY <1>1, <2>1, JoinLinks
  <2>3. job' \in Job
    BY <2>1, RingAssumption, SMT DEF Job
  <2>4. TypeOK'
    BY <2>1, <2>2, <2>3 DEF IInv, TypeOK, Held
  <2> QED
    BY <2>1, <2>2, <2>4 DEF IInv, JobKnown
<1>2. CASE s \notin Node
  <2>1. thrown' = s /\ UNCHANGED <<ring, job, table, devices, reported>>
    BY <1>2 DEF JoinRing
  <2>2. thrown' \in {NullPointer, StackOverflow}
    BY <1>2, <2>1, LookupType DEF IInv, TypeOK
  <2> QED
    BY <2>1, <2>2 DEF IInv, TypeOK, JobKnown
<1> QED
  BY <1>1, <1>2

LEMMA FixFingerIInv ==
  ASSUME IInv, FixFinger
  PROVE  /\ IInv'
         /\ Members(ring') = Members(ring)
         /\ UNCHANGED reported
<1> DEFINE n == job.node
           i == job.finger
           s == FindSuccessor(ring, n, Start[n][i])
<1>1. /\ ring \in Ring /\ WellFormed(ring)
      /\ job \in Job /\ n \in Members(ring) \cup Departed(ring) /\ n \in Node
      /\ i \in Finger /\ Start[n][i] \in Keys
  BY RingAssumption, SMT DEF IInv, TypeOK, JobKnown, FixFinger, Job, Finger
<1>2. CASE s \in Node
  <2>1. /\ ring' = SetFinger(ring, n, i, s)
        /\ job' = [job EXCEPT !.finger = @ + 1]
        /\ UNCHANGED <<thrown, table, devices, reported>>
    BY <1>2 DEF FixFinger
  <2>2. s \in Members(ring)
    BY <1>1, <1>2, LookupAnswer DEF IsSuccessorOf
  <2>3. ring' \in Ring /\ Members(ring') = Members(ring) /\ WellFormed(ring')
    BY <1>1, <2>1, <2>2, FingerWellFormed
  <2>4. job' \in Job /\ job'.node = n /\ job'.takeOver = job.takeOver
    BY <1>1, <2>1, RingAssumption, SMT DEF Job, Finger
  <2>5. Departed(ring') = Departed(ring)
    BY <1>1, <2>1 DEF SetFinger, Departed, Ring
  <2>6. TypeOK'
    BY <2>1, <2>3, <2>4 DEF IInv, TypeOK
  <2>7. JobKnown'
    BY <1>1, <2>3, <2>4, <2>5 DEF IInv, JobKnown, FixFinger
  <2> QED
    BY <2>1, <2>3, <2>6, <2>7 DEF IInv
<1>3. CASE s \notin Node
  <2>1. thrown' = s /\ job' = NULL /\ UNCHANGED <<ring, table, devices, reported>>
    BY <1>3 DEF FixFinger
  <2>2. thrown' \in {NullPointer, StackOverflow}
    BY <1>1, <1>3, <2>1, LookupType
  <2> QED
    BY <2>1, <2>2 DEF IInv, TypeOK, JobKnown
<1> QED
  BY <1>2, <1>3

LEMMA FinishedIInv ==
  ASSUME IInv, Finished
  PROVE  IInv'
BY DEF IInv, TypeOK, JobKnown, Finished

LEMMA TakeOverIInv ==
  ASSUME IInv, TakeOver
  PROVE  IInv'
<1> DEFINE n     == job.node
           s     == ring.succ[n]
           first == {d \in Held(s) : d <= n /\ \A e \in Held(s) : d <= e}
<1>1. /\ table' = [m \in Node |-> [d \in Device |->
                     IF d \in first /\ m = s THEN NULL
                     ELSE IF d \in first /\ m = n THEN table[s][d]
                     ELSE table[m][d]]]
      /\ thrown' \in {ConcurrentModification, thrown}
      /\ job' = NULL
      /\ UNCHANGED <<ring, devices, reported>>
  BY DEF TakeOver
<1>2. ring \in Ring /\ table \in [Node -> [Device -> Entry \cup {NULL}]]
  BY DEF IInv, TypeOK
<1>3. n \in Node /\ s \in Node
  <2>1. n \in Members(ring) /\ Ordered(ring)
    BY DEF IInv, JobKnown, WellFormed, TakeOver
  <2> QED
    BY <1>2, <2>1, MembersClosed
<1>4. table' \in [Node -> [Device -> Entry \cup {NULL}]]
  BY <1>1, <1>2, <1>3
<1>5. TypeOK'
  BY <1>1, <1>4 DEF IInv, TypeOK
<1> QED
  BY <1>1, <1>5 DEF IInv, JobKnown

LEMMA LeaveIInv ==
  ASSUME IInv, NEW n \in Node, LeaveChordRing(n)
  PROVE  /\ IInv'
         /\ Members(ring') = Members(ring) \ {n}
         /\ n \in Members(ring)
         /\ UNCHANGED reported
<1> DEFINE s == ring.succ[n]
<1>1. /\ ring \in Ring /\ WellFormed(ring) /\ n \in Members(ring)
      /\ table \in [Node -> [Device -> Entry \cup {NULL}]]
  BY DEF IInv, TypeOK, LeaveChordRing
<1>2. /\ ring' = Unlink(ring, n)
      /\ table' = [table EXCEPT ![s] =
                     [d \in Device |-> IF d \in Held(n) THEN table[n][d] ELSE table[s][d]]]
      /\ job' = [node |-> s, finger |-> 0, takeOver |-> FALSE]
      /\ thrown' = NULL
      /\ UNCHANGED <<devices, reported>>
  BY DEF LeaveChordRing
<1>3. s \in Members(ring) /\ s \in Node
  BY <1>1, MembersClosed DEF WellFormed
<1>4. /\ ring' \in Ring /\ WellFormed(ring')
      /\ Members(ring') = Members(ring) \ {n}
      /\ n \in Departed(ring')
  <2>1. WellFormed(Unlink(ring, n))
    BY <1>1, UnlinkWellFormed
  <2>2. /\ Unlink(ring, n) \in Ring
        /\ Members(Unlink(ring, n)) = Members(ring) \ {n}
        /\ Unlink(ring, n).succ[n] = NULL
    BY <1>1, UnlinkFields DEF WellFormed
  <2> QED
    BY <1>2, <2>1, <2>2 DEF Departed
<1>5. table' \in [Node -> [Device -> Entry \cup {NULL}]]
  BY <1>1, <1>2, <1>3
<1>6. job' \in Job
  BY <1>2, <1>3, RingAssumption, SMT DEF Job
<1>7. TypeOK'
  BY <1>2, <1>4, <1>5, <1>6 DEF IInv, TypeOK
<1>8. JobKnown'
  BY <1>2, <1>3, <1>4 DEF JobKnown
<1> QED
  BY <1>1, <1>2, <1>4, <1>7, <1>8 DEF IInv

\* A handover is recorded where Supervision says, or nowhere.
LEMMA HandoverIInv ==
  ASSUME IInv, NEW d \in Device, NEW c \in Node, NEW sameKey \in BOOLEAN,
         Handover(d, c, sameKey)
  PROVE  /\ IInv'
         /\ UNCHANGED ring
         /\ \/ UNCHANGED reported
            \/ /\ c \in Members(ring)
               /\ \E s \in Node : /\ IsSuccessorOf(s, d, Members(ring))
                                  /\ reported' = Recorded(d, s, c)
<1> DEFINE s == FindSuccessor(ring, c, d)
<1>1. /\ ring \in Ring /\ WellFormed(ring)
      /\ table \in [Node -> [Device -> Entry \cup {NULL}]]
      /\ devices \in [Node -> SUBSET Device]
      /\ reported \in [Device -> Report \cup {NULL}]
      /\ c \in Members(ring) /\ d \in Keys
      /\ UNCHANGED <<ring, job>>
  BY DeviceAssumption DEF IInv, TypeOK, Handover
<1>2. CASE s \notin Node
  <2>1. thrown' = s /\ UNCHANGED <<table, devices, reported>>
    BY <1>2 DEF Handover
  <2>2. thrown' \in {NullPointer, StackOverflow}
    BY <1>1, <1>2, <2>1, LookupType
  <2> QED
    BY <1>1, <2>1, <2>2 DEF IInv, TypeOK, JobKnown
<1>3. CASE s \in Node
  <2>1. IsSuccessorOf(s, d, Members(ring))
    BY <1>1, <1>3, LookupAnswer
  <2>2. CASE table' = table /\ devices' = devices /\ reported' = reported /\ thrown' = NullPointer
    BY <1>1, <2>2 DEF IInv, TypeOK, JobKnown
  <2>3. CASE /\ d \in Held(s) /\ UpdateEntry(s, d, c)
             /\ reported' = Recorded(d, s, c)
             /\ thrown' = NULL /\ devices' = devices
    <3>1. table[s][d] \in Entry
      BY <1>1, <1>3, <2>3 DEF Held
    <3>2. ASSUME NEW m \in Node, d \in Held(m)
          PROVE  [table[m][d] EXCEPT !.current = c, !.previous = table[s][d].current] \in Entry
      <4>1. table[m][d] \in Entry
        BY <1>1, <3>2 DEF Held
      <4> QED
        BY <3>1, <4>1 DEF Entry
    <3>3. table' \in [Node -> [Device -> Entry \cup {NULL}]]
      BY <1>1, <2>3, <3>2 DEF UpdateEntry
    <3>4. reported' \in [Device -> Report \cup {NULL}]
      BY <1>1, <1>3, <2>3 DEF Recorded, Report
    <3> QED
      BY <1>1, <1>3, <2>1, <2>3, <3>3, <3>4 DEF IInv, TypeOK, JobKnown
  <2>4. CASE /\ AddEntry(s, d, c)
             /\ devices' = IF sameKey THEN [devices EXCEPT ![s] = @ \cup {d}] ELSE devices
             /\ reported' = Recorded(d, s, c)
             /\ thrown' = NULL
    <3>1. table' \in [Node -> [Device -> Entry \cup {NULL}]]
      <4>1. PICK id \in Node :
              table' = [table EXCEPT ![s][d] =
                          [object |-> id, current |-> c, previous |-> c]]
        BY <2>4 DEF AddEntry
      <4>2. [object |-> id, current |-> c, previous |-> c] \in Entry
        BY DEF Entry
      <4> QED
        BY <1>1, <1>3, <4>1, <4>2
    <3>2. devices' \in [Node -> SUBSET Device]
      BY <1>1, <1>3, <2>4
    <3>3. reported' \in [Device -> Report \cup {NULL}]
      BY <1>1, <1>3, <2>4 DEF Recorded, Report
    <3> QED
      BY <1>1, <1>3, <2>1, <2>4, <3>1, <3>2, <3>3 DEF IInv, TypeOK, JobKnown
  <2> QED
    BY <1>3, <2>2, <2>3, <2>4 DEF Handover
<1> QED
  BY <1>2, <1>3

-----------------------------------------------------------------------------
\* No step of the overlay breaks the inductive invariant.
LEMMA NextIInv == IInv /\ [Next]_vars => IInv'
<1> SUFFICES ASSUME IInv, [Next]_vars PROVE IInv'
  OBVIOUS
<1>1. ASSUME NEW n \in Node, NEW boot \in Node, NEW takeOver \in BOOLEAN,
             JoinRing(n, boot, takeOver)
      PROVE  IInv'
  BY <1>1, JoinRingIInv
<1>2. CASE FixFinger
  BY <1>2, FixFingerIInv
<1>3. CASE Finished
  BY <1>3, FinishedIInv
<1>4. CASE TakeOver
  BY <1>4, TakeOverIInv
<1>5. ASSUME NEW n \in Node, LeaveChordRing(n)
      PROVE  IInv'
  BY <1>5, LeaveIInv
<1>6. ASSUME NEW d \in Device, NEW c \in Node, NEW sameKey \in BOOLEAN,
             Handover(d, c, sameKey)
      PROVE  IInv'
  BY <1>6, HandoverIInv
<1>7. CASE UNCHANGED vars
  BY <1>7 DEF vars, IInv, TypeOK, JobKnown
<1> QED
  BY <1>1, <1>2, <1>3, <1>4, <1>5, <1>6, <1>7 DEF Next

LEMMA Invariance == Spec => []IInv
<1>1. Init => IInv
  BY InitIInv
<1>2. IInv /\ [Next]_vars => IInv'
  BY NextIInv
<1> QED
  BY <1>1, <1>2, PTL DEF Spec

\* Every reachable state of the overlay is of its type.
THEOREM TypeCorrect == Spec => []TypeOK
<1>1. IInv => TypeOK
  BY DEF IInv
<1> QED
  BY <1>1, Invariance, PTL

\* The ring stays one cycle of its members in key order, whichever joins fail
\* and whatever the fingers point to.
THEOREM RingStaysOrdered == Spec => []OrderedRing
<1>1. IInv => OrderedRing
  BY DEF IInv, WellFormed, OrderedRing
<1> QED
  BY <1>1, Invariance, PTL

\* A lookup at any member, of any key, names the supervising member or throws.
THEOREM LookupsAreSound == Spec => []LookupSound
<1>1. IInv => LookupSound
  BY LookupAnswer DEF IInv, TypeOK, LookupSound
<1> QED
  BY <1>1, Invariance, PTL

\* Until the first leave every lookup of a key that is not a boundary key ends
\* with an answer, over fingers that are half set or out of date.
THEOREM LookupsAnswer == Spec => []LookupTotal
<1>1. IInv => LookupTotal
  BY LookupEnds DEF IInv, TypeOK, LookupTotal
<1> QED
  BY <1>1, Invariance, PTL

-----------------------------------------------------------------------------
\* Every step of the overlay is a step of Supervision or changes neither the
\* members nor the reports.
LEMMA StepImplements == IInv /\ [Next]_vars => [Abstract!Next]_(Abstract!vars)
<1> SUFFICES ASSUME IInv, [Next]_vars
             PROVE  Abstract!Next \/ UNCHANGED <<Members(ring), reported>>
  BY DEF Abstract!vars
<1>1. ASSUME NEW n \in Node, NEW boot \in Node, NEW takeOver \in BOOLEAN,
             JoinRing(n, boot, takeOver)
      PROVE  Abstract!Next \/ UNCHANGED <<Members(ring), reported>>
  <2> DEFINE s == FindSuccessor(ring, boot, n)
  <2>1. CASE s \in Node
    <3>1. Members(ring') = Members(ring) \cup {n}
      BY <1>1, <2>1, JoinLinks DEF JoinRing
    <3>2. Abstract!Enter(n)
      BY <1>1, <3>1 DEF Abstract!Enter, JoinRing, Members
    <3> QED
      BY <3>2 DEF Abstract!Next
  <2>2. CASE s \notin Node
    BY <1>1, <2>2 DEF JoinRing, Members
  <2> QED
    BY <2>1, <2>2
<1>2. CASE FixFinger
  BY <1>2, FixFingerIInv DEF Members
<1>3. CASE Finished \/ TakeOver \/ UNCHANGED vars
  BY <1>3 DEF Finished, TakeOver, vars, Members
<1>4. ASSUME NEW n \in Node, LeaveChordRing(n)
      PROVE  Abstract!Next
  <2>1. Abstract!Leave(n)
    BY <1>4, LeaveIInv DEF Abstract!Leave, Members
  <2> QED
    BY <2>1 DEF Abstract!Next
<1>5. ASSUME NEW d \in Device, NEW c \in Node, NEW sameKey \in BOOLEAN,
             Handover(d, c, sameKey)
      PROVE  Abstract!Next \/ UNCHANGED <<Members(ring), reported>>
  <2>1. CASE UNCHANGED reported
    BY <1>5, <2>1, HandoverIInv DEF Members
  <2>2. CASE reported' # reported
    <3>1. PICK s \in Node : /\ IsSuccessorOf(s, d, Members(ring))
                            /\ reported' = Recorded(d, s, c)
      BY <1>5, <2>2, HandoverIInv
    <3>2. Abstract!Report(d, s, c)
      BY <1>5, <2>2, <3>1, HandoverIInv
         DEF Abstract!Report, Abstract!IsSuccessorOf, IsSuccessorOf,
             Abstract!Pos, Pos, Recorded, Members
    <3> QED
      BY <3>2 DEF Abstract!Next
  <2> QED
    BY <2>1, <2>2
<1> QED
  BY <1>1, <1>2, <1>3, <1>4, <1>5 DEF Next

\* The overlay implements Supervision: members come and go one at a time, and
\* every recorded handover is at the member that supervises the device.
THEOREM OverlaySupervises == Spec => ImplementsSupervision
<1>1. Init => Abstract!Init
  BY InitWellFormed DEF Init, Abstract!Init
<1>2. IInv /\ [Next]_vars => [Abstract!Next]_(Abstract!vars)
  BY StepImplements
<1> QED
  BY <1>1, <1>2, Invariance, PTL DEF Spec, ImplementsSupervision, Abstract!Spec
=============================================================================
