----------------------------- MODULE ChordNode ------------------------------
(***************************************************************************)
(* The pointers of overlay/ChordNode.java and the methods that read and    *)
(* write them, as operators on a ring                                      *)
(*     g = [succ, pred, finger]                                            *)
(* that holds the three fields of every ChordNode.  A node is named by its *)
(* nodeKey: two controllers whose ids hash to the same key are outside     *)
(* the model.                                                              *)
(***************************************************************************)
EXTENDS ChordKey

CONSTANTS
  Node,           \* the controllers' ChordNodes
  FingerCount,    \* Hash.NODE_COUNT
  Start,          \* Start[n][i]: the start key of finger i of node n
  NULL,           \* Java's null
  NullPointer,    \* NullPointerException
  StackOverflow   \* StackOverflowError

Finger == 0 .. FingerCount - 1

ASSUME RingAssumption ==
  /\ Node \subseteq Keys
  /\ FingerCount \in Nat
  /\ Start \in [Node -> [Finger -> Keys]]
  /\ {NULL, NullPointer, StackOverflow} \cap Keys = {}

Ring == [succ   : [Node -> Node \cup {NULL}],
         pred   : [Node -> Node \cup {NULL}],
         finger : [Node -> [Finger -> Node]]]

\* The constructors: a node is its own successor and fills its own fingers.
NewRing == [succ   |-> [n \in Node |-> n],
            pred   |-> [n \in Node |-> NULL],
            finger |-> [n \in Node |-> [i \in Finger |-> n]]]

\* A node has a predecessor from its join until it leaves.
Members(g) == {n \in Node : g.pred[n] # NULL}

\* leaveChordRing() is the only code that nulls a successor.
Departed(g) == {n \in Node : g.succ[n] = NULL}

-----------------------------------------------------------------------------
\* Slip: an arc open at both ends, as isBetween alone has it.
StopsBeforeSuccessor(g, x, k) ==
  g.succ[x] = NULL \/ g.succ[x] = x \/ IsBetween(k, x, g.succ[x])

\* Slip: the arc closed at the wrong end.
StopsAtOwnKey(g, x, k) ==
  g.succ[x] = NULL \/ g.succ[x] = x \/ IsBetween(k, x, g.succ[x]) \/ k = x

\* Where findSuccessor(k) ends at x: it returns x's successor, or it throws
\* because x, which has left, has none.
Stops(g, x, k) ==
  \/ g.succ[x] = NULL
  \/ g.succ[x] = x
  \/ IsBetween(k, x, g.succ[x])
  \/ k = g.succ[x]

\* The highest finger strictly between x and k, or x itself.
ClosestPrecedingNode(g, x, k) ==
  LET hit(i)  == IsBetween(g.finger[x][i], x, k)
      best(i) == hit(i) /\ \A j \in Finger : hit(j) => j <= i
  IN  IF \E i \in Finger : best(i)
      THEN g.finger[x][CHOOSE i \in Finger : best(i)]
      ELSE x

\* The node findSuccessor(k) recurs on when it does not end at x.
Forward(g, x, k) ==
  LET node == ClosestPrecedingNode(g, x, k)
  IN  IF node = x THEN g.succ[x] ELSE node

\* The nodes the recursion started at n calls: the least set that holds n and
\* follows Forward from every node where the recursion does not end.
Visited(g, n, k) ==
  LET closed == {S \in SUBSET Node :
                   /\ n \in S
                   /\ \A x \in S : Stops(g, x, k) \/ Forward(g, x, k) \in S}
  IN  {x \in Node : \A S \in closed : x \in S}

\* Slip: the node the recursion ends at, not its successor.
FindPredecessor(g, n, k) ==
  LET ends == {x \in Visited(g, n, k) : Stops(g, x, k)}
  IN  IF ends = {} THEN StackOverflow ELSE CHOOSE x \in ends : TRUE

\* findSuccessor(k) on n.  A recursion that meets no node to end at revisits
\* nodes for ever and exhausts the stack.
FindSuccessor(g, n, k) ==
  LET ends == {x \in Visited(g, n, k) : Stops(g, x, k)}
      last == CHOOSE x \in ends : TRUE
  IN  IF ends = {} THEN StackOverflow
      ELSE IF g.succ[last] = NULL THEN NullPointer
      ELSE g.succ[last]

-----------------------------------------------------------------------------
SetSuccessor(g, x, y)   == [g EXCEPT !.succ[x] = y]
SetPredecessor(g, x, y) == [g EXCEPT !.pred[x] = y]

\* One iteration of the loop of fixFingers(), its lookup having returned s.
SetFinger(g, n, i, s) == [g EXCEPT !.finger[n][i] = s]

\* "!=" on keys compares references and two nodes never share a key object: the
\* test is n # predecessor, and without the assignment n is there already.
NotifyPredecessor(g, x, n) == SetPredecessor(g, x, n)

Stabilize(g, n) ==
  LET node   == g.pred[g.succ[n]]
      behind == node # NULL /\ (n = g.succ[n] \/ node # n)
      h      == IF behind THEN SetSuccessor(g, node, n) ELSE g
  IN  NotifyPredecessor(h, h.succ[n], n)

\* The assignments of join(), whose lookup has returned s.
Join(g, n, s) == SetSuccessor(SetPredecessor(g, n, NULL), n, s)

\* Slip: the preceding node is never told of its new successor.
LinkBySuccessor(g, n, s) ==
  LET settled == Stabilize(Join(g, n, s), n)
  IN  Stabilize(settled, settled.succ[n])

\* jionChord() up to its fixFingers(), the lookup of join() having returned s.
Link(g, n, s) ==
  LET joined    == Join(g, n, s)
      preceding == joined.pred[s]
      settled   == Stabilize(joined, n)
  IN  Stabilize(settled, IF preceding = NULL THEN settled.succ[n] ELSE preceding)

\* leaveChordRing(): the neighbours first, then the leaver's own two pointers.
Unlink(g, n) ==
  LET s == g.succ[n]
      p == g.pred[n]
      h == SetSuccessor(SetPredecessor(g, s, p), p, s)
  IN  SetPredecessor(SetSuccessor(h, n, NULL), n, NULL)
=============================================================================
