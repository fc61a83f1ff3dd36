--------------------------- MODULE RingProperties ---------------------------
(***************************************************************************)
(* What a well-formed ring of module ChordNode is.                         *)
(***************************************************************************)
EXTENDS ChordNode

\* n's successor is the next member clockwise, n itself when it is alone.
NextMember(g, n) ==
  /\ g.succ[n] \in Members(g)
  /\ \A m \in Members(g) \ {n} : g.succ[n] # n /\ Pos(n, g.succ[n]) <= Pos(n, m)

\* Successor and predecessor pointers are inverse at n.
TwoWay(g, n) ==
  /\ g.pred[n] \in Members(g)
  /\ g.pred[g.succ[n]] = n
  /\ g.succ[g.pred[n]] = n

\* The members form one cycle in key order, in both directions.
Ordered(g) == \A n \in Members(g) : NextMember(g, n) /\ TwoWay(g, n)

\* A node outside the ring is as constructed or as leaveChordRing left it.
OutsidersUnlinked(g) == \A n \in Node \ Members(g) : g.succ[n] \in {n, NULL}

\* A finger points to its own node, to a member, or to a node that has left:
\* never to a node that has not joined yet.
FingersKnown(g) ==
  \A n \in Node, i \in Finger :
    g.finger[n][i] \in {n} \cup Members(g) \cup Departed(g)

WellFormed(g) == Ordered(g) /\ OutsidersUnlinked(g) /\ FingersKnown(g)
=============================================================================
