------------------------------ MODULE ChordKey ------------------------------
(***************************************************************************)
(* The ring positions of overlay/ChordKey.java.  A key is the number its   *)
(* bytes spell, so compareTo is the order of the naturals, and MaxKey is   *)
(* the key whose bytes are all 0xff.                                       *)
(***************************************************************************)
EXTENDS Integers

CONSTANT MaxKey

ASSUME MaxKeyAssumption == MaxKey \in Nat

Keys == 0 .. MaxKey

(***************************************************************************)
(* isBetween: strictly inside the arc (from, to).  On an arc that wraps,   *)
(* the two boundary keys 0 and MaxKey are left out; an empty arc           *)
(* (from = to) contains nothing.                                           *)
(***************************************************************************)
IsBetween(k, from, to) ==
  \/ from < to /\ from < k /\ k < to
  \/ from > to /\ \/ from < k /\ k < MaxKey
                  \/ 0 < k /\ k < to

-----------------------------------------------------------------------------
(* The geometry the properties are stated in (no code computes it). *)

\* Clockwise distance from one ring position to another.
Pos(from, k) == IF k >= from THEN k - from ELSE k - from + MaxKey + 1

\* s is the member that supervises k: the first one met going clockwise from k.
IsSuccessorOf(s, k, group) ==
  s \in group /\ \A m \in group : Pos(k, s) <= Pos(k, m)
=============================================================================
