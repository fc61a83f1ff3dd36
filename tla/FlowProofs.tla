----------------------------- MODULE FlowProofs -----------------------------
(***************************************************************************)
(* Proofs about flow collection, for any handler threads, any number of    *)
(* entries and any first capacity.                                         *)
(***************************************************************************)
EXTENDS FlowCollection, FiniteSets, FiniteSetTheorems, TLAPS

Adding == [at : Phase, entry : Entry, need : Entry, array : Array, slot : 0 .. MaxEntry]

\* The phases of add() up to the write of size.
Unsized == {"count", "lost", "check", "grow", "copy", "fetch", "slot", "size"}

\* The entries whose add() has written size: size is at most their number.
Sized == {e \in 1 .. reported : \A h \in Handler : add[h].at \in Unsized => add[h].entry # e}

\* Every add() under way has an entry of its own, and the list has a slot for it.
Reserved ==
  /\ size <= Cardinality(Sized)
  /\ data <= reported
  /\ \A h \in Handler :
       /\ add[h] # Idle => add[h].entry <= reported
       /\ add[h].at = "size" => add[h].slot <= Cardinality(Sized)
       /\ add[h].at = "store" => add[h].slot < MaxEntry
  /\ \A g, h \in Handler :
       add[g] # Idle /\ add[h] # Idle /\ add[g].entry = add[h].entry => g = h

TInv == TypeOK /\ Reserved

LEMMA Numbers ==
  /\ NULL \notin Entry /\ MaxEntry \in Nat
  /\ \A e : e \in Entry <=> e \in Int /\ 1 <= e /\ e <= MaxEntry
  /\ \A i : i \in Slot <=> i \in Int /\ 0 <= i /\ i < MaxEntry
  /\ \A a : a \in Array <=> a \in Int /\ 0 <= a /\ a <= MaxEntry
BY CollectionAssumption DEF Entry, Slot, Array, Empty

LEMMA NotAdding ==
  /\ Idle.at = "idle" /\ Idle \notin Adding
  /\ \A r \in Adding : r.at \in Phase /\ r.entry \in Entry /\ r.need \in Entry
                       /\ r.array \in Array /\ r.slot \in 0 .. MaxEntry
<1>1. "idle" \notin Phase
  BY DEF Phase
<1> QED BY <1>1 DEF Adding, Idle

\* A handler in add() has an entry, an array and a slot.
LEMMA InAdd ==
  ASSUME TypeOK, NEW h \in Handler
  PROVE  /\ add[h] \in Adding \cup {Idle}
         /\ add[h] # Idle => add[h] \in Adding
         /\ add[h].at \in Phase <=> add[h] # Idle
<1>1. add[h] \in Adding \cup {Idle}
  BY DEF TypeOK, Adding
<1>2. "idle" \notin Phase
  BY DEF Phase
<1> QED BY <1>1, <1>2, NotAdding

\* How many have written size.
LEMMA Count ==
  ASSUME TInv
  PROVE  /\ IsFiniteSet(Sized) /\ Cardinality(Sized) \in Nat
         /\ Cardinality(Sized) <= reported
<1>1. reported \in Nat /\ Sized \in SUBSET (1 .. reported)
  BY Numbers DEF TInv, TypeOK, Sized
<1>2. IsFiniteSet(1 .. reported) /\ Cardinality(1 .. reported) = reported
  BY <1>1, FS_Interval
<1>3. IsFiniteSet(Sized) /\ Cardinality(Sized) <= reported
  BY <1>1, <1>2, FS_Subset
<1> QED BY <1>3, FS_CardinalityType

LEMMA InitTInv == Init => TInv
<1> SUFFICES ASSUME Init PROVE TInv
  OBVIOUS
<1>1. add \in [Handler -> Adding \cup {Idle}] /\ \A h \in Handler : add[h] = Idle
  BY DEF Init
<1>2. TypeOK
  <2>1. heap \in [Array -> [Slot -> Entry \cup {NULL}]] /\ length \in [Array -> Nat]
    BY DEF Init
  <2>2. size \in 0 .. MaxEntry /\ reported \in 0 .. MaxEntry /\ cursor \in 0 .. MaxEntry /\ data \in Array
    BY Numbers DEF Init, Array
  <2>3. changed = "no" /\ pc = "sleep" /\ store = {} /\ published = {} /\ again = {} /\ raced = FALSE
    BY DEF Init
  <2> QED BY <1>1, <2>1, <2>2, <2>3 DEF TypeOK, Adding
<1>3. Reserved
  <2>1. Sized = {}
    BY DEF Init, Sized
  <2>2. size = 0 /\ data = 0 /\ reported = 0
    BY DEF Init, Empty
  <2> QED BY <1>1, <2>1, <2>2, FS_EmptySet, NotAdding DEF Reserved
<1> QED BY <1>2, <1>3 DEF TInv

\* The other handlers keep what they have, but for an increment that is lost.
Others(h) ==
  \A g \in Handler : g # h =>
    \/ add'[g] = add[g]
    \/ add[g].at = "count" /\ add'[g] = [add[g] EXCEPT !.at = "lost"]

\* The acting handler moves on within add().
LEMMA OneMoves ==
  ASSUME TypeOK, NEW h \in Handler, NEW r \in Adding \cup {Idle}, add' = [add EXCEPT ![h] = r]
  PROVE  /\ add' \in [Handler -> Adding \cup {Idle}] /\ add'[h] = r /\ Others(h)
         /\ \A g \in Handler : g # h => add'[g] = add[g]
<1>1. add \in [Handler -> Adding \cup {Idle}]
  BY DEF TypeOK, Adding
<1> QED BY <1>1 DEF Others

LEMMA Lost ==
  ASSUME NEW calls \in [Handler -> Adding \cup {Idle}], NEW g \in Handler
  PROVE  /\ LostTo(calls) \in [Handler -> Adding \cup {Idle}]
         /\ calls[g].at # "count" => LostTo(calls)[g] = calls[g]
         /\ calls[g].at = "count" => LostTo(calls)[g] = [calls[g] EXCEPT !.at = "lost"]
<1>1. ASSUME NEW k \in Handler
      PROVE  /\ [calls[k] EXCEPT !.at = IF @ = "count" THEN "lost" ELSE @] \in Adding \cup {Idle}
             /\ calls[k].at # "count" => [calls[k] EXCEPT !.at = IF @ = "count" THEN "lost" ELSE @] = calls[k]
  <2>1. CASE calls[k] = Idle
    BY <2>1 DEF Idle
  <2>2. CASE calls[k] \in Adding
    BY <2>2 DEF Adding, Phase
  <2> QED BY <2>1, <2>2
<1> QED BY <1>1 DEF LostTo

\* A step within add() before size is written.
LEMMA UnsizedStep ==
  ASSUME TInv, NEW h \in Handler, NEW r \in Adding, add[h] \in Adding, add[h].at \in Unsized,
         r.at \in Unsized, r.entry = add[h].entry, r.at = "size" => r.slot <= size,
         add'[h] = r, Others(h), add' \in [Handler -> Adding \cup {Idle}],
         reported' = reported, size' = size, data' <= reported
  PROVE  Reserved' /\ Sized' = Sized
<1>1. \A g \in Handler : (add'[g].at \in Unsized <=> add[g].at \in Unsized)
                         /\ (add'[g] # Idle <=> add[g] # Idle)
                         /\ (add[g] # Idle => add'[g].entry = add[g].entry)
  <2>1. ASSUME NEW g \in Handler, g # h, add[g].at = "count", add'[g] = [add[g] EXCEPT !.at = "lost"]
        PROVE  add[g] \in Adding /\ add'[g] \in Adding /\ add'[g].at = "lost" /\ add'[g].entry = add[g].entry
    <3>1. add[g] \in Adding
      BY <2>1, InAdd, NotAdding DEF TInv, Phase
    <3> QED BY <2>1, <3>1 DEF Adding, Phase
  <2>2. add[h] # Idle /\ r # Idle
    BY NotAdding
  <2> QED BY <2>1, <2>2, NotAdding DEF Others, Unsized
<1>2. Sized' = Sized
  <2>1. \A g \in Handler : add[g].at \in Unsized => add[g] # Idle
    BY NotAdding DEF Unsized
  <2> QED BY <1>1, <2>1 DEF Sized
<1>3. ASSUME NEW g \in Handler
      PROVE  /\ add'[g] # Idle => add'[g].entry <= reported
             /\ add'[g].at = "size" => add'[g].slot <= Cardinality(Sized)
             /\ add'[g].at = "store" => add'[g].slot < MaxEntry
  <2>1. CASE g = h
    <3>1. size <= Cardinality(Sized) /\ Cardinality(Sized) \in Int /\ size \in Int /\ r.slot \in Int
      BY Count, NotAdding, Numbers DEF TInv, TypeOK, Reserved
    <3>2. r.at # "store"
      BY DEF Unsized
    <3> QED BY <1>1, <2>1, <3>1, <3>2 DEF TInv, Reserved
  <2>2. CASE g # h
    <3>1. CASE add'[g] = add[g]
      BY <2>2, <3>1 DEF TInv, Reserved
    <3>2. CASE add[g].at = "count" /\ add'[g] = [add[g] EXCEPT !.at = "lost"]
      <4>1. add[g] \in Adding
        BY <3>2, InAdd, NotAdding DEF TInv, Phase
      <4>2. add'[g].at = "lost"
        BY <3>2, <4>1 DEF Adding
      <4> QED BY <1>1, <4>2 DEF TInv, Reserved
    <3> QED BY <2>2, <3>1, <3>2 DEF Others
  <2> QED BY <2>1, <2>2
<1>4. size <= Cardinality(Sized)
  BY DEF TInv, Reserved
<1>5. \A f, g \in Handler : add'[f] # Idle /\ add'[g] # Idle /\ add'[f].entry = add'[g].entry => f = g
  BY <1>1 DEF TInv, Reserved
<1>6. Reserved'
  BY <1>2, <1>3, <1>4, <1>5 DEF Reserved
<1> QED BY <1>2, <1>6

LEMMA AddBeginTypes ==
  ASSUME TInv, NEW h \in Handler, AddBegin(h)
  PROVE  TInv'
<1> DEFINE r == [at |-> "count", entry |-> reported + 1, need |-> size + 1, array |-> Empty, slot |-> 0]
<1>1. /\ add[h] = Idle /\ reported < MaxEntry /\ reported' = reported + 1
      /\ add' = [add EXCEPT ![h] = r] /\ raced' \in BOOLEAN
      /\ UNCHANGED <<heap, length, data, size, changed, pc, cursor, store, published, again>>
  BY DEF AddBegin, array, collector, TInv, TypeOK
<1>2. /\ reported \in Int /\ size \in Int /\ 0 <= size /\ 0 <= reported /\ size <= reported
      /\ reported + 1 \in Entry /\ size + 1 \in Entry /\ data \in Int
  <2>1. Cardinality(Sized) \in Int /\ Cardinality(Sized) <= reported /\ size <= Cardinality(Sized)
    BY Count DEF TInv, Reserved
  <2>2. reported \in 0 .. MaxEntry /\ size \in 0 .. MaxEntry /\ data \in Array
    BY DEF TInv, TypeOK
  <2> HIDE DEF r
  <2> QED BY <1>1, <2>1, <2>2, Numbers
<1>3. r \in Adding /\ r.at = "count" /\ r.entry = reported + 1 /\ r # Idle
  <2>1. r \in Adding
    BY <1>2, Numbers DEF Adding, Phase, Array
  <2> QED BY <2>1, NotAdding
<1> HIDE DEF r
<1>4. add' \in [Handler -> Adding \cup {Idle}] /\ add'[h] = r /\ \A g \in Handler : g # h => add'[g] = add[g]
  BY <1>1, <1>3, OneMoves DEF TInv
<1>5. TypeOK'
  BY <1>1, <1>2, <1>4, Numbers DEF TInv, TypeOK, Adding
<1>6. \A g \in Handler : add[g] # Idle => add[g].entry \in Int /\ add[g].entry <= reported
  BY InAdd, NotAdding, Numbers DEF TInv, Reserved
<1>7. Sized' = Sized
  <2>1. ASSUME NEW e
        PROVE  e \in Sized' <=> e \in Sized
    <3>1. e \in Sized' <=> /\ e \in 1 .. reported + 1 /\ e # reported + 1
                           /\ \A g \in Handler : g # h /\ add[g].at \in Unsized => add[g].entry # e
      BY <1>1, <1>3, <1>4 DEF Sized, Unsized
    <3>2. add[h].at \notin Unsized
      BY <1>1, NotAdding DEF Unsized
    <3>3. e \in 1 .. reported + 1 /\ e # reported + 1 <=> e \in 1 .. reported
      BY <1>2
    <3> QED BY <3>1, <3>2, <3>3 DEF Sized
  <2> QED BY <2>1
<1>8. Reserved'
  <2>1. ASSUME NEW g \in Handler
        PROVE  /\ add'[g] # Idle => add'[g].entry <= reported + 1
               /\ add'[g].at = "size" => add'[g].slot <= Cardinality(Sized)
               /\ add'[g].at = "store" => add'[g].slot < MaxEntry
    BY <1>2, <1>3, <1>4, <1>6 DEF TInv, Reserved
  <2>2. ASSUME NEW f \in Handler, NEW g \in Handler, add'[f] # Idle, add'[g] # Idle,
               add'[f].entry = add'[g].entry
        PROVE  f = g
    BY <1>2, <1>3, <1>4, <1>6, <2>2 DEF TInv, Reserved
  <2>3. data <= reported + 1
    BY <1>2 DEF TInv, Reserved
  <2> QED BY <1>1, <1>7, <2>1, <2>2, <2>3 DEF TInv, Reserved
<1> QED BY <1>5, <1>8 DEF TInv

\* What the steps before the write of size have in common.
LEMMA UnsizedTypes ==
  ASSUME TInv, NEW h \in Handler, NEW r \in Adding, add[h] \in Adding, add[h].at \in Unsized,
         r.at \in Unsized, r.entry = add[h].entry, r.at = "size" => r.slot <= size,
         add' = [add EXCEPT ![h] = r],
         UNCHANGED <<size, changed, reported, collector, raced>>,
         heap' \in [Array -> [Slot -> Entry \cup {NULL}]], length' \in [Array -> Nat],
         data' \in Array, data' <= reported
  PROVE  TInv'
<1>1. add' \in [Handler -> Adding \cup {Idle}] /\ add'[h] = r /\ Others(h)
  BY OneMoves DEF TInv
<1>2. Reserved'
  BY <1>1, UnsizedStep
<1>3. TypeOK'
  BY <1>1 DEF TInv, TypeOK, Adding, collector
<1> QED BY <1>2, <1>3 DEF TInv

LEMMA AddCountTypes ==
  ASSUME TInv, NEW h \in Handler, AddCount(h)
  PROVE  TInv' /\ Others(h) /\ add'[h] = [add[h] EXCEPT !.at = "check"] /\ add[h] \in Adding
<1> DEFINE r == [add[h] EXCEPT !.at = "check"]
           calls == [add EXCEPT ![h] = r]
<1>1. /\ add[h].at \in {"count", "lost"} /\ changed' \in {"no", "maybe", "yes"}
      /\ add' = LostTo(calls)
      /\ UNCHANGED <<heap, length, data, size, reported, pc, cursor, store, published, again, raced>>
  BY DEF AddCount, array, collector
<1>2. add[h] \in Adding
  BY <1>1, InAdd DEF TInv, Phase
<1>3. r \in Adding /\ r.at = "check" /\ r.entry = add[h].entry
  BY <1>2 DEF Adding, Phase
<1> HIDE DEF r
<1>4. add \in [Handler -> Adding \cup {Idle}]
  BY DEF TInv, TypeOK, Adding
<1>5. calls \in [Handler -> Adding \cup {Idle}] /\ calls[h] = r /\ \A g \in Handler : g # h => calls[g] = add[g]
  BY <1>3, <1>4
<1> HIDE DEF calls
<1>6. add' \in [Handler -> Adding \cup {Idle}] /\ add'[h] = r
  BY <1>1, <1>3, <1>5, Lost
<1>7. Others(h)
  BY <1>1, <1>5, Lost DEF Others
<1>8. Reserved'
  BY <1>1, <1>2, <1>3, <1>6, <1>7, UnsizedStep DEF Unsized, TInv, Reserved
<1>9. TypeOK'
  BY <1>1, <1>6 DEF TInv, TypeOK, Adding
<1> QED BY <1>2, <1>6, <1>7, <1>8, <1>9 DEF TInv, r

\* The new capacity: what is needed, and more than the old one when that is less.
LEMMA Capacity ==
  ASSUME NEW need \in Nat, NEW old \in Nat
  PROVE  NewCapacity(need, old) \in Nat /\ NewCapacity(need, old) >= need
BY DEF NewCapacity

LEMMA NeededIs ==
  ASSUME NEW need \in Entry
  PROVE  Needed(need) \in Nat /\ Needed(need) >= need
BY Numbers, CollectionAssumption DEF Needed

\* The steps before the write of size change one field or two of the record.
LEMMA AddCheckTypes ==
  ASSUME TInv, NEW h \in Handler, AddCheck(h)
  PROVE  TInv'
<1>1. /\ add[h].at = "check"
      /\ \/ /\ length' = [length EXCEPT ![add[h].entry] = NewCapacity(Needed(add[h].need), length[data])]
            /\ add' = [add EXCEPT ![h].at = "grow"]
         \/ add' = [add EXCEPT ![h].at = "fetch"] /\ length' = length
      /\ UNCHANGED <<heap, data, size, changed, reported, collector, raced>>
  BY DEF AddCheck
<1>2. add[h] \in Adding
  BY <1>1, InAdd DEF TInv, Phase
<1>3. length' \in [Array -> Nat]
  <2>1. NewCapacity(Needed(add[h].need), length[data]) \in Nat
    BY <1>2, NotAdding, NeededIs, Capacity DEF TInv, TypeOK
  <2> HIDE DEF NewCapacity
  <2> QED BY <1>1, <2>1 DEF TInv, TypeOK
<1>4. PICK at \in {"grow", "fetch"} : add' = [add EXCEPT ![h].at = at]
  BY <1>1
<1> DEFINE r == [add[h] EXCEPT !.at = at]
<1>5. r \in Adding /\ r.at \in Unsized /\ r.at # "size" /\ r.entry = add[h].entry
  BY <1>2, <1>4 DEF Adding, Phase, Unsized
<1>6. add' = [add EXCEPT ![h] = r]
  BY <1>4
<1> HIDE DEF r
<1> QED BY <1>1, <1>2, <1>3, <1>5, <1>6, UnsizedTypes DEF TInv, TypeOK, Reserved, Unsized

LEMMA AddGrowTypes ==
  ASSUME TInv, NEW h \in Handler, AddGrow(h)
  PROVE  TInv'
<1>1. /\ add[h].at = "grow" /\ add' = [add EXCEPT ![h].at = "copy", ![h].array = data]
      /\ UNCHANGED <<heap, length, data, size, changed, reported, collector, raced>>
  BY DEF AddGrow, array
<1>2. add[h] \in Adding
  BY <1>1, InAdd DEF TInv, Phase
<1> DEFINE r == [add[h] EXCEPT !.at = "copy", !.array = data]
<1>3. r \in Adding /\ r.at = "copy" /\ r.entry = add[h].entry
  BY <1>2 DEF Adding, Phase, TInv, TypeOK
<1>4. add' = [add EXCEPT ![h] = r]
  BY <1>1
<1> HIDE DEF r
<1> QED BY <1>1, <1>2, <1>3, <1>4, UnsizedTypes DEF TInv, TypeOK, Reserved, Unsized

LEMMA AddCopyTypes ==
  ASSUME TInv, NEW h \in Handler, AddCopy(h)
  PROVE  TInv'
<1> DEFINE from == add[h].array
           to == add[h].entry
           i == add[h].slot
<1>1. add[h].at = "copy" /\ UNCHANGED <<length, size, changed, reported, collector, raced>>
  BY DEF AddCopy
<1>2. add[h] \in Adding /\ from \in Array /\ to \in Array /\ i \in 0 .. MaxEntry
      /\ to <= reported
  BY <1>1, InAdd, NotAdding, Numbers DEF TInv, Reserved, Phase
<1>3. CASE i \in Common(from, to)
  <2>1. heap' = [heap EXCEPT ![to][i] = heap[from][i]] /\ add' = [add EXCEPT ![h].slot = i + 1] /\ data' = data
    BY <1>3 DEF AddCopy
  <2>2. i \in Slot /\ i + 1 \in 0 .. MaxEntry
    BY <1>3, Numbers DEF Common
  <2>3. heap' \in [Array -> [Slot -> Entry \cup {NULL}]]
    BY <1>2, <2>1, <2>2 DEF TInv, TypeOK
  <2> DEFINE r == [add[h] EXCEPT !.slot = i + 1]
  <2>4. r \in Adding /\ r.at = "copy" /\ r.entry = add[h].entry
    BY <1>1, <1>2, <2>2 DEF Adding
  <2>5. add' = [add EXCEPT ![h] = r]
    BY <2>1
  <2> HIDE DEF r
  <2> QED BY <1>1, <1>2, <2>1, <2>3, <2>4, <2>5, UnsizedTypes DEF TInv, TypeOK, Reserved, Unsized
<1>4. CASE i \notin Common(from, to)
  <2>1. heap' = heap /\ data' = to
        /\ add' = [add EXCEPT ![h].at = "fetch", ![h].array = Empty, ![h].slot = 0]
    BY <1>4 DEF AddCopy
  <2> DEFINE r == [add[h] EXCEPT !.at = "fetch", !.array = Empty, !.slot = 0]
  <2>2. r \in Adding /\ r.at = "fetch" /\ r.entry = add[h].entry
    <3>1. Empty \in Array /\ 0 \in 0 .. MaxEntry
      BY Numbers DEF Array
    <3> QED BY <1>2, <3>1 DEF Adding, Phase
  <2>3. add' = [add EXCEPT ![h] = r]
    BY <2>1
  <2> HIDE DEF r
  <2> QED BY <1>1, <1>2, <2>1, <2>2, <2>3, UnsizedTypes DEF TInv, TypeOK, Reserved, Unsized
<1> QED BY <1>3, <1>4

LEMMA AddFetchTypes ==
  ASSUME TInv, NEW h \in Handler, AddFetch(h)
  PROVE  TInv'
<1>1. /\ add[h].at = "fetch" /\ add' = [add EXCEPT ![h].at = "slot", ![h].array = data]
      /\ UNCHANGED <<heap, length, data, size, changed, reported, collector, raced>>
  BY DEF AddFetch, array
<1>2. add[h] \in Adding
  BY <1>1, InAdd DEF TInv, Phase
<1> DEFINE r == [add[h] EXCEPT !.at = "slot", !.array = data]
<1>3. r \in Adding /\ r.at = "slot" /\ r.entry = add[h].entry
  BY <1>2 DEF Adding, Phase, TInv, TypeOK
<1>4. add' = [add EXCEPT ![h] = r]
  BY <1>1
<1> HIDE DEF r
<1> QED BY <1>1, <1>2, <1>3, <1>4, UnsizedTypes DEF TInv, TypeOK, Reserved, Unsized

LEMMA AddSlotTypes ==
  ASSUME TInv, NEW h \in Handler, AddSlot(h)
  PROVE  TInv'
<1>1. /\ add[h].at = "slot" /\ add' = [add EXCEPT ![h].at = "size", ![h].slot = size]
      /\ UNCHANGED <<heap, length, data, size, changed, reported, collector, raced>>
  BY DEF AddSlot, array
<1>2. add[h] \in Adding /\ size \in Int
  BY <1>1, InAdd DEF TInv, TypeOK, Phase
<1> DEFINE r == [add[h] EXCEPT !.at = "size", !.slot = size]
<1>3. r \in Adding /\ r.at = "size" /\ r.entry = add[h].entry /\ r.slot <= size
  <2>1. size \in 0 .. MaxEntry /\ size <= size
    BY <1>2 DEF TInv, TypeOK
  <2> QED BY <1>2, <2>1 DEF Adding, Phase
<1>4. add' = [add EXCEPT ![h] = r]
  BY <1>1
<1> HIDE DEF r
<1> QED BY <1>1, <1>2, <1>3, <1>4, UnsizedTypes DEF TInv, TypeOK, Reserved, Unsized

\* One more entry has been given a slot.
LEMMA AddSizeTypes ==
  ASSUME TInv, NEW h \in Handler, AddSize(h)
  PROVE  TInv'
<1> DEFINE r == [add[h] EXCEPT !.at = "store"]
           e == add[h].entry
<1>1. /\ add[h].at = "size" /\ size' = add[h].slot + 1 /\ add' = [add EXCEPT ![h] = r]
      /\ UNCHANGED <<heap, length, data, changed, reported, collector, raced>>
  BY DEF AddSize, array
<1>2. add[h] \in Adding /\ add[h] # Idle /\ e \in Entry /\ e <= reported /\ add[h].slot \in 0 .. MaxEntry
      /\ add[h].slot <= Cardinality(Sized)
  BY <1>1, InAdd, NotAdding DEF TInv, Reserved, Phase
<1>3. r \in Adding /\ r.at = "store" /\ r.entry = e /\ r.slot = add[h].slot /\ r # Idle
  BY <1>2, NotAdding DEF Adding, Phase
<1>4. e \in 1 .. reported /\ e \notin Sized
  BY <1>1, <1>2, Numbers DEF TInv, TypeOK, Sized, Unsized
<1> HIDE DEF r, e
<1>5. add' \in [Handler -> Adding \cup {Idle}] /\ add'[h] = r /\ \A g \in Handler : g # h => add'[g] = add[g]
  BY <1>1, <1>3, OneMoves DEF TInv
<1>6. Sized' = Sized \cup {e}
  <2>1. ASSUME NEW g \in Handler, g # h, add[g].at \in Unsized
        PROVE  add[g].entry # e
    <3>1. add[g] # Idle
      BY <2>1, NotAdding DEF Unsized
    <3> QED BY <1>2, <2>1, <3>1 DEF TInv, Reserved, e
  <2>2. ASSUME NEW x
        PROVE  x \in Sized' <=> x \in 1 .. reported /\ \A g \in Handler : g # h /\ add[g].at \in Unsized => add[g].entry # x
    BY <1>1, <1>3, <1>5 DEF Sized, Unsized
  <2>3. ASSUME NEW x
        PROVE  x \in Sized <=> /\ x \in 1 .. reported /\ x # e
                               /\ \A g \in Handler : g # h /\ add[g].at \in Unsized => add[g].entry # x
    BY <1>1 DEF Sized, Unsized, e
  <2>4. ASSUME NEW x
        PROVE  x \in Sized' <=> x \in Sized \/ x = e
    BY <1>4, <2>1, <2>2, <2>3
  <2> QED BY <2>4
<1>7. IsFiniteSet(Sized) /\ Cardinality(Sized) \in Nat /\ Cardinality(Sized') = Cardinality(Sized) + 1
  BY <1>4, <1>6, Count, FS_AddElement
<1>8. Cardinality(Sized') <= reported
  <2>1. reported \in Nat /\ Sized' \in SUBSET (1 .. reported)
    BY <1>4, <1>6, Numbers DEF TInv, TypeOK, Sized
  <2>2. IsFiniteSet(1 .. reported) /\ Cardinality(1 .. reported) = reported
    BY <2>1, FS_Interval
  <2> QED BY <2>1, <2>2, FS_Subset
<1>9. reported \in 0 .. MaxEntry /\ size \in 0 .. MaxEntry
  BY DEF TInv, TypeOK
<1>10. size' \in 0 .. MaxEntry /\ size' <= Cardinality(Sized') /\ add[h].slot < MaxEntry
  BY <1>1, <1>2, <1>7, <1>8, <1>9, Numbers
<1>11. TypeOK'
  BY <1>1, <1>5, <1>10 DEF TInv, TypeOK, Adding, collector
<1>12. Reserved'
  <2>1. ASSUME NEW g \in Handler
        PROVE  /\ add'[g] # Idle => add'[g].entry <= reported
               /\ add'[g].at = "size" => add'[g].slot <= Cardinality(Sized')
               /\ add'[g].at = "store" => add'[g].slot < MaxEntry
    <3>1. CASE g = h
      BY <1>2, <1>3, <1>5, <1>10, <3>1 DEF e
    <3>2. CASE g # h
      <4>1. add[g].at = "size" => add[g].slot \in Int
        BY InAdd, NotAdding DEF TInv, Phase
      <4> QED BY <1>5, <1>7, <3>2, <4>1 DEF TInv, Reserved
    <3> QED BY <3>1, <3>2
  <2>2. ASSUME NEW f \in Handler, NEW g \in Handler, add'[f] # Idle, add'[g] # Idle,
               add'[f].entry = add'[g].entry
        PROVE  f = g
    BY <1>2, <1>3, <1>5, <2>2 DEF TInv, Reserved, e
  <2> QED BY <1>1, <1>10, <2>1, <2>2 DEF TInv, Reserved
<1> QED BY <1>11, <1>12 DEF TInv

LEMMA AddStoreTypes ==
  ASSUME TInv, NEW h \in Handler, AddStore(h)
  PROVE  TInv'
<1>1. /\ add[h].at = "store" /\ add' = [add EXCEPT ![h] = Idle]
      /\ \/ heap' = [heap EXCEPT ![add[h].array][add[h].slot] = add[h].entry]
         \/ heap' = heap
      /\ UNCHANGED <<length, data, size, changed, reported, collector, raced>>
  BY DEF AddStore
<1>2. add[h] \in Adding /\ add[h].array \in Array /\ add[h].entry \in Entry /\ add[h].slot \in Slot
  BY <1>1, InAdd, NotAdding, Numbers DEF TInv, Reserved, Phase
<1>3. add' \in [Handler -> Adding \cup {Idle}] /\ add'[h] = Idle /\ \A g \in Handler : g # h => add'[g] = add[g]
  BY <1>1, OneMoves DEF TInv
<1>4. heap' \in [Array -> [Slot -> Entry \cup {NULL}]]
  BY <1>1, <1>2 DEF TInv, TypeOK
<1>5. TypeOK'
  BY <1>1, <1>3, <1>4 DEF TInv, TypeOK, Adding, collector
<1>6. Sized' = Sized
  BY <1>1, <1>3, NotAdding DEF Sized, Unsized
<1>7. Reserved'
  BY <1>1, <1>3, <1>6, NotAdding DEF TInv, Reserved
<1> QED BY <1>5, <1>7 DEF TInv

\* The collector: the increments it makes lost move no one on.
LEMMA CollectorTypes ==
  ASSUME TInv, add' = add \/ add' = LostTo(add), UNCHANGED <<length, data, reported>>,
         size' \in {0, size}
  PROVE  Reserved' /\ add' \in [Handler -> Adding \cup {Idle}] /\ size' \in 0 .. MaxEntry
         /\ \A g \in Handler :
              \/ add'[g] = add[g]
              \/ add[g].at = "count" /\ add'[g] = [add[g] EXCEPT !.at = "lost"]
<1>1. add \in [Handler -> Adding \cup {Idle}]
  BY DEF TInv, TypeOK, Adding
<1>2. add' \in [Handler -> Adding \cup {Idle}] /\ \A g \in Handler :
        \/ add'[g] = add[g]
        \/ add[g].at = "count" /\ add'[g] = [add[g] EXCEPT !.at = "lost"]
  <2>1. CASE add' = add
    BY <1>1, <2>1
  <2>2. CASE add' = LostTo(add)
    <3>1. ASSUME NEW g \in Handler
          PROVE  \/ LostTo(add)[g] = add[g]
                 \/ add[g].at = "count" /\ LostTo(add)[g] = [add[g] EXCEPT !.at = "lost"]
      BY <1>1, Lost
    <3>2. LostTo(add) \in [Handler -> Adding \cup {Idle}]
      <4>1. CASE Handler = {}
        BY <4>1 DEF LostTo
      <4>2. CASE Handler # {}
        BY <1>1, <4>2, Lost
      <4> QED BY <4>1, <4>2
    <3> QED BY <2>2, <3>1, <3>2
  <2> QED BY <2>1, <2>2
<1>3. \A g \in Handler : /\ add'[g].at \in Unsized <=> add[g].at \in Unsized
                         /\ add'[g] # Idle <=> add[g] # Idle
                         /\ add[g] # Idle => add'[g].entry = add[g].entry
                         /\ add'[g].at \in {"size", "store"} => add'[g] = add[g]
  <2>1. ASSUME NEW g \in Handler, add[g].at = "count", add'[g] = [add[g] EXCEPT !.at = "lost"]
        PROVE  add[g] \in Adding /\ add'[g] \in Adding /\ add'[g].at = "lost" /\ add'[g].entry = add[g].entry
    <3>1. add[g] \in Adding
      BY <2>1, InAdd, NotAdding DEF TInv, Phase
    <3> QED BY <2>1, <3>1 DEF Adding, Phase
  <2> QED BY <1>2, <2>1, NotAdding DEF Unsized
<1>4. Sized' = Sized
  <2>1. \A g \in Handler : add[g].at \in Unsized => add[g] # Idle
    BY NotAdding DEF Unsized
  <2> QED BY <1>3, <2>1 DEF Sized
<1>5. size' \in 0 .. MaxEntry /\ size' <= Cardinality(Sized)
  <2>1. Cardinality(Sized) \in Nat /\ size <= Cardinality(Sized) /\ size \in 0 .. MaxEntry
    BY Count DEF TInv, TypeOK, Reserved
  <2> QED BY <2>1, Numbers
<1>6. Reserved'
  BY <1>3, <1>4, <1>5 DEF TInv, Reserved
<1> QED BY <1>2, <1>5, <1>6

LEMMA CollectTypes ==
  ASSUME TInv, Collect
  PROVE  TInv'
<1>1. CASE Wake \/ ShowHasNext \/ ShowNext \/ CopyHasNext \/ ClearReset \/ NextThrows
  <2>1. /\ add' = add \/ add' = LostTo(add)
        /\ UNCHANGED <<heap, length, data, reported, published, again, raced>>
        /\ size' \in {0, size} /\ store' \in {{}, store} /\ changed' \in {"no", changed}
        /\ \/ cursor' \in {0, cursor}
           \/ cursor' = cursor + 1 /\ ~(cursor >= size)
        /\ pc' \in {"sleep", "show", "shown", "copy", "copied", "clear", "reset", "dead"}
    <3>1. CASE Wake
      BY <3>1 DEF Wake, Iterate, array, handlers, history
    <3>2. CASE ShowHasNext
      BY <3>2 DEF ShowHasNext, Iterate, array, handlers, history
    <3>3. CASE ShowNext
      BY <3>3 DEF ShowNext, NextThrows, Past, array, handlers, history
    <3>4. CASE CopyHasNext
      BY <3>4 DEF CopyHasNext, array, history
    <3>5. CASE ClearReset
      BY <3>5 DEF ClearReset, array, handlers, history
    <3>6. CASE NextThrows
      BY <3>6 DEF NextThrows, array, handlers, history
    <3> QED BY <1>1, <3>1, <3>2, <3>3, <3>4, <3>5, <3>6
  <2>2. cursor' \in 0 .. MaxEntry
    <3>1. cursor \in 0 .. MaxEntry /\ size \in 0 .. MaxEntry
      BY DEF TInv, TypeOK
    <3> QED BY <2>1, <3>1, Numbers
  <2>3. Reserved' /\ add' \in [Handler -> Adding \cup {Idle}] /\ size' \in 0 .. MaxEntry
    BY <2>1, CollectorTypes
  <2> QED BY <2>1, <2>2, <2>3 DEF TInv, TypeOK, Adding
<1>2. CASE CopyNext /\ ~NextThrows
  <2>1. /\ ~(cursor >= size) /\ pc' = "copy" /\ cursor' = cursor + 1
        /\ store' = store \cup ({heap[data][cursor]} \ {NULL})
        /\ again' = again \cup ({heap[data][cursor]} \cap published)
        /\ published' = published \cup ({heap[data][cursor]} \ {NULL})
        /\ UNCHANGED <<heap, length, data, size, changed, add, reported, raced>>
    BY <1>2 DEF CopyNext, Past, array, handlers
  <2>2. cursor \in Slot /\ cursor' \in 0 .. MaxEntry
    <3>1. cursor \in 0 .. MaxEntry /\ size \in 0 .. MaxEntry
      BY DEF TInv, TypeOK
    <3> QED BY <2>1, <3>1, Numbers
  <2>3. heap[data][cursor] \in Entry \cup {NULL}
    BY <2>2 DEF TInv, TypeOK
  <2>4. store' \subseteq Entry /\ published' \subseteq Entry /\ again' \subseteq published'
    <3>1. store \subseteq Entry /\ published \subseteq Entry /\ again \subseteq published
      BY DEF TInv, TypeOK
    <3> QED BY <2>1, <2>3, <3>1, Numbers
  <2>5. Reserved'
    BY <2>1, CollectorTypes
  <2> QED BY <2>1, <2>2, <2>4, <2>5 DEF TInv, TypeOK, Adding
<1>3. CASE ClearSlot
  <2>1. /\ pc' \in {"clear", "dead", "reset"} /\ raced' \in BOOLEAN
        /\ \/ heap' = heap
           \/ heap' = [heap EXCEPT ![data][cursor] = NULL]
        /\ \/ cursor' \in {0, cursor}
           \/ cursor' = cursor + 1 /\ cursor < size
        /\ UNCHANGED <<length, data, size, changed, add, reported, store, published, again>>
    BY <1>3 DEF ClearSlot, handlers, TInv, TypeOK
  <2>2. cursor' \in 0 .. MaxEntry
    <3>1. cursor \in 0 .. MaxEntry /\ size \in 0 .. MaxEntry
      BY DEF TInv, TypeOK
    <3> QED BY <2>1, <3>1, Numbers
  <2>3. heap' \in [Array -> [Slot -> Entry \cup {NULL}]]
    BY <2>1 DEF TInv, TypeOK
  <2>4. Reserved'
    BY <2>1, CollectorTypes
  <2> QED BY <2>1, <2>2, <2>3, <2>4 DEF TInv, TypeOK, Adding
<1> QED BY <1>1, <1>2, <1>3 DEF Collect

LEMMA TypesKept ==
  ASSUME TInv, [Next]_vars
  PROVE  TInv'
<1>1. CASE UNCHANGED vars
  <2>1. Sized' = Sized
    BY <1>1 DEF Sized, vars
  <2> QED BY <1>1, <2>1 DEF TInv, TypeOK, Reserved, vars
<1> QED BY <1>1, AddBeginTypes, AddCountTypes, AddCheckTypes, AddGrowTypes, AddCopyTypes, AddFetchTypes,
           AddSlotTypes, AddSizeTypes, AddStoreTypes, CollectTypes DEF Next, Add

LEMMA TInvariance == Spec => []TInv
BY InitTInv, TypesKept, PTL DEF Spec

\* PacketProcess.java:85, ArrayList.add() in any number of handler threads: the
\* list never has a size above the number of entries it was given, whatever
\* sizes, arrays and counts the threads overwrite; an add() that runs over the
\* end of an array leaves it as it is.
THEOREM TypeCorrect == Spec => []TypeOK
<1>1. TInv => TypeOK
  BY DEF TInv
<1> QED BY <1>1, TInvariance, PTL

-----------------------------------------------------------------------------
(* As long as there was no race *)

OneAdd == \A g, h \in Handler : add[g] # Idle /\ add[h] # Idle => g = h

\* The element at i, in whatever array.
Element(i) == heap[data][i]

\* An array that is not the list's yet is empty but for what has been copied.
\* The one add() under way needs more than the size, has seen or made an array
\* that long, and holds the list's array.
AddInv(h) ==
  LET r == add[h] IN
  /\ r.at \in {"count", "lost", "check", "grow", "copy", "fetch", "slot"} => size < r.need
  /\ r.at \in {"count", "lost", "check", "grow", "copy"} => data < r.entry
  /\ r.at \in {"count", "lost", "check", "grow"} =>
       r.slot = 0 /\ \A i \in Slot : heap[r.entry][i] = NULL
  /\ r.at \in {"grow", "copy"} => length[data] < length[r.entry] /\ r.need <= length[r.entry]
  /\ r.at = "copy" =>
       /\ r.array = data
       /\ \A i \in Slot : heap[r.entry][i] = IF i < r.slot THEN Element(i) ELSE NULL
  /\ r.at \in {"fetch", "slot"} => r.need <= length[data]
  /\ r.at \in {"slot", "size", "store"} => r.array = data
  /\ r.at = "size" => size <= r.slot
  /\ r.at \in {"size", "store"} => r.slot < length[data]

ArrayInv ==
  /\ \A a \in Array : a > reported => \A i \in Slot : heap[a][i] = NULL
  /\ \A i \in Slot : i >= length[data] => Element(i) = NULL
  /\ size <= length[data]
  /\ \A h \in Handler : AddInv(h)

\* The iterator stays within the list, and throws for a modification only.
WalkInv ==
  /\ pc \in {"show", "copy"} => cursor <= size
  /\ pc \in {"shown", "copied"} => cursor < size
  /\ pc = "dead" => changed # "no"

\* An entry is in one slot, and in none before its add() is over.
Waiting(e) == e > reported \/ \E h \in Handler : add[h] # Idle /\ e = add[h].entry

SlotInv ==
  /\ \A i, k \in Slot : Element(i) # NULL /\ Element(i) = Element(k) => i = k
  /\ \A e \in Entry : Waiting(e) => e \notin published /\ \A i \in Slot : Element(i) # e

\* Where an entry that has been published may still be in the list.
Spent(i) ==
  \/ pc \in {"copy", "copied"} /\ i < cursor
  \/ pc = "clear" /\ cursor <= i /\ i < size
  \/ pc = "dead"

SpentInv ==
  /\ \A i \in Slot : Element(i) \in published => Spent(i)
  /\ again = {}

Quiet == OneAdd /\ ArrayInv /\ WalkInv /\ SlotInv /\ SpentInv

LEMMA InitQuiet == Init => Quiet
<1> SUFFICES ASSUME Init PROVE Quiet
  OBVIOUS
<1>1. \A h \in Handler : add[h] = Idle
  BY DEF Init
<1>2. \A a \in Array, i \in Slot : heap[a][i] = NULL
  BY DEF Init
<1>3. data \in Array /\ length[data] = 0 /\ size = 0 /\ pc = "sleep" /\ published = {} /\ again = {}
  BY Numbers DEF Init, Array
<1>4. ArrayInv
  BY <1>1, <1>2, <1>3, NotAdding DEF ArrayInv, AddInv, Element
<1>5. SlotInv
  BY <1>2, <1>3, Numbers DEF SlotInv, Element
<1> QED BY <1>1, <1>3, <1>4, <1>5 DEF Quiet, OneAdd, WalkInv, SpentInv

\* The other handlers do nothing.
LEMMA Alone ==
  ASSUME TInv, OneAdd, NEW h \in Handler, add[h] # Idle, Others(h)
  PROVE  \A g \in Handler : g # h => add[g] = Idle /\ add'[g] = Idle
BY NotAdding DEF OneAdd, Others

\* A step of the acting handler that keeps the elements.
LEMMA HandlerKeeps ==
  ASSUME TInv, Quiet, NEW h \in Handler, \A g \in Handler : g # h => add'[g] = Idle,
         AddInv(h)', add'[h] # Idle => add'[h].entry = add[h].entry /\ add[h] # Idle,
         reported' = reported, data' \in Array, length'[data'] \in Nat, length'[data'] >= length[data],
         \A i \in Slot : Element(i)' = Element(i),
         \A a \in Array : a > reported => heap'[a] = heap[a],
         size' \in 0 .. MaxEntry, size <= size', size' <= length'[data'],
         changed' = changed \/ changed' # "no",
         UNCHANGED <<pc, cursor, published, again>>
  PROVE  Quiet'
<1>1. size \in Int /\ size' \in Int /\ cursor \in Int /\ length[data] \in Int /\ length'[data'] \in Int
  BY DEF TInv, TypeOK
<1>2. OneAdd'
  BY DEF OneAdd
<1>3. ArrayInv'
  <2>1. \A g \in Handler : AddInv(g)'
    BY NotAdding DEF AddInv
  <2>2. ASSUME NEW i \in Slot, i >= length'[data'] PROVE Element(i)' = NULL
    <3>1. i >= length[data]
      BY <1>1, <2>2, Numbers
    <3> QED BY <3>1 DEF Quiet, ArrayInv
  <2> QED BY <2>1, <2>2 DEF Quiet, ArrayInv
<1>4. WalkInv'
  BY <1>1 DEF Quiet, WalkInv
<1>5. \A e : Waiting(e)' => Waiting(e)
  BY DEF Waiting
<1>6. SlotInv'
  BY <1>5 DEF Quiet, SlotInv
<1>7. \A i \in Slot : Spent(i) => Spent(i)'
  BY <1>1, Numbers DEF Spent
<1>8. SpentInv'
  BY <1>7 DEF Quiet, SpentInv
<1> QED BY <1>2, <1>3, <1>4, <1>6, <1>8 DEF Quiet

LEMMA AddBeginQuiet ==
  ASSUME TInv, Quiet, NEW h \in Handler, AddBegin(h), ~raced'
  PROVE  Quiet'
<1> DEFINE r == [at |-> "count", entry |-> reported + 1, need |-> size + 1, array |-> Empty, slot |-> 0]
<1>1. /\ add[h] = Idle /\ reported < MaxEntry /\ reported' = reported + 1
      /\ add' = [add EXCEPT ![h] = r] /\ \A g \in Handler : add[g] = Idle
      /\ UNCHANGED <<heap, length, data, size, changed, pc, cursor, store, published, again>>
  BY DEF AddBegin, array, collector
<1>2. reported \in Int /\ size \in Int /\ data \in Int /\ data <= reported
      /\ reported + 1 \in Array /\ reported + 1 > reported
  BY <1>1, Numbers DEF TInv, TypeOK, Reserved
<1>3. r.at = "count" /\ r.entry = reported + 1 /\ r.need = size + 1 /\ r.slot = 0
  OBVIOUS
<1> HIDE DEF r
<1>4. add'[h] = r /\ \A g \in Handler : g # h => add'[g] = Idle
  BY <1>1 DEF TInv, TypeOK
<1>5. OneAdd'
  BY <1>4 DEF OneAdd
<1>6. ArrayInv'
  <2>1. AddInv(h)'
    <3>1. size < size + 1 /\ data < reported + 1
      BY <1>2
    <3>2. \A i \in Slot : heap[reported + 1][i] = NULL
      BY <1>2 DEF Quiet, ArrayInv
    <3> QED BY <1>1, <1>3, <1>4, <3>1, <3>2 DEF AddInv
  <2>2. \A g \in Handler : AddInv(g)'
    BY <1>4, <2>1, NotAdding DEF AddInv
  <2>3. \A a \in Array : a > reported + 1 => a > reported
    BY <1>2, Numbers
  <2> QED BY <1>1, <2>2, <2>3 DEF Quiet, ArrayInv, Element
<1>7. WalkInv'
  BY <1>1 DEF Quiet, WalkInv
<1>8. \A e \in Entry : Waiting(e)' => e > reported
  BY <1>1, <1>2, <1>3, <1>4, Numbers DEF Waiting
<1>9. SlotInv'
  BY <1>1, <1>8 DEF Quiet, SlotInv, Waiting, Element
<1>10. SpentInv'
  BY <1>1 DEF Quiet, SpentInv, Spent, Element
<1> QED BY <1>5, <1>6, <1>7, <1>9, <1>10 DEF Quiet

\* The record of the acting handler, and the steps that change no array.
LEMMA SameArrays ==
  ASSUME TInv, Quiet, NEW h \in Handler, NEW r \in Adding, add[h] \in Adding,
         add'[h] = r, Others(h), r.entry = add[h].entry, AddInv(h)',
         UNCHANGED <<heap, length, data, reported, pc, cursor, published, again>>,
         size' \in 0 .. MaxEntry, size <= size', size' <= length[data],
         changed' = changed \/ changed' # "no"
  PROVE  Quiet'
<1>1. add[h] # Idle /\ r # Idle
  BY NotAdding
<1>2. \A g \in Handler : g # h => add'[g] = Idle
  BY <1>1, Alone DEF Quiet
<1>3. data \in Array /\ length[data] \in Nat /\ length[data] >= length[data]
  BY DEF TInv, TypeOK
<1> QED BY <1>1, <1>2, <1>3, HandlerKeeps DEF Element

LEMMA SizeBelow ==
  ASSUME TInv, Quiet
  PROVE  size \in 0 .. MaxEntry /\ size \in Int /\ size <= size /\ size <= length[data]
         /\ length[data] \in Int /\ data \in Array
BY DEF TInv, TypeOK, Quiet, ArrayInv

LEMMA AddCountQuiet ==
  ASSUME TInv, Quiet, NEW h \in Handler, AddCount(h)
  PROVE  Quiet'
<1> DEFINE r == [add[h] EXCEPT !.at = "check"]
<1>1. /\ add[h].at \in {"count", "lost"} /\ changed' # "no"
      /\ UNCHANGED <<heap, length, data, size, reported, pc, cursor, store, published, again>>
  BY DEF AddCount, array, collector
<1>2. add[h] \in Adding /\ add'[h] = r /\ Others(h)
  BY AddCountTypes
<1>3. r \in Adding /\ r.at = "check" /\ r.entry = add[h].entry /\ r.need = add[h].need /\ r.slot = add[h].slot
  BY <1>2 DEF Adding, Phase
<1> HIDE DEF r
<1>4. AddInv(h)
  BY DEF Quiet, ArrayInv
<1>5. AddInv(h)'
  BY <1>1, <1>2, <1>3, <1>4 DEF AddInv
<1> QED BY <1>1, <1>2, <1>3, <1>5, SameArrays, SizeBelow

LEMMA AddCheckQuiet ==
  ASSUME TInv, Quiet, NEW h \in Handler, AddCheck(h)
  PROVE  Quiet'
<1> DEFINE e == add[h].entry
           need == Needed(add[h].need)
           new == NewCapacity(need, length[data])
<1>1. add[h].at = "check" /\ UNCHANGED <<heap, data, size, changed, reported, pc, cursor, published, again>>
  BY DEF AddCheck, collector
<1>2. add[h] \in Adding /\ e \in Array /\ add[h].need \in Int /\ length[data] \in Nat
  BY <1>1, InAdd, NotAdding, Numbers DEF TInv, TypeOK, Phase
<1>3. AddInv(h)
  BY DEF Quiet, ArrayInv
<1>4. need \in Nat /\ need >= add[h].need /\ new \in Nat /\ new >= need
  <2>1. need \in Nat /\ need >= add[h].need
    BY <1>2, NotAdding, NeededIs
  <2> HIDE DEF need
  <2> QED BY <1>2, <2>1, Capacity
<1>5. CASE need > length[data]
  <2> DEFINE r == [add[h] EXCEPT !.at = "grow"]
  <2>1. length' = [length EXCEPT ![e] = new] /\ add' = [add EXCEPT ![h] = r]
    BY <1>5 DEF AddCheck
  <2>2. r \in Adding /\ r.at = "grow" /\ r.entry = e /\ r.need = add[h].need /\ r.slot = add[h].slot
    BY <1>2 DEF Adding, Phase
  <2> HIDE DEF r, need, new, e
  <2>3. add'[h] = r /\ Others(h)
    BY <2>1, <2>2, OneMoves DEF TInv
  <2>4. data < e /\ data \in Int /\ e \in Int
    BY <1>1, <1>2, <1>3, Numbers DEF AddInv, TInv, TypeOK, e
  <2>5. length'[data] = length[data] /\ length'[e] = new
    BY <1>2, <2>1, <2>4 DEF TInv, TypeOK
  <2>6. length[data] < new /\ add[h].need <= new
    BY <1>2, <1>4, <1>5
  <2>7. AddInv(h)'
    BY <1>1, <1>3, <2>2, <2>3, <2>5, <2>6 DEF AddInv, e
  <2>8. \A g \in Handler : g # h => add'[g] = Idle
    BY <1>2, <2>3, Alone, NotAdding DEF Quiet
  <2>9. add[h] # Idle
    BY <1>2, NotAdding
  <2> QED BY <1>1, <2>2, <2>3, <2>5, <2>7, <2>8, <2>9, HandlerKeeps, SizeBelow DEF Element, TInv, TypeOK, e
<1>6. CASE ~(need > length[data])
  <2> DEFINE r == [add[h] EXCEPT !.at = "fetch"]
  <2>1. length' = length /\ add' = [add EXCEPT ![h] = r]
    BY <1>6 DEF AddCheck
  <2>2. r \in Adding /\ r.at = "fetch" /\ r.entry = e /\ r.need = add[h].need
    BY <1>2 DEF Adding, Phase
  <2> HIDE DEF r, need, new
  <2>3. add'[h] = r /\ Others(h)
    BY <2>1, <2>2, OneMoves DEF TInv
  <2>4. add[h].need <= length[data]
    BY <1>2, <1>4, <1>6
  <2>5. AddInv(h)'
    BY <1>1, <1>3, <2>1, <2>2, <2>3, <2>4 DEF AddInv
  <2> QED BY <1>1, <1>2, <2>1, <2>2, <2>3, <2>5, SameArrays, SizeBelow
<1> QED BY <1>5, <1>6

LEMMA AddGrowQuiet ==
  ASSUME TInv, Quiet, NEW h \in Handler, AddGrow(h)
  PROVE  Quiet'
<1> DEFINE r == [add[h] EXCEPT !.at = "copy", !.array = data]
<1>1. /\ add[h].at = "grow" /\ add' = [add EXCEPT ![h] = r]
      /\ UNCHANGED <<heap, length, data, size, changed, reported, pc, cursor, published, again>>
  BY DEF AddGrow, array, collector
<1>2. add[h] \in Adding
  BY <1>1, InAdd DEF TInv, Phase
<1>3. r \in Adding /\ r.at = "copy" /\ r.entry = add[h].entry /\ r.need = add[h].need
      /\ r.array = data /\ r.slot = add[h].slot
  BY <1>2 DEF Adding, Phase, TInv, TypeOK
<1> HIDE DEF r
<1>4. add'[h] = r /\ Others(h)
  BY <1>1, <1>3, OneMoves DEF TInv
<1>5. AddInv(h)
  BY DEF Quiet, ArrayInv
<1>6. AddInv(h)'
  <2>1. r.slot = 0 /\ \A i \in Slot : ~(i < 0)
    BY <1>1, <1>3, <1>5, Numbers DEF AddInv
  <2> QED BY <1>1, <1>3, <1>4, <1>5, <2>1 DEF AddInv
<1> QED BY <1>1, <1>2, <1>3, <1>4, <1>6, SameArrays, SizeBelow

\* A slot more is copied, or the copy, which has all elements, takes its place.
LEMMA AddCopyQuiet ==
  ASSUME TInv, Quiet, NEW h \in Handler, AddCopy(h)
  PROVE  Quiet'
<1> DEFINE to == add[h].entry
           i == add[h].slot
<1>1. add[h].at = "copy" /\ UNCHANGED <<length, size, changed, reported, pc, cursor, published, again>>
  BY DEF AddCopy, collector
<1>2. add[h] \in Adding /\ add[h] # Idle /\ to \in Array /\ i \in 0 .. MaxEntry /\ to <= reported
      /\ to \in Int /\ data \in Int /\ data \in Array /\ i \in Int /\ reported \in Int
  BY <1>1, InAdd, NotAdding, Numbers DEF TInv, TypeOK, Reserved, Phase
<1>3. /\ add[h].array = data /\ data < to /\ size < add[h].need /\ length[data] < length[to] /\ add[h].need <= length[to]
      /\ \A k \in Slot : heap[to][k] = IF k < i THEN Element(k) ELSE NULL
  BY <1>1 DEF Quiet, ArrayInv, AddInv
<1>4. length[data] \in Nat /\ length[to] \in Nat /\ add[h].need \in Int /\ size \in Int
  BY <1>2, NotAdding, Numbers DEF TInv, TypeOK
<1>5. CASE i \in Common(data, to)
  <2> DEFINE r == [add[h] EXCEPT !.slot = i + 1]
  <2>1. heap' = [heap EXCEPT ![to][i] = heap[data][i]] /\ add' = [add EXCEPT ![h] = r] /\ data' = data
    BY <1>3, <1>5 DEF AddCopy
  <2>2. i \in Slot /\ i + 1 \in 0 .. MaxEntry
    BY <1>5, Numbers DEF Common
  <2>3. r \in Adding /\ r.at = "copy" /\ r.entry = to /\ r.need = add[h].need /\ r.array = data /\ r.slot = i + 1
    BY <1>1, <1>2, <1>3, <2>2 DEF Adding
  <2> HIDE DEF r, to, i
  <2>4. add'[h] = r /\ Others(h)
    BY <2>1, <2>3, OneMoves DEF TInv
  <2>5. /\ \A a \in Array : a # to => heap'[a] = heap[a]
        /\ heap'[to][i] = heap[data][i]
        /\ \A k \in Slot : k # i => heap'[to][k] = heap[to][k]
    BY <1>2, <2>1, <2>2 DEF TInv, TypeOK
  <2>6. \A k \in Slot : Element(k)' = Element(k)
    BY <1>2, <1>3, <2>1, <2>5 DEF Element
  <2>7. \A k \in Slot : heap'[to][k] = IF k < i + 1 THEN Element(k) ELSE NULL
    <3>1. ASSUME NEW k \in Slot
          PROVE  heap'[to][k] = IF k < i + 1 THEN Element(k) ELSE NULL
      <4>1. CASE k = i
        BY <1>2, <2>5, <4>1, Numbers DEF Element
      <4>2. CASE k # i
        <5>1. k < i + 1 <=> k < i
          BY <1>2, <4>2, Numbers
        <5> QED BY <1>3, <2>5, <4>2, <5>1 DEF i, to
      <4> QED BY <4>1, <4>2
    <3> QED BY <3>1
  <2>8. AddInv(h)'
    BY <1>1, <1>3, <2>1, <2>3, <2>4, <2>6, <2>7 DEF AddInv, to
  <2>9. \A g \in Handler : g # h => add'[g] = Idle
    BY <1>2, <2>4, Alone DEF Quiet
  <2>10. \A a \in Array : a > reported => heap'[a] = heap[a]
    BY <1>2, <2>5, Numbers
  <2>11. length'[data'] \in Nat /\ length'[data'] >= length[data]
    BY <1>1, <1>4, <2>1
  <2> QED BY <1>1, <1>2, <2>1, <2>3, <2>4, <2>6, <2>8, <2>9, <2>10, <2>11, HandlerKeeps, SizeBelow DEF to
<1>6. CASE i \notin Common(data, to)
  <2> DEFINE r == [add[h] EXCEPT !.at = "fetch", !.array = Empty, !.slot = 0]
  <2>1. heap' = heap /\ add' = [add EXCEPT ![h] = r] /\ data' = to
    BY <1>3, <1>6 DEF AddCopy
  <2>2. r \in Adding /\ r.at = "fetch" /\ r.entry = to /\ r.need = add[h].need
    <3>1. Empty \in Array /\ 0 \in 0 .. MaxEntry
      BY Numbers DEF Array
    <3> QED BY <1>2, <3>1 DEF Adding, Phase
  <2> HIDE DEF r
  <2>3. add'[h] = r /\ Others(h)
    BY <2>1, <2>2, OneMoves DEF TInv
  <2>4. \A k \in Slot : Element(k)' = Element(k)
    <3>1. ASSUME NEW k \in Slot PROVE heap[to][k] = heap[data][k]
      <4>1. CASE k < i
        BY <1>3, <4>1 DEF Element
      <4>2. CASE ~(k < i)
        <5>1. k >= length[data]
          BY <1>2, <1>3, <1>4, <1>6, <4>2, Numbers DEF Common
        <5>2. Element(k) = NULL
          BY <5>1 DEF Quiet, ArrayInv
        <5> QED BY <1>3, <4>2, <5>2 DEF Element
      <4> QED BY <4>1, <4>2
    <3> QED BY <2>1, <3>1 DEF Element
  <2>5. AddInv(h)'
    BY <1>1, <1>3, <2>1, <2>2, <2>3 DEF AddInv
  <2>6. \A g \in Handler : g # h => add'[g] = Idle
    BY <1>2, <2>3, Alone DEF Quiet
  <2>7. length'[data'] \in Nat /\ length'[data'] >= length[data] /\ size <= length'[data']
    BY <1>1, <1>3, <1>4, <2>1
  <2> QED BY <1>1, <1>2, <2>1, <2>2, <2>3, <2>4, <2>5, <2>6, <2>7, HandlerKeeps, SizeBelow
<1> QED BY <1>3, <1>5, <1>6

LEMMA AddFetchQuiet ==
  ASSUME TInv, Quiet, NEW h \in Handler, AddFetch(h)
  PROVE  Quiet'
<1> DEFINE r == [add[h] EXCEPT !.at = "slot", !.array = data]
<1>1. /\ add[h].at = "fetch" /\ add' = [add EXCEPT ![h] = r]
      /\ UNCHANGED <<heap, length, data, size, changed, reported, pc, cursor, published, again>>
  BY DEF AddFetch, array, collector
<1>2. add[h] \in Adding
  BY <1>1, InAdd DEF TInv, Phase
<1>3. r \in Adding /\ r.at = "slot" /\ r.entry = add[h].entry /\ r.need = add[h].need /\ r.array = data
  BY <1>2 DEF Adding, Phase, TInv, TypeOK
<1> HIDE DEF r
<1>4. add'[h] = r /\ Others(h)
  BY <1>1, <1>3, OneMoves DEF TInv
<1>5. AddInv(h)
  BY DEF Quiet, ArrayInv
<1>6. AddInv(h)'
  BY <1>1, <1>3, <1>4, <1>5 DEF AddInv
<1> QED BY <1>1, <1>2, <1>3, <1>4, <1>6, SameArrays, SizeBelow

LEMMA AddSlotQuiet ==
  ASSUME TInv, Quiet, NEW h \in Handler, AddSlot(h)
  PROVE  Quiet'
<1> DEFINE r == [add[h] EXCEPT !.at = "size", !.slot = size]
<1>1. /\ add[h].at = "slot" /\ add' = [add EXCEPT ![h] = r]
      /\ UNCHANGED <<heap, length, data, size, changed, reported, pc, cursor, published, again>>
  BY DEF AddSlot, array, collector
<1>2. add[h] \in Adding /\ add[h].need \in Int
  BY <1>1, InAdd, NotAdding, Numbers DEF TInv, Phase
<1>3. r \in Adding /\ r.at = "size" /\ r.entry = add[h].entry /\ r.array = add[h].array /\ r.slot = size
  BY <1>2 DEF Adding, Phase, TInv, TypeOK
<1> HIDE DEF r
<1>4. add'[h] = r /\ Others(h)
  BY <1>1, <1>3, OneMoves DEF TInv
<1>5. add[h].array = data /\ size < add[h].need /\ add[h].need <= length[data]
  BY <1>1 DEF Quiet, ArrayInv, AddInv
<1>6. size <= size /\ size < length[data]
  BY <1>2, <1>5, SizeBelow
<1>7. AddInv(h)'
  BY <1>1, <1>3, <1>4, <1>5, <1>6 DEF AddInv
<1> QED BY <1>1, <1>2, <1>3, <1>4, <1>7, SameArrays, SizeBelow

LEMMA AddSizeQuiet ==
  ASSUME TInv, Quiet, NEW h \in Handler, AddSize(h)
  PROVE  Quiet'
<1> DEFINE r == [add[h] EXCEPT !.at = "store"]
<1>1. /\ add[h].at = "size" /\ size' = add[h].slot + 1 /\ add' = [add EXCEPT ![h] = r]
      /\ UNCHANGED <<heap, length, data, changed, reported, pc, cursor, published, again>>
  BY DEF AddSize, array, collector
<1>2. add[h] \in Adding /\ add[h].slot \in Int
  BY <1>1, InAdd, NotAdding, Numbers DEF TInv, Phase
<1>3. r \in Adding /\ r.at = "store" /\ r.entry = add[h].entry /\ r.array = add[h].array /\ r.slot = add[h].slot
  BY <1>2 DEF Adding, Phase
<1> HIDE DEF r
<1>4. add'[h] = r /\ Others(h)
  BY <1>1, <1>3, OneMoves DEF TInv
<1>5. add[h].array = data /\ size <= add[h].slot /\ add[h].slot < length[data]
  BY <1>1 DEF Quiet, ArrayInv, AddInv
<1>6. size <= size' /\ size' <= length[data]
  BY <1>1, <1>2, <1>5, SizeBelow
<1>7. size' \in 0 .. MaxEntry
  BY AddSizeTypes DEF TInv, TypeOK
<1>8. AddInv(h)'
  BY <1>1, <1>3, <1>4, <1>5 DEF AddInv
<1> QED BY <1>1, <1>2, <1>3, <1>4, <1>6, <1>7, <1>8, SameArrays, SizeBelow

LEMMA AddStoreQuiet ==
  ASSUME TInv, Quiet, NEW h \in Handler, AddStore(h)
  PROVE  Quiet'
<1> DEFINE slot == add[h].slot
           entry == add[h].entry
<1>1. /\ add[h].at = "store" /\ add' = [add EXCEPT ![h] = Idle]
      /\ UNCHANGED <<length, data, size, changed, reported, pc, cursor, published, again>>
  BY DEF AddStore, collector
<1>2. add[h] # Idle /\ entry \in Entry /\ entry <= reported /\ slot \in Slot /\ data \in Array /\ data <= reported
  BY <1>1, InAdd, NotAdding, Numbers DEF TInv, TypeOK, Reserved, Phase
<1>3. add[h].array = data /\ slot < length[data]
  BY <1>1 DEF Quiet, ArrayInv, AddInv
<1>4. heap' = [heap EXCEPT ![data][slot] = entry]
  BY <1>3 DEF AddStore
<1>5. add'[h] = Idle /\ \A g \in Handler : g # h => add'[g] = Idle
  BY <1>1, <1>2, OneMoves, Alone DEF Quiet, TInv
<1>6. entry \notin published /\ \A i \in Slot : Element(i) # entry
  BY <1>2 DEF Quiet, SlotInv, Waiting
<1> HIDE DEF slot, entry
<1>7. /\ \A i \in Slot : Element(i)' = IF i = slot THEN entry ELSE Element(i)
      /\ \A a \in Array : a # data => heap'[a] = heap[a]
  BY <1>1, <1>2, <1>4 DEF Element, TInv, TypeOK
<1>8. \A g \in Handler : add'[g] = Idle
  BY <1>5
<1>9. ArrayInv'
  <2>1. \A g \in Handler : AddInv(g)'
    BY <1>8, NotAdding DEF AddInv
  <2>2. \A a \in Array : a > reported => a # data
    BY <1>2, Numbers DEF TInv, TypeOK
  <2>3. ASSUME NEW i \in Slot, i >= length[data] PROVE Element(i)' = NULL
    <3>1. i # slot
      BY <1>3, <2>3, SizeBelow, Numbers DEF slot
    <3> QED BY <1>7, <2>3, <3>1 DEF Quiet, ArrayInv
  <2> QED BY <1>1, <1>7, <2>1, <2>2, <2>3 DEF Quiet, ArrayInv
<1>10. SlotInv'
  <2>1. ASSUME NEW i \in Slot, NEW k \in Slot, Element(i)' # NULL, Element(i)' = Element(k)'
        PROVE  i = k
    <3>1. CASE i = slot \/ k = slot
      BY <1>6, <1>7, <2>1, <3>1
    <3>2. CASE i # slot /\ k # slot
      BY <1>7, <2>1, <3>2 DEF Quiet, SlotInv
    <3> QED BY <3>1, <3>2
  <2>2. ASSUME NEW e \in Entry, Waiting(e)' PROVE e > reported
    BY <1>1, <1>8, <2>2 DEF Waiting
  <2>3. ASSUME NEW e \in Entry, Waiting(e)' PROVE e \notin published /\ \A i \in Slot : Element(i)' # e
    <3>1. e > reported /\ e # entry
      BY <1>2, <2>2, <2>3, Numbers DEF TInv, TypeOK
    <3> QED BY <1>7, <3>1 DEF Quiet, SlotInv, Waiting
  <2> QED BY <1>1, <2>1, <2>3 DEF SlotInv
<1>11. SpentInv'
  BY <1>1, <1>6, <1>7 DEF Quiet, SpentInv, Spent
<1>12. OneAdd' /\ WalkInv'
  BY <1>1, <1>8 DEF Quiet, OneAdd, WalkInv
<1> QED BY <1>9, <1>10, <1>11, <1>12 DEF Quiet

-----------------------------------------------------------------------------

\* A step of the collector that touches no slot.
LEMMA ListKept ==
  ASSUME TInv, Quiet, add' = add \/ add' = LostTo(add), size' \in {0, size},
         UNCHANGED <<heap, length, data, reported, published, again>>
  PROVE  OneAdd' /\ ArrayInv' /\ SlotInv' /\ again' = {} /\ \A i \in Slot : Element(i)' = Element(i)
<1>1. \A g \in Handler :
        \/ add'[g] = add[g]
        \/ add[g].at = "count" /\ add'[g] = [add[g] EXCEPT !.at = "lost"]
  BY CollectorTypes
<1>2. \A g \in Handler : /\ add'[g] # Idle <=> add[g] # Idle
                         /\ add[g] # Idle => add'[g].entry = add[g].entry
                         /\ add'[g] # add[g] => /\ add[g].at = "count" /\ add'[g].at = "lost"
                                                /\ add'[g].slot = add[g].slot /\ add'[g].need = add[g].need
                                                /\ add'[g].entry = add[g].entry
  <2>1. ASSUME NEW g \in Handler, add[g].at = "count", add'[g] = [add[g] EXCEPT !.at = "lost"]
        PROVE  /\ add[g] \in Adding /\ add'[g] \in Adding /\ add'[g].at = "lost"
               /\ add'[g].entry = add[g].entry /\ add'[g].slot = add[g].slot /\ add'[g].need = add[g].need
    <3>1. add[g] \in Adding
      BY <2>1, InAdd, NotAdding DEF TInv, Phase
    <3> QED BY <2>1, <3>1 DEF Adding, Phase
  <2> QED BY <1>1, <2>1, NotAdding
<1>3. OneAdd'
  BY <1>2 DEF Quiet, OneAdd
<1>4. \A i \in Slot : Element(i)' = Element(i)
  BY DEF Element
<1>5. ArrayInv'
  <2>1. size' <= length[data] /\ size' \in Int /\ size' <= size /\ size \in Int
    BY SizeBelow, Numbers DEF TInv, TypeOK
  <2>2. ASSUME NEW g \in Handler PROVE AddInv(g)'
    <3>1. AddInv(g)
      BY DEF Quiet, ArrayInv
    <3>2. add[g] # Idle => add[g].slot \in Int /\ add[g].need \in Int
      BY InAdd, NotAdding, Numbers DEF TInv
    <3>3. CASE add'[g] = add[g]
      <4>1. size < add[g].need /\ add[g] # Idle => size' < add[g].need
        BY <2>1, <3>2
      <4>2. size <= add[g].slot /\ add[g] # Idle => size' <= add[g].slot
        BY <2>1, <3>2
      <4>3. add[g].at \in Phase => add[g] # Idle
        BY InAdd DEF TInv
      <4> QED BY <3>1, <3>3, <4>1, <4>2, <4>3 DEF AddInv, Element, Phase
    <3>4. CASE add'[g] # add[g]
      <4>1. add[g] # Idle
        BY <1>2, <3>4, NotAdding
      <4>2. size' < add[g].need
        BY <1>2, <2>1, <3>1, <3>2, <3>4, <4>1 DEF AddInv
      <4> QED BY <1>2, <3>1, <3>4, <4>2 DEF AddInv
    <3> QED BY <3>3, <3>4
  <2> QED BY <1>4, <2>1, <2>2 DEF Quiet, ArrayInv
<1>6. \A e : Waiting(e)' => Waiting(e)
  BY <1>2 DEF Waiting
<1>7. SlotInv'
  BY <1>4, <1>6 DEF Quiet, SlotInv
<1> QED BY <1>3, <1>4, <1>5, <1>7 DEF Quiet, SpentInv

LEMMA NoneSpent ==
  ASSUME Quiet, pc \in {"sleep", "show", "shown", "reset"}
  PROVE  \A i \in Slot : Element(i) \notin published
BY DEF Quiet, SpentInv, Spent

\* The iterator's next() does not run past the size or the array.
LEMMA Within ==
  ASSUME TInv, Quiet, pc \in {"shown", "copied"}
  PROVE  ~Past /\ cursor \in Slot /\ cursor \in Int /\ size \in Int
<1>1. cursor \in 0 .. MaxEntry /\ size \in 0 .. MaxEntry /\ length[data] \in Nat
  BY DEF TInv, TypeOK
<1>2. cursor < size /\ size <= length[data]
  BY DEF Quiet, WalkInv, ArrayInv
<1> QED BY <1>1, <1>2, Numbers DEF Past

LEMMA WakeQuiet ==
  ASSUME TInv, Quiet, Wake
  PROVE  Quiet'
<1>1. /\ pc = "sleep" /\ pc' = "show" /\ cursor' = 0
      /\ UNCHANGED <<heap, length, data, size, add, reported, store, published, again>>
  BY DEF Wake, Iterate, array, handlers, history
<1>2. WalkInv'
  BY <1>1 DEF TInv, TypeOK, WalkInv
<1> QED BY <1>1, <1>2, NoneSpent, ListKept DEF Quiet, SpentInv

LEMMA ShowHasNextQuiet ==
  ASSUME TInv, Quiet, ShowHasNext
  PROVE  Quiet'
<1>1. /\ pc = "show" /\ UNCHANGED <<heap, length, data, size, add, reported, published, again>>
      /\ \/ cursor # size /\ pc' = "shown" /\ UNCHANGED <<changed, cursor>>
         \/ pc' = "copy" /\ cursor' = 0
  BY DEF ShowHasNext, Iterate, array, handlers, history
<1>2. WalkInv'
  BY <1>1 DEF Quiet, TInv, TypeOK, WalkInv
<1>3. SpentInv'
  BY <1>1, NoneSpent, ListKept DEF SpentInv
<1> QED BY <1>1, <1>2, <1>3, ListKept DEF Quiet

LEMMA ShowNextQuiet ==
  ASSUME TInv, Quiet, ShowNext
  PROVE  Quiet'
<1>1. pc = "shown"
  BY DEF ShowNext
<1>2. /\ UNCHANGED <<heap, length, data, size, changed, add, reported, published, again>>
      /\ \/ changed # "no" /\ pc' = "dead" /\ UNCHANGED cursor
         \/ pc' = "show" /\ cursor' = cursor + 1
  BY <1>1, Within DEF ShowNext, NextThrows, array, handlers, history
<1>3. WalkInv'
  BY <1>1, <1>2, Within DEF Quiet, WalkInv
<1>4. SpentInv'
  BY <1>1, <1>2, NoneSpent, ListKept DEF SpentInv
<1> QED BY <1>2, <1>3, <1>4, ListKept DEF Quiet

LEMMA CopyHasNextQuiet ==
  ASSUME TInv, Quiet, CopyHasNext
  PROVE  Quiet'
<1>1. /\ pc = "copy" /\ UNCHANGED <<heap, length, data, size, changed, reported, store, published, again>>
      /\ \/ cursor # size /\ pc' = "copied" /\ UNCHANGED <<cursor, add>>
         \/ cursor = size /\ pc' = "clear" /\ cursor' = 0 /\ add' = LostTo(add)
  BY DEF CopyHasNext, array, history
<1>2. WalkInv'
  BY <1>1 DEF Quiet, TInv, TypeOK, WalkInv
<1>3. \A i \in Slot : Element(i)' = Element(i)
  BY <1>1, ListKept
<1>4. SpentInv'
  <2>1. ASSUME NEW i \in Slot, Element(i) \in published PROVE Spent(i)'
    <3>1. i < cursor /\ 0 <= i
      BY <1>1, <2>1, Numbers DEF Quiet, SpentInv, Spent
    <3> QED BY <1>1, <3>1 DEF Spent
  <2> QED BY <1>1, <1>3, <2>1 DEF Quiet, SpentInv
<1> QED BY <1>1, <1>2, <1>4, ListKept DEF Quiet

\* What the cursor is at has not been published yet.
LEMMA CopyNextQuiet ==
  ASSUME TInv, Quiet, CopyNext
  PROVE  Quiet'
<1> DEFINE e == heap[data][cursor]
<1>1. pc = "copied" /\ cursor \in Slot /\ cursor < size /\ cursor \in Int /\ size \in Int
  BY Within DEF CopyNext, Quiet, WalkInv
<1>2. /\ UNCHANGED <<heap, length, data, size, changed, add, reported>>
      /\ \/ changed # "no" /\ pc' = "dead" /\ UNCHANGED <<cursor, published, again>>
         \/ /\ pc' = "copy" /\ cursor' = cursor + 1
            /\ again' = again \cup ({e} \cap published)
            /\ published' = published \cup ({e} \ {NULL})
  BY <1>1, Within DEF CopyNext, NextThrows, array, handlers, history
<1>3. e \notin published /\ (e # NULL => ~Waiting(e)) /\ e = Element(cursor)
  <2>1. published \subseteq Entry /\ e \in Entry \cup {NULL}
    BY <1>1 DEF TInv, TypeOK
  <2>2. e \notin published
    BY <1>1, Numbers DEF Quiet, SpentInv, Spent, Element
  <2> QED BY <1>1, <2>1, <2>2 DEF Quiet, SlotInv, Element
<1>4. WalkInv'
  BY <1>1, <1>2 DEF Quiet, WalkInv
<1>5. CASE pc' = "dead" /\ UNCHANGED <<cursor, published, again>>
  BY <1>2, <1>4, <1>5, ListKept DEF Quiet, SpentInv, Spent
<1>6. CASE /\ pc' = "copy" /\ cursor' = cursor + 1
           /\ again' = again \cup ({e} \cap published)
           /\ published' = published \cup ({e} \ {NULL})
  <2> HIDE DEF e
  <2>1. OneAdd' /\ ArrayInv'
    BY <1>2 DEF Quiet, OneAdd, ArrayInv, AddInv, Element
  <2>2. \A i \in Slot : Element(i)' = Element(i)
    BY <1>2 DEF Element
  <2>3. SlotInv'
    <3>1. ASSUME NEW x \in Entry, Waiting(x)' PROVE x \notin published' /\ \A i \in Slot : Element(i) # x
      <4>1. Waiting(x)
        BY <1>2, <3>1 DEF Waiting
      <4>2. x # e
        BY <1>3, <4>1, Numbers
      <4> QED BY <1>6, <4>1, <4>2 DEF Quiet, SlotInv
    <3> QED BY <1>2, <2>2, <3>1 DEF Quiet, SlotInv
  <2>4. SpentInv'
    <3>1. ASSUME NEW i \in Slot, Element(i) \in published' PROVE i < cursor + 1
      <4>1. CASE Element(i) = e /\ e # NULL
        <5>1. i = cursor
          BY <1>1, <1>3, <4>1 DEF Quiet, SlotInv
        <5> QED BY <1>1, <5>1
      <4>2. CASE ~(Element(i) = e /\ e # NULL)
        <5>1. Element(i) \in published
          BY <1>6, <3>1, <4>2
        <5>2. i < cursor
          BY <1>1, <5>1 DEF Quiet, SpentInv, Spent
        <5> QED BY <1>1, <5>2, Numbers
      <4> QED BY <4>1, <4>2
    <3>2. again' = {}
      BY <1>3, <1>6 DEF Quiet, SpentInv
    <3> QED BY <1>6, <2>2, <3>1, <3>2 DEF SpentInv, Spent
  <2> QED BY <1>4, <2>1, <2>3, <2>4 DEF Quiet
<1> QED BY <1>2, <1>5, <1>6

\* A slot is emptied in the list's array, which no one is copying.
LEMMA ClearSlotQuiet ==
  ASSUME TInv, Quiet, ClearSlot, ~raced'
  PROVE  Quiet'
<1>1. pc = "clear" /\ UNCHANGED <<length, data, size, changed, add, reported, store, published, again>>
  BY DEF ClearSlot, handlers
<1>2. cursor \in 0 .. MaxEntry /\ size \in 0 .. MaxEntry /\ length[data] \in Nat /\ size <= length[data]
      /\ cursor \in Int /\ size \in Int /\ data \in Array
  BY Numbers DEF TInv, TypeOK, Quiet, ArrayInv
<1>3. \/ cursor < size /\ heap' = [heap EXCEPT ![data][cursor] = NULL] /\ cursor' = cursor + 1 /\ UNCHANGED pc
         /\ \A h \in Handler : add[h].at # "copy"
      \/ cursor >= size /\ pc' = "reset" /\ cursor' = 0 /\ UNCHANGED heap
  <2>1. ~(cursor < size /\ cursor >= length[data])
    BY <1>2
  <2> QED BY <2>1 DEF ClearSlot
<1>4. WalkInv'
  BY <1>1, <1>3 DEF Quiet, WalkInv
<1>5. CASE cursor >= size /\ pc' = "reset" /\ UNCHANGED heap
  <2>1. \A i \in Slot : ~Spent(i)
    BY <1>1, <1>2, <1>5, Numbers DEF Spent
  <2>2. SpentInv'
    BY <1>1, <1>5, <2>1, ListKept DEF Quiet, SpentInv
  <2> QED BY <1>1, <1>4, <1>5, <2>2, ListKept DEF Quiet
<1>6. CASE cursor < size /\ heap' = [heap EXCEPT ![data][cursor] = NULL] /\ cursor' = cursor + 1 /\ UNCHANGED pc
           /\ \A h \in Handler : add[h].at # "copy"
  <2>1. cursor \in Slot
    BY <1>2, <1>6, Numbers
  <2>2. /\ \A i \in Slot : Element(i)' = IF i = cursor THEN NULL ELSE Element(i)
        /\ \A a \in Array : a # data => heap'[a] = heap[a]
        /\ \A a \in Array, i \in Slot : heap'[a][i] = heap[a][i] \/ heap'[a][i] = NULL
    BY <1>1, <1>2, <1>6, <2>1 DEF Element, TInv, TypeOK
  <2>3. ArrayInv'
    <3>1. ASSUME NEW h \in Handler PROVE AddInv(h)'
      <4>1. AddInv(h) /\ add[h].at # "copy"
        BY <1>6 DEF Quiet, ArrayInv
      <4>2. add[h].at \in Phase => add[h].entry \in Array
        BY InAdd, NotAdding, Numbers DEF TInv
      <4> QED BY <1>1, <2>2, <4>1, <4>2 DEF AddInv, Phase
    <3> QED BY <1>1, <2>1, <2>2, <3>1 DEF Quiet, ArrayInv, Element
  <2>4. SlotInv'
    <3>1. ASSUME NEW x \in Entry, Waiting(x)' PROVE x \notin published /\ \A i \in Slot : Element(i)' # x
      <4>1. Waiting(x) /\ x # NULL
        BY <1>1, <3>1, Numbers DEF Waiting
      <4> QED BY <2>2, <4>1 DEF Quiet, SlotInv
    <3>2. ASSUME NEW i \in Slot, NEW k \in Slot, Element(i)' # NULL, Element(i)' = Element(k)' PROVE i = k
      BY <2>2, <3>2 DEF Quiet, SlotInv
    <3> QED BY <1>1, <3>1, <3>2 DEF SlotInv
  <2>5. SpentInv'
    <3>1. ASSUME NEW i \in Slot, Element(i)' \in published PROVE cursor + 1 <= i /\ i < size
      <4>1. i # cursor /\ Element(i)' = Element(i)
        BY <2>2, <3>1, Numbers DEF TInv, TypeOK
      <4>2. cursor <= i /\ i < size
        BY <1>1, <3>1, <4>1 DEF Quiet, SpentInv, Spent
      <4> QED BY <1>2, <4>1, <4>2, Numbers
    <3> QED BY <1>1, <1>6, <3>1 DEF Quiet, SpentInv, Spent
  <2>6. OneAdd'
    BY <1>1 DEF Quiet, OneAdd
  <2> QED BY <1>4, <2>3, <2>4, <2>5, <2>6 DEF Quiet
<1> QED BY <1>3, <1>5, <1>6

LEMMA ClearResetQuiet ==
  ASSUME TInv, Quiet, ClearReset
  PROVE  Quiet'
<1>1. /\ pc = "reset" /\ size' = 0 /\ pc' = "sleep"
      /\ UNCHANGED <<heap, length, data, changed, add, reported, cursor, store, published, again>>
  BY DEF ClearReset, array, handlers, history
<1>2. WalkInv'
  BY <1>1 DEF WalkInv
<1> QED BY <1>1, <1>2, NoneSpent, ListKept DEF Quiet, SpentInv

IInv == TInv /\ (raced \/ Quiet)

LEMMA NextIInv ==
  ASSUME IInv, [Next]_vars
  PROVE  IInv'
<1>1. TInv'
  BY TypesKept DEF IInv
<1>2. CASE raced
  <2>1. raced'
    BY <1>2 DEF Next, Add, AddBegin, AddCount, AddCheck, AddGrow, AddCopy, AddFetch, AddSlot, AddSize, AddStore,
                Collect, Wake, ShowHasNext, ShowNext, NextThrows, CopyHasNext, CopyNext, ClearSlot, ClearReset,
                history, vars
  <2> QED BY <1>1, <2>1 DEF IInv
<1>3. CASE ~raced /\ UNCHANGED vars
  BY <1>1, <1>3 DEF IInv, Quiet, OneAdd, ArrayInv, AddInv, Element, WalkInv, SlotInv, Waiting, SpentInv, Spent, vars
<1>4. CASE ~raced /\ Next
  <2>1. TInv /\ Quiet
    BY <1>4 DEF IInv
  <2>2. raced' \/ Quiet'
    BY <1>4, <2>1, AddBeginQuiet, AddCountQuiet, AddCheckQuiet, AddGrowQuiet, AddCopyQuiet, AddFetchQuiet,
       AddSlotQuiet, AddSizeQuiet, AddStoreQuiet, WakeQuiet, ShowHasNextQuiet, ShowNextQuiet, CopyHasNextQuiet,
       CopyNextQuiet, ClearSlotQuiet, ClearResetQuiet DEF Next, Add, Collect
  <2> QED BY <1>1, <2>2 DEF IInv
<1> QED BY <1>2, <1>3, <1>4

LEMMA IInvariance == Spec => []IInv
<1>1. Init => IInv
  BY InitTInv, InitQuiet DEF IInv
<1>2. IInv /\ [Next]_vars => IInv'
  BY NextIInv
<1> QED BY <1>1, <1>2, PTL DEF Spec

\* NetworkFlowThread.java, any number of handler threads: unless two of them
\* were in add() at once, or clear() met a growing array, only a reply that came
\* in while it walked the list ends the collector, never an index past its end.
THEOREM CollectorDiesOfAReply == Spec => []DiesOfAReply
<1>1. IInv => DiesOfAReply
  BY DEF IInv, Quiet, WalkInv, DiesOfAReply
<1> QED BY <1>1, IInvariance, PTL

\* NetworkFlowThread.java, any number of handler threads: up to the first such
\* race no entry is copied to storeInfos twice, although clear() races with
\* add(): sizes read before it are written after it, and the array grows while
\* the collector walks it.
THEOREM EntryPublishedOnce == Spec => []PublishedOnce
<1>1. IInv => PublishedOnce
  BY DEF IInv, Quiet, SpentInv, PublishedOnce
<1> QED BY <1>1, IInvariance, PTL
=============================================================================
