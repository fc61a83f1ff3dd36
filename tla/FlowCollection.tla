--------------------------- MODULE FlowCollection ---------------------------
(***************************************************************************)
(* flowcollection: threads that handle the switches' flow statistics       *)
(* replies add entries to the list entryInfos (PacketProcess.java) while   *)
(* the collector thread (NetworkFlowThread.java) prints it, copies it to   *)
(* storeInfos and clears it.  The list is a plain ArrayList without locks. *)
(*                                                                         *)
(* Its methods are cut where they read and write fields, as the JDK 8 does *)
(* it.  add() reads size for the capacity it needs, counts the             *)
(* modification, grows the element array when it is too short (a longer    *)
(* one is filled slot by slot, then takes its place), reads the array and  *)
(* size, writes size, and stores the element last.  clear() counts, nulls  *)
(* the slots below size one by one and then resets size.  Memory is        *)
(* sequentially consistent; a class cast, an allocation that fails and the *)
(* wrap of modCount are left out.                                          *)
(***************************************************************************)
EXTENDS Integers

CONSTANTS
  Handler,        \* the threads that handle replies, one for each switch
  MaxEntry,       \* bound: the entries reported
  FirstCapacity,  \* the length of the first array that is not empty: 10
  NULL

Entry == 1 .. MaxEntry
Slot  == 0 .. MaxEntry - 1

\* An element array: the empty one the list starts with, and for each entry the
\* one its add() makes when it grows the list.
Empty == 0
Array == {Empty} \cup Entry

ASSUME CollectionAssumption ==
  /\ MaxEntry \in Nat
  /\ FirstCapacity \in Nat \ {0}
  /\ NULL \notin Entry

VARIABLES
  heap,       \* heap[a]: the elements of the array a
  length,     \* length[a]: its length
  data,       \* entryInfos: elementData
  size,       \* entryInfos: size
  changed,    \* whether modCount differs from what the collector's iterator expects
  add,        \* add[h]: where h is in entryInfos.add(), and what it has read
  reported,   \* the entries reported so far are 1 .. reported
  pc,         \* the collector
  cursor,     \* the cursor of its iterator, or the index of clear()
  store,      \* the entries in storeInfos
  published,  \* history: the entries copied to storeInfos so far
  again,      \* history: those copied to it more than once
  raced       \* history: two add() calls overlapped, or clear() a copying one

vars == <<heap, length, data, size, changed, add, reported, pc, cursor, store, published, again, raced>>

Idle == [at |-> "idle", entry |-> NULL, need |-> 0, array |-> Empty, slot |-> 0]

Phase == {"count", "lost", "check", "grow", "copy", "fetch", "slot", "size", "store"}

TypeOK ==
  /\ heap \in [Array -> [Slot -> Entry \cup {NULL}]]
  /\ length \in [Array -> Nat]
  /\ data \in Array
  /\ size \in 0 .. MaxEntry
  /\ changed \in {"no", "maybe", "yes"}
  /\ add \in [Handler -> [at : Phase, entry : Entry, need : Entry,
                          array : Array, slot : 0 .. MaxEntry] \cup {Idle}]
  /\ reported \in 0 .. MaxEntry
  /\ pc \in {"sleep", "show", "shown", "copy", "copied", "clear", "reset", "dead"}
  /\ cursor \in 0 .. MaxEntry
  /\ store \subseteq Entry
  /\ published \subseteq Entry
  /\ again \subseteq published
  /\ raced \in BOOLEAN

Init ==
  /\ heap = [a \in Array |-> [i \in Slot |-> NULL]]
  /\ length = [a \in Array |-> 0]
  /\ data = Empty
  /\ size = 0
  /\ changed = "no"
  /\ add = [h \in Handler |-> Idle]
  /\ reported = 0
  /\ pc = "sleep"
  /\ cursor = 0
  /\ store = {}
  /\ published = {}
  /\ again = {}
  /\ raced = FALSE

array == <<heap, length, data>>
handlers == <<add, reported>>
collector == <<pc, cursor, store, published, again>>

\* What a write of modCount does to the increments that had read it before.
LostTo(calls) == [g \in Handler |-> [calls[g] EXCEPT !.at = IF @ = "count" THEN "lost" ELSE @]]

-----------------------------------------------------------------------------
(* handleFlowStatsReply: one entryInfos.add() per entry of the reply *)

\* Replies come at any time: other modules ask for flow statistics as well.
AddBegin(h) ==
  /\ add[h] = Idle
  /\ reported < MaxEntry
  /\ reported' = reported + 1
  /\ add' = [add EXCEPT ![h] =
       [at |-> "count", entry |-> reported + 1, need |-> size + 1, array |-> Empty, slot |-> 0]]
  /\ raced' = (raced \/ \E g \in Handler : add[g] # Idle)
  /\ UNCHANGED <<array, size, changed, collector>>

\* modCount++: when another one came in between, the count may be any.
AddCount(h) ==
  /\ add[h].at \in {"count", "lost"}
  /\ changed' = IF add[h].at = "lost" \/ changed = "maybe" THEN "maybe" ELSE "yes"
  /\ add' = LostTo([add EXCEPT ![h].at = "check"])
  /\ UNCHANGED <<array, size, reported, collector, raced>>

\* Half as long again, or as long as needed.
NewCapacity(need, old) == LET more == old + old \div 2 IN IF more < need THEN need ELSE more

\* The first array has at least the default capacity.
Needed(need) == IF data = Empty /\ need < FirstCapacity THEN FirstCapacity ELSE need

\* ensureExplicitCapacity(), and the new array of grow().
AddCheck(h) ==
  LET need == Needed(add[h].need) IN
  /\ add[h].at = "check"
  /\ IF need > length[data]
     THEN /\ length' = [length EXCEPT ![add[h].entry] = NewCapacity(need, length[data])]
          /\ add' = [add EXCEPT ![h].at = "grow"]
     ELSE /\ add' = [add EXCEPT ![h].at = "fetch"]
          /\ UNCHANGED length
  /\ UNCHANGED <<heap, data, size, changed, reported, collector, raced>>

\* Arrays.copyOf() copies from the array there is now.
AddGrow(h) ==
  /\ add[h].at = "grow"
  /\ add' = [add EXCEPT ![h].at = "copy", ![h].array = data]
  /\ UNCHANGED <<array, size, changed, reported, collector, raced>>

\* The slots copyOf() has to copy; those from MaxEntry on are never filled.
Common(from, to) == {i \in Slot : i < length[from] /\ i < length[to]}

\* The next slot is copied; in the end the longer array becomes the list's.
AddCopy(h) ==
  LET from == add[h].array
      to   == add[h].entry
      i    == add[h].slot
  IN
  /\ add[h].at = "copy"
  /\ IF i \in Common(from, to)
     THEN /\ heap' = [heap EXCEPT ![to][i] = heap[from][i]]
          /\ add' = [add EXCEPT ![h].slot = i + 1]
          /\ UNCHANGED data
     ELSE /\ data' = to
          /\ add' = [add EXCEPT ![h].at = "fetch", ![h].array = Empty, ![h].slot = 0]
          /\ UNCHANGED heap
  /\ UNCHANGED <<length, size, changed, reported, collector, raced>>

\* elementData[size++] = e reads the array,
AddFetch(h) ==
  /\ add[h].at = "fetch"
  /\ add' = [add EXCEPT ![h].at = "slot", ![h].array = data]
  /\ UNCHANGED <<array, size, changed, reported, collector, raced>>

\* Slip: the slot after the next free one.
AddSlotPast(h) ==
  /\ add[h].at = "slot"
  /\ add' = [add EXCEPT ![h].at = "size", ![h].slot = size + 1]
  /\ UNCHANGED <<array, size, changed, reported, collector, raced>>

\* then size,
AddSlot(h) ==
  /\ add[h].at = "slot"
  /\ add' = [add EXCEPT ![h].at = "size", ![h].slot = size]
  /\ UNCHANGED <<array, size, changed, reported, collector, raced>>

\* writes it,
AddSize(h) ==
  /\ add[h].at = "size"
  /\ size' = add[h].slot + 1
  /\ add' = [add EXCEPT ![h].at = "store"]
  /\ UNCHANGED <<array, changed, reported, collector, raced>>

\* and stores the element into the array it read.  Out of its bounds, the
\* ArrayIndexOutOfBoundsException ends the handling of the reply.
AddStore(h) ==
  /\ add[h].at = "store"
  /\ heap' = IF add[h].slot < length[add[h].array]
             THEN [heap EXCEPT ![add[h].array][add[h].slot] = add[h].entry]
             ELSE heap
  /\ add' = [add EXCEPT ![h] = Idle]
  /\ UNCHANGED <<length, data, size, changed, reported, collector, raced>>

Add(h) ==
  \/ AddBegin(h) \/ AddCount(h) \/ AddCheck(h) \/ AddGrow(h) \/ AddCopy(h)
  \/ AddFetch(h) \/ AddSlot(h) \/ AddSize(h) \/ AddStore(h)

-----------------------------------------------------------------------------
(* NetworkFlowThread.run(): showEntry(), clearEntryInfo(), sleep *)

history == <<published, again, raced>>

\* A new iterator over entryInfos, for the loop that starts at `at'.
Iterate(at) ==
  /\ pc' = at
  /\ cursor' = 0
  /\ changed' = "no"

Wake ==
  /\ pc = "sleep"
  /\ Iterate("show")
  /\ UNCHANGED <<array, size, handlers, store, history>>

\* hasNext() compares the cursor with the size: past it, there is a next one too.
ShowHasNext ==
  /\ pc = "show"
  /\ IF cursor # size
     THEN pc' = "shown" /\ UNCHANGED <<changed, cursor, store>>
     ELSE Iterate("copy") /\ store' = {}
  /\ UNCHANGED <<array, size, handlers, history>>

\* next() runs past the size or the array.
Past == cursor >= size \/ cursor >= length[data]

\* ConcurrentModificationException, or NoSuchElementException, kills the thread.
NextThrows ==
  /\ changed # "no" \/ Past
  /\ pc' = "dead"
  /\ UNCHANGED <<array, size, changed, handlers, cursor, store, history>>

\* showEntry() skips a null.
ShowNext ==
  /\ pc = "shown"
  /\ \/ NextThrows
     \/ /\ changed # "yes" /\ ~Past
        /\ pc' = "show"
        /\ cursor' = cursor + 1
        /\ UNCHANGED <<array, size, changed, handlers, store, history>>

\* Slip: entryInfos is never cleared.
CopyToSleep ==
  /\ pc = "copy"
  /\ IF cursor # size
     THEN pc' = "copied" /\ UNCHANGED cursor
     ELSE pc' = "sleep" /\ cursor' = 0
  /\ UNCHANGED <<array, size, changed, handlers, store, history>>

\* Slip: the loop goes one past the end.
CopyThroughEnd ==
  /\ pc = "copy"
  /\ IF cursor # size + 1
     THEN pc' = "copied" /\ UNCHANGED <<cursor, add>>
     ELSE pc' = "clear" /\ cursor' = 0 /\ add' = LostTo(add)
  /\ UNCHANGED <<array, size, changed, reported, store, history>>

\* After the last element clear() begins: it counts as a modification, too.
CopyHasNext ==
  /\ pc = "copy"
  /\ IF cursor # size
     THEN pc' = "copied" /\ UNCHANGED <<cursor, add>>
     ELSE pc' = "clear" /\ cursor' = 0 /\ add' = LostTo(add)
  /\ UNCHANGED <<array, size, changed, reported, store, history>>

\* Slip: the element after the cursor.
CopyNextButOne ==
  LET e == IF cursor + 1 < size THEN heap[data][cursor + 1] ELSE NULL IN
  /\ pc = "copied"
  /\ \/ NextThrows
     \/ /\ changed # "yes" /\ ~Past
        /\ pc' = "copy"
        /\ cursor' = cursor + 1
        /\ store' = store \cup ({e} \ {NULL})
        /\ again' = again \cup ({e} \cap published)
        /\ published' = published \cup ({e} \ {NULL})
        /\ UNCHANGED <<array, size, changed, handlers, raced>>

\* storeInfos.add(); a null is copied too and left out of `store'.
CopyNext ==
  LET e == heap[data][cursor] IN
  /\ pc = "copied"
  /\ \/ NextThrows
     \/ /\ changed # "yes" /\ ~Past
        /\ pc' = "copy"
        /\ cursor' = cursor + 1
        /\ store' = store \cup ({e} \ {NULL})
        /\ again' = again \cup ({e} \cap published)
        /\ published' = published \cup ({e} \ {NULL})
        /\ UNCHANGED <<array, size, changed, handlers, raced>>

\* entryInfos.clear(): a slot of the array there is now.  Out of its bounds, the
\* ArrayIndexOutOfBoundsException kills the thread.
ClearSlot ==
  /\ pc = "clear"
  /\ \/ /\ cursor < size /\ cursor < length[data]
        /\ heap' = [heap EXCEPT ![data][cursor] = NULL]
        /\ cursor' = cursor + 1
        /\ raced' = (raced \/ \E h \in Handler : add[h].at = "copy")
        /\ UNCHANGED pc
     \/ /\ cursor < size /\ cursor >= length[data]
        /\ pc' = "dead"
        /\ UNCHANGED <<heap, cursor, raced>>
     \/ /\ cursor >= size
        /\ pc' = "reset"
        /\ cursor' = 0
        /\ UNCHANGED <<heap, raced>>
  /\ UNCHANGED <<length, data, size, changed, handlers, store, published, again>>

ClearReset ==
  /\ pc = "reset"
  /\ size' = 0
  /\ pc' = "sleep"
  /\ UNCHANGED <<array, changed, handlers, cursor, store, history>>

Collect ==
  Wake \/ ShowHasNext \/ ShowNext \/ CopyHasNext \/ CopyNext \/ ClearSlot \/ ClearReset

Next == (\E h \in Handler : Add(h)) \/ Collect

\* The collector's thread is scheduled until it dies; replies may cease.
Spec == Init /\ [][Next]_vars /\ WF_vars(Collect)

-----------------------------------------------------------------------------
\* An entry is published in at most one round, once, although a reply that
\* arrives while the list is cleared writes a size it read before: unless two
\* handlers were in add() at once, or clear() emptied a slot of an array that a
\* handler was copying to a longer one.
PublishedOnce == again = {} \/ raced

\* The collector only dies of a reply that came in while it walked the list, or
\* after one of these races.
DiesOfAReply == pc = "dead" => changed # "no" \/ raced

\* Entries in the list.
Listed(e) == \E i \in Slot : i < size /\ heap[data][i] = e

\* An entry that is in the list between two rounds, no add() being under way, is
\* published in the next round unless the collector dies: handlers may append
\* to the list, grow its array and lose each other's entries at the same time.
PublishedNext ==
  \A e \in Entry :
    Listed(e) /\ pc = "sleep" /\ (\A h \in Handler : add[h] = Idle)
      ~> e \in store \/ pc = "dead"
=============================================================================
