# DistributedSDN in TLA+

A verification project for DistributedSDN (UbiFlow): the Chord overlay that maps
mobile devices to supervisory controllers, the Floodlight modules that monitor
and authenticate within one network partition, and the log-in and configuration
pages. The modules are translated from the Java and JavaScript source;
`PROJECT.json` names, for every definition that models code, the lines it stands
for.

* TLC checks the runs of section 3: `tlc -config RingChurn.cfg MCController`.
* TLAPS checks the eight modules named `*Proofs`: `tlapm RecordProofs.tla`.

## 1. The system

| component | state | operations | talks to |
|---|---|---|---|
| Chord ring (`overlay/ChordNode`, `ChordKey`, `FingerTable`, `Hash`) | per node: successor, predecessor, fingers | `findSuccessor`, `join`, `stabilize`, `notifyPredecessor`, `fixFingers` | direct calls on the other nodes' objects |
| Controllers and mobility records (`overlay/Controller`, `SupervisedTable`) | per controller: a table of entries (user, current and previous controller, time), a list of device keys | `jionChord`, `joinChordRing`, `leaveChordRing`, `findSupervisoryController`, `updateSupervisedTable` | its ChordNode; the tables of its neighbours |
| Double hashing (`overlay/LoadBalancing`, `NetworkCurve`) | none of its own | `DoubleHashing` | the ring, the tables' sizes, and over REST the backlog that network calculus serves |
| Network calculus (`networkcalculus`) | arrival curve, departure curve, their length T | every port reply appends a point to both; REST reads the last points | handler thread, REST, double hashing |
| Flow collection (`flowcollection`) | two shared lists of flow entries | statistics replies append; a thread prints, publishes, clears every 4 s; REST reads | OpenFlow handler threads, collector thread, REST threads |
| Packet loss monitor (`partitionview/monitorpkLoss`) | a map from ports to loss | a scheduled task starts one polling thread per switch, waits, stores the replies | switches (futures with a timeout), Floodlight's executor |
| Authentication (`authentication/*.java`) | authenticated hosts, a circular buffer of 100 results | packet-in: let through, accept, refuse or pass on | handler threads, the log-in page over REST |
| East-west communication (`eastwestcommunication`, `RESTfulAPI`'s `EastWestComm`) | the list of informations received | the client posts each information twice; a packet carries it to the other partition; the receiver removes duplicates | REST, packet-in, packet-out |
| Network meter (`lyapunovoptimization/networkmeter`) | delay records of this round; byte counts of this round and the last | a thread opens a round every second and sends probes and echo requests; the replies are combined into delays | handler threads, meter thread, link discovery |
| Web pages (`authentication/other/authenticate`): `md5.js`, `verify.js` | none | digests, address checks | the forms |
| Web pages: `DataGrid.js` | records, rows, page, add/edit state | add, edit, save, cancel, delete, select, turn the page, refresh | the page's callbacks |
| Web pages: requests (the additions to `jquery-1.10.1.js`) | token, status, stored password, requests in flight | send, log in anew, send again, show the log-in page | the server's answers, in any order |
| Web pages: cloud actions (`class.js`) | two timer handles, the stop flag | start an action, query its status, wait, stop, load a page | the server, the browser's timers |
| AP assignment (`assigntoAP`) | the assignment vector while it runs | `Heuristic.assign` | a packet-in handler that does not compile |
| REST client (`RESTfulAPI/src/edu/hun`) | links and attachment points read over REST | topology monitor, flow insertion along a path | Floodlight's REST API |
| Bandwidth and delay monitors, SoftAP, south-north transfer, AP weights | none worth a model | printing, SNMP and formulas | |

`RESTfulAPI/src/edu/hnu` is a copy of `overlay/`: the models of `overlay/` stand
for it.

### What is hard

* Overlay. There is one thread (`Test.java`), so nothing interleaves, but every
  operation may throw half way and the caller may go on with what it left.
  Nothing repairs the ring periodically: `stabilize` and `fixFingers` run only
  inside the operations, and `leaveChordRing` refreshes the fingers of one node.
  So the hazards are long sequences of legal calls, stale fingers, pointers to
  departed nodes, entries shared between tables, and modular arithmetic at the
  wrap of the ring.
* Floodlight modules. Plain `ArrayList`s, `HashSet`s and statics are shared by
  handler threads, a module's own thread and REST threads without locks; rounds
  are cut by sleeps and not by acknowledgements, so late replies land in the
  wrong round; a thread or scheduled task that meets an exception is gone. Three
  listeners see each packet in an order nobody fixed, and two kinds of packets
  travel under the same addresses.
* Pages. Requests overlap and share one status and one token; actions overlap
  and share two timer handles; rows and records run in opposite orders, and a
  deletion may throw after it has changed both; numbers are doubles that the bit
  operators cut to 32 signed bits.

`PROJECT.json` lists each hazard at its line, with the properties that would
catch it, or the reason why there is none.

### What makes each component correct

* Ring: the members form one ordered cycle, both ways, after any joins and
  leaves; a lookup that answers is right; before anyone left, it answers.
* Mobility records: a handover is recorded where consistent hashing says; the
  last record of a device is never lost; the record its present supervisor
  holds is current.
* Network calculus: nothing departs before it arrived plus the latency, nor
  faster than the rate; the backlog served is at least the one at the time of
  the request.
* Double hashing: only an overloaded controller of a congested partition sends
  devices away, only to a controller with room, after as many probes as there
  are controllers; one that keeps its devices had been told the truth.
* Flow collection: a listed entry is published in the next round; each entry is
  published once, unless two handlers were in `add()` at once or the list's array
  was cleared while `add()` copied it.
* Packet loss: rounds end, stored results never go back, only silence of a
  switch ends the task.
* Authentication: only a host that sent the key is let through, and the page is
  told so. East-west: an information that comes in is listed, once, whatever
  else is on the way. Meter: a record that has both halves has its delay.
* Pages: digests are MD5 and HMAC-MD5; an accepted host lies in its network and
  is neither end of it; rows show their records, and deleting takes those checked,
  also when it throws; a refused save changes nothing; a page that cannot send
  asks for the password; an action that runs alone reports in the end, or gets to
  a last request that nothing guards.

## 2. Modules

```
ChordKey ── ChordNode ── RingProperties
    │           └── Controller ── ControllerProperties ── MCController (+ StartKey)
    └── Supervision <──refines──┘          └── ControllerProofs
                                                   └── RecordProofs (+ MCController)

NetworkCalculus ── LoadBalancing ── BalancingProofs
MonitorPkLoss ── MonitorProofs          FlowCollection ── FlowProofs

             ┌─ Authenticater ─┐
Dispatch ────┼─ EastWest ──────┼─ PacketIn ── PacketInProofs
             └─ NetworkMeter ──┘

         ┌─ MD5 ───────────────┐
JsInt32 ─┴─ Verify ─┬──────────┴─ PageTools ─┐
                    └─ DataGrid ─────────────┼─ WebPages ─┬─ MCWebPages
                       WebSession ───────────┤            └─ WebProofs (+ ToolProofs, from PageTools)
                       CloudAction ──────────┘
```

| module | models | correspondence |
|---|---|---|
| `ChordKey` | `ChordKey.isBetween`, `compareTo`, the key space of `Hash` | a key is the number its bytes spell; also `Pos` and `IsSuccessorOf`, the geometry the properties use |
| `StartKey` | `ChordKey.createStartKey` with its carry | a recursive function; `Radix`, `Bytes` scale the code's 256 and 4 down |
| `ChordNode` | the pointers of all nodes as one record `g` and the methods as operators on it | `FindSuccessor` is the recursion as the least set of visited nodes, so non-termination is the value `StackOverflow` and a dereferenced null `NullPointer` |
| `Controller` | the state machine: one action per operation | `JoinRing`, then one `FixFinger` per finger over the fingers already set, then `Finished` or `TakeOver`; `LeaveChordRing`; `Handover` (find, then update) |
| `Supervision` | the abstract specification: a set of members, and for each device the handovers recorded | refined by `Controller` with `members <- Members(ring)` |
| `RingProperties`, `ControllerProperties` | what is required, and what the repository states and the code does not do | |
| `MCController` | instances for TLC and three restricted callers | section 3 |
| `NetworkCalculus` | `handlePortStatsReply`, `minPlusConvolution`, the REST resource, and `NetworkCurve.getNetworkCurve`, which asks it | an append is `Reply`, `AddArrive`, `AddDepart`, `Count`; a request is `Ask`, `GetDepartCurve`, two steps for the arrival curve, `Parse` |
| `LoadBalancing` | `DoubleHashing` at any moment of the curves' life | `Call`, then the request of `NetworkCalculus`, `Check`, one `Probe` per probe with `int` of `IntBits` bits; positions count successors from the supervisory controller |
| `MonitorPkLoss` | `PortStatsCollector.run`, `getSwitchStatistics` and its threads | one thread per switch and round; rounds overlap with threads of earlier rounds |
| `FlowCollection` | `handleFlowStatsReply`, `NetworkFlowThread.run`, `showEntry`, `clearEntryInfo` | `ArrayList.add`, with the growth of its array, and `clear` are cut where JDK 8 reads and writes fields (the project builds for 1.8); the iterator is fail-fast |
| `Dispatch` | Floodlight's handler threads (external) | one thread per switch, the listeners of a packet called one by one in any order; STOP or an exception ends the chain |
| `Authenticater`, `EastWest`, `NetworkMeter` | the three `receive` methods, each with its state, and the threads that feed it | cut where another thread can see a difference: around `contains`/`add` of the shared set and list, and each field of an `ArrayList.add` and `clear` |
| `PacketIn` | their composition in one controller, and its properties | a step of a listener leaves the others' state alone |
| `JsInt32` | JavaScript's bit operators on 32 bits | `\div` and `%` round down, which is two's complement |
| `MD5`, `Verify`, `PageTools` | `md5.js` whole; the checks of `verify.js`; the pages' calls of both | one operator per function; `call` is the last call with its result |
| `DataGrid` | `DataGrid.js` | one action per entry point of the class, the page's callback accepting or refusing |
| `WebSession` | the session of requests | one action per answer, by the leg of the request it answers |
| `CloudAction` | actions with their query loop and guard | `polls` and `waits` are the pending timers, `pollHd` and `waitHd` what the two handles name |
| `WebPages`, `MCWebPages` | one page showing one of the parts; TLC's inputs | |
| `*Proofs` | proofs | section 5 |

Definitions introduced by a comment "Slip:" are deliberate mistakes in one
definition. Nothing uses them; each is put in the place of the definition that
follows to see that a property notices it (`mutants` in `PROJECT.json`).

Choices a reader should know of:

* `Start` is a constant function in `ChordNode`: the ring's correctness does not
  depend on the start keys, and the theorems hold for any. TLC uses the code's.
* `!=` on keys in `stabilize` and `notifyPredecessor` compares references. Two
  nodes never share a key object, so it is the inequality of nodes.
* `devices.contains(key)` compares references too (ChordKey has no `equals`),
  while the table is ordered by `compareTo`. `sameKey` says whether a handover
  presents the key object used before, as Test.java does, or a new one.
* An `Entry` object may be referred to by several tables; `object` is its
  identity and `updateEntry` changes it everywhere. `addEntry` takes the
  smallest identity not in use: identities are only compared.
* Memory is sequentially consistent, with one exception: the authentication's
  `HashSet`, where a `contains` beside an `add` may miss a member and one of two
  overlapping `add`s may be lost (`Contains`, `Admit`).
* The growth of an `ArrayList` is modelled in `FlowCollection`: an `add()` that
  finds the array too short makes a longer one, copies into it slot by slot the
  array there is by then, and puts it in the list's place, while the collector
  shows, copies or clears the list and other handlers add to it. `heap` has all
  arrays, `data` names the list's. Growth is left out of the other lists: nobody
  clears those of `EastWest` and `NetworkCalculus`, and one thread appends to
  each, so a reader finds the same elements in either array; the list of
  `NetworkMeter`, which is cleared, has one measured link in the model, and its
  records of a few rounds fit into the first array of ten.
* `modCount++` is a read and a write. `changed` abstracts the count to whether it
  differs from what the iterator expects, and is "maybe" after an increment was
  lost, when either outcome of the iterator's test is possible. (In `NetworkMeter`
  it is one step.)
* None of the three listeners says which other it must precede, so `Dispatch`
  chooses the order anew for each packet. A device's frame may come in at any
  switch, as devices move and frames are flooded. A lost packet is one that never
  arrives.
* Posts and probes have the same addresses; `Receive` and `Meter` tell them apart
  as the code does, by the number of fields.
* `crossed` in `NetworkMeter` records that both echo threads were at a record at
  once, where neither need see the other's time. There is one measured link, so
  one thread appends records.
* `DelClick` in `DataGrid` has two outcomes. The page turned to after a deletion
  is that of the first row deleted, which `_pageList` does not hold to the number
  of pages left. When that page is gone, `_listNodeClick` reads the style of
  `undefined` and throws: records and rows are changed already and no page is
  marked (`page = 0`), but an addition or edit under way goes on, and its row
  may be gone. Saving and cancelling then throw at once, which is the guard
  `HasEditTr`.
* `AddClick` with a callback that declines leaves the new row with its box and
  without fields above the rows on display (`declined`), in the state "add" and
  without a new list of pages. Such a row can be checked, deleted and cancelled.
* `sendDsReq` while `authStatus` is false runs the request's callback at once. For
  most requests this changes nothing here; a logout forgets session and
  password, shows the log-in page and sets `logoutHandle`, while the router keeps
  its session.
* `Checks` in `CloudAction` are the actions (`cloudAccountState`) that report only
  after one more request, sent when the guard is already cleared. Its answer is
  awaited in the phase "check", may be lost, and is shown even after a stop.
* In `Authenticater`, an unknown device's frame without data reaches
  `data.getData()`: the redirect above it is a TODO that falls through. The
  exception ends the chain.

## 3. Runs

| run | question | bounds |
|---|---|---|
| `ring_churn` | does any order of joins, leaves, rejoins and aborted lookups keep `OrderedRing`, `LookupSound`, `LookupTotal`? | keys 0..8 of two base-3 digits, nodes 1, 3, 4, 7, three fingers, no devices |
| `mobility` | do all operations together keep `TypeOK`, `EntryNeverLost` and refine `Supervision`? | keys 0..15, nodes 3, 7, 12, devices 2, 5, one finger |
| `established` | when the ring is built first and then devices move while controllers leave, is the record the present supervisor holds current (`CurrentLocated`), and exact until the first leave (`TraceExact`)? | keys 0..15, nodes 3, 7, 12, devices 5 and 14, two fingers; 14 lies beyond the wrap |
| `balancing` | the curves (`Causal`, `WithinRate`, `NeverUnderreported`) and a call that asks for them: is a device sent away only under backlog and to a controller with room (`RedirectedToRoom`), found soon (`ProbesReachRoom`), kept only within bounds (`KeptWithinBacklog`)? | five controllers, q = 7, backlog bound 6, 6-bit int; five points, a counter to 44 in steps of 8 and 12, rate 2, latency 1, ceiling 7; 2.2 million states |
| `packet_in` | do the three listeners keep out of each other's way (`PostSurvives`), and each its own promise (`ListedOnce`, `AdmittedIsShown`, `DelayComplete`)? | two switches, two devices, one information (posted twice), a link measured in two rounds, a buffer of 3, three messages to handler threads; 2.7 million states |
| `packet_loss` | do rounds end, in order, and die only of silence? | two switches, two looks, two rounds, counters to 1 |
| `flow_collection` | is each listed entry published in the next round (`PublishedNext`), and are overlapping `add()`s and an array cleared while it is copied the only ways to publish one twice (`PublishedOnce`) or to kill the collector without a reply that came in (`DiesOfAReply`)? | two handler threads, three entries, a first array of two; 1.3 million states |
| `web_pages` | `md5.js` against the RFCs (`DigestsKnown`, `OneDigest`, `PaddedToBlocks`, `HmacNested`), accepted addresses (`HostInNetwork`), the table (`RowsMirror`, `DeleteExact`, `RefusedSaveRestores`), the session (`NotStranded`), the cloud actions (`RunGuarded`, `RunEnds`) | the suites of RFC 1321 and RFC 2202 and strings of 5 to 120 characters, one of characters above 255; 16 hosts times 15 masks; three records on pages of one row, at most 4 rows; two requests, three log-ins; two actions, one with a last request; 231,210 states |
| `lookup_after_leave` | violation: a lookup throws after a leave | as `established`, device 5 |
| `join_migrates` | violation: `joinChordRing` leaves entries behind | devices 4, 5, joins only |
| `handover_after_leave` | violation: the previous controller is lost after a leave | device 5, one finger |
| `packet_loss_silence` | violation: a silent switch is stored | as `packet_loss` |

Why the bounds are enough.

* Three nodes are the smallest ring in which the successor, the predecessor and
  a bystander of an operation differ; `ring_churn` has a fourth, so a finger can
  skip a member and a departed node can lie between two members. Digits overflow
  and carry in the start keys, those of 7 wrap over 0, and those of 1 include
  both boundary keys, whose lookups may not end, so that joins do fail half
  way. A node may leave and come back with its old fingers any number of times.
* The tables of `mobility` hold two devices, which is what the failing iterator
  of `joinChordRing` needs: the first entry moves, the second does not. Two
  things keep its state space small and cost nothing: controllers do not return
  once they left (`SpecMobility`), and every handover is reported by the smallest
  member. Section 5 proves the same properties without either.
* `established`: device 5 presents one key object for all its handovers, 14 a
  new one each time, so both branches of `updateSupervisedTable` run.
  `TraceExact` speaks of devices of `Own` only: with fresh key objects every
  handover makes a new entry whose previous controller is the current one.
  It is also restricted to rings nobody has left, because of the finding
  `handover_after_leave`.
* `balancing`: the counter passes 31, the largest 6-bit int, so points are
  computed from readings that became negative; steps of 12 are no multiple of
  the 8 bits of an octet, so the truncation counts; the ceiling, which stands for
  the code's 9999999999.0, is reached. Five points let a request span a round and
  the minimum lie in the middle of the curve; served backlogs lie on both sides
  of 6. The int is also narrow enough for `key1` to overflow and become negative
  within the run. With seven controllers (q = 7) each probe would be the
  overloaded controller itself, so `ProbesReachRoom` is about a number of
  controllers that has no factor in common with the stride; the code never checks
  that. One thread appends: the module polls one switch. (Port replies that other
  modules ask for would be appended as well; they are not modelled.)
* `packet_in`: three messages let a probe and both echo replies be at the list at
  once, both copies of a post be handled one after the other, a device be refused
  at one switch while it is accepted at the other, and any of these meet one of
  another listener. A second round clears the list under late replies. The buffer
  fills with the third result, so that the wrap of the code's ring of 100 is not
  what `AdmittedIsShown` is about; it excepts a full buffer.
* `packet_loss`: a thread of round 1 may end during round 2; two looks let it
  end before, between and after them. What happens in a third round no longer
  refers to the first (`active` and `model` are emptied).
* `flow_collection`: two handlers are what overlapping `add()`s take. The list
  starts with the empty array; the first `add()` makes one of two slots, which
  stand for the code's ten, and the third entry makes it grow again, over two
  slots that are filled. So each race of the growth happens: copying beside
  showing, publishing and clearing, two threads that both grow, an `add()` that
  stores into an array no longer the list's, and one that stores beyond the end
  of the array it read. Without `raced` TLC finds entries published twice for
  either race; one handler and a growth during `clear()` are enough. Three entries
  fill the list over one to three rounds. A third handler would add overlaps of
  the same pairs of steps; the theorems are for any number.
* `web_pages`: strings of 55, 56, 57, 63, 64 bytes end before, at and beyond the
  length field and the block; keys of 63, 64 and 65 bytes lie around the 16 words
  above which a key is hashed. With `chrsz` 8 the characters above 255 lose their high
  byte, with 16 each string is twice as many bytes. The hosts and masks are the edges of the classes,
  octets beyond 255, which carry into the one before (255.254.384.0 is taken for
  255.255.128.0), masks with holes and masks of none or all bits. Three
  records on pages of one row, with room for a fourth, make up to four pages: a
  deletion leaves none, one, or several, and the page turned to is kept, is the
  last left, or is gone (the throw needs three pages), with and without an
  addition or edit under way. A page of one row is never filled in part; the
  theorems hold for any `PageSize`. Three log-ins
  let two requests log in at once and a third token replace both. Two actions
  are what it takes to lose a timer handle, and one of them has the last request
  of `cloudAccountState`, which the other's timers may meet. The four parts share no state, so
  their states are added, not multiplied.

`CHECK_DEADLOCK FALSE` is set where the modelled program may stop: when the
bounded numbers of entries, rounds, messages, probes or points are used up, when
a task or thread has died, or when every controller of a caller that does not
let them return has left. `ring_churn` and `web_pages` run with deadlock checking
on.

## 4. Fairness

Three modules state any.

* `WF_vars(Collect)` in `MonitorPkLoss`: the executor runs a task it has begun,
  and `run()` blocks on nothing but sleeps.
* `WF_vars(Collect)` in `FlowCollection`: a Java thread in a `while(true)` of
  sleeps and calls.
* `WF_vars(WaitTimer(op))` in `WebPages`: a browser's timer that nobody clears
  fires.

Switches, polling threads, servers and replies get none: `RoundEnds`,
`PublishedNext` and `RunEnds` hold although they may stop for ever. The overlay
has no liveness: its calls are synchronous and nobody is bound to make one. That
a recursion terminates is `LookupTotal`. `PacketIn` states no fairness: nothing
in the code makes a measurement end or a device retry, and the properties are
about what must be true once a thread is done.

## 5. Proofs

Every theorem holds for all values of the constants that satisfy the named
assumptions of the modules. Those are: keys are an initial segment of the
naturals; nodes, start keys and devices are keys; null and the errors are none of
the things they are told apart from; numbers are naturals, the bounds among them;
records have the two fields of the list; an address typed is one the format
check refuses or has four octets of at most 999; a string is of 16-bit characters,
fewer than 2^26 (its length in bits is then a positive word, which `core_md5`
shifts), `chrsz` is 8 or 16 and the padding character none or `=`.
Nothing is assumed of the number of nodes, devices, switches, requests, or
threads, which need not even be finite. Two theorems about the table and one about double
hashing have a hypothesis of their own, `Named` and `Reaching`, without which the
code does not do what they say; both are stated below, and both hold in the
runs. `CalculusAssumption` states two facts
about the power of two that is the width of int, since the provers do no
arithmetic with exponents.

| module | theorem | statement |
|---|---|---|
| `ControllerProofs` | `TypeCorrect`, `RingStaysOrdered`, `LookupsAreSound`, `LookupsAnswer` | `Spec => []TypeOK`, `[]OrderedRing`, `[]LookupSound`, `[]LookupTotal` |
| | `OverlaySupervises` | `Spec => ImplementsSupervision` |
| `RecordProofs` | `EntriesAreKept` | `Spec => EntryNeverLost` |
| | `SupervisorLocates`, `SupervisorTraces` | `SpecEstablished => []CurrentLocated`, `[]TraceExact` |
| `BalancingProofs` | `TypeCorrect`, `DeparturesAreCausal`, `DeparturesWithinRate`, `BacklogNotUnderreported`, `SentToRoom`, `KeptOnlyWithinBacklog` | `Spec => []TypeOK`, `[]Causal`, `[]WithinRate`, `[]NeverUnderreported`, `[]RedirectedToRoom`, `[]KeptWithinBacklog` |
| | `AllAreProbed` | `Spec => []ProbesReachRoom`, given `Reaching` |
| `PacketInProofs` | `TypeCorrect`, `ListHasNoDuplicate`, `PostIsListed`, `AdmissionIsShown`, `DelayIsComputed` | `Spec => []TypeOK`, `[]ListedOnce`, `[]PostSurvives`, `[]AdmittedIsShown`, `[]DelayComplete` |
| `MonitorProofs` | `TypeCorrect`, `OnlySilenceEnds`, `StatsNeverGoBack` | `Spec => []TypeOK`, `[]EndedBySilence`, `StatsInOrder` |
| `FlowProofs` | `TypeCorrect`, `CollectorDiesOfAReply`, `EntryPublishedOnce` | `Spec => []TypeOK`, `[]DiesOfAReply`, `[]PublishedOnce`, any number of handler threads |
| `WebProofs` | `PagesTypeOK`, `AcceptedHosts`, `PageNotStranded`, `RunsAreGuarded` | `Spec => []TypeOK`, `[]HostInNetwork`, `[]NotStranded`, `[]RunGuarded` |
| | `EncodingsAgree`, `StringsPadded`, `KeyedNested` | `Spec => []OneDigest`, `[]PaddedToBlocks`, `[]HmacNested` |
| | `RowsShowRecords`, `RefusalRestores` | `Spec => []RowsShow`, `RefusedSaveRestores` |
| | `TableMirrorsList`, `DeletionIsExact` | `Spec => []RowsMirror`, `DeleteExact`, given `Named` |

The arguments.

* The ring (`ControllerProofs`). The invariant is
  `IInv == TypeOK /\ WellFormed(ring) /\ JobKnown`, with
  `WellFormed(g) == Ordered(g) /\ OutsidersUnlinked(g) /\ FingersKnown(g)`.
  `Ordered` alone is not inductive: a join needs to know that the joiner was
  unlinked (`OutsidersUnlinked`), and a lookup that goes through a finger must end
  at a member or at a node whose successor is null, never at a node that has not
  joined and would answer with itself (`FingersKnown`). `JobKnown` says that the
  node whose fingers are being set is a member, or has left.
  1. Every node a lookup visits from a member is a member or has departed
     (`VisitedKnown`, from the least-set definition of `Visited`); where it ends
     with an answer, the successor pointer of a member spans the key, so the
     answer is the first member clockwise (`LookupAnswer`). No assumption on the
     fingers beyond `FingersKnown` is used: stale ones cost answers, not
     correctness.
  2. `Link` inserts the joiner between the answer and its predecessor
     (`LinkNext`, through the cases of `stabilize`), `Unlink` closes the gap
     (`UnlinkFields`), and both keep `WellFormed`; `FingerWellFormed` for one
     iteration of `fixFingers`.
  3. Termination (`LookupEnds`): `Way(x, k)`, the distance from x to the key k, with
     a whole turn for k itself, falls with every call of the recursion
     (`FingerApproaches`, `SuccessorApproaches`). Of the visited nodes the one
     nearest to k (`LeastNatural`) can only be one where the recursion ends. The
     two boundary keys are where `SuccessorApproaches` fails, as `isBetween` leaves
     them out of the arc that wraps.
  4. One lemma per action, `NextIInv`, `Invariance`, and the step simulation
     `StepImplements` for the refinement.
* The records (`RecordProofs`). `EntriesAreKept` is about every caller, also one
  whose controllers come back. What could lose an entry is a joiner that takes
  over from itself, as the only member: it would put each entry into the table it
  then removes it from. It cannot have one: a node that left has no successor,
  so its own lookup throws and it cannot open an empty ring
  (`NewcomersEmpty`, `LoneTakesNothing`). For the established ring the invariant
  says that an entry of a member is of a device the member supervises and up to
  date (`HeldRight`), and that the supervisor has one (`SupervisorHolds`);
  `MappedAfterLeave` is the geometry: the leaver's devices become its successor's,
  all others stay.
* Double hashing and the curves (`BalancingProofs`). `IInv == CurveInv /\ CallInv`.
  Each point of the departure curve is the least term of its convolution
  (`DepartInv`; that a least one exists is `ConvolutionIsLeast`, by well-founded
  induction on the naturals), from which `Causal` and `WithinRate` follow without
  any assumption on the arrivals. While the counter fits an int the arrival curve
  rises (`CounterInv`), so a point read later than the departure one can only
  exaggerate the backlog (`ClientInv`).
* That double hashing finds a controller with room (`AllAreProbed`) is number
  theory. `Reaching` says that the stride and the number of controllers have no
  common factor and that the last probe needed is an int; the code ensures
  neither (section 6). The least natural that is a sum of multiples of both
  divides both (`LeastSumDivides`, by well-founded induction), so it is 1
  (`Bezout`), so the multiples of the stride visit every position
  (`MultiplesReach`). `ReachInv` says that the probes before the present one found
  no room.
* The listeners (`PacketInProofs`).
  `IInv == DispatchInv /\ AuthInv /\ EastWestInv /\ MeterInv`: each listener's steps
  keep its own part, and are aside for the others (they leave their variables
  alone and do with their packets what the dispatcher does). `EastWestInv` has
  the information either listed or in hand of the one thread that may list it;
  `MeterInv` has the counting that bounds the list by the rounds (`Counts`) and
  `DelayInv`: a record short of its delay has a thread about to compute it.
* The monitor (`MonitorProofs`): the task's sets belong to the running round and
  later threads have not begun (`RoundInv`), so a stored reply is older than any
  that is still to come (`ReplyInv`).
* Flow collection (`FlowProofs`). Types need `TInv`: two handlers may read the same
  size, so that the size stays within the entries reported is not local. Each
  `add()` under way has an entry of its own, and the size is at most the number of
  entries whose `add()` has written it (`Sized`, `Reserved`). Nothing says that a
  store lies within its array, and with two handlers it need not. The other two
  rest on `IInv == TInv /\ (raced \/ Quiet)`: each step of the undisturbed list
  either is a race, which `raced` remembers, or keeps `Quiet`. There the one `add()`
  under way holds the list's array, has copied exactly the slots before its own
  and finds room (`AddInv`); an entry is in one slot of it, and in none before its
  `add()` is over (`SlotInv`); and a published one only where the collector has yet
  to clear (`SpentInv`).
* The table (`WebProofs`). `GridInv` ties the rows to the records by position
  counted from the bottom: a row that is not being added stands for a record that
  exists, and a filled one shows it. A refused save keeps it only because what was
  written is taken back, so `SaveDataIs` and `RefusedSaves` follow the fields one
  by one; a deletion that ends keeps it because the rows are made anew from the
  records that are left, and one that throws because the rows it leaves and the
  records it leaves are counted alike: `LeftIsKept` finds the i-th row left over
  the record as many from the end, and `ThrowKeepsAdded` that a row being added
  is not among the checked rows when it throws (it would be the first of them, and
  on the first page, which is never gone). `RowsShowRecords` needs nothing else. That no record hides beyond the
  rows needs `Named`: no name is blank, and the first records have names and fit
  into the table. Under it `ListInv` says that the records up to the last
  row have names and all beyond are blank; without it `getListLen` stops at a
  blank name and the records after it disappear. `DeleteExact` follows for both endings of a deletion
  (`DeletesExact`, from `NthUpTo` and `DeletedAt`: the rows left and the records
  left are the same in the same order).
* The addresses (`ToolProofs`). Every accepted pair went through each check
  (`PairInv`), so the theorem is one about words of 32 bits. `CarriedOctets`: the
  word of an address is that of the octets of the number `transIp` makes, with the
  sign of the first. `WordDigits`, `AndOctets`, `AndWords`: `And` of two words
  works on each bit. A mask is `-1 << c`, so its octets are 32 - c ones
  (`MaskOctets`), and the three tests of `checkIPNetHost` that passed give a one
  before and a one and a zero after the end of the mask (`AcceptedPair`). The proof
  found the statement too strong: it read the octets of a mask modulo 256, which
  the mask 255.254.384.0 refutes.
* The digests (`ToolProofs`). `HashInv` says that a finished call holds what the
  functions return for its arguments, and the theorems are facts about those
  functions, for strings of any length. They rest on no knowledge of what the 64
  turns compute: only that words stay words of 32 bits through them
  (`SafeAddType`, `RolType`, `TurnType`, `DigestType`) and that equal words give equal
  digests. `SafeAdd` proves the halves of `safe_add` to be addition modulo 2^32.
  1. Words and octets. `Spells` and `JoinedOctets`: `|` of parts that share no octet
     puts them side by side, signed words included. So `str2binl` packs the bytes of
     the string four to a word, whichever `chrsz` is set and whatever a character
     above 255 held (`PackedString`), and the digest depends on the bytes alone
     (`DigestOfString`).
  2. Encodings. Division by powers of two takes the octets, nibbles and sextets out
     of a word again (`WordDivided`, `WordNibbled`, `SextetsAt`), so each encoding,
     read back, is the sixteen bytes of the digest (`HexDecoded`, `WideDecoded`,
     `B64Decoded`, put together in `EncodedDecoded`).
  3. Padding. The byte 128 after the last is an octet of the last word or a word of
     its own (`EndedWord`, `PaddedWords`). The number of zeros is `ZerosFill`;
     `WordsOfBlocks` and `BlocksPadded` compare the words byte by byte.
  4. HMAC. Xor with a pad whose octets are all the same acts on each octet
     (`XorWord`, from a table of the sixteen digits, `CommonDigit`); a block that is
     full is followed by the data in new words (`PackedFollowed`); a key is hashed
     exactly when it has more than 64 bytes (`WordCount`, `KeyUsed`). `HmacOf` chains
     these.
* The session and the actions (`WebProofs`): `SessionInv` ties the log-in page to
  the one request that may close it (a made-up logout shows the page itself);
  `CloudInv` says that a run that met no other
  has the page's timers to itself. `SessionTypes` and `CloudTypes` complete
  `PagesTypeOK`.

Checked by TLC only:

* `DigestsKnown`, the test suites of the RFCs: computations on given strings. It is
  what says that the 64 turns are MD5's; the theorems about the digests hold for
  any turns;
* the start keys;
* the violation runs;
* `RoundEnds`, `PublishedNext` and `RunEnds`, and everything else under fairness,
  which the provers do not reach.

## 6. Findings

Four runs end in a violation of something the repository says: a lookup through
a finger that points to a departed controller throws; `joinChordRing` stops
after the first entry it moves; after a leave, a handover replaces the migrated
entry and forgets the previous controller; a switch that stays silent is put
into the map with a null reply, which ends the task. `PROJECT.json` quotes the
lines.

Known limits that contradict no statement and have no run.

* Overlay: a lookup of key 0 or of the largest key may recurse without end, since
  the arc over the wrap leaves both out; `joinChordRing` compares keys as
  numbers, so entries beyond the wrap stay with the old supervisor; a controller
  that left cannot open an empty ring again; double hashing probes only multiples
  of its stride, so it misses controllers when the stride and their number share a factor.
* Modules: once the port counter passes 2^31 the arrival curve falls; an entry
  added between the copying loop and `clear()` is lost; published entries come back
  and are published again when `add()` copies the list's array while it is cleared,
  or when two `add()`s overlap, and then an `add()` or the collector may run over
  the end of an array; the meter thread dies of
  a link whose switch has just gone; a record both echo threads are at at once
  may stay without its delay.
* Pages: `checkIpClass` cannot fail for class B and C addresses, whose network part
  a bit operator has made negative; the test for an all-ones network part never
  holds for masks of 2^31 and above, as it compares a number with the signed
  result of a bit operator;
  mask octets up to 999 pass, and carry into the octet before; deleting the rows
  of the last of three or more pages throws where it turns to the page that is
  gone, marks no page, and leaves an addition or edit under way, which can no
  longer be saved or cancelled when its row was deleted; a declined addition leaves
  its row in the table; a record with a blank name hides
  those after it at the next refresh; a query in flight when the guard of
  twenty seconds fires, or when the actions are stopped, goes on unguarded and
  may report a second time, and a new start revives a stopped run; the answer to
  an action, and to the last request of `cloudAccountState`, may be lost without
  any timer; a logout while the page has no session is answered by a made-up
  success and never reaches the router; after a lost log-in answer the page
  answers its own requests with made-up successes until it is reloaded. The
  log-in page hashes a number, and `hex_md5` of a number is that of the empty
  string, so it never equals the stored value `Y`.

## 7. Not modelled

* `Chord.java`: lists nobody else uses. SNMP, south-north transfer, bandwidth and
  delay monitors: no state that a step could break.
* AP weights (`lyapunovoptimization`): floating-point formulas.
* AP assignment: `Heuristic.assign` reads lists of devices and access points that
  nothing fills; the packet-in handler that should does not compile as
  committed, so neither its inputs nor what it is to be true of can be told.
* REST client: each call is one pass from a reply to flow rules, and keeps no
  state. Its double post is in `EastWest`.
* Network meter: the byte counts of the rounds, from which a figure is computed
  and dropped.
* Flow collection: the requests to the switches, and REST readers, who change
  nothing.
* Controllers whose ids have the same `hashCode`: a node is named by its key.
* User, time and the printing of tables; the jitter of network calculus; the
  quotient of packet loss.
* Web pages: jQuery itself, widgets and layout (`class.js` but for the cloud
  actions, `str.js`, `uci.js`, `Slp.js`, `error.js`), which keep no state beyond
  what they draw. Of `DataGrid`: asynchronous saves, tables without a head, sorting,
  enabling, and clearing the selected. `cloudActionStatusQuering` is never consulted.

If the project is taken further: several measured links, and so a growing list,
in `NetworkMeter`, the port replies that other modules provoke in
`NetworkCalculus`, and an assignment model once its packet-in handler compiles.
