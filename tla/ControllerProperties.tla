------------------------ MODULE ControllerProperties ------------------------
(***************************************************************************)
(* What is required of the overlay of module Controller.                   *)
(***************************************************************************)
EXTENDS Controller, RingProperties

CONSTANT Own   \* the devices that keep one key object for all their handovers

ASSUME OwnAssumption == Own \subseteq Device

(***************************************************************************)
(* The ring, whatever order controllers came and went in and whatever      *)
(* lookups failed meanwhile.                                               *)
(***************************************************************************)

\* The members form one cycle in key order, in both directions: no join and no
\* leave splits it, skips a member or leaves a pointer to a departed one
\* (jionChord and leaveChordRing patch at most three nodes by hand).
OrderedRing == Ordered(ring)

\* A lookup that answers names the member that supervises the key, even over
\* fingers that are half refreshed, stale, or point to departed nodes: whatever
\* way closestPrecedingNode sends it, it ends at the arc that holds the key.
LookupSound ==
  \A n \in Members(ring), k \in Keys :
    LET s == FindSuccessor(ring, n, k)
    IN  s \in Node => IsSuccessorOf(s, k, Members(ring))

\* Members(ring) and the reports move as Supervision says: a join whose lookups
\* fail half way still adds exactly that member, an operation aborted by an
\* exception removes none, and no handover is recorded at a stale supervisor.
Abstract == INSTANCE Supervision WITH members <- Members(ring)
ImplementsSupervision == Abstract!Spec

\* Until the first leave every lookup of a key other than the two boundary keys
\* ends with an answer: no null pointer, no recursion without end.
LookupTotal ==
  Departed(ring) = {} =>
    \A n \in Members(ring), k \in Keys \ {0, MaxKey} : FindSuccessor(ring, n, k) \in Node

(***************************************************************************)
(* The mobility records.                                                   *)
(***************************************************************************)

\* Device d has an entry in the table of some member.
Kept(d) == \E n \in Members(ring) : d \in Held(n)

\* No operation loses the last entry of a device while a controller remains:
\* a leave hands its table over, and the hand-over of a join removes an entry
\* from the successor only once the joiner holds it, even when the iterator
\* then fails.
EntryNeverLost == [][\A d \in Device : Kept(d) /\ Members(ring)' # {} => Kept(d)']_vars

\* The entry at the controller that supervises d now agrees with the report.
CurrentExact(d) ==
  \A s \in Members(ring) : IsSuccessorOf(s, d, Members(ring)) =>
    d \in Held(s) /\ table[s][d].current = reported[d].current

\* While controllers only leave after the first handover (the order of
\* Test.java, steps 1, 2 and 4), the controller a device is now mapped to knows
\* where it is attached, whichever of the controllers have gone.
CurrentLocated == \A d \in Device : reported[d] # NULL /\ Members(ring) # {} => CurrentExact(d)

\* Until the first leave the supervisor also knows where a device of Own came
\* from, whichever member was asked.
TraceExact ==
  Departed(ring) = {} =>
    \A d \in Own : reported[d] # NULL =>
      LET entry == table[reported[d].supervisor][d]
      IN  entry # NULL /\ entry.current = reported[d].current
                       /\ entry.previous = reported[d].previous

(***************************************************************************)
(* What the repository says of its overlay and the code does not do.       *)
(***************************************************************************)

\* ChordNode.java:40-45, "lookup a successor of given key", for the keys of
\* devices (Test.java:81 asks after controllers have left): a member answers.
DeviceLookupAnswers ==
  job = NULL =>
    \A n \in Members(ring), d \in Device : FindSuccessor(ring, n, d) \in Node

\* Test.java:69-74: after joinChordRing, the new controller's table holds the
\* entry of every device that is now mapped to it and that its successor had.
JoinerServes ==
  [][TakeOver =>
       \A d \in Device :
         /\ IsSuccessorOf(job.node, d, Members(ring))
         /\ d \in Held(ring.succ[job.node])
         => table'[job.node][d] # NULL]_vars

\* Controller.java:81-83, "if the supervisory controller contains this mobile
\* device, update the entry in the supervisory table": the controller the device
\* comes from becomes the previous one.
HandoverUpdates ==
  [][\A d \in Device :
       reported'[d] # reported[d] =>
         LET s == reported'[d].supervisor
         IN  d \in Held(s) => table'[s][d].previous = table[s][d].current]_vars
=============================================================================
