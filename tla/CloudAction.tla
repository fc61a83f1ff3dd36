------------------------------ MODULE CloudAction ------------------------------
(***************************************************************************)
(* The cloud actions of the pages (class.js): an action is sent, then its  *)
(* status is queried every second until it ends, with a timer of twenty    *)
(* seconds over all queries.  All actions share two timer handles and the  *)
(* flag that stops them, so overlapping runs lose each other's timers.     *)
(* Each element of Ops is the action of one kind, run again and again;     *)
(* those of Checks (cloudAccountState) send one more request after their   *)
(* last query, which no timer guards.                                      *)
(* (The flag cloudActionStatusQuering is only read for callers that pass   *)
(* false as the third argument of _cloudActionQueryStatus, and none does.) *)
(***************************************************************************)
EXTENDS Naturals, FiniteSets

CONSTANTS Ops, Checks, NoOp

ASSUME CloudAssumption == Checks \subseteq Ops

VARIABLES
  stoped,   \* cloudActionQueryStoped
  phase,    \* [op -> "idle", "action", "query", "check" (awaiting the answer to these), "poll", "gone"]
  polls,    \* the ops whose timer for the next query is pending
  waits,    \* the ops whose timer of twenty seconds is pending
  pollHd,   \* cloudActionQueryStatusHd: whose timer it holds
  waitHd,   \* cloudActionQueryStatusWaitHd
  reported, \* the ops that have shown a result or an error since they were started
  alone     \* the ops that have run alone, on this page, since their first query

cloudVars == <<stoped, phase, polls, waits, pollHd, waitHd, reported, alone>>

InitCloud ==
  /\ stoped = FALSE
  /\ phase = [op \in Ops |-> "idle"]
  /\ polls = {} /\ waits = {} /\ pollHd = NoOp /\ waitHd = NoOp
  /\ reported = {} /\ alone = {}

Active(op) == phase[op] # "idle" \/ op \in polls \cup waits

\* _cloudGetActnErrHandle, _cloudQueryErrHandle: the error is shown; both end
\* in _cloudExptStopHandle, which clears the timer the wait handle holds.
Reports(op) == reported' = reported \cup {op}
ClearWait == waits' = waits \ {waitHd}
ClearPoll == polls' = polls \ {pollHd}
\* A run whose next query is cancelled is over, as is one that had but its
\* guard left when that is cleared.
Over(o, clearsWait) ==
  \/ phase[o] = "poll" /\ o = pollHd
  \/ phase[o] = "gone" /\ clearsWait /\ o = waitHd

EndQuery(op, next) ==
  /\ ClearWait
  /\ phase' = [o \in Ops |-> IF o = op THEN next ELSE IF phase[o] = "gone" /\ o = waitHd THEN "idle"
                             ELSE phase[o]]
EndRun(op) == EndQuery(op, "idle")

Start(op) ==
  /\ ~Active(op)
  /\ stoped' = FALSE
  /\ phase' = [phase EXCEPT ![op] = "action"]
  /\ reported' = reported \ {op}
  /\ alone' = {}
  /\ UNCHANGED <<polls, waits, pollHd, waitHd>>

\* Slip: the timer just set is the one that is cleared.
QueryStatusClearsOwn(op) ==
  /\ ClearPoll
  /\ waits' = waits \ {op}
  /\ waitHd' = op
  /\ phase' = [o \in Ops |-> IF o = op THEN "query" ELSE IF Over(o, TRUE) THEN "idle" ELSE phase[o]]
  /\ alone' = IF \E o \in Ops \ {op} : Active(o) THEN {} ELSE {op}
  /\ UNCHANGED <<stoped, pollHd, reported>>

\* _cloudActionQueryStatus: the handles' timers are cleared, a new one guards
\* the run, and the status is queried.
QueryStatus(op) ==
  /\ ClearPoll
  /\ waits' = (waits \ {waitHd}) \cup {op}
  /\ waitHd' = op
  /\ phase' = [o \in Ops |-> IF o = op THEN "query" ELSE IF Over(o, TRUE) THEN "idle" ELSE phase[o]]
  /\ alone' = IF \E o \in Ops \ {op} : Active(o) THEN {} ELSE {op}
  /\ UNCHANGED <<stoped, pollHd, reported>>

\* The answer to the action, which nobody waits for once it is stopped.
ActionAnswered(op) ==
  /\ phase[op] = "action"
  /\ \/ stoped /\ phase' = [phase EXCEPT ![op] = "idle"]
        /\ UNCHANGED <<stoped, polls, waits, pollHd, waitHd, reported, alone>>
     \/ ~stoped /\ QueryStatus(op)
     \/ /\ ~stoped
        /\ Reports(op) /\ EndRun(op)
        /\ UNCHANGED <<stoped, polls, pollHd, waitHd, alone>>

\* The answer to a query: an error, an end (success, failed, timeout, idle, max)
\* or "prepare" and "trying", after which the next query is due in a second.
\* After its end a run of Checks asks for the result with a request of its own.
QueryEnds(op) ==
  /\ phase[op] = "query"
  /\ \/ Reports(op) /\ EndRun(op)
     \/ op \in Checks /\ EndQuery(op, "check") /\ UNCHANGED reported
  /\ UNCHANGED <<stoped, polls, pollHd, waitHd, alone>>

\* The answer to that request, which a stop does not keep from being shown; an
\* error clears the timer the wait handle holds, whosever it is.
CheckAnswered(op) ==
  /\ phase[op] = "check"
  /\ Reports(op)
  /\ \/ EndRun(op)
     \/ phase' = [phase EXCEPT ![op] = "idle"] /\ UNCHANGED waits
  /\ UNCHANGED <<stoped, polls, pollHd, waitHd, alone>>
QueryTrying(op) ==
  /\ phase[op] = "query"
  /\ phase' = [phase EXCEPT ![op] = "poll"]
  /\ polls' = polls \cup {op}
  /\ pollHd' = op
  /\ UNCHANGED <<stoped, waits, waitHd, reported, alone>>

\* The answer is lost, or it is the one without data that a page without a
\* session gets, on which the handler throws.
QueryGone(op) ==
  /\ phase[op] = "query"
  /\ phase' = [phase EXCEPT ![op] = "gone"]
  /\ UNCHANGED <<stoped, polls, waits, pollHd, waitHd, reported, alone>>
ActionLost(op) ==
  /\ phase[op] \in {"action", "check"}
  /\ phase' = [phase EXCEPT ![op] = "idle"]
  /\ UNCHANGED <<stoped, polls, waits, pollHd, waitHd, reported, alone>>

PollFires(op) ==
  /\ op \in polls
  /\ polls' = polls \ {op}
  /\ phase' = [phase EXCEPT ![op] = "query"]
  /\ UNCHANGED <<stoped, waits, pollHd, waitHd, reported, alone>>

\* Slip: the timeout is reported only while a query or its timer is under way.
WaitFiresAsks(op) ==
  /\ op \in waits
  /\ waits' = waits \ {op}
  /\ ClearPoll
  /\ reported' = IF phase[op] = "gone" THEN reported ELSE reported \cup {op}
  /\ phase' = [o \in Ops |-> IF Over(o, FALSE) \/ (o = op /\ phase[o] = "gone")
                             THEN "idle" ELSE phase[o]]
  /\ UNCHANGED <<stoped, pollHd, waitHd, alone>>

\* Twenty seconds are over: the run reports a timeout, and a query that is
\* still due (by the handle) is not sent; one in flight goes on.
WaitFires(op) ==
  /\ op \in waits
  /\ waits' = waits \ {op}
  /\ ClearPoll
  /\ Reports(op)
  /\ phase' = [o \in Ops |-> IF Over(o, FALSE) \/ (o = op /\ phase[o] = "gone")
                             THEN "idle" ELSE phase[o]]
  /\ UNCHANGED <<stoped, pollHd, waitHd, alone>>

\* cloudAccountQueryStop
Stop ==
  /\ stoped' = TRUE
  /\ ClearPoll /\ ClearWait
  /\ phase' = [o \in Ops |-> IF Over(o, TRUE) THEN "idle" ELSE phase[o]]
  /\ alone' = {}
  /\ UNCHANGED <<pollHd, waitHd, reported>>

\* Another page is loaded: all timers set by $.setTimeout are cleared.
LoadPage ==
  /\ polls' = {} /\ waits' = {}
  /\ phase' = [o \in Ops |-> IF phase[o] \in {"poll", "gone"} THEN "idle" ELSE phase[o]]
  /\ alone' = {}
  /\ UNCHANGED <<stoped, pollHd, waitHd, reported>>

NextCloud ==
  \/ \E op \in Ops : \/ Start(op) \/ ActionAnswered(op) \/ ActionLost(op)
                     \/ QueryEnds(op) \/ QueryTrying(op) \/ QueryGone(op)
                     \/ CheckAnswered(op)
                     \/ PollFires(op) \/ WaitFires(op)
  \/ Stop
  \/ LoadPage

------------------------------------------------------------------------------
Unanswered(op) == phase[op] \in {"query", "poll", "gone"} /\ op \in alone /\ op \notin reported

\* A run that has neither been stopped nor met by another one is guarded by its
\* timer until it reports, whatever becomes of its queries.
RunGuarded == \A op \in Ops : Unanswered(op) => op \in waits /\ waitHd = op

\* Such a run reports in the end, even when the answer to a query is lost; one
\* of Checks reports, or it gets as far as its unguarded last request.
RunEnds ==
  \A op \in Ops : Unanswered(op) ~> (op \in reported \/ op \notin alone \/ phase[op] = "check")
==============================================================================
