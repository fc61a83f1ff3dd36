--------------------------- MODULE MonitorPkLoss ----------------------------
(***************************************************************************)
(* partitionview/monitorpkLoss/MonitorPkLoss.java: a task of Floodlight's  *)
(* scheduled executor polls every switch for its port counters, each in a  *)
(* thread of its own, waits for the threads a bounded number of times and  *)
(* stores what they brought.                                               *)
(*                                                                         *)
(* Threads that miss the last look run on while later rounds poll again.   *)
(* A reply is the switch's traffic counter at the time it answers; the     *)
(* quotient stored per port is a function of it and left out.  Time is     *)
(* left out: a thread may be late by any amount.                           *)
(***************************************************************************)
EXTENDS Integers

CONSTANTS
  Switch,
  Interval,   \* portStatsInterval: how often the collector looks
  MaxRound,   \* bound: the rounds that are run
  MaxCount,   \* bound: the counter of a switch
  NULL

Round == 1 .. MaxRound
Count == 0 .. MaxCount

ASSUME MonitorAssumption ==
  /\ Interval \in Nat \ {0}
  /\ MaxRound \in Nat
  /\ MaxCount \in Nat
  /\ NULL \notin Count

VARIABLES
  connected,  \* the switches of IOFSwitchService
  counter,    \* counter[d]: what switch d has counted
  thread,     \* thread[d][r]: the GetStatisticsThread of switch d in round r
  pc,         \* the task: "idle", "poll", "store", or "dead"
  round,      \* the round that runs or ran last
  cycle,      \* iSleepCycles
  active,     \* activeThreads: pairs <<switch, round>>
  model,      \* the threads whose reply is in the map `model'
  loss        \* DPID_PK_LOSS

vars == <<connected, counter, thread, pc, round, cycle, active, model, loss>>

Thread == [state : {"new", "started", "asked", "terminated"}, reply : Count \cup {NULL}]

TypeOK ==
  /\ connected \subseteq Switch
  /\ counter \in [Switch -> Count]
  /\ thread \in [Switch -> [Round -> Thread]]
  /\ pc \in {"idle", "poll", "store", "dead"}
  /\ round \in 0 .. MaxRound
  /\ cycle \in 0 .. Interval
  /\ active \subseteq Switch \X Round
  /\ model \subseteq Switch \X Round
  /\ loss \in [Switch -> Count \cup {NULL}]

Init ==
  /\ connected \in SUBSET Switch
  /\ counter = [d \in Switch |-> 0]
  /\ thread = [d \in Switch |-> [r \in Round |-> [state |-> "new", reply |-> NULL]]]
  /\ pc = "idle"
  /\ round = 0
  /\ cycle = 0
  /\ active = {}
  /\ model = {}
  /\ loss = [d \in Switch |-> NULL]

task == <<pc, round, cycle, active, model, loss>>
network == <<connected, counter>>

-----------------------------------------------------------------------------
(* The switches (external). *)

Connect(d) ==
  /\ d \notin connected
  /\ connected' = connected \cup {d}
  /\ UNCHANGED <<counter, thread, task>>

Disconnect(d) ==
  /\ d \in connected
  /\ connected' = connected \ {d}
  /\ UNCHANGED <<counter, thread, task>>

Traffic(d) ==
  /\ counter[d] < MaxCount
  /\ counter' = [counter EXCEPT ![d] = @ + 1]
  /\ UNCHANGED <<connected, thread, task>>

-----------------------------------------------------------------------------
(* getSwitchStatistics(switchId, PORT), in the thread of d and r *)

Terminate(d, r, reply) ==
  thread' = [thread EXCEPT ![d][r] = [state |-> "terminated", reply |-> reply]]

\* The switch is looked up when the thread runs; without it there is no reply.
Ask(d, r) ==
  /\ thread[d][r].state = "started"
  /\ IF d \in connected
     THEN thread' = [thread EXCEPT ![d][r].state = "asked"]
     ELSE Terminate(d, r, NULL)
  /\ UNCHANGED <<network, task>>

Answer(d, r) ==
  /\ thread[d][r].state = "asked"
  /\ d \in connected
  /\ Terminate(d, r, counter[d])
  /\ UNCHANGED <<network, task>>

\* future.get() times out or throws: the exception is logged.
GiveUp(d, r) ==
  /\ thread[d][r].state = "asked"
  /\ Terminate(d, r, NULL)
  /\ UNCHANGED <<network, task>>

-----------------------------------------------------------------------------
(* PortStatsCollector.run(), which never overlaps with itself *)

\* The threads that poll every switch in a new round.
Polls == connected \X {round + 1}

StartThreads ==
  thread' = [d \in Switch |-> [r \in Round |->
               IF <<d, r>> \in Polls THEN [state |-> "started", reply |-> NULL]
               ELSE thread[d][r]]]

\* Slip: activeThreads kept from one round to the next.
StartRoundOverOld ==
  /\ pc = "idle" /\ round < MaxRound
  /\ StartThreads
  /\ active' = active \cup Polls
  /\ model' = {} /\ cycle' = 0 /\ round' = round + 1 /\ pc' = "poll"
  /\ UNCHANGED <<network, loss>>

StartRound ==
  /\ pc = "idle"
  /\ round < MaxRound
  /\ StartThreads
  /\ active' = Polls
  /\ model' = {}
  /\ cycle' = 0
  /\ round' = round + 1
  /\ pc' = "poll"
  /\ UNCHANGED <<network, loss>>

Terminated == {t \in active : thread[t[1]][t[2]].state = "terminated"}

\* Slip: what has not come by the last look is put into the map as well.
LookAtAll ==
  LET done == IF cycle + 1 = Interval THEN active ELSE Terminated IN
  /\ pc = "poll"
  /\ model' = model \cup done
  /\ active' = active \ done
  /\ cycle' = cycle + 1
  /\ pc' = IF active' = {} \/ cycle' = Interval THEN "store" ELSE "poll"
  /\ UNCHANGED <<network, thread, round, loss>>

\* Slip: the collector waits until all the threads are done.
LookForEver ==
  /\ pc = "poll"
  /\ model' = model \cup Terminated
  /\ active' = active \ Terminated
  /\ pc' = IF active' = {} THEN "store" ELSE "poll"
  /\ UNCHANGED <<network, thread, round, cycle, loss>>

\* Slip: one look too many.
LookOnceMore ==
  /\ pc = "poll"
  /\ model' = model \cup Terminated
  /\ active' = active \ Terminated
  /\ cycle' = cycle + 1
  /\ pc' = IF active' = {} \/ cycle' > Interval THEN "store" ELSE "poll"
  /\ UNCHANGED <<network, thread, round, loss>>

\* One cycle: the threads found terminated move to the map.  That they are all
\* looked at in one step loses nothing, since they end independently.
Look ==
  /\ pc = "poll"
  /\ model' = model \cup Terminated
  /\ active' = active \ Terminated
  /\ cycle' = cycle + 1
  /\ pc' = IF active' = {} \/ cycle' = Interval THEN "store" ELSE "poll"
  /\ UNCHANGED <<network, thread, round, loss>>

\* The entries of a HashMap come in any order.  Iterating over a null reply
\* throws, and the executor never runs the task again.
Store(t) ==
  LET reply == thread[t[1]][t[2]].reply IN
  /\ pc = "store"
  /\ t \in model
  /\ model' = model \ {t}
  /\ IF reply = NULL
     THEN pc' = "dead" /\ UNCHANGED loss
     ELSE loss' = [loss EXCEPT ![t[1]] = reply] /\ UNCHANGED pc
  /\ UNCHANGED <<network, thread, round, cycle, active>>

EndRound ==
  /\ pc = "store"
  /\ model = {}
  /\ pc' = "idle"
  /\ UNCHANGED <<network, thread, round, cycle, active, model, loss>>

Collect == Look \/ (\E t \in Switch \X Round : Store(t)) \/ EndRound

Next ==
  \/ \E d \in Switch : Connect(d) \/ Disconnect(d) \/ Traffic(d)
  \/ \E d \in Switch, r \in Round : Ask(d, r) \/ Answer(d, r) \/ GiveUp(d, r)
  \/ StartRound
  \/ Collect

\* Only the task's own thread is sure to go on: the executor runs a task it has
\* begun, and nothing in run() blocks but sleeps.
Spec == Init /\ [][Next]_vars /\ WF_vars(Collect)

-----------------------------------------------------------------------------
\* A round ends, even when no polling thread ever does: the collector looks a
\* bounded number of times.
RoundEnds == pc = "poll" ~> pc \in {"idle", "dead"}

\* What is stored for a switch never goes back to an earlier reply, although
\* threads of earlier rounds may end at any time and the map is stored in any
\* order.
StatsInOrder ==
  [][\A d \in Switch : loss[d] # NULL => loss'[d] # NULL /\ loss'[d] >= loss[d]]_vars

\* The task is only ever ended by a poll of its last round that ended without a
\* reply, never by a thread that is merely late.
EndedBySilence ==
  pc = "dead" => \E d \in Switch : thread[d][round] = [state |-> "terminated", reply |-> NULL]

\* MonitorPkLoss.java:324-328, "If the thread has not finished the switch has not
\* replied yet and therefore we won't add the switch's stats to the reply": a
\* switch that has not replied is not in the map.
AnsweredOnly == \A t \in model : thread[t[1]][t[2]].reply # NULL
=============================================================================
