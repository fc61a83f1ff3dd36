--------------------------- MODULE MonitorProofs ----------------------------
(***************************************************************************)
(* Proofs about the packet loss monitor, for any number of switches,       *)
(* rounds and looks.                                                       *)
(***************************************************************************)
EXTENDS MonitorPkLoss, TLAPS

\* What the task has in hand is of the round that runs, and what it has put into
\* the map has ended; no thread of a later round has begun.
RoundInv ==
  /\ active \subseteq Switch \X {round} /\ model \subseteq Switch \X {round}
  /\ \A d \in Switch : <<d, round>> \in model => thread[d][round].state = "terminated"
  /\ \A d \in Switch, r \in Round : r > round => thread[d][r].state = "new" /\ thread[d][r].reply = NULL
  /\ pc = "poll" => cycle < Interval

\* A reply is never newer than the counter, nor older than what is stored.
ReplyInv ==
  \A d \in Switch :
    /\ loss[d] # NULL => loss[d] <= counter[d]
    /\ \A r \in Round : thread[d][r].reply # NULL => thread[d][r].reply <= counter[d]
    /\ round \in Round /\ loss[d] # NULL /\ thread[d][round].reply # NULL => loss[d] <= thread[d][round].reply

IInv == TypeOK /\ RoundInv /\ ReplyInv /\ EndedBySilence

LEMMA Types ==
  /\ Count \subseteq Int /\ NULL \notin Count /\ 0 \in Count
  /\ \A r \in Round : r \in Nat /\ r # 0
  /\ Interval \in Nat \ {0} /\ MaxRound \in Nat /\ MaxCount \in Nat
  /\ \A x : [state |-> "terminated", reply |-> x].state = "terminated" /\ [state |-> "terminated", reply |-> x].reply = x
BY MonitorAssumption DEF Count, Round

LEMMA Numbers ==
  ASSUME TypeOK, NEW d \in Switch
  PROVE  /\ counter[d] \in Int
         /\ loss[d] # NULL => loss[d] \in Int
         /\ \A r \in Round : thread[d][r].reply # NULL => thread[d][r].reply \in Int
<1>1. ASSUME NEW r \in Round PROVE thread[d][r].reply \in Count \cup {NULL}
  <2>1. thread[d][r] \in Thread
    BY DEF TypeOK
  <2> QED BY <2>1 DEF Thread
<1> QED BY <1>1, Types DEF TypeOK

LEMMA InitIInv == Init => IInv
<1> SUFFICES ASSUME Init PROVE IInv
  OBVIOUS
<1>1. TypeOK
  BY Types DEF Init, TypeOK, Thread
<1>2. RoundInv /\ ReplyInv /\ EndedBySilence
  BY Types DEF Init, RoundInv, ReplyInv, EndedBySilence
<1> QED BY <1>1, <1>2 DEF IInv

\* The switches and their counters do not touch the task.
LEMMA NetworkStep ==
  ASSUME IInv, NEW d \in Switch, Connect(d) \/ Disconnect(d) \/ Traffic(d)
  PROVE  IInv'
<1>1. UNCHANGED <<thread, task>> /\ connected' \subseteq Switch
  BY DEF Connect, Disconnect, Traffic, IInv, TypeOK
<1>2. counter' \in [Switch -> Count] /\ \A e \in Switch : counter'[e] >= counter[e]
  <2>1. counter \in [Switch -> Count] /\ \A e \in Switch : counter[e] \in Int
    BY Types DEF IInv, TypeOK
  <2>2. CASE counter' = counter
    BY <2>1, <2>2
  <2>3. CASE counter[d] < MaxCount /\ counter' = [counter EXCEPT ![d] = counter[d] + 1]
    <3>1. counter[d] + 1 \in Count
      BY <2>1, <2>3, Types DEF Count
    <3>2. ASSUME NEW e \in Switch PROVE counter'[e] = counter[e] \/ counter'[e] = counter[e] + 1
      BY <2>1, <2>3
    <3> QED BY <2>1, <2>3, <3>1, <3>2
  <2> QED BY <2>2, <2>3 DEF Connect, Disconnect, Traffic
<1>3. TypeOK'
  BY <1>1, <1>2 DEF IInv, TypeOK, task
<1>4. RoundInv' /\ EndedBySilence'
  BY <1>1 DEF IInv, RoundInv, EndedBySilence, task
<1>5. ReplyInv'
  <2>1. \A e \in Switch : loss[e] # NULL => loss[e] <= counter'[e]
    <3>1. SUFFICES ASSUME NEW e \in Switch, loss[e] # NULL PROVE loss[e] <= counter'[e]
      OBVIOUS
    <3>2. loss[e] \in Int /\ counter[e] \in Int /\ counter'[e] \in Int
      BY <1>2, <3>1, Types DEF IInv, TypeOK
    <3> QED BY <1>2, <3>1, <3>2 DEF IInv, ReplyInv
  <2>2. ASSUME NEW e \in Switch, NEW q \in Round, thread[e][q].reply # NULL
        PROVE  thread[e][q].reply <= counter'[e]
    <3>1. thread[e][q].reply \in Int /\ counter[e] \in Int /\ counter'[e] \in Int
      BY <1>2, <2>2, Types, Numbers DEF IInv
    <3> QED BY <1>2, <2>2, <3>1 DEF IInv, ReplyInv
  <2> QED BY <1>1, <2>1, <2>2 DEF IInv, ReplyInv, task
<1> QED BY <1>3, <1>4, <1>5 DEF IInv

\* A polling thread that has not ended leaves all the others alone, and brings
\* nothing or the counter as it is.
LEMMA ThreadStep ==
  ASSUME IInv, NEW d \in Switch, NEW r \in Round, Ask(d, r) \/ Answer(d, r) \/ GiveUp(d, r)
  PROVE  IInv'
<1>1. UNCHANGED <<network, task>> /\ thread[d][r].state \in {"started", "asked"}
  BY DEF Ask, Answer, GiveUp
<1>2. thread \in [Switch -> [Round -> Thread]] /\ counter[d] \in Count
  BY DEF IInv, TypeOK
<1>3. PICK t \in Thread : /\ thread' = [thread EXCEPT ![d] = [thread[d] EXCEPT ![r] = t]]
                          /\ t.reply \in {thread[d][r].reply, NULL, counter[d]}
  <2>1. CASE thread' = [thread EXCEPT ![d][r].state = "asked"]
    <3> DEFINE t == [thread[d][r] EXCEPT !.state = "asked"]
    <3>1. thread[d][r] \in Thread
      BY <1>2
    <3>2. t \in Thread /\ t.reply = thread[d][r].reply
      BY <3>1 DEF Thread
    <3>3. thread' = [thread EXCEPT ![d] = [thread[d] EXCEPT ![r] = t]]
      BY <2>1
    <3> HIDE DEF t
    <3> QED BY <3>2, <3>3
  <2>2. ASSUME NEW c \in {NULL, counter[d]}, Terminate(d, r, c)
        PROVE  \E t \in Thread : /\ thread' = [thread EXCEPT ![d] = [thread[d] EXCEPT ![r] = t]]
                                 /\ t.reply \in {thread[d][r].reply, NULL, counter[d]}
    <3> DEFINE t == [state |-> "terminated", reply |-> c]
    <3>1. t \in Thread /\ t.reply = c
      BY <1>2 DEF Thread
    <3>2. thread' = [thread EXCEPT ![d] = [thread[d] EXCEPT ![r] = t]]
      BY <2>2 DEF Terminate
    <3> HIDE DEF t
    <3> QED BY <3>1, <3>2
  <2> QED BY <2>1, <2>2 DEF Ask, Answer, GiveUp
<1>4. /\ thread' \in [Switch -> [Round -> Thread]] /\ thread'[d][r] = t
      /\ \A e \in Switch, q \in Round : e # d \/ q # r => thread'[e][q] = thread[e][q]
  BY <1>2, <1>3
<1>5. TypeOK'
  BY <1>1, <1>4 DEF IInv, TypeOK, task, network
<1>6. ASSUME NEW e \in Switch, NEW q \in Round, thread[e][q].state \in {"terminated", "new"}
      PROVE  thread'[e][q] = thread[e][q]
  BY <1>1, <1>4, <1>6
<1>7. RoundInv'
  <2>1. /\ active' = active /\ model' = model /\ round' = round /\ pc' = pc /\ cycle' = cycle
    BY <1>1 DEF task
  <2>2. ASSUME NEW e \in Switch, <<e, round>> \in model PROVE thread'[e][round].state = "terminated"
    <3>1. round \in Round /\ thread[e][round].state = "terminated"
      BY <2>2 DEF IInv, TypeOK, RoundInv
    <3> QED BY <1>6, <3>1
  <2>3. ASSUME NEW e \in Switch, NEW q \in Round, q > round
        PROVE  thread'[e][q].state = "new" /\ thread'[e][q].reply = NULL
    BY <1>6, <2>3 DEF IInv, RoundInv
  <2> QED BY <2>1, <2>2, <2>3 DEF IInv, RoundInv
<1>8. ReplyInv'
  <2>1. loss' = loss /\ counter' = counter /\ round' = round
    BY <1>1 DEF task, network
  <2>2. ASSUME NEW e \in Switch, round \in Round, loss[e] # NULL, thread'[e][round].reply # NULL
        PROVE  loss[e] <= thread'[e][round].reply
    <3>1. CASE e = d /\ round = r
      BY <1>2, <1>3, <1>4, <2>2, <3>1 DEF IInv, ReplyInv
    <3>2. CASE ~(e = d /\ round = r)
      BY <1>4, <2>2, <3>2 DEF IInv, ReplyInv
    <3> QED BY <3>1, <3>2
  <2>3. ASSUME NEW e \in Switch, NEW q \in Round, thread'[e][q].reply # NULL
        PROVE  thread'[e][q].reply <= counter[e]
    <3>1. CASE e = d /\ q = r
      <4>1. thread'[e][q].reply \in {thread[d][r].reply, counter[d]} /\ counter[d] \in Int
        BY <1>3, <1>4, <2>3, <3>1, Numbers DEF IInv
      <4> QED BY <2>3, <3>1, <4>1 DEF IInv, ReplyInv
    <3>2. CASE ~(e = d /\ q = r)
      BY <1>4, <2>3, <3>2 DEF IInv, ReplyInv
    <3> QED BY <3>1, <3>2
  <2> QED BY <2>1, <2>2, <2>3 DEF IInv, ReplyInv
<1>9. EndedBySilence'
  <2>1. SUFFICES ASSUME pc = "dead" PROVE \E e \in Switch : thread'[e][round] = [state |-> "terminated", reply |-> NULL]
    BY <1>1 DEF EndedBySilence, task
  <2>2. PICK e \in Switch : thread[e][round] = [state |-> "terminated", reply |-> NULL]
    BY <2>1 DEF IInv, EndedBySilence
  <2>3. CASE round \in Round
    BY <1>6, <2>2, <2>3, Types
  <2>4. CASE round \notin Round
    BY <1>2, <1>3, <2>2, <2>4
  <2> QED BY <2>3, <2>4
<1> QED BY <1>5, <1>7, <1>8, <1>9 DEF IInv

-----------------------------------------------------------------------------
(* The task *)

LEMMA StartRoundStep ==
  ASSUME IInv, StartRound
  PROVE  IInv'
<1>1. /\ pc = "idle" /\ round < MaxRound /\ active' = Polls /\ model' = {} /\ cycle' = 0
      /\ round' = round + 1 /\ pc' = "poll" /\ UNCHANGED <<network, loss>>
  BY DEF StartRound
<1>2. round \in Nat /\ round + 1 \in Round /\ connected \subseteq Switch
  BY <1>1, Types DEF IInv, TypeOK, Round
<1>3. Polls \subseteq Switch \X {round + 1}
  BY <1>2 DEF Polls
<1> DEFINE begun == [state |-> "started", reply |-> NULL]
<1>4. begun \in Thread /\ begun.state = "started" /\ begun.reply = NULL
  BY DEF Thread
<1>5. thread' = [d \in Switch |-> [r \in Round |-> IF <<d, r>> \in Polls THEN begun ELSE thread[d][r]]]
  BY DEF StartRound, StartThreads
<1> HIDE DEF begun
<1>6. thread \in [Switch -> [Round -> Thread]]
  BY DEF IInv, TypeOK
<1>7. \A d \in Switch, r \in Round : thread'[d][r] = IF <<d, r>> \in Polls THEN begun ELSE thread[d][r]
  BY <1>5
<1>8. \A d \in Switch, r \in Round : r # round + 1 => <<d, r>> \notin Polls
  BY <1>3
<1>9. TypeOK'
  <2>1. thread' \in [Switch -> [Round -> Thread]]
    BY <1>4, <1>5, <1>6
  <2>2. active' \subseteq Switch \X Round /\ round' \in 0 .. MaxRound /\ cycle' \in 0 .. Interval
    BY <1>1, <1>2, <1>3, Types DEF Round
  <2> QED BY <1>1, <2>1, <2>2 DEF IInv, TypeOK, network
<1>10. RoundInv'
  <2>1. ASSUME NEW d \in Switch, NEW r \in Round, r > round + 1
        PROVE  thread'[d][r].state = "new" /\ thread'[d][r].reply = NULL
    <3>1. r > round /\ r # round + 1
      BY <1>2, <2>1, Types
    <3>2. <<d, r>> \notin Polls
      BY <1>8, <3>1
    <3>3. thread'[d][r] = thread[d][r]
      BY <1>7, <3>2
    <3> QED BY <3>1, <3>3 DEF IInv, RoundInv
  <2> QED BY <1>1, <1>3, <2>1, Types DEF RoundInv
<1>11. ReplyInv'
  <2>1. ASSUME NEW d \in Switch PROVE thread'[d][round + 1].reply = NULL
    <3>1. round + 1 > round /\ round + 1 \in Round
      BY <1>2
    <3>2. thread[d][round + 1].reply = NULL
      BY <3>1 DEF IInv, RoundInv
    <3>3. thread'[d][round + 1] \in {begun, thread[d][round + 1]}
      BY <1>7, <3>1
    <3> QED BY <1>4, <3>2, <3>3
  <2>2. ASSUME NEW d \in Switch, NEW r \in Round, thread'[d][r].reply # NULL
        PROVE  thread'[d][r].reply <= counter[d]
    <3>1. thread'[d][r] \in {begun, thread[d][r]}
      BY <1>7
    <3> QED BY <1>4, <2>2, <3>1 DEF IInv, ReplyInv
  <2> QED BY <1>1, <2>1, <2>2 DEF IInv, ReplyInv, network
<1>12. EndedBySilence'
  BY <1>1 DEF EndedBySilence
<1> QED BY <1>9, <1>10, <1>11, <1>12 DEF IInv

LEMMA LookStep ==
  ASSUME IInv, Look
  PROVE  IInv'
<1>1. /\ pc = "poll" /\ model' = model \cup Terminated /\ active' = active \ Terminated
      /\ cycle' = cycle + 1 /\ pc' \in {"store", "poll"} /\ (pc' = "poll" => cycle' # Interval)
      /\ UNCHANGED <<network, thread, round, loss>>
  BY DEF Look
<1>2. cycle \in Nat /\ cycle < Interval
  BY <1>1 DEF IInv, TypeOK, RoundInv
<1>3. /\ Terminated \subseteq active
      /\ \A d \in Switch : <<d, round>> \in Terminated => thread[d][round].state = "terminated"
  BY DEF Terminated
<1>4. TypeOK'
  BY <1>1, <1>2, <1>3, Types DEF IInv, TypeOK, network
<1>5. RoundInv'
  BY <1>1, <1>2, <1>3, Types DEF IInv, RoundInv
<1>6. ReplyInv' /\ EndedBySilence'
  BY <1>1 DEF IInv, ReplyInv, EndedBySilence, network
<1> QED BY <1>4, <1>5, <1>6 DEF IInv

LEMMA StoreStep ==
  ASSUME IInv, NEW t \in Switch \X Round, Store(t)
  PROVE  IInv' /\ \A d \in Switch : loss[d] # NULL => loss'[d] # NULL /\ loss'[d] >= loss[d]
<1>1. PICK d \in Switch : t = <<d, round>> /\ round \in Round
  BY DEF Store, IInv, RoundInv
<1> DEFINE reply == thread[d][round].reply
<1>2. /\ pc = "store" /\ t \in model /\ model' = model \ {t} /\ UNCHANGED <<network, thread, round, cycle, active>>
      /\ IF reply = NULL THEN pc' = "dead" /\ UNCHANGED loss
         ELSE loss' = [loss EXCEPT ![d] = reply] /\ UNCHANGED pc
  BY <1>1 DEF Store
<1>3. thread[d][round] \in Thread /\ thread[d][round].state = "terminated" /\ reply \in Count \cup {NULL}
  BY <1>1, <1>2 DEF IInv, TypeOK, RoundInv, Thread
<1>4. RoundInv'
  BY <1>2 DEF IInv, RoundInv
<1>5. CASE reply = NULL
  <2>1. pc' = "dead" /\ loss' = loss
    BY <1>2, <1>5
  <2>2. thread[d][round] = [state |-> "terminated", reply |-> NULL]
    BY <1>3, <1>5 DEF Thread
  <2>3. TypeOK' /\ ReplyInv'
    BY <1>2, <2>1 DEF IInv, TypeOK, ReplyInv, network
  <2>4. EndedBySilence'
    BY <1>2, <2>2 DEF EndedBySilence
  <2>5. \A e \in Switch : loss[e] # NULL => loss[e] \in Int
    BY Types DEF IInv, TypeOK
  <2> QED BY <1>4, <2>1, <2>3, <2>4, <2>5 DEF IInv
<1>6. CASE reply # NULL
  <2>1. loss' = [loss EXCEPT ![d] = reply] /\ pc' = pc /\ reply \in Count
    BY <1>2, <1>3, <1>6
  <2>2. loss \in [Switch -> Count \cup {NULL}] /\ loss'[d] = reply /\ \A e \in Switch \ {d} : loss'[e] = loss[e]
    BY <2>1 DEF IInv, TypeOK
  <2>3. TypeOK'
    BY <1>2, <2>1, <2>2 DEF IInv, TypeOK, network
  <2>4. reply <= counter[d] /\ reply <= reply
    <3>1. reply \in Int /\ reply <= counter[d]
      BY <1>1, <1>6, Numbers DEF IInv, ReplyInv
    <3> QED BY <3>1
  <2>5. ReplyInv'
    <3>1. /\ thread' = thread /\ counter' = counter /\ round' = round
      BY <1>2 DEF network
    <3>2. ASSUME NEW e \in Switch, loss'[e] # NULL
          PROVE  /\ loss'[e] <= counter[e]
                 /\ round \in Round /\ thread[e][round].reply # NULL => loss'[e] <= thread[e][round].reply
      <4>1. CASE e = d
        BY <2>2, <2>4, <4>1
      <4>2. CASE e # d
        BY <2>2, <3>2, <4>2 DEF IInv, ReplyInv
      <4> QED BY <4>1, <4>2
    <3> QED BY <3>1, <3>2 DEF IInv, ReplyInv
  <2>6. EndedBySilence'
    BY <1>2, <2>1 DEF EndedBySilence
  <2>7. ASSUME NEW e \in Switch, loss[e] # NULL PROVE loss'[e] # NULL /\ loss'[e] >= loss[e]
    <3>1. loss[e] \in Int /\ reply \in Int /\ reply # NULL
      BY <2>1, <2>2, <2>7, Types
    <3> QED BY <1>1, <1>6, <2>2, <2>7, <3>1 DEF IInv, ReplyInv
  <2> QED BY <1>4, <2>3, <2>5, <2>6, <2>7 DEF IInv
<1> QED BY <1>5, <1>6

LEMMA EndRoundStep ==
  ASSUME IInv, EndRound
  PROVE  IInv'
BY DEF EndRound, IInv, TypeOK, RoundInv, ReplyInv, EndedBySilence, network

LEMMA Steps ==
  ASSUME IInv, [Next]_vars
  PROVE  IInv' /\ \A d \in Switch : loss[d] # NULL => loss'[d] # NULL /\ loss'[d] >= loss[d]
<1>1. loss' = loss => \A d \in Switch : loss[d] # NULL => loss'[d] # NULL /\ loss'[d] >= loss[d]
  <2>1. \A d \in Switch : loss[d] # NULL => loss[d] \in Int
    BY Numbers DEF IInv
  <2> QED BY <2>1
<1>2. CASE UNCHANGED vars
  <2>1. IInv'
    BY <1>2 DEF IInv, TypeOK, RoundInv, ReplyInv, EndedBySilence, vars
  <2> QED BY <1>1, <1>2, <2>1 DEF vars
<1>3. CASE \E t \in Switch \X Round : Store(t)
  BY <1>3, StoreStep
<1>4. CASE \E d \in Switch : Connect(d) \/ Disconnect(d) \/ Traffic(d)
  BY <1>1, <1>4, NetworkStep DEF Connect, Disconnect, Traffic, task
<1>5. CASE \E d \in Switch, r \in Round : Ask(d, r) \/ Answer(d, r) \/ GiveUp(d, r)
  BY <1>1, <1>5, ThreadStep DEF Ask, Answer, GiveUp, task
<1>6. CASE StartRound \/ Look \/ EndRound
  BY <1>1, <1>6, StartRoundStep, LookStep, EndRoundStep DEF StartRound, Look, EndRound
<1> QED BY <1>2, <1>3, <1>4, <1>5, <1>6 DEF Next, Collect

\* The variables of the task, its threads and its switches stay in their types,
\* for any number of switches and rounds.
THEOREM TypeCorrect == Spec => []TypeOK
<1>1. IInv => TypeOK
  BY DEF IInv
<1> QED BY <1>1, InitIInv, Steps, PTL DEF Spec

\* MonitorPkLoss.java: only a poll of the last round that ended without a reply
\* ends the task, however many threads of earlier rounds are late.
THEOREM OnlySilenceEnds == Spec => []EndedBySilence
<1>1. IInv => EndedBySilence
  BY DEF IInv
<1> QED BY <1>1, InitIInv, Steps, PTL DEF Spec

\* What the task stores for a switch is never replaced by an earlier reply.
THEOREM StatsNeverGoBack == Spec => StatsInOrder
<1>1. IInv /\ [Next]_vars => IInv' /\ [\A d \in Switch : loss[d] # NULL => loss'[d] # NULL /\ loss'[d] >= loss[d]]_vars
  BY Steps
<1> QED BY <1>1, InitIInv, PTL DEF Spec, StatsInOrder
=============================================================================
