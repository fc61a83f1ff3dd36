----------------------------- MODULE NetworkMeter -----------------------------
(***************************************************************************)
(* lyapunovoptimization/networkmeter, the delay of a link: in each round   *)
(* the meter thread clears linkTimeStatus, sends a probe over the link and *)
(* an echo request to the switch at each end.  The probe, received at the  *)
(* far end, adds a record of the link; each echo reply puts its half trip  *)
(* into the records of the list that name its switch, and computes the     *)
(* delay of a record that has both.                                        *)
(*                                                                         *)
(* The list is a plain ArrayList: add() counts the modification, writes    *)
(* size, then stores; clear() counts it, nulls the slots, then resets      *)
(* size.  Counting is one step, and the list stays within its first array  *)
(* (FlowCollection has both).  Times are abstracted to being set.          *)
(*                                                                         *)
(* The byte counts of the same rounds (currentLinkStatus) are left out:    *)
(* they are used for a figure that is computed and dropped.                *)
(***************************************************************************)
EXTENDS Dispatch

CONSTANTS
  Src, Dst,   \* the switches at the ends of the link that is measured
  MaxRound    \* bound: the rounds of the meter thread

ASSUME LinkAssumption ==
  /\ Src \in Switch /\ Dst \in Switch /\ Src # Dst
  /\ MaxRound \in Nat

Record == 1 .. MaxRound
None == 0

VARIABLES
  meter,      \* the meter thread: "sleep", "clear", "measure" or "dead"
  round,      \* the rounds begun
  probes,     \* the probes sent and not received
  echoes,     \* echoes[s]: the requests sent to s and not answered
  slot,       \* linkTimeStatus: its slots, each a record or None
  size,       \* linkTimeStatus: its size
  modCount,   \* linkTimeStatus: its modifications
  made,       \* the records made so far are 1 .. made
  record,     \* record[r]: which times of record r are set
  walk        \* walk[s]: where the thread of s is in the list

meterThread == <<meter, round>>
sent == <<probes, echoes>>
timeList == <<slot, size, modCount>>
records == <<made, record>>
meterVars == <<meterThread, sent, timeList, records, walk>>

\* `crossed' is history: both handler threads were at the record at once.
NewRecord == [ctossw |-> FALSE, ctodsw |-> FALSE, delay |-> FALSE, crossed |-> FALSE]
NoWalk == [cursor |-> 0, expected |-> 0, at |-> None]

MeterType ==
  /\ meter \in {"sleep", "clear", "measure", "dead"}
  /\ {round, probes, size, made} \subseteq 0 .. MaxRound
  /\ echoes \in [Switch -> 0 .. MaxRound]
  /\ slot \in [Record -> Record \cup {None}]
  /\ modCount \in 0 .. 2 * MaxRound
  /\ record \in [Record -> [ctossw : BOOLEAN, ctodsw : BOOLEAN, delay : BOOLEAN, crossed : BOOLEAN]]
  /\ walk \in [Switch -> [cursor : 0 .. MaxRound, expected : 0 .. 2 * MaxRound,
                          at : Record \cup {None}]]

InitNetworkMeter ==
  /\ meter = "sleep"
  /\ round = 0
  /\ probes = 0
  /\ echoes = [s \in Switch |-> 0]
  /\ slot = [i \in Record |-> None]
  /\ size = 0
  /\ modCount = 0
  /\ made = 0
  /\ record = [r \in Record |-> NewRecord]
  /\ walk = [s \in Switch |-> NoWalk]

-----------------------------------------------------------------------------
(* NetworkMeterThread.run() *)

NextMeterBegin ==
  /\ meter = "sleep"
  /\ round < MaxRound
  /\ round' = round + 1
  /\ slot' = [i \in Record |-> IF i <= size THEN None ELSE slot[i]]
  /\ modCount' = modCount + 1
  /\ meter' = "clear"
  /\ UNCHANGED <<dispatchVars, sent, size, records, walk>>

ClearSize ==
  /\ meter = "clear"
  /\ size' = 0
  /\ meter' = "measure"
  /\ UNCHANGED <<dispatchVars, round, sent, slot, modCount, records, walk>>

\* getSwitch() returns null for a switch that has dropped: the thread dies.
DoTimeDelay ==
  /\ meter = "measure"
  /\ \E connected \in SUBSET {Src, Dst} :
       IF connected = {Src, Dst}
       THEN /\ probes' = probes + 1
            /\ echoes' = [s \in Switch |-> IF s \in {Src, Dst} THEN echoes[s] + 1 ELSE echoes[s]]
            /\ meter' = "sleep"
       ELSE meter' = "dead" /\ UNCHANGED sent
  /\ UNCHANGED <<dispatchVars, round, timeList, records, walk>>

-----------------------------------------------------------------------------
(* receive() and handlePacketIn() *)

\* A probe that is lost is one that is never received.
ProbeArrives ==
  /\ probes > 0
  /\ probes' = probes - 1
  /\ PacketIn(Dst, Probe)
  /\ UNCHANGED <<meterThread, echoes, timeList, records, walk>>

\* Another packet, or a link that the controller no longer knows.
NotMeasured(s) ==
  /\ Called(s, "NetworkMeter")
  /\ Continue(s, "NetworkMeter")
  /\ UNCHANGED meterVars

TimeAdd(s) ==
  /\ Called(s, "NetworkMeter")
  /\ thread[s].msg = Probe
  /\ made' = made + 1
  /\ modCount' = modCount + 1
  /\ walk' = [walk EXCEPT ![s].cursor = size + 1]
  /\ Goto(s, "grow")
  /\ UNCHANGED <<meterThread, sent, slot, size, record>>

\* Slip: the size counts the new record twice.
TimeGrowTwice(s) ==
  /\ thread[s].at = "grow"
  /\ size' = walk[s].cursor + 1
  /\ Goto(s, "store")
  /\ UNCHANGED <<meterThread, sent, slot, modCount, records, walk>>

TimeGrow(s) ==
  /\ thread[s].at = "grow"
  /\ size' = walk[s].cursor
  /\ Goto(s, "store")
  /\ UNCHANGED <<meterThread, sent, slot, modCount, records, walk>>

TimeStore(s) ==
  /\ thread[s].at = "store"
  /\ slot' = [slot EXCEPT ![walk[s].cursor] = made]
  /\ walk' = [walk EXCEPT ![s] = NoWalk]
  /\ Continue(s, "NetworkMeter")
  /\ UNCHANGED <<meterThread, sent, size, modCount, records>>

-----------------------------------------------------------------------------
(* handleEchoReply(): a message of its own, that passes by the listeners *)

EchoArrives(s) ==
  /\ echoes[s] > 0
  /\ echoes' = [echoes EXCEPT ![s] = @ - 1]
  /\ Deliver(s, Echo, {}, "echo")
  /\ walk' = [walk EXCEPT ![s].expected = modCount]
  /\ UNCHANGED <<meterThread, probes, timeList, records>>

\* The loop is at its end, or next() throws, or it returns null, or a record.
EchoNext(s) ==
  /\ thread[s].at = "echo"
  /\ LET i == walk[s].cursor + 1
         r == IF i <= size /\ walk[s].expected = modCount THEN slot[i] ELSE None IN
       IF r = None
       THEN /\ walk' = [walk EXCEPT ![s] = NoWalk]
            /\ Stop(s)
            /\ UNCHANGED record
       ELSE /\ walk' = [walk EXCEPT ![s].cursor = i, ![s].at = r]
            /\ record' = [record EXCEPT ![r].crossed = @ \/ \E t \in Switch : walk[t].at = r]
            /\ Goto(s, "set")
  /\ UNCHANGED <<meterThread, sent, timeList, made>>

\* Slip: `else if' between the two ends and the test for both.
EchoSetElse(s) ==
  /\ thread[s].at = "set"
  /\ record' = IF s = Src THEN [record EXCEPT ![walk[s].at].ctossw = TRUE]
                          ELSE [record EXCEPT ![walk[s].at].ctodsw = TRUE]
  /\ walk' = [walk EXCEPT ![s].at = None]
  /\ Goto(s, "echo")
  /\ UNCHANGED <<meterThread, sent, timeList, made>>

EchoSet(s) ==
  /\ thread[s].at = "set"
  /\ record' = IF s = Src THEN [record EXCEPT ![walk[s].at].ctossw = TRUE]
                          ELSE [record EXCEPT ![walk[s].at].ctodsw = TRUE]
  /\ Goto(s, "check")
  /\ UNCHANGED <<meterThread, sent, timeList, made, walk>>

\* What the thread of s may read of the other end's time: the fields are plain,
\* so a write of the other thread need not be visible while both are there.
Sees(s) ==
  LET r == record[walk[s].at]
      other == IF s = Src THEN r.ctodsw ELSE r.ctossw
  IN {other} \cup (IF r.crossed THEN {FALSE} ELSE {})

EchoCheck(s) ==
  /\ thread[s].at = "check"
  /\ \E both \in Sees(s) : record' = [record EXCEPT ![walk[s].at].delay = @ \/ both]
  /\ walk' = [walk EXCEPT ![s].at = None]
  /\ Goto(s, "echo")
  /\ UNCHANGED <<meterThread, sent, timeList, made>>

Meter(s) ==
  \/ NotMeasured(s)
  \/ TimeAdd(s)
  \/ TimeGrow(s)
  \/ TimeStore(s)
  \/ EchoNext(s)
  \/ EchoSet(s)
  \/ EchoCheck(s)
===============================================================================
