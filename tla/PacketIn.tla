------------------------------- MODULE PacketIn -------------------------------
(***************************************************************************)
(* The repository's three packet-in listeners in one controller: the       *)
(* authentication of devices, the receiver of the neighbour partition's    *)
(* flow information and the delay meter.  They share the handler threads,  *)
(* and each decides whether the next one sees a packet.                    *)
(***************************************************************************)
EXTENDS Authenticater, EastWest, NetworkMeter

vars == <<dispatchVars, authVars, eastWestVars, meterVars>>

TypeOK == DispatchType /\ AuthType /\ EastWestType /\ MeterType

Init ==
  /\ InitDispatch
  /\ InitAuthenticater
  /\ InitEastWest
  /\ InitNetworkMeter

\* A frame of a device that no flow entry matches: at the switch it is attached
\* to, or, as devices move, at any other.
FrameArrives(s, frame) ==
  /\ PacketIn(s, frame)
  /\ UNCHANGED <<authVars, eastWestVars, meterVars>>

Arrivals ==
  \/ \E s \in Switch, frame \in Frame : FrameArrives(s, frame)
  \/ \E i \in Info, n \in {1, 2} : Post(i, n) /\ UNCHANGED <<authVars, meterVars>>
  \/ \E i \in Info, n \in {1, 2} : InfoArrives(i, n) /\ UNCHANGED <<authVars, meterVars>>
  \/ ProbeArrives /\ UNCHANGED <<authVars, eastWestVars>>
  \/ \E s \in Switch : EchoArrives(s) /\ UNCHANGED <<authVars, eastWestVars>>

\* A step of the thread that handles the messages of s.
Handle(s) ==
  \/ Authenticate(s) /\ UNCHANGED <<eastWestVars, meterVars>>
  \/ Receive(s) /\ UNCHANGED <<authVars, meterVars>>
  \/ Meter(s) /\ UNCHANGED <<authVars, eastWestVars>>

\* A step of the meter thread.
Measure ==
  /\ NextMeterBegin \/ ClearSize \/ DoTimeDelay
  /\ UNCHANGED <<authVars, eastWestVars>>

Next ==
  \/ Arrivals
  \/ \E s \in Switch : Handle(s)
  \/ Measure

Spec == Init /\ [][Next]_vars

-----------------------------------------------------------------------------
\* The list that REST serves holds each information once, although each is posted
\* twice and the copies may be handled right after one another.
ListedOnce == \A i, j \in DOMAIN list : list[i] = list[j] => i = j

\* An information one of whose two packets came in is listed once no thread has
\* it in hand: whatever the order of the listeners, none of them keeps it from
\* the one it is meant for.
PostSurvives ==
  \A i \in Info :
    /\ \E n \in {1, 2} : copy[<<i, n>>] = "arrived"
    /\ \A s \in Switch : thread[s].msg # [kind |-> "info", info |-> i]
    => i \in Range(list)

\* A device is let through only after the success that the page shows was put
\* into the buffer, from where newer results alone push it out; lost updates of
\* the set do not let another device in.
AdmittedIsShown ==
  \A h \in macAddress :
    Len(buffer) < BufferSize => [host |-> h, code |-> 1] \in Range(buffer)

\* A record with the times of both ends has its delay as soon as no thread is at
\* it, in whichever order and in whichever round the echo replies came, unless
\* both threads were at it at once.
DelayComplete ==
  \A r \in 1 .. made :
    record[r].ctossw /\ record[r].ctodsw /\ ~record[r].crossed /\ (\A s \in Switch : walk[s].at # r)
    => record[r].delay
===============================================================================
