-------------------------- MODULE NetworkCalculus ---------------------------
(***************************************************************************)
(* networkcalculus: every port reply of the boundary switch appends a      *)
(* point to the arrival and to the departure curve (NetworkStore.java); a  *)
(* REST request reads the last point of one and then of the other          *)
(* (NetworkCalculusResource.java), and the overlay takes the difference    *)
(* for the backlog of the partition (overlay/NetworkCurve.java).           *)
(*                                                                         *)
(* The curves are static lists without locks.  One thread appends, since   *)
(* only the boundary switch is polled, and readers stay below T, which is  *)
(* raised last: an append is one step.  Memory is sequentially consistent. *)
(* The jitter, which nothing reads, is left out.  The overlay's call that  *)
(* asks is in LoadBalancing, which extends this module.                    *)
(***************************************************************************)
EXTENDS Integers, Sequences, FiniteSetsExt

CONSTANTS
  Rate,      \* MinPlusConvolution.b6: served in one interval
  Delay,     \* MinPlusConvolution.t6: the latency of the server
  Ceiling,   \* what the search for the minimum starts from
  IntBits,   \* the width of int: 32 in Java
  Burst,     \* the numbers of bytes that may arrive at once
  MaxBytes,  \* bound: the byte counter of the port
  MaxT       \* bound: the points of a curve

ASSUME CalculusAssumption ==
  /\ Rate \in Nat /\ Delay \in Nat /\ Ceiling \in Nat
  /\ IntBits \in Nat \ {0, 1}
  /\ 2^(IntBits - 1) \in Nat \ {0, 1} /\ 2^IntBits = 2 * 2^(IntBits - 1)  \* so that proofs may use it
  /\ Burst \subseteq Nat
  /\ MaxBytes \in Nat /\ MaxT \in Nat

VARIABLES
  rxBytes,      \* what the port has received so far
  pc,           \* handlePortStatsReply(): "idle", or what it does next
  arriveBite,   \* the counter in the reply it handles
  arriveCurve,  \* arriveCurve[i + 1] is arriveCurve.get(i)
  departCurve,
  T,
  request,      \* the overlay's request: "none", what is read next, or its end
  result        \* the point it began at, what it read, and the difference

curves == <<arriveCurve, departCurve, T>>
handler == <<pc, arriveBite, curves>>
client == <<request, result>>
curveVars == <<rxBytes, handler, client>>

MaxInt == 2^(IntBits - 1) - 1
Ints == -MaxInt - 1 .. MaxInt

\* The low bits of x: BigInteger.intValue(), and int arithmetic.
JavaInt(x) == ((x + MaxInt + 1) % 2^IntBits) - MaxInt - 1

\* The cast of x / 8.0 to long, which rounds towards zero.
Octets(x) == IF x >= 0 THEN x \div 8 ELSE -((-x) \div 8)

CurvesTypeOK ==
  /\ rxBytes \in 0 .. MaxBytes
  /\ pc \in {"idle", "arrive", "depart", "count"}
  /\ arriveBite \in 0 .. MaxBytes
  /\ arriveCurve \in Seq(Int) /\ Len(arriveCurve) = IF pc \in {"depart", "count"} THEN T + 1 ELSE T
  /\ departCurve \in Seq(Int) /\ Len(departCurve) = IF pc = "count" THEN T + 1 ELSE T
  /\ T \in 0 .. MaxT
  /\ request \in {"none", "depart", "arrive", "parse", "served", "failed"}
  /\ result \in [point : 0 .. MaxT, depart : Int, arrive : Int, backlog : Ints]

NoResult == [point |-> 0, depart |-> 0, arrive |-> 0, backlog |-> 0]

InitCurves ==
  /\ rxBytes = 0
  /\ pc = "idle"
  /\ arriveBite = 0
  /\ arriveCurve = <<>>
  /\ departCurve = <<>>
  /\ T = 0
  /\ request = "none"
  /\ result = NoResult

-----------------------------------------------------------------------------
Traffic(n) ==
  /\ rxBytes + n <= MaxBytes
  /\ rxBytes' = rxBytes + n
  /\ UNCHANGED <<handler, client>>

\* The switch answers with its counter.  (On a reply without the port the code
\* throws before it has changed anything.)
Reply ==
  /\ pc = "idle"
  /\ T < MaxT
  /\ pc' = "arrive"
  /\ arriveBite' = rxBytes
  /\ UNCHANGED <<rxBytes, curves, client>>

\* The counter is added to the last point.
AddArrive ==
  LET last == IF arriveCurve = <<>> THEN 0 ELSE arriveCurve[Len(arriveCurve)] IN
  /\ pc = "arrive"
  /\ arriveCurve' = Append(arriveCurve, Octets(8 * last + JavaInt(arriveBite)))
  /\ pc' = "depart"
  /\ UNCHANGED <<rxBytes, arriveBite, departCurve, T, client>>

\* Slip: a server without latency.
ServerAtOnce(x) == Rate * x

\* The service curve: nothing for Delay intervals, then a constant rate.
Server(x) == IF Rate * (x - Delay) <= 0 THEN 0 ELSE Rate * (x - Delay)

\* Slip: the loop starts at the last interval.
LastTerm(t) == Min({Ceiling} \cup {arriveCurve[i + 1] + Server(t - i) : i \in {t}})

\* minPlusConvolution(t)
Convolution(t) == Min({Ceiling} \cup {arriveCurve[i + 1] + Server(t - i) : i \in 0 .. t})

AddDepart ==
  /\ pc = "depart"
  /\ departCurve' = Append(departCurve, Convolution(T))
  /\ pc' = "count"
  /\ UNCHANGED <<rxBytes, arriveBite, arriveCurve, T, client>>

Count ==
  /\ pc = "count"
  /\ T' = T + 1
  /\ pc' = "idle"
  /\ UNCHANGED <<rxBytes, arriveBite, arriveCurve, departCurve, client>>

-----------------------------------------------------------------------------
(* getResult(), and getNetworkCurve() that asked for it *)

Ask ==
  /\ request = "none"
  /\ request' = "depart"
  /\ result' = NoResult
  /\ UNCHANGED <<rxBytes, handler>>

\* Before the first point get(-1) throws, and the client gets null.
GetDepartCurve ==
  /\ request = "depart"
  /\ IF T = 0
     THEN request' = "failed" /\ UNCHANGED result
     ELSE /\ request' = "arrive"
          /\ result' = [result EXCEPT !.point = T, !.depart = departCurve[T]]
  /\ UNCHANGED <<rxBytes, handler>>

\* Slip: the point before the last.
GetArriveBefore ==
  /\ request = "arrive"
  /\ request' = "parse"
  /\ result' = [result EXCEPT !.arrive = IF T > 1 THEN arriveCurve[T - 1] ELSE arriveCurve[T]]
  /\ UNCHANGED <<rxBytes, handler>>

GetArriveCurve ==
  /\ request = "arrive"
  /\ request' = "parse"
  /\ result' = [result EXCEPT !.arrive = arriveCurve[T]]
  /\ UNCHANGED <<rxBytes, handler>>

\* Slip: the two numbers the wrong way round.
ParseSwapped ==
  /\ request = "parse"
  /\ IF {result.depart, result.arrive} \subseteq Ints
     THEN /\ request' = "served"
          /\ result' = [result EXCEPT !.backlog = JavaInt(result.depart - result.arrive)]
     ELSE request' = "failed" /\ UNCHANGED result
  /\ UNCHANGED <<rxBytes, handler>>

\* parseInt() refuses what does not fit.
Parse ==
  /\ request = "parse"
  /\ IF {result.depart, result.arrive} \subseteq Ints
     THEN /\ request' = "served"
          /\ result' = [result EXCEPT !.backlog = JavaInt(result.arrive - result.depart)]
     ELSE request' = "failed" /\ UNCHANGED result
  /\ UNCHANGED <<rxBytes, handler>>

\* Everything but the call that asks.
NextCurves ==
  \/ \E n \in Burst : Traffic(n)
  \/ Reply \/ AddArrive \/ AddDepart \/ Count
  \/ GetDepartCurve \/ GetArriveCurve \/ Parse

-----------------------------------------------------------------------------
\* Nothing departs before it has arrived, nor sooner than the server's latency:
\* each point of the departure curve is below the arrival curve at that time and
\* one interval before, even when the curve falls as the counter outgrows int.
Causal ==
  \A t \in 1 .. Len(departCurve) :
    /\ departCurve[t] <= arriveCurve[t]
    /\ t > 1 /\ Delay > 0 => departCurve[t] <= arriveCurve[t - 1]

\* The server never exceeds its rate between two points.
WithinRate ==
  \A t \in 2 .. Len(departCurve) : departCurve[t] - departCurve[t - 1] <= Rate

\* While the counter fits an int, the overlay is never told of a smaller backlog
\* than there was when its request came, although the two points it is computed
\* from may be of different rounds.
NeverUnderreported ==
  request = "served" /\ rxBytes <= MaxInt =>
    result.backlog >= arriveCurve[result.point] - departCurve[result.point]
=============================================================================
