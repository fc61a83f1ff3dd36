--------------------------- MODULE BalancingProofs ---------------------------
(***************************************************************************)
(* Proofs about double hashing and the backlog it asks for, for any number *)
(* of controllers, stride, width of int, and server.                       *)
(***************************************************************************)
EXTENDS LoadBalancing, WellFoundedInduction, TLAPS

USE CalculusAssumption, BalancingAssumption

-----------------------------------------------------------------------------
(* Numbers *)

\* The values of an int wrap around, and those that fit stay.
LEMMA JavaIntFits ==
  /\ 0 \in Ints /\ 1 \in Ints /\ MaxInt \in Nat /\ Ints \subseteq Int
  /\ \A x \in Int : JavaInt(x) \in Ints
  /\ \A x \in Ints : JavaInt(x) = x
<1> DEFINE half == 2^(IntBits - 1)
<1>1. half \in Nat \ {0, 1} /\ 2^IntBits = 2 * half /\ MaxInt = half - 1
  BY DEF MaxInt
<1>2. \A x \in Int : JavaInt(x) = ((x + MaxInt + 1) % (2 * half)) - MaxInt - 1
  BY <1>1 DEF JavaInt
<1> HIDE DEF half
<1>3. Ints = -half .. half - 1
  BY <1>1 DEF Ints
<1>4. \A a \in Int, m \in Nat \ {0} : a % m \in 0 .. m - 1
  OBVIOUS
<1>5. \A a, m \in Nat : a < m => a % m = a
  OBVIOUS
<1>6. ASSUME NEW x \in Int
      PROVE  JavaInt(x) \in Ints
  <2>1. x + MaxInt + 1 \in Int /\ 2 * half \in Nat \ {0}
    BY <1>1
  <2>2. (x + MaxInt + 1) % (2 * half) \in 0 .. 2 * half - 1
    BY <1>4, <2>1
  <2>3. PICK low \in 0 .. 2 * half - 1 : JavaInt(x) = low - MaxInt - 1
    BY <1>2, <2>2
  <2> QED BY <1>1, <1>3, <2>3
<1>7. ASSUME NEW x \in Ints
      PROVE  JavaInt(x) = x
  <2>1. x + MaxInt + 1 \in Nat /\ 2 * half \in Nat /\ x + MaxInt + 1 < 2 * half
    BY <1>1, <1>3
  <2>2. (x + MaxInt + 1) % (2 * half) = x + MaxInt + 1
    BY <1>5, <2>1
  <2>3. x \in Int /\ JavaInt(x) = (x + MaxInt + 1) - MaxInt - 1
    BY <1>1, <1>2, <1>3, <2>2
  <2> QED BY <1>1, <2>3
<1> QED BY <1>1, <1>3, <1>6, <1>7

\* Octets are never more bits than came, and none are lost of a whole point.
LEMMA OctetsGrow ==
  /\ \A x \in Int : Octets(x) \in Int
  /\ \A last \in Int, n \in Nat : Octets(8 * last + n) >= last
BY DEF Octets

\* The service curve: nothing up to the latency, then never more than the rate.
LEMMA ServerRate ==
  /\ \A x \in Int : Server(x) \in Nat /\ (x <= Delay => Server(x) = 0)
  /\ \A x, y \in Int : y = x + 1 => Server(y) <= Server(x) + Rate
<1>1. \A x \in Int : /\ Rate * (x - Delay) \in Int
                     /\ Rate * (x + 1 - Delay) = Rate * (x - Delay) + Rate
                     /\ x <= Delay => Rate * (x - Delay) <= 0
  OBVIOUS
<1> QED BY <1>1 DEF Server

LEMMA LeastNatural ==
  ASSUME NEW S \in SUBSET Nat, S # {}
  PROVE  \E x \in S : \A y \in S : x <= y
<1> DEFINE R == {p \in Nat \X Nat : p[1] < p[2]}
<1>1. IsWellFoundedOn(OpToRel(<, Nat), Nat)
  BY NatLessThanWellFounded, Zenon
<1>2. OpToRel(<, Nat) = R
  BY DEF OpToRel
<1>3. IsWellFoundedOn(R, Nat)
  BY <1>1, <1>2, Zenon
<1>4. \A x, y \in Nat : <<x, y>> \in R <=> x < y
  OBVIOUS
<1> HIDE DEF R
<1>5. PICK x \in S : \A y \in S : ~(<<y, x>> \in R)
  BY <1>3, WFMin
<1>6. ASSUME NEW y \in S PROVE x <= y
  <2>1. x \in Nat /\ y \in Nat /\ ~(y < x)
    BY <1>4, <1>5
  <2> QED BY <2>1
<1> QED BY <1>6

\* A set of integers that grows one by one from a single one has a least.
LEMMA LeastOfMany ==
  ASSUME NEW n \in Nat, NEW S, NEW c \in Int, S[0] = {c},
         \A k \in 1 .. n : S[k - 1] \subseteq Int /\ \E e \in Int : S[k] = S[k - 1] \cup {e}
  PROVE  \E m \in S[n] : \A y \in S[n] : m <= y
<1> DEFINE HasLeast(X) == \E m \in X : \A y \in X : m <= y
           Bad == {k \in 0 .. n : ~HasLeast(S[k])}
<1>1. \A k \in 0 .. n : k # 0 => k - 1 \in 0 .. n /\ k \in 1 .. n /\ ~(k <= k - 1)
  OBVIOUS
<1>2. \A k \in 0 .. n : k \notin Bad => HasLeast(S[k])
  OBVIOUS
<1>3. Bad \in SUBSET Nat /\ \A k \in Bad : k \in 0 .. n /\ ~HasLeast(S[k])
  OBVIOUS
<1> HIDE DEF Bad
<1>4. ASSUME Bad # {} PROVE FALSE
  <2>1. PICK k \in Bad : \A l \in Bad : k <= l
    BY <1>3, <1>4, LeastNatural
  <2>2. k \in 0 .. n /\ ~HasLeast(S[k])
    BY <1>3
  <2>3. CASE k = 0
    <3>1. S[k] = {c}
      BY <2>3
    <3>2. HasLeast(S[k])
      BY <3>1
    <3> QED BY <2>2, <3>2
  <2>4. CASE k # 0
    <3>1. k - 1 \in 0 .. n /\ k \in 1 .. n /\ k - 1 \notin Bad
      BY <1>1, <2>1, <2>2, <2>4
    <3>2. PICK m \in S[k - 1] : \A y \in S[k - 1] : m <= y
      BY <1>2, <3>1
    <3>3. PICK e \in Int : S[k] = S[k - 1] \cup {e}
      BY <3>1
    <3>4. S[k - 1] \subseteq Int
      BY <3>1
    <3>5. HasLeast(S[k])
      <4>1. CASE m <= e
        BY <3>2, <3>3, <3>4, <4>1
      <4>2. CASE ~(m <= e)
        BY <3>2, <3>3, <3>4, <4>2
      <4> QED BY <4>1, <4>2
    <3> QED BY <2>2, <3>5
  <2> QED BY <2>3, <2>4
<1> QED BY <1>2, <1>4

LEMMA AppendFields ==
  ASSUME NEW s \in Seq(Int), NEW e \in Int
  PROVE  /\ Append(s, e) \in Seq(Int) /\ Len(Append(s, e)) = Len(s) + 1 /\ Len(s) \in Nat
         /\ Append(s, e)[Len(s) + 1] = e
         /\ \A i \in 1 .. Len(s) : s[i] \in Int /\ Append(s, e)[i] = s[i]
OBVIOUS

-----------------------------------------------------------------------------
(* Multiples *)

LEMMA Division ==
  \A x \in Int, n \in Nat \ {0} :
    x % n \in 0 .. n - 1 /\ x \div n \in Int /\ x = n * (x \div n) + (x % n)
OBVIOUS

LEMMA Multiple ==
  ASSUME NEW n \in Nat \ {0}, NEW k \in Int, n * k < n, n * k > -n
  PROVE  k = 0
<1>1. CASE k >= 1
  <2>1. PICK m \in Nat : k = 1 + m
    BY <1>1
  <2>2. n * k = n + n * m /\ n * m \in Nat
    BY <2>1
  <2> QED BY <2>2
<1>2. CASE k <= -1
  <2>1. PICK m \in Nat : k = -1 - m
    BY <1>2
  <2>2. n * k = -n - n * m /\ n * m \in Nat
    BY <2>1
  <2> QED BY <2>2
<1> QED BY <1>1, <1>2

LEMMA Remainder ==
  ASSUME NEW x \in Int, NEW n \in Nat \ {0}, NEW q \in Int, NEW r \in 0 .. n - 1, x = n * q + r
  PROVE  x % n = r
<1>1. PICK p \in Int, s \in 0 .. n - 1 : x = n * p + s /\ x % n = s
  BY Division
<1>2. n * (p - q) = r - s
  BY <1>1
<1>3. n * (p - q) < n /\ n * (p - q) > -n
  BY <1>2
<1>4. p - q = 0
  BY <1>3, Multiple
<1>5. n * (p - q) = 0
  BY <1>4
<1> QED BY <1>1, <1>2, <1>5

Divides(d, n) == \E k \in Int : n = d * k

\* The stride and the number of controllers have no factor in common.
Coprime(s, n) == \A d \in Nat \ {0} : Divides(d, s) /\ Divides(d, n) => d = 1

\* What numbers without a common factor sum up to.
Sums(s, n) == {x \in Nat \ {0} : \E a, b \in Int : x = a * s + b * n}

\* The least sum divides whatever the sums' terms are made of.
LEMMA LeastSumDivides ==
  ASSUME NEW s \in Int, NEW n \in Int, NEW g \in Sums(s, n), \A y \in Sums(s, n) : g <= y,
         NEW c \in Int, NEW e \in Int
  PROVE  Divides(g, c * s + e * n)
<1> DEFINE x == c * s + e * n
           q == x \div g
           r == x % g
<1>1. PICK a \in Int, b \in Int : g = a * s + b * n
  BY DEF Sums
<1>2. g \in Nat \ {0} /\ x \in Int
  BY DEF Sums
<1>3. q \in Int /\ r \in 0 .. g - 1 /\ x = g * q + r
  BY <1>2, Division
<1> HIDE DEF q, r
<1>4. r = (c - q * a) * s + (e - q * b) * n
  <2>1. g * q = (q * a) * s + (q * b) * n
    BY <1>1, <1>3
  <2>2. q * a \in Int /\ q * b \in Int
    BY <1>3
  <2>3. r = c * s + e * n - ((q * a) * s + (q * b) * n)
    BY <1>2, <1>3, <2>1
  <2> QED BY <2>2, <2>3
<1>5. c - q * a \in Int /\ e - q * b \in Int
  BY <1>3
<1>6. r \notin Sums(s, n)
  BY <1>2, <1>3
<1>7. r = 0
  <2>1. \E u, v \in Int : r = u * s + v * n
    BY <1>4, <1>5
  <2>2. r # 0 => r \in Sums(s, n)
    BY <1>2, <1>3, <2>1 DEF Sums
  <2> QED BY <1>6, <2>2
<1> QED BY <1>2, <1>3, <1>7 DEF Divides

LEMMA Bezout ==
  ASSUME NEW s \in Nat \ {0}, NEW n \in Nat \ {0}, Coprime(s, n)
  PROVE  \E a, b \in Int : 1 = a * s + b * n
<1>1. s \in Sums(s, n) /\ Sums(s, n) \in SUBSET Nat
  <2>1. s = 1 * s + 0 * n /\ 0 \in Int /\ 1 \in Int
    OBVIOUS
  <2>2. \E a, b \in Int : s = a * s + b * n
    BY <2>1
  <2> QED BY <2>2 DEF Sums
<1>2. PICK g \in Sums(s, n) : \A y \in Sums(s, n) : g <= y
  BY <1>1, LeastNatural
<1>3. 1 * s + 0 * n = s /\ 0 * s + 1 * n = n
  OBVIOUS
<1>4. Divides(g, s) /\ Divides(g, n)
  <2>1. Divides(g, 1 * s + 0 * n) /\ Divides(g, 0 * s + 1 * n)
    <3>1. s \in Int /\ n \in Int /\ 0 \in Int /\ 1 \in Int
      OBVIOUS
    <3>2. \A c, e \in Int : Divides(g, c * s + e * n)
      BY <1>2, <3>1, LeastSumDivides
    <3> QED BY <3>1, <3>2
  <2> QED BY <1>3, <2>1
<1>5. g = 1
  BY <1>4 DEF Coprime, Sums
<1> QED BY <1>5 DEF Sums

\* Without a common factor the multiples of s reach every remainder.
LEMMA MultiplesReach ==
  ASSUME NEW s \in Nat \ {0}, NEW n \in Nat \ {0}, Coprime(s, n), NEW p \in 1 .. n - 1
  PROVE  \E i \in 1 .. n - 1 : (i * s) % n = p
<1>1. PICK a \in Int, b \in Int : 1 = a * s + b * n
  BY Bezout
<1> DEFINE i == (p * a) % n
           q == (p * a) \div n
<1>2. p * a \in Int /\ i \in 0 .. n - 1 /\ q \in Int /\ p * a = n * q + i
  <2>1. p * a \in Int
    OBVIOUS
  <2> QED BY <2>1, Division
<1> HIDE DEF i, q
<1>3. p = (p * a) * s + (p * b) * n
  <2>1. p * 1 = p * (a * s + b * n)
    BY <1>1
  <2>2. p * (a * s + b * n) = (p * a) * s + (p * b) * n
    OBVIOUS
  <2> QED BY <2>1, <2>2
<1>4. i * s = n * (-(p * b) - q * s) + p
  <2>1. (p * a) * s = (n * q + i) * s
    BY <1>2
  <2>2. (n * q + i) * s = n * (q * s) + i * s
    BY <1>2
  <2>3. p * b \in Int /\ q * s \in Int /\ i * s \in Int
    BY <1>2
  <2>4. p = n * (q * s) + i * s + (p * b) * n
    BY <1>3, <2>1, <2>2
  <2> HIDE DEF i
  <2> QED BY <1>2, <2>3, <2>4
<1>5. i * s \in Int /\ -(p * b) - q * s \in Int /\ p \in 0 .. n - 1
  BY <1>2
<1>6. (i * s) % n = p
  BY <1>4, <1>5, Remainder
<1>7. i # 0
  <2>1. ASSUME i = 0 PROVE FALSE
    <3>1. i * s = n * 0 + 0 /\ 0 \in 0 .. n - 1
      BY <2>1
    <3>2. (i * s) % n = 0
      BY <1>5, <3>1, Remainder
    <3> QED BY <1>6, <3>2
  <2> QED BY <2>1
<1>8. i \in 1 .. n - 1
  BY <1>2, <1>7
<1> QED BY <1>6, <1>8

-----------------------------------------------------------------------------
(* The curves *)

\* d is the least of the values the search for the minimum compares for t.
Least(a, t, d) ==
  /\ d \in Int /\ d <= Ceiling
  /\ \A i \in 0 .. t : d <= a[i + 1] + Server(t - i)
  /\ d = Ceiling \/ \E i \in 0 .. t : d = a[i + 1] + Server(t - i)

LEMMA ConvolutionIsLeast ==
  ASSUME arriveCurve \in Seq(Int), NEW t \in Nat, t < Len(arriveCurve)
  PROVE  Least(arriveCurve, t, Convolution(t))
<1> DEFINE g == [i \in 0 .. t |-> arriveCurve[i + 1] + Server(t - i)]
           S == [k \in 0 .. t + 1 |-> {Ceiling} \cup {g[i] : i \in 0 .. k - 1}]
<1>1. \A i \in 0 .. t : arriveCurve[i + 1] \in Int /\ t - i \in Int
  OBVIOUS
<1>2. ASSUME NEW i \in 0 .. t
      PROVE  g[i] = arriveCurve[i + 1] + Server(t - i) /\ g[i] \in Int
  <2>1. Server(t - i) \in Nat
    BY <1>1, ServerRate, Zenon
  <2> QED BY <1>1, <2>1
<1> HIDE DEF g
<1>3. S[t + 1] = {Ceiling} \cup {arriveCurve[i + 1] + Server(t - i) : i \in 0 .. t}
  <2>1. S[t + 1] = {Ceiling} \cup {g[i] : i \in 0 .. t}
    OBVIOUS
  <2> HIDE DEF S
  <2> QED BY <1>2, <2>1
<1>4. S[0] = {Ceiling} /\ Ceiling \in Int /\ t + 1 \in Nat
  OBVIOUS
<1>5. ASSUME NEW k \in 1 .. t + 1
      PROVE  S[k - 1] \subseteq Int /\ \E e \in Int : S[k] = S[k - 1] \cup {e}
  <2>1. 0 .. k - 1 = (0 .. k - 2) \cup {k - 1} /\ k - 1 \in 0 .. t /\ \A i \in 0 .. k - 1 : i \in 0 .. t
    OBVIOUS
  <2>2. S[k] = {Ceiling} \cup {g[i] : i \in 0 .. k - 1} /\ S[k - 1] = {Ceiling} \cup {g[i] : i \in 0 .. k - 2}
    OBVIOUS
  <2> HIDE DEF S
  <2>3. S[k] = S[k - 1] \cup {g[k - 1]}
    BY <2>1, <2>2
  <2>4. S[k - 1] \subseteq Int
    <3>1. \A i \in 0 .. k - 2 : g[i] \in Int
      BY <1>2, <2>1
    <3>2. \A y \in S[k - 1] : y = Ceiling \/ \E i \in 0 .. k - 2 : y = g[i]
      BY <2>2
    <3> QED BY <1>4, <3>1, <3>2
  <2> QED BY <1>2, <2>1, <2>3, <2>4
<1>6. S[t + 1] = {Ceiling} \cup {g[i] : i \in 0 .. t}
  OBVIOUS
<1>8. Convolution(t) = CHOOSE m \in S[t + 1] : \A y \in S[t + 1] : m =< y
  BY <1>3 DEF Convolution, Min
<1> HIDE DEF S
<1>9. \E m \in S[t + 1] : \A y \in S[t + 1] : m <= y
  BY <1>4, <1>5, LeastOfMany, Zenon
<1>10. Convolution(t) \in S[t + 1] /\ \A y \in S[t + 1] : Convolution(t) <= y
  BY <1>8, <1>9, Zenon
<1>11. Convolution(t) <= Ceiling /\ \A i \in 0 .. t : Convolution(t) <= g[i]
  <2>1. Ceiling \in S[t + 1] /\ \A i \in 0 .. t : g[i] \in S[t + 1]
    BY <1>6
  <2> QED BY <1>10, <2>1
<1>12. Convolution(t) = Ceiling \/ \E i \in 0 .. t : Convolution(t) = g[i]
  BY <1>6, <1>10
<1> QED BY <1>2, <1>4, <1>11, <1>12 DEF Least

DepartInv == \A p \in 1 .. Len(departCurve) : Least(arriveCurve, p - 1, departCurve[p])

\* While the counter fits, the arrival curve only rises.
Rising(a) ==
  /\ \A i \in 1 .. Len(a) : a[i] >= 0
  /\ \A i, k \in 1 .. Len(a) : i <= k => a[i] <= a[k]

CounterInv ==
  /\ arriveBite <= rxBytes
  /\ pc # "idle" => T < MaxT
  /\ rxBytes <= MaxInt => Rising(arriveCurve)

\* What the client holds is a departure it read first and an arrival of that
\* point or a later one.
ClientInv ==
  /\ request \in {"arrive", "parse", "served"} =>
       result.point \in 1 .. T /\ result.depart = departCurve[result.point]
  /\ request \in {"parse", "served"} =>
       \E q \in 1 .. T : result.point <= q /\ result.arrive = arriveCurve[q]
  /\ request = "served" =>
       /\ result.depart \in Ints /\ result.arrive \in Ints
       /\ result.backlog = JavaInt(result.arrive - result.depart)

CurveInv == CurvesTypeOK /\ DepartInv /\ CounterInv /\ ClientInv

\* The curves reach the last point a client may be told of.
LEMMA CurvesReach ==
  ASSUME CurvesTypeOK
  PROVE  /\ T \in Nat /\ T <= Len(arriveCurve) /\ T <= Len(departCurve)
         /\ Len(departCurve) <= Len(arriveCurve) /\ Len(arriveCurve) \in Nat /\ Len(departCurve) \in Nat
         /\ \A i \in 1 .. T : arriveCurve[i] \in Int /\ departCurve[i] \in Int
<1>1. /\ T \in Nat /\ arriveCurve \in Seq(Int) /\ departCurve \in Seq(Int)
      /\ Len(arriveCurve) \in {T, T + 1} /\ Len(departCurve) \in {T, T + 1}
      /\ Len(departCurve) = T + 1 => Len(arriveCurve) = T + 1
  BY DEF CurvesTypeOK
<1>2. \A i \in 1 .. T : i \in 1 .. Len(arriveCurve) /\ i \in 1 .. Len(departCurve)
  BY <1>1
<1> QED BY <1>1, <1>2

LEMMA CausalHolds == CurveInv => Causal
<1> SUFFICES ASSUME CurveInv, NEW t \in 1 .. Len(departCurve)
             PROVE  /\ departCurve[t] <= arriveCurve[t]
                    /\ t > 1 /\ Delay > 0 => departCurve[t] <= arriveCurve[t - 1]
  BY DEF Causal
<1>1. Least(arriveCurve, t - 1, departCurve[t]) /\ Len(departCurve) <= Len(arriveCurve)
      /\ Len(departCurve) \in Nat /\ arriveCurve \in Seq(Int)
  BY CurvesReach DEF CurveInv, DepartInv, CurvesTypeOK
<1>2. departCurve[t] \in Int /\ \A i \in 0 .. t - 1 : departCurve[t] <= arriveCurve[i + 1] + Server(t - 1 - i)
  BY <1>1 DEF Least
<1>3. arriveCurve[t] \in Int /\ (t > 1 => arriveCurve[t - 1] \in Int)
  BY <1>1
<1>4. departCurve[t] <= arriveCurve[t]
  <2>1. PICK i \in 0 .. t - 1 : i + 1 = t /\ t - 1 - i \in Int /\ t - 1 - i <= Delay
    OBVIOUS
  <2>2. Server(t - 1 - i) = 0
    BY <2>1, ServerRate, Zenon
  <2> QED BY <1>2, <1>3, <2>1, <2>2
<1>5. ASSUME t > 1, Delay > 0 PROVE departCurve[t] <= arriveCurve[t - 1]
  <2>1. PICK i \in 0 .. t - 1 : i + 1 = t - 1 /\ t - 1 - i \in Int /\ t - 1 - i <= Delay
    BY <1>5
  <2>2. Server(t - 1 - i) = 0
    BY <2>1, ServerRate, Zenon
  <2> QED BY <1>2, <1>3, <1>5, <2>1, <2>2
<1> QED BY <1>4, <1>5

LEMMA WithinRateHolds == CurveInv => WithinRate
<1> SUFFICES ASSUME CurveInv, NEW t \in 2 .. Len(departCurve)
             PROVE  departCurve[t] - departCurve[t - 1] <= Rate
  BY DEF WithinRate
<1>1. Least(arriveCurve, t - 1, departCurve[t]) /\ Least(arriveCurve, t - 2, departCurve[t - 1])
  <2>1. t \in 1 .. Len(departCurve) /\ t - 1 \in 1 .. Len(departCurve) /\ (t - 1) - 1 = t - 2
    OBVIOUS
  <2> QED BY <2>1 DEF CurveInv, DepartInv
<1>2. departCurve[t] \in Int /\ departCurve[t - 1] \in Int /\ departCurve[t] <= Ceiling
  BY <1>1 DEF Least
<1>3. CASE departCurve[t - 1] = Ceiling
  BY <1>2, <1>3
<1>4. ASSUME NEW i \in 0 .. t - 2, departCurve[t - 1] = arriveCurve[i + 1] + Server(t - 2 - i)
      PROVE  departCurve[t] - departCurve[t - 1] <= Rate
  <2>1. departCurve[t] <= arriveCurve[i + 1] + Server(t - 1 - i)
    BY <1>1 DEF Least
  <2>2. t - 2 - i \in Int /\ t - 1 - i \in Int /\ t - 1 - i = (t - 2 - i) + 1
    OBVIOUS
  <2>3. Server(t - 1 - i) <= Server(t - 2 - i) + Rate /\ Server(t - 1 - i) \in Nat /\ Server(t - 2 - i) \in Nat
    BY <2>2, ServerRate, Zenon
  <2>4. arriveCurve[i + 1] \in Int
    <3>1. i + 1 \in 1 .. Len(arriveCurve) /\ arriveCurve \in Seq(Int)
      BY CurvesReach DEF CurveInv, CurvesTypeOK
    <3> QED BY <3>1
  <2>5. \A d, e, a, x, y \in Int : d <= a + y /\ y <= x + Rate /\ e = a + x => d - e <= Rate
    OBVIOUS
  <2> QED BY <1>2, <1>4, <2>1, <2>3, <2>4, <2>5, SMTT(30)
<1> QED BY <1>1, <1>3, <1>4 DEF Least

\* The smaller the departures and the later the arrival, the larger the backlog.
LEMMA NeverUnderreportedHolds == CurveInv => NeverUnderreported
<1> SUFFICES ASSUME CurveInv, request = "served", rxBytes <= MaxInt
             PROVE  result.backlog >= arriveCurve[result.point] - departCurve[result.point]
  BY DEF NeverUnderreported
<1> DEFINE p == result.point
<1>1. p \in 1 .. T /\ result.depart = departCurve[p] /\ result.depart \in Ints /\ result.arrive \in Ints
      /\ result.backlog = JavaInt(result.arrive - result.depart)
  BY DEF CurveInv, ClientInv
<1>2. PICK q \in 1 .. T : p <= q /\ result.arrive = arriveCurve[q]
  BY DEF CurveInv, ClientInv
<1>3. Rising(arriveCurve) /\ p \in 1 .. Len(arriveCurve) /\ q \in 1 .. Len(arriveCurve) /\ p \in 1 .. Len(departCurve)
  BY <1>1, CurvesReach DEF CurveInv, CounterInv
<1>4. arriveCurve[p] \in Int /\ arriveCurve[q] \in Int /\ departCurve[p] \in Int
  BY <1>1, CurvesReach DEF CurveInv
<1>5. arriveCurve[p] <= arriveCurve[q] /\ arriveCurve[q] >= 0
  BY <1>2, <1>3 DEF Rising
<1>6. departCurve[p] >= 0
  <2>1. Least(arriveCurve, p - 1, departCurve[p])
    BY <1>3 DEF CurveInv, DepartInv
  <2>2. ASSUME NEW i \in 0 .. p - 1 PROVE arriveCurve[i + 1] + Server(p - 1 - i) >= 0
    <3>1. i + 1 \in 1 .. Len(arriveCurve) /\ i + 1 \in 1 .. T /\ p - 1 - i \in Int
      <4>1. p \in 1 .. T /\ T \in Nat /\ T <= Len(arriveCurve) /\ Len(arriveCurve) \in Nat
        BY <1>1, CurvesReach DEF CurveInv
      <4> QED BY <4>1
    <3>2. arriveCurve[i + 1] >= 0 /\ arriveCurve[i + 1] \in Int
      BY <1>3, <3>1, CurvesReach DEF Rising, CurveInv
    <3>3. Server(p - 1 - i) \in Nat
      BY <3>1, ServerRate, Zenon
    <3> QED BY <3>2, <3>3
  <2>3. departCurve[p] = Ceiling \/ \E i \in 0 .. p - 1 : departCurve[p] = arriveCurve[i + 1] + Server(p - 1 - i)
    BY <2>1 DEF Least
  <2> QED BY <2>2, <2>3
<1>7. result.arrive - result.depart \in Ints
  BY <1>1, <1>2, <1>4, <1>5, <1>6, JavaIntFits DEF Ints
<1>8. result.backlog = arriveCurve[q] - departCurve[p]
  BY <1>1, <1>2, <1>7, JavaIntFits
<1> QED BY <1>4, <1>5, <1>8

-----------------------------------------------------------------------------
(* Every step of the curves keeps CurveInv *)

LEMMA RisingAppend ==
  ASSUME NEW a \in Seq(Int), NEW e \in Int, Rising(a), e >= 0, a # <<>> => a[Len(a)] <= e
  PROVE  Rising(Append(a, e))
<1>1. Append(a, e) \in Seq(Int) /\ Len(Append(a, e)) = Len(a) + 1 /\ Len(a) \in Nat
      /\ Append(a, e)[Len(a) + 1] = e
      /\ \A i \in 1 .. Len(a) : a[i] \in Int /\ Append(a, e)[i] = a[i]
  BY AppendFields
<1>2. \A i \in 1 .. Len(a) : a[i] >= 0 /\ a[i] <= e
  <2>1. SUFFICES ASSUME NEW i \in 1 .. Len(a) PROVE a[i] >= 0 /\ a[i] <= e
    OBVIOUS
  <2>2. Len(a) \in 1 .. Len(a) /\ i <= Len(a) /\ a # <<>>
    BY <1>1
  <2> QED BY <1>1, <2>2 DEF Rising
<1>3. \A i \in 1 .. Len(a) + 1 : i \in 1 .. Len(a) \/ i = Len(a) + 1
  BY <1>1
<1> DEFINE b == Append(a, e)
<1>4. \A i \in 1 .. Len(b) : b[i] >= 0
  BY <1>1, <1>2, <1>3
<1>5. ASSUME NEW i \in 1 .. Len(b), NEW k \in 1 .. Len(b), i <= k
      PROVE  b[i] <= b[k]
  <2>1. CASE k \in 1 .. Len(a)
    BY <1>1, <1>5, <2>1 DEF Rising
  <2>2. CASE k = Len(a) + 1
    BY <1>1, <1>2, <1>3, <2>2
  <2> QED BY <1>1, <1>3, <2>1, <2>2
<1> QED BY <1>4, <1>5 DEF Rising

LEMMA InitCurveInv == InitCurves => CurveInv
<1> SUFFICES ASSUME InitCurves PROVE CurveInv
  OBVIOUS
<1>1. CurvesTypeOK
  BY JavaIntFits DEF InitCurves, CurvesTypeOK, NoResult
<1>2. DepartInv /\ CounterInv /\ ClientInv
  BY DEF InitCurves, DepartInv, CounterInv, ClientInv, Rising
<1> QED BY <1>1, <1>2 DEF CurveInv

LEMMA TrafficStep ==
  ASSUME CurveInv, NEW n \in Burst, Traffic(n)
  PROVE  CurveInv'
<1>1. n \in Nat /\ rxBytes \in Nat /\ rxBytes' = rxBytes + n /\ rxBytes' <= MaxBytes /\ UNCHANGED <<handler, client>>
  BY DEF CurveInv, CurvesTypeOK, Traffic
<1>2. CurvesTypeOK'
  BY <1>1 DEF CurveInv, CurvesTypeOK, handler, client, curves
<1>3. CounterInv'
  <2>1. /\ arriveBite' = arriveBite /\ pc' = pc /\ T' = T /\ arriveCurve' = arriveCurve
        /\ arriveBite \in Nat /\ MaxInt \in Nat
    BY <1>1, JavaIntFits DEF CurveInv, CurvesTypeOK, handler, curves
  <2>2. rxBytes' <= MaxInt => rxBytes <= MaxInt
    BY <1>1, <2>1
  <2>3. MaxInt' = MaxInt
    BY DEF MaxInt
  <2> QED BY <1>1, <2>1, <2>2, <2>3 DEF CurveInv, CounterInv, Rising
<1>4. DepartInv' /\ ClientInv'
  BY <1>1 DEF CurveInv, DepartInv, ClientInv, Least, handler, client, curves
<1> QED BY <1>2, <1>3, <1>4 DEF CurveInv

LEMMA ReplyStep ==
  ASSUME CurveInv, Reply
  PROVE  CurveInv'
<1>1. CurvesTypeOK'
  BY DEF CurveInv, CurvesTypeOK, Reply, curves, client
<1>2. CounterInv'
  BY DEF CurveInv, CurvesTypeOK, CounterInv, Rising, Reply, curves
<1>3. DepartInv' /\ ClientInv'
  BY DEF CurveInv, DepartInv, ClientInv, Least, Reply, curves, client
<1> QED BY <1>1, <1>2, <1>3 DEF CurveInv

LEMMA AddArriveStep ==
  ASSUME CurveInv, AddArrive
  PROVE  CurveInv'
<1> DEFINE last == IF arriveCurve = <<>> THEN 0 ELSE arriveCurve[Len(arriveCurve)]
           e == Octets(8 * last + JavaInt(arriveBite))
<1>1. /\ pc = "arrive" /\ pc' = "depart" /\ arriveCurve' = Append(arriveCurve, e)
      /\ UNCHANGED <<rxBytes, arriveBite, departCurve, T, client>>
  BY DEF AddArrive
<1>2. /\ arriveCurve \in Seq(Int) /\ Len(arriveCurve) = T /\ T \in Nat
      /\ departCurve \in Seq(Int) /\ Len(departCurve) = T /\ arriveBite \in Nat /\ rxBytes \in Nat
  BY <1>1 DEF CurveInv, CurvesTypeOK
<1>3. last \in Int /\ JavaInt(arriveBite) \in Int
  <2>1. last \in Int
    BY <1>2
  <2>2. arriveBite \in Int
    BY <1>2
  <2>3. JavaInt(arriveBite) \in Ints
    BY <2>2, JavaIntFits, Zenon
  <2> QED BY <2>1, <2>3, JavaIntFits
<1>4. e \in Int
  <2>1. 8 * last + JavaInt(arriveBite) \in Int
    BY <1>3
  <2> HIDE DEF last
  <2> QED BY <2>1, OctetsGrow, Zenon
<1> HIDE DEF e
<1>5. /\ arriveCurve' \in Seq(Int) /\ Len(arriveCurve') = T + 1
      /\ \A i \in 1 .. T : arriveCurve'[i] = arriveCurve[i]
  BY <1>1, <1>2, <1>4, AppendFields
<1>6. CurvesTypeOK'
  BY <1>1, <1>2, <1>5 DEF CurveInv, CurvesTypeOK, client
<1>7. DepartInv'
  <2>1. SUFFICES ASSUME NEW p \in 1 .. Len(departCurve)
                 PROVE  Least(arriveCurve', p - 1, departCurve[p])
    BY <1>1 DEF DepartInv, Least
  <2>2. Least(arriveCurve, p - 1, departCurve[p])
    BY DEF CurveInv, DepartInv
  <2>3. \A i \in 0 .. p - 1 : arriveCurve'[i + 1] = arriveCurve[i + 1]
    BY <1>2, <1>5
  <2> QED BY <2>2, <2>3 DEF Least
<1>8. CounterInv'
  <2>1. ASSUME rxBytes <= MaxInt PROVE Rising(arriveCurve')
    <3>1. Rising(arriveCurve) /\ JavaInt(arriveBite) \in Nat
      <4>1. arriveBite \in Ints /\ Rising(arriveCurve)
        BY <1>2, <2>1, JavaIntFits DEF CurveInv, CounterInv, Ints
      <4> QED BY <1>2, <4>1, JavaIntFits
    <3>2. last >= 0 /\ e >= last
      <4>1. last >= 0
        BY <1>2, <3>1 DEF Rising
      <4>2. e >= last
        BY <1>3, <3>1, OctetsGrow DEF e
      <4> QED BY <4>1, <4>2
    <3>3. e >= 0 /\ (arriveCurve # <<>> => arriveCurve[Len(arriveCurve)] <= e)
      BY <1>3, <1>4, <3>2
    <3> QED BY <1>1, <1>2, <1>4, <3>1, <3>3, RisingAppend
  <2>2. CounterInv' <=> (arriveBite <= rxBytes /\ T < MaxT /\ (rxBytes <= MaxInt => Rising(arriveCurve')))
    BY <1>1 DEF CounterInv, Rising
  <2> QED BY <1>1, <2>1, <2>2 DEF CurveInv, CounterInv
<1>9. ClientInv'
  BY <1>1, <1>2, <1>5 DEF CurveInv, CurvesTypeOK, ClientInv, client
<1> QED BY <1>6, <1>7, <1>8, <1>9 DEF CurveInv

LEMMA AddDepartStep ==
  ASSUME CurveInv, AddDepart
  PROVE  CurveInv'
<1>1. /\ pc = "depart" /\ pc' = "count" /\ departCurve' = Append(departCurve, Convolution(T))
      /\ UNCHANGED <<rxBytes, arriveBite, arriveCurve, T, client>>
  BY DEF AddDepart
<1>2. /\ arriveCurve \in Seq(Int) /\ Len(arriveCurve) = T + 1 /\ T \in Nat
      /\ departCurve \in Seq(Int) /\ Len(departCurve) = T
  BY <1>1 DEF CurveInv, CurvesTypeOK
<1>3. Least(arriveCurve, T, Convolution(T))
  BY <1>2, ConvolutionIsLeast
<1>4. /\ departCurve' \in Seq(Int) /\ Len(departCurve') = T + 1 /\ departCurve'[T + 1] = Convolution(T)
      /\ \A i \in 1 .. T : departCurve'[i] = departCurve[i]
  <2>1. Convolution(T) \in Int
    BY <1>3 DEF Least
  <2> QED BY <1>1, <1>2, <2>1, AppendFields
<1>5. CurvesTypeOK'
  BY <1>1, <1>2, <1>4 DEF CurveInv, CurvesTypeOK, client
<1>6. DepartInv'
  <2>1. SUFFICES ASSUME NEW p \in 1 .. T + 1
                 PROVE  Least(arriveCurve, p - 1, departCurve'[p])
    BY <1>1, <1>4 DEF DepartInv, Least
  <2>2. CASE p \in 1 .. T
    BY <1>2, <1>4, <2>2 DEF CurveInv, DepartInv
  <2>3. CASE p = T + 1
    <3>1. p - 1 = T
      BY <1>2, <2>3
    <3> QED BY <1>3, <1>4, <2>3, <3>1
  <2> QED BY <1>2, <2>2, <2>3
<1>7. CounterInv'
  BY <1>1 DEF CurveInv, CounterInv, Rising
<1>8. ClientInv'
  BY <1>1, <1>2, <1>4 DEF CurveInv, CurvesTypeOK, ClientInv, client
<1> QED BY <1>5, <1>6, <1>7, <1>8 DEF CurveInv

LEMMA CountStep ==
  ASSUME CurveInv, Count
  PROVE  CurveInv'
<1>1. /\ pc = "count" /\ pc' = "idle" /\ T' = T + 1
      /\ UNCHANGED <<rxBytes, arriveBite, arriveCurve, departCurve, client>>
  BY DEF Count
<1>2. CurvesTypeOK'
  BY <1>1 DEF CurveInv, CurvesTypeOK, CounterInv, client
<1>3. DepartInv' /\ CounterInv'
  BY <1>1 DEF CurveInv, DepartInv, CounterInv, Rising, Least
<1>4. ClientInv'
  <2>1. T \in Nat
    BY DEF CurveInv, CurvesTypeOK
  <2>2. \A q \in 1 .. T : q \in 1 .. T + 1
    BY <2>1
  <2> QED BY <1>1, <2>2 DEF CurveInv, ClientInv, client
<1> QED BY <1>2, <1>3, <1>4 DEF CurveInv

\* What a client's step leaves alone.
LEMMA ServerKept ==
  ASSUME CurveInv, UNCHANGED <<rxBytes, handler>>
  PROVE  DepartInv' /\ CounterInv'
BY DEF CurveInv, DepartInv, CounterInv, Rising, Least, handler, curves

Requests == {"none", "depart", "arrive", "parse", "served", "failed"}
Results == [point : 0 .. MaxT, depart : Int, arrive : Int, backlog : Ints]

LEMMA TypeOfClient ==
  ASSUME CurveInv, UNCHANGED <<rxBytes, handler>>, request' \in Requests, result' \in Results
  PROVE  CurvesTypeOK'
BY DEF CurveInv, CurvesTypeOK, handler, curves, Requests, Results

LEMMA AskStep ==
  ASSUME CurveInv, Ask
  PROVE  CurveInv'
<1>1. request' = "depart" /\ result' = NoResult /\ UNCHANGED <<rxBytes, handler>>
  BY DEF Ask
<1>2. CurvesTypeOK'
  <2>1. NoResult \in Results /\ "depart" \in Requests
    BY JavaIntFits DEF NoResult, Results, CurveInv, CurvesTypeOK, Requests
  <2> QED BY <1>1, <2>1, TypeOfClient
<1>3. ClientInv'
  BY <1>1 DEF ClientInv
<1> QED BY <1>1, <1>2, <1>3, ServerKept DEF CurveInv

LEMMA GetDepartCurveStep ==
  ASSUME CurveInv, GetDepartCurve
  PROVE  CurveInv'
<1>1. UNCHANGED <<rxBytes, handler>> /\ request = "depart" /\ result \in Results
  BY DEF GetDepartCurve, CurveInv, CurvesTypeOK, Results
<1>2. CASE T = 0
  <2>1. request' = "failed" /\ result' = result
    BY <1>2 DEF GetDepartCurve
  <2>2. CurvesTypeOK'
    BY <1>1, <2>1, TypeOfClient DEF Requests
  <2>3. ClientInv'
    BY <2>1 DEF ClientInv
  <2> QED BY <1>1, <2>2, <2>3, ServerKept DEF CurveInv
<1>3. CASE T # 0
  <2>1. request' = "arrive" /\ result' = [result EXCEPT !.point = T, !.depart = departCurve[T]]
    BY <1>3 DEF GetDepartCurve
  <2>2. T \in 1 .. T /\ T \in 0 .. MaxT /\ departCurve[T] \in Int
    BY <1>3, CurvesReach DEF CurveInv, CurvesTypeOK
  <2>3. CurvesTypeOK'
    <3>1. result' \in Results
      BY <1>1, <2>1, <2>2 DEF Results
    <3> QED BY <1>1, <2>1, <3>1, TypeOfClient DEF Requests
  <2>4. T' = T /\ departCurve' = departCurve /\ result'.point = T /\ result'.depart = departCurve[T]
    BY <1>1, <2>1 DEF handler, curves, Results
  <2>5. ClientInv'
    BY <2>1, <2>2, <2>4 DEF ClientInv
  <2> QED BY <1>1, <2>3, <2>5, ServerKept DEF CurveInv
<1> QED BY <1>2, <1>3

LEMMA GetArriveCurveStep ==
  ASSUME CurveInv, GetArriveCurve
  PROVE  CurveInv'
<1>1. /\ UNCHANGED <<rxBytes, handler>> /\ request = "arrive" /\ result \in Results
      /\ request' = "parse" /\ result' = [result EXCEPT !.arrive = arriveCurve[T]]
  BY DEF GetArriveCurve, CurveInv, CurvesTypeOK, Results
<1>2. result.point \in 1 .. T /\ result.depart = departCurve[result.point] /\ T \in Nat
  BY <1>1, CurvesReach DEF CurveInv, ClientInv
<1>3. T \in 1 .. T /\ result.point <= T /\ arriveCurve[T] \in Int
  BY <1>2, CurvesReach DEF CurveInv
<1>4. CurvesTypeOK'
  <2>1. result' \in Results
    BY <1>1, <1>3 DEF Results
  <2> QED BY <1>1, <2>1, TypeOfClient DEF Requests
<1>5. /\ T' = T /\ departCurve' = departCurve /\ arriveCurve' = arriveCurve
      /\ result'.point = result.point /\ result'.depart = result.depart /\ result'.arrive = arriveCurve[T]
  BY <1>1 DEF handler, curves, Results
<1>6. ClientInv'
  BY <1>1, <1>2, <1>3, <1>5 DEF ClientInv
<1> QED BY <1>1, <1>4, <1>6, ServerKept DEF CurveInv

LEMMA ParseStep ==
  ASSUME CurveInv, Parse
  PROVE  CurveInv'
<1>1. UNCHANGED <<rxBytes, handler>> /\ request = "parse" /\ result \in Results
  BY DEF Parse, CurveInv, CurvesTypeOK, Results
<1>2. CASE ~({result.depart, result.arrive} \subseteq Ints)
  <2>1. request' = "failed" /\ result' = result
    BY <1>2 DEF Parse
  <2>2. CurvesTypeOK'
    BY <1>1, <2>1, TypeOfClient DEF Requests
  <2>3. ClientInv'
    BY <2>1 DEF ClientInv
  <2> QED BY <1>1, <2>2, <2>3, ServerKept DEF CurveInv
<1>3. CASE {result.depart, result.arrive} \subseteq Ints
  <2>1. request' = "served" /\ result' = [result EXCEPT !.backlog = JavaInt(result.arrive - result.depart)]
    BY <1>3 DEF Parse
  <2>2. result.arrive - result.depart \in Int
    BY <1>1 DEF Results
  <2>3. JavaInt(result.arrive - result.depart) \in Ints
    BY <2>2, JavaIntFits, Zenon
  <2>4. CurvesTypeOK'
    <3>1. result' \in Results
      BY <1>1, <2>1, <2>3 DEF Results
    <3> QED BY <1>1, <2>1, <3>1, TypeOfClient DEF Requests
  <2>5. /\ T' = T /\ departCurve' = departCurve /\ arriveCurve' = arriveCurve
        /\ result'.point = result.point /\ result'.depart = result.depart /\ result'.arrive = result.arrive
        /\ result'.backlog = JavaInt(result.arrive - result.depart)
    BY <1>1, <2>1 DEF handler, curves, Results
  <2>6. JavaInt(result.arrive - result.depart)' = JavaInt(result'.arrive - result'.depart)
    BY DEF JavaInt
  <2>7. ClientInv'
    BY <1>1, <1>3, <2>1, <2>5 DEF CurveInv, ClientInv, JavaInt, Ints, MaxInt
  <2> QED BY <1>1, <2>4, <2>7, ServerKept DEF CurveInv
<1> QED BY <1>2, <1>3

LEMMA CurvesStep ==
  ASSUME CurveInv, NextCurves
  PROVE  CurveInv'
BY TrafficStep, ReplyStep, AddArriveStep, AddDepartStep, CountStep, GetDepartCurveStep, GetArriveCurveStep, ParseStep
   DEF NextCurves

LEMMA CurvesRest ==
  ASSUME CurveInv, UNCHANGED curveVars
  PROVE  CurveInv'
<1>1. CurvesTypeOK'
  BY DEF CurveInv, CurvesTypeOK, curveVars, handler, curves, client
<1>2. DepartInv' /\ CounterInv'
  BY ServerKept DEF curveVars
<1>3. ClientInv'
  BY DEF CurveInv, ClientInv, curveVars, handler, curves, client
<1> QED BY <1>1, <1>2, <1>3 DEF CurveInv

-----------------------------------------------------------------------------
(* The call *)

\* A call that goes on has found the supervisory controller overloaded; it probes
\* because of the backlog, and keeps the device for want of it.
CallInv ==
  /\ size \in [Position -> Size \cup {NULL}]
  /\ stage \in {"idle", "asking", "probe", "done", "thrown"}
  /\ j \in Ints
  /\ answer \in Position \cup {NULL}
  /\ stage \in {"asking", "probe"} => size[0] = "above"
  /\ stage = "probe" => request = "served" /\ result.backlog > MaxBacklog
  /\ stage = "done" =>
       /\ answer \in Position
       /\ answer # 0 => result.backlog > MaxBacklog /\ size[0] = "above" /\ size[answer] = "below"
       /\ answer = 0 /\ size[0] = "above" => request = "served" /\ result.backlog <= MaxBacklog

IInv == CurveInv /\ CallInv

LEMMA Positions ==
  /\ 0 \in Position /\ NULL \notin Position /\ NULL \notin Size
  /\ \A i \in Ints : Probed(i) \in Position
<1>1. 0 \in Position /\ NULL \notin Position /\ NULL \notin Size
  BY DEF Position
<1>2. ASSUME NEW i \in Ints PROVE Probed(i) \in Position
  <2>1. Stride \in Int
    BY DEF Stride
  <2>2. i * Stride \in Int
    BY <2>1, JavaIntFits
  <2>3. Key1(i) \in Ints
    BY <2>2, JavaIntFits, Zenon DEF Key1
  <2>4. \A a \in Int, m \in Nat \ {0} : a % m \in 0 .. m - 1
    OBVIOUS
  <2>5. Key1(i) % RingSize \in Position
    BY <2>3, <2>4, JavaIntFits DEF Position
  <2> QED BY <1>1, <2>5 DEF Probed
<1> QED BY <1>1, <1>2

LEMMA CallStep ==
  ASSUME IInv, Call
  PROVE  IInv'
<1>1. 0 \in Position /\ NULL \notin Size /\ j' = j /\ stage = "idle"
  BY Positions DEF Call
<1>2. CASE Looks(0, "above") /\ Ask /\ stage' = "asking" /\ UNCHANGED answer
  <2>1. CurveInv'
    BY <1>2, AskStep DEF IInv
  <2>2. CallInv'
    BY <1>1, <1>2 DEF IInv, CallInv, Looks, Size
  <2> QED BY <2>1, <2>2 DEF IInv
<1>3. ASSUME NEW s \in Size \ {"above"}, Looks(0, s), Return(0), UNCHANGED curveVars
      PROVE  IInv'
  <2>1. CurveInv'
    BY <1>3, CurvesRest DEF IInv
  <2>2. CallInv'
    BY <1>1, <1>3 DEF IInv, CallInv, Looks, Size, Return
  <2> QED BY <2>1, <2>2 DEF IInv
<1> QED BY <1>2, <1>3 DEF Call

LEMMA CheckStep ==
  ASSUME IInv, Check
  PROVE  IInv'
<1>1. CurveInv'
  BY CurvesRest DEF IInv, Check
<1>2. 0 \in Position /\ request' = request /\ result' = result /\ result.backlog \in Int
  BY Positions, JavaIntFits DEF Check, curveVars, client, IInv, CurveInv, CurvesTypeOK
<1>3. CallInv'
  BY <1>2 DEF IInv, CallInv, Check, Return
<1> QED BY <1>1, <1>3 DEF IInv

LEMMA ProbeStep ==
  ASSUME IInv, Probe
  PROVE  IInv'
<1>1. CurveInv'
  BY CurvesRest DEF IInv, Probe
<1>2. /\ 0 \in Position /\ NULL \notin Position /\ NULL \notin Size /\ Probed(j) \in Position
      /\ request' = request /\ result' = result /\ stage = "probe" /\ size[0] = "above"
  BY Positions DEF Probe, curveVars, client, IInv, CallInv
<1>3. JavaInt(j + 1) \in Ints
  <2>1. j + 1 \in Int
    BY JavaIntFits DEF IInv, CallInv
  <2> QED BY <2>1, JavaIntFits, Zenon
<1>4. CASE Looks(Probed(j), "below") /\ Return(Probed(j)) /\ UNCHANGED j
  BY <1>1, <1>2, <1>4 DEF IInv, CallInv, Looks, Return, Size
<1>5. ASSUME NEW s \in Size \ {"below"}, Looks(Probed(j), s), j' = JavaInt(j + 1), UNCHANGED <<stage, answer>>
      PROVE  IInv'
  BY <1>1, <1>2, <1>3, <1>5 DEF IInv, CallInv, Looks, Size
<1> QED BY <1>4, <1>5 DEF Probe

LEMMA CurvesGoOn ==
  ASSUME IInv, Curves
  PROVE  IInv'
<1>1. CurveInv'
  BY CurvesStep DEF IInv, Curves
<1>2. CallInv'
  BY DEF IInv, CallInv, Curves, callVars
<1> QED BY <1>1, <1>2 DEF IInv

LEMMA NextIInv ==
  ASSUME IInv, [Next]_vars
  PROVE  IInv'
<1>1. CASE UNCHANGED vars
  <2>1. CurveInv'
    BY <1>1, CurvesRest DEF IInv, vars
  <2>2. CallInv'
    BY <1>1 DEF IInv, CallInv, vars, callVars, curveVars, client
  <2> QED BY <2>1, <2>2 DEF IInv
<1> QED BY <1>1, CallStep, CheckStep, ProbeStep, CurvesGoOn DEF Next

LEMMA InitIInv == Init => IInv
<1> SUFFICES ASSUME Init PROVE IInv
  OBVIOUS
<1>1. CurveInv
  BY InitCurveInv DEF Init
<1>2. CallInv
  BY JavaIntFits DEF Init, CallInv
<1> QED BY <1>1, <1>2 DEF IInv

LEMMA Invariance == Spec => []IInv
BY InitIInv, NextIInv, PTL DEF Spec

\* The variables of the call and of the curves stay in their types, whatever the
\* width of int: what the code computes in int is an int again.
THEOREM TypeCorrect == Spec => []TypeOK
<1>1. IInv => TypeOK
  BY DEF IInv, CurveInv, CallInv, TypeOK
<1> QED BY <1>1, Invariance, PTL

\* The double hashing of LoadBalancing.java sends a device away only under
\* backlog, from an overloaded controller, to one with room, for any number of
\* controllers and any stride.
THEOREM SentToRoom == Spec => []RedirectedToRoom
<1>1. IInv => RedirectedToRoom
  BY DEF IInv, CallInv, RedirectedToRoom
<1> QED BY <1>1, Invariance, PTL

\* minPlusConvolution: the departure curve stays below the arrivals and the
\* latency, for any server and any traffic, when the curve falls as well.
THEOREM DeparturesAreCausal == Spec => []Causal
<1>1. IInv => Causal
  BY CausalHolds DEF IInv
<1> QED BY <1>1, Invariance, PTL

\* minPlusConvolution: two points of the departure curve are never farther apart
\* than the rate.
THEOREM DeparturesWithinRate == Spec => []WithinRate
<1>1. IInv => WithinRate
  BY WithinRateHolds DEF IInv
<1> QED BY <1>1, Invariance, PTL

\* NetworkCurve.getNetworkCurve: while the byte counter fits an int, the backlog
\* told is at least the one at the point the request began with.
THEOREM BacklogNotUnderreported == Spec => []NeverUnderreported
<1>1. IInv => NeverUnderreported
  BY NeverUnderreportedHolds DEF IInv
<1> QED BY <1>1, Invariance, PTL

\* An overloaded controller keeps a device only if the partition's backlog was
\* within bounds when double hashing asked for it.
THEOREM KeptOnlyWithinBacklog == Spec => []KeptWithinBacklog
<1>1. ASSUME IInv PROVE KeptWithinBacklog
  <2>1. SUFFICES ASSUME stage = "done", size[0] = "above", answer = 0, rxBytes <= MaxInt
                 PROVE  arriveCurve[result.point] - departCurve[result.point] <= MaxBacklog
    BY DEF KeptWithinBacklog
  <2>2. request = "served" /\ result.backlog <= MaxBacklog
    BY <1>1, <2>1 DEF IInv, CallInv
  <2>3. result.backlog >= arriveCurve[result.point] - departCurve[result.point]
    BY <1>1, <2>1, <2>2, NeverUnderreportedHolds DEF IInv, NeverUnderreported
  <2>4. result.point \in 1 .. T /\ result.backlog \in Int
    BY <1>1, <2>2, JavaIntFits DEF IInv, CurveInv, ClientInv, CurvesTypeOK
  <2>5. arriveCurve[result.point] \in Int /\ departCurve[result.point] \in Int
    BY <1>1, <2>4, CurvesReach DEF IInv, CurveInv
  <2> QED BY <2>2, <2>3, <2>4, <2>5
<1> QED BY <1>1, Invariance, PTL

-----------------------------------------------------------------------------
(* The probes *)

\* No factor in common, and the farthest probe needed is an int.
Reaching ==
  /\ Coprime(Stride, RingSize)
  /\ (RingSize - 1) * Stride <= MaxInt

LEMMA StrideType == Stride \in Nat \ {0}
<1>1. \A m \in Nat, q \in Nat \ {0} : m % q \in 0 .. q - 1
  OBVIOUS
<1>2. ControllerMum % Q \in 0 .. Q - 1
  BY <1>1
<1> QED BY <1>2 DEF Stride

LEMMA ProbesReach ==
  ASSUME Reaching
  PROVE  \A p \in Position \ {0} : \E i \in 1 .. RingSize - 1 : Probed(i) = p
<1>1. Stride \in Nat \ {0}
  BY StrideType
<1> SUFFICES ASSUME NEW p \in Position \ {0}
             PROVE  \E i \in 1 .. RingSize - 1 : Probed(i) = p
  OBVIOUS
<1>2. PICK i \in 1 .. RingSize - 1 : (i * Stride) % RingSize = p
  <2>1. p \in 1 .. RingSize - 1 /\ RingSize \in Nat \ {0} /\ Coprime(Stride, RingSize)
    BY DEF Position, Reaching
  <2> QED BY <1>1, <2>1, MultiplesReach
<1>3. i * Stride \in Ints /\ i * Stride > 0
  <2>1. i * Stride <= (RingSize - 1) * Stride
    <3>1. PICK m \in Nat : RingSize - 1 = i + m
      OBVIOUS
    <3>2. (RingSize - 1) * Stride = i * Stride + m * Stride /\ m * Stride \in Nat /\ i * Stride \in Nat
      BY <1>1, <3>1
    <3> QED BY <3>2
  <2>2. i * Stride \in Nat \ {0}
    <3>1. PICK m \in Nat : i = 1 + m
      OBVIOUS
    <3>2. i * Stride = Stride + m * Stride /\ m * Stride \in Nat
      BY <1>1, <3>1
    <3> QED BY <1>1, <3>2
  <2>3. MaxInt \in Nat /\ (RingSize - 1) * Stride \in Int
    BY <1>1, JavaIntFits
  <2> QED BY <2>1, <2>2, <2>3 DEF Ints, Reaching
<1>4. Key1(i) = i * Stride
  BY <1>3, JavaIntFits DEF Key1
<1> QED BY <1>2, <1>3, <1>4 DEF Probed

\* Until every controller was found without room the loop variable counts those
\* that were.
ReachInv ==
  /\ stage \in {"idle", "asking"} => j = 1
  /\ stage = "probe" =>
       \/ j \in 1 .. RingSize /\ \A i \in 1 .. j - 1 : size[Probed(i)] \in {"at", "above"}
       \/ \A p \in Position : size[p] \in {"at", "above"}

LEMMA ProbeReaches ==
  ASSUME Reaching, IInv, ReachInv, Probe
  PROVE  ReachInv'
<1>1. /\ stage = "probe" /\ j \in Ints /\ j \in Int /\ Probed(j) \in Position /\ NULL \notin Size
      /\ size \in [Position -> Size \cup {NULL}] /\ size[0] = "above"
  BY Positions, JavaIntFits DEF Probe, IInv, CallInv
<1>2. CASE Return(Probed(j))
  BY <1>2 DEF ReachInv, Return
<1>3. ASSUME NEW s \in Size \ {"below"}, Looks(Probed(j), s), j' = JavaInt(j + 1), stage' = "probe"
      PROVE  ReachInv'
  <2>1. /\ size' \in [Position -> Size \cup {NULL}] /\ size'[Probed(j)] \in {"at", "above"}
        /\ \A p \in Position : size[p] \in {"at", "above"} => size'[p] \in {"at", "above"}
    BY <1>1, <1>3 DEF Looks, Size
  <2>2. CASE \A p \in Position : size[p] \in {"at", "above"}
    BY <1>3, <2>1, <2>2 DEF ReachInv
  <2>3. CASE j \in 1 .. RingSize /\ \A i \in 1 .. j - 1 : size[Probed(i)] \in {"at", "above"}
    <3>1. MaxInt \in Nat /\ RingSize - 1 <= MaxInt
      <4>1. Stride \in Nat \ {0}
        BY StrideType
      <4>2. PICK m \in Nat : Stride = 1 + m
        BY <4>1
      <4>3. (RingSize - 1) * Stride = RingSize - 1 + (RingSize - 1) * m /\ (RingSize - 1) * m \in Nat
        BY <4>2
      <4>4. MaxInt \in Nat
        BY JavaIntFits
      <4> QED BY <4>3, <4>4 DEF Reaching
    <3>2. ASSUME NEW i \in 1 .. RingSize - 1, i <= j PROVE size'[Probed(i)] \in {"at", "above"}
      <4>1. i \in Ints
        BY <3>1 DEF Ints
      <4>2. Probed(i) \in Position
        BY <4>1, Positions
      <4>3. i = j \/ i \in 1 .. j - 1
        BY <2>3, <3>2
      <4> QED BY <2>1, <2>3, <4>2, <4>3
    <3>3. CASE j < RingSize - 1
      <4>1. j + 1 \in Ints /\ j + 1 \in 1 .. RingSize
        BY <2>3, <3>1, <3>3 DEF Ints
      <4>2. j' = j + 1
        BY <1>3, <4>1, JavaIntFits
      <4>3. ASSUME NEW i \in 1 .. j' - 1 PROVE size'[Probed(i)] \in {"at", "above"}
        <5>1. i \in 1 .. RingSize - 1 /\ i <= j
          BY <1>1, <3>3, <4>2
        <5> QED BY <3>2, <5>1
      <4>4. j' \in 1 .. RingSize
        BY <4>1, <4>2
      <4>5. \A i : Probed(i)' = Probed(i)
        BY DEF Probed, Key1, JavaInt, MaxInt, Stride
      <4> QED BY <1>3, <4>3, <4>4, <4>5 DEF ReachInv
    <3>4. CASE ~(j < RingSize - 1)
      <4>1. ASSUME NEW p \in Position PROVE size'[p] \in {"at", "above"}
        <5>1. CASE p = 0
          BY <1>1, <2>1, <5>1
        <5>2. CASE p # 0
          <6>1. PICK i \in 1 .. RingSize - 1 : Probed(i) = p
            BY <5>2, ProbesReach
          <6>2. i <= j
            BY <2>3, <3>4
          <6> QED BY <3>2, <6>1, <6>2
        <5> QED BY <5>1, <5>2
      <4> QED BY <1>3, <4>1 DEF ReachInv
    <3> QED BY <3>3, <3>4
  <2> QED BY <1>1, <2>2, <2>3 DEF ReachInv
<1> QED BY <1>1, <1>2, <1>3 DEF Probe

LEMMA NextReach ==
  ASSUME Reaching, IInv, ReachInv, [Next]_vars
  PROVE  ReachInv'
<1>1. CASE Call
  BY <1>1 DEF ReachInv, Call, Return
<1>2. CASE Check
  <2>1. CASE stage' = "probe"
    BY <1>2, <2>1 DEF ReachInv, Check
  <2>2. CASE stage' # "probe"
    BY <1>2, <2>2 DEF ReachInv, Check, Return
  <2> QED BY <2>1, <2>2
<1>3. CASE UNCHANGED callVars
  BY <1>3 DEF ReachInv, callVars
<1> QED BY <1>1, <1>2, <1>3, ProbeReaches DEF Next, Curves, vars

\* Double hashing: if the stride has no factor in common with the number of
\* controllers and the farthest probe needed is an int, the probes have found
\* every controller without room when the loop goes beyond their number.
THEOREM AllAreProbed == ASSUME Reaching PROVE Spec => []ProbesReachRoom
<1>1. Init => ReachInv
  BY DEF Init, ReachInv
<1>2. IInv /\ ReachInv /\ [Next]_vars => ReachInv'
  BY NextReach
<1>3. ReachInv => ProbesReachRoom
  BY DEF ReachInv, ProbesReachRoom
<1> QED BY <1>1, <1>2, <1>3, Invariance, PTL DEF Spec
=============================================================================
