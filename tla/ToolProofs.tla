------------------------------ MODULE ToolProofs -----------------------------
(***************************************************************************)
(* Proofs about the functions of md5.js and verify.js: the digests, for    *)
(* strings of any length and both character sizes, and the address checks, *)
(* for any octets the format admits.                                       *)
(***************************************************************************)
EXTENDS PageTools, SequenceTheorems, FiniteSetTheorems, WellFoundedInduction, TLAPS

\* Of naturals one is the least.
LEMMA LeastNatural ==
  ASSUME NEW S \in SUBSET Nat, S # {}
  PROVE  \E x \in S : \A y \in S : x <= y
<1> DEFINE R == {p \in Nat \X Nat : p[1] < p[2]}
<1>1. IsWellFoundedOn(OpToRel(<, Nat), Nat)
  BY NatLessThanWellFounded, Zenon
<1>2. OpToRel(<, Nat) = R
  BY DEF OpToRel
<1>3. IsWellFoundedOn(R, Nat)
  BY <1>1, <1>2, Zenon
<1>4. \A x, y \in Nat : <<x, y>> \in R <=> x < y
  OBVIOUS
<1> HIDE DEF R
<1>5. PICK x \in S : \A y \in S : ~(<<y, x>> \in R)
  BY <1>3, WFMin
<1>6. ASSUME NEW y \in S PROVE x <= y
  <2>1. x \in Nat /\ y \in Nat /\ ~(y < x)
    BY <1>4, <1>5
  <2> QED BY <2>1
<1> QED BY <1>6

-----------------------------------------------------------------------------
(* The addresses.  Steps with large literals name the prover: Zenon counts  *)
(* a number in units.                                                       *)

\* The numbers the format check admits for an octet.
Admitted == 0..999
Addr == [1..4 -> Admitted]
FromOctets(p, q, r, s) == (IF p >= 128 THEN p - 256 ELSE p) * 16777216 + q * 65536 + r * 256 + s

LEMMA OneToFour == 1 \in 1..4 /\ 2 \in 1..4 /\ 3 \in 1..4 /\ 4 \in 1..4
BY SMT

\* transIp makes of an address the word of the octets of its number.
LEMMA CarriedOctets ==
  ASSUME NEW a \in Addr
  PROVE  LET o == Carried(a)
         IN  /\ o[1] \in 0..255 /\ o[2] \in 0..255 /\ o[3] \in 0..255 /\ o[4] \in 0..255
             /\ Bits(a) = FromOctets(o[1], o[2], o[3], o[4])
<1>1. PICK p \in Admitted : p = a[1]
  BY Zenon, OneToFour DEF Addr
<1>2. PICK q \in Admitted : q = a[2]
  BY Zenon, OneToFour DEF Addr
<1>3. PICK r \in Admitted : r = a[3]
  BY Zenon, OneToFour DEF Addr
<1>4. PICK s \in Admitted : s = a[4]
  BY Zenon, OneToFour DEF Addr
<1>5. q * 65536 \in Nat
  BY SMT DEF Admitted
<1>6. r * 256 \in Nat
  BY SMT DEF Admitted
<1>7. PICK low \in Nat : low = q * 65536 + r * 256 + s
  BY SMT, <1>5, <1>6 DEF Admitted
<1>8. low \div 16777216 \in Nat
  BY SMT
<1>9. PICK top \in Nat : top = p + (low \div 16777216)
  BY SMT, <1>8 DEF Admitted
<1>10. PICK o1 \in 0..255 : o1 = top % 256
  BY SMT
<1>11. PICK o4 \in 0..255 : o4 = low % 256
  BY SMT
<1>12. PICK l3 \in Nat : l3 = low \div 256
  BY SMT
<1>13. PICK o3 \in 0..255 : o3 = l3 % 256
  BY SMT
<1>14. PICK l2 \in Nat : l2 = l3 \div 256
  BY SMT
<1>15. PICK o2 \in 0..255 : o2 = l2 % 256
  BY SMT
<1>16. l2 = low \div 65536
  BY SMT, <1>12, <1>14
<1>17. 2^24 = 16777216 /\ 2^(32 - 24) = 256 /\ 2^(31 - 24) = 128
  BY SMT
<1>18. PICK l1 \in Nat : l2 = 256 * l1 + o2
  BY SMT, <1>15
<1>19. l3 = 256 * l2 + o3
  BY SMT, <1>13, <1>14
<1>20. low = 256 * l3 + o4
  BY SMT, <1>11, <1>12
<1>21. PICK rest \in Nat : rest = o2 * 65536 + o3 * 256 + o4 /\ rest < 16777216
  <2>1. o2 * 65536 \in Nat
    BY SMT
  <2>2. o3 * 256 \in Nat
    BY SMT
  <2> QED BY SMT, <2>1, <2>2
<1>22. low = 16777216 * l1 + rest
  BY SMT, <1>18, <1>19, <1>20, <1>21
<1>23. low % 16777216 = rest
  <2>1. rest < 16777216
    BY SMT, <1>21
  <2> QED BY SMT, <1>22, <2>1
<1>24. Shl(top, 24) = (IF o1 >= 128 THEN o1 - 256 ELSE o1) * 16777216
  BY SMT, <1>10, <1>17 DEF Shl
<1>25. PICK u \in Int : u = (IF o1 >= 128 THEN o1 - 256 ELSE o1) * 16777216
  BY SMT
<1>26. u + rest = FromOctets(o1, o2, o3, o4)
  BY SMT, <1>21, <1>25 DEF FromOctets
<1>27. Bits(a) = Shl(top, 24) + (low % 16777216)
  BY SMT, <1>1, <1>2, <1>3, <1>4, <1>7, <1>9, <1>17 DEF Bits
<1>28. Carried(a) = <<o1, o2, o3, o4>>
  <2>1. low = a[2] * 65536 + a[3] * 256 + a[4]
    BY SMT, <1>2, <1>3, <1>4, <1>7
  <2>2. top = a[1] + (low \div 2^24)
    BY SMT, <1>1, <1>9, <1>17
  <2>3. Carried(a) = <<top % 256, (low \div 65536) % 256, (low \div 256) % 256, low % 256>>
    BY SMT, <2>1, <2>2 DEF Carried
  <2> QED BY SMT, <2>3, <1>10, <1>11, <1>12, <1>13, <1>15, <1>16
<1>29. Bits(a) = FromOctets(o1, o2, o3, o4)
  BY SMT, <1>23, <1>24, <1>25, <1>26, <1>27
<1>30. /\ Carried(a)[1] = o1 /\ Carried(a)[2] = o2 /\ Carried(a)[3] = o3 /\ Carried(a)[4] = o4
  BY SMT, <1>28
<1> QED BY SMT, <1>29, <1>30
AndOctet(p, q) == 16 * AndDigit[p \div 16][q \div 16] + AndDigit[p % 16][q % 16]
OctetBit(v, r) == (v \div 2^(7 - r)) % 2

LEMMA Nibbles ==
  ASSUME NEW v \in 0..255
  PROVE  v \div 16 \in 0..15 /\ v % 16 \in 0..15 /\ v = 16 * (v \div 16) + (v % 16)
<1>1. v % 16 \in 0..15
  BY SMT
<1>2. v = 16 * (v \div 16) + (v % 16)
  BY SMT
<1>3. v \div 16 \in 0..15
  BY SMT
<1> QED BY SMT, <1>1, <1>2, <1>3

Digits(x, o1, o2, o3, o4) ==
  /\ (x \div 2^28) % 16 = o1 \div 16
  /\ (x \div 2^24) % 16 = o1 % 16
  /\ (x \div 2^20) % 16 = o2 \div 16
  /\ (x \div 2^16) % 16 = o2 % 16
  /\ (x \div 2^12) % 16 = o3 \div 16
  /\ (x \div 2^8) % 16 = o3 % 16
  /\ (x \div 2^4) % 16 = o4 \div 16
  /\ (x \div 1) % 16 = o4 % 16

\* The hexadecimal digits of a signed word are those of its octets.
LEMMA WordDigits ==
  ASSUME NEW o1 \in 0..255, NEW o2 \in 0..255, NEW o3 \in 0..255, NEW o4 \in 0..255
  PROVE  Digits(FromOctets(o1, o2, o3, o4), o1, o2, o3, o4)
<1> DEFINE x == FromOctets(o1, o2, o3, o4)
<1>0. x = FromOctets(o1, o2, o3, o4)
  BY SMT
<1> HIDE DEF x
<1>1. PICK d1 \in 0..15, d2 \in 0..15 : d1 = o1 \div 16 /\ d2 = o1 % 16 /\ o1 = 16 * d1 + d2
  BY SMT, Nibbles
<1>2. PICK d3 \in 0..15, d4 \in 0..15 : d3 = o2 \div 16 /\ d4 = o2 % 16 /\ o2 = 16 * d3 + d4
  BY SMT, Nibbles
<1>3. PICK d5 \in 0..15, d6 \in 0..15 : d5 = o3 \div 16 /\ d6 = o3 % 16 /\ o3 = 16 * d5 + d6
  BY SMT, Nibbles
<1>4. PICK d7 \in 0..15, d8 \in 0..15 : d7 = o4 \div 16 /\ d8 = o4 % 16 /\ o4 = 16 * d7 + d8
  BY SMT, Nibbles
<1>5. PICK e \in -8..7 : e = (IF o1 >= 128 THEN d1 - 16 ELSE d1)
  BY SMT, <1>1
<1>6. e % 16 = d1
  BY SMT, <1>5
<1>7. x = e * 268435456 + d2 * 16777216 + d3 * 1048576 + d4 * 65536
            + d5 * 4096 + d6 * 256 + d7 * 16 + d8
  <2>1. (IF o1 >= 128 THEN o1 - 256 ELSE o1) = 16 * e + d2
    BY SMT, <1>1, <1>5
  <2>2. x = (16 * e + d2) * 16777216 + o2 * 65536 + o3 * 256 + o4
    BY SMT, <1>0, <2>1 DEF FromOctets
  <2> QED BY SMT, <2>2, <1>2, <1>3, <1>4
<1>8. /\ (x \div 268435456) % 16 = e % 16 /\ (x \div 16777216) % 16 = d2
      /\ (x \div 1048576) % 16 = d3 /\ (x \div 65536) % 16 = d4
      /\ (x \div 4096) % 16 = d5 /\ (x \div 256) % 16 = d6
      /\ (x \div 16) % 16 = d7 /\ x % 16 = d8
  <2>1. x \div 16 = e * 16777216 + d2 * 1048576 + d3 * 65536 + d4 * 4096 + d5 * 256 + d6 * 16 + d7
        /\ x % 16 = d8
    BY SMT, <1>7
  <2>2. x \div 256 = e * 1048576 + d2 * 65536 + d3 * 4096 + d4 * 256 + d5 * 16 + d6
        /\ (x \div 16) % 16 = d7
    BY SMT, <1>7, <2>1
  <2>3. x \div 4096 = e * 65536 + d2 * 4096 + d3 * 256 + d4 * 16 + d5
        /\ (x \div 256) % 16 = d6
    BY SMT, <1>7, <2>2
  <2>4. x \div 65536 = e * 4096 + d2 * 256 + d3 * 16 + d4
        /\ (x \div 4096) % 16 = d5
    BY SMT, <1>7, <2>3
  <2>5. x \div 1048576 = e * 256 + d2 * 16 + d3
        /\ (x \div 65536) % 16 = d4
    BY SMT, <1>7, <2>4
  <2>6. x \div 16777216 = e * 16 + d2 /\ (x \div 1048576) % 16 = d3
    BY SMT, <1>7, <2>5
  <2>7. x \div 268435456 = e /\ (x \div 16777216) % 16 = d2
    BY SMT, <1>7, <2>6
  <2> QED BY SMT, <1>7, <2>1, <2>2, <2>3, <2>4, <2>5, <2>6, <2>7
<1>9. 2^28 = 268435456 /\ 2^24 = 16777216 /\ 2^20 = 1048576 /\ 2^16 = 65536 /\ 2^12 = 4096 /\ 2^8 = 256 /\ 2^4 = 16
  BY SMT
<1>10. x \div 1 = x
  BY SMT, <1>7
<1> QED BY SMT, <1>1, <1>2, <1>3, <1>4, <1>6, <1>8, <1>9, <1>10 DEF x, Digits

LEMMA AndDigits ==
  ASSUME NEW p \in 0..15, NEW q \in 0..15
  PROVE  /\ AndDigit[p][q] \in 0..15
         /\ AndDigit[p][q] # 0 => \E w \in {8, 4, 2, 1} : (p \div w) % 2 = 1 /\ (q \div w) % 2 = 1
         /\ AndDigit[p][q] # q => \E w \in {8, 4, 2, 1} : (p \div w) % 2 = 0 /\ (q \div w) % 2 = 1
<1> DEFINE both(w) == IF (p \div w) % 2 = 1 /\ (q \div w) % 2 = 1 THEN w ELSE 0
<1>1. AndDigit[p][q] = both(1) + both(2) + both(4) + both(8)
  BY SMT DEF AndDigit
<1>2. \A w \in {8, 4, 2, 1} : both(w) \in {0, w} /\ ((p \div w) % 2 = 0 \/ (p \div w) % 2 = 1)
  BY SMT
<1>3. q = ((q \div 1) % 2) + 2 * ((q \div 2) % 2) + 4 * ((q \div 4) % 2) + 8 * ((q \div 8) % 2)
  BY SMT
<1>4. AndDigit[p][q] \in 0..15
  BY SMT, <1>1, <1>2
<1>5. ASSUME AndDigit[p][q] # 0
      PROVE  \E w \in {8, 4, 2, 1} : (p \div w) % 2 = 1 /\ (q \div w) % 2 = 1
  BY SMT, <1>1, <1>5
<1>6. ASSUME AndDigit[p][q] # q
      PROVE  \E w \in {8, 4, 2, 1} : (p \div w) % 2 = 0 /\ (q \div w) % 2 = 1
  BY SMT, <1>1, <1>3, <1>6
<1> QED BY SMT, <1>4, <1>5, <1>6

LEMMA ZeroToSeven ==
  0 \in 0..7 /\ 1 \in 0..7 /\ 2 \in 0..7 /\ 3 \in 0..7 /\ 4 \in 0..7 /\ 5 \in 0..7 /\ 6 \in 0..7 /\ 7 \in 0..7
BY SMT

\* Bit r of an octet is one of a digit's.
LEMMA HighBits ==
  ASSUME NEW w \in {8, 4, 2, 1}
  PROVE  \E r \in 0..7 : \A v \in 0..255 : OctetBit(v, r) = ((v \div 16) \div w) % 2
<1>1. 2^(7 - 0) = 128 /\ 2^(7 - 1) = 64 /\ 2^(7 - 2) = 32 /\ 2^(7 - 3) = 16
  BY SMT
<1>2. \A v \in 0..255 : ((v \div 16) \div 8) % 2 = (v \div 128) % 2
  BY SMT
<1>3. \A v \in 0..255 : ((v \div 16) \div 4) % 2 = (v \div 64) % 2
  BY SMT
<1>4. \A v \in 0..255 : ((v \div 16) \div 2) % 2 = (v \div 32) % 2
  BY SMT
<1>5. \A v \in 0..255 : ((v \div 16) \div 1) % 2 = (v \div 16) % 2
  BY SMT
<1>6. CASE w = 8
  <2>1. \A v \in 0..255 : OctetBit(v, 0) = ((v \div 16) \div w) % 2
    BY SMT, <1>1, <1>2, <1>6 DEF OctetBit
  <2> QED BY Zenon, <2>1, ZeroToSeven
<1>7. CASE w = 4
  <2>1. \A v \in 0..255 : OctetBit(v, 1) = ((v \div 16) \div w) % 2
    BY SMT, <1>1, <1>3, <1>7 DEF OctetBit
  <2> QED BY Zenon, <2>1, ZeroToSeven
<1>8. CASE w = 2
  <2>1. \A v \in 0..255 : OctetBit(v, 2) = ((v \div 16) \div w) % 2
    BY SMT, <1>1, <1>4, <1>8 DEF OctetBit
  <2> QED BY Zenon, <2>1, ZeroToSeven
<1>9. CASE w = 1
  <2>1. \A v \in 0..255 : OctetBit(v, 3) = ((v \div 16) \div w) % 2
    BY SMT, <1>1, <1>5, <1>9 DEF OctetBit
  <2> QED BY Zenon, <2>1, ZeroToSeven
<1> QED BY Zenon, <1>6, <1>7, <1>8, <1>9

LEMMA LowBits ==
  ASSUME NEW w \in {8, 4, 2, 1}
  PROVE  \E r \in 0..7 : \A v \in 0..255 : OctetBit(v, r) = ((v % 16) \div w) % 2
<1>1. 2^(7 - 4) = 8 /\ 2^(7 - 5) = 4 /\ 2^(7 - 6) = 2 /\ 2^(7 - 7) = 1
  BY SMT
<1>2. \A v \in 0..255 : ((v % 16) \div 8) % 2 = (v \div 8) % 2
  BY SMT
<1>3. \A v \in 0..255 : ((v % 16) \div 4) % 2 = (v \div 4) % 2
  BY SMT
<1>4. \A v \in 0..255 : ((v % 16) \div 2) % 2 = (v \div 2) % 2
  BY SMT
<1>5. \A v \in 0..255 : ((v % 16) \div 1) % 2 = (v \div 1) % 2
  BY SMT
<1>6. CASE w = 8
  <2>1. \A v \in 0..255 : OctetBit(v, 4) = ((v % 16) \div w) % 2
    BY SMT, <1>1, <1>2, <1>6 DEF OctetBit
  <2> QED BY Zenon, <2>1, ZeroToSeven
<1>7. CASE w = 4
  <2>1. \A v \in 0..255 : OctetBit(v, 5) = ((v % 16) \div w) % 2
    BY SMT, <1>1, <1>3, <1>7 DEF OctetBit
  <2> QED BY Zenon, <2>1, ZeroToSeven
<1>8. CASE w = 2
  <2>1. \A v \in 0..255 : OctetBit(v, 6) = ((v % 16) \div w) % 2
    BY SMT, <1>1, <1>4, <1>8 DEF OctetBit
  <2> QED BY Zenon, <2>1, ZeroToSeven
<1>9. CASE w = 1
  <2>1. \A v \in 0..255 : OctetBit(v, 7) = ((v % 16) \div w) % 2
    BY SMT, <1>1, <1>5, <1>9 DEF OctetBit
  <2> QED BY Zenon, <2>1, ZeroToSeven
<1> QED BY Zenon, <1>6, <1>7, <1>8, <1>9

\* The bits that two octets have in common are those of their digits.
LEMMA AndOctets ==
  ASSUME NEW p \in 0..255, NEW q \in 0..255
  PROVE  /\ AndOctet(p, q) \in 0..255
         /\ AndOctet(p, q) # 0 => \E r \in 0..7 : OctetBit(p, r) = 1 /\ OctetBit(q, r) = 1
         /\ AndOctet(p, q) # q => \E r \in 0..7 : OctetBit(p, r) = 0 /\ OctetBit(q, r) = 1
<1>1. /\ p \div 16 \in 0..15 /\ p % 16 \in 0..15
      /\ q \div 16 \in 0..15 /\ q % 16 \in 0..15 /\ q = 16 * (q \div 16) + (q % 16)
  BY SMT, Nibbles
<1>2. PICK h \in 0..15, l \in 0..15 : h = AndDigit[p \div 16][q \div 16] /\ l = AndDigit[p % 16][q % 16]
  BY <1>1, AndDigits, Zenon
<1>3. AndOctet(p, q) = 16 * h + l
  BY SMT, <1>2 DEF AndOctet
<1>4. AndOctet(p, q) \in 0..255
  BY SMT, <1>3
<1>5. ASSUME AndOctet(p, q) # 0
      PROVE  \E r \in 0..7 : OctetBit(p, r) = 1 /\ OctetBit(q, r) = 1
  <2>1. h # 0 \/ l # 0
    BY SMT, <1>3, <1>5
  <2>2. CASE h # 0
    <3>1. PICK w \in {8, 4, 2, 1} : ((p \div 16) \div w) % 2 = 1 /\ ((q \div 16) \div w) % 2 = 1
      BY ZenonT(30), <1>1, <1>2, <2>2, AndDigits
    <3>2. PICK r \in 0..7 : \A v \in 0..255 : OctetBit(v, r) = ((v \div 16) \div w) % 2
      BY Zenon, HighBits
    <3> QED BY Zenon, <3>1, <3>2
  <2>3. CASE l # 0
    <3>1. PICK w \in {8, 4, 2, 1} : ((p % 16) \div w) % 2 = 1 /\ ((q % 16) \div w) % 2 = 1
      BY ZenonT(30), <1>1, <1>2, <2>3, AndDigits
    <3>2. PICK r \in 0..7 : \A v \in 0..255 : OctetBit(v, r) = ((v % 16) \div w) % 2
      BY Zenon, LowBits
    <3> QED BY Zenon, <3>1, <3>2
  <2> QED BY Zenon, <2>1, <2>2, <2>3
<1>6. ASSUME AndOctet(p, q) # q
      PROVE  \E r \in 0..7 : OctetBit(p, r) = 0 /\ OctetBit(q, r) = 1
  <2>1. h # q \div 16 \/ l # q % 16
    BY SMT, <1>1, <1>3, <1>6
  <2>2. CASE h # q \div 16
    <3>1. PICK w \in {8, 4, 2, 1} : ((p \div 16) \div w) % 2 = 0 /\ ((q \div 16) \div w) % 2 = 1
      BY ZenonT(30), <1>1, <1>2, <2>2, AndDigits
    <3>2. PICK r \in 0..7 : \A v \in 0..255 : OctetBit(v, r) = ((v \div 16) \div w) % 2
      BY Zenon, HighBits
    <3> QED BY Zenon, <3>1, <3>2
  <2>3. CASE l # q % 16
    <3>1. PICK w \in {8, 4, 2, 1} : ((p % 16) \div w) % 2 = 0 /\ ((q % 16) \div w) % 2 = 1
      BY ZenonT(30), <1>1, <1>2, <2>3, AndDigits
    <3>2. PICK r \in 0..7 : \A v \in 0..255 : OctetBit(v, r) = ((v % 16) \div w) % 2
      BY Zenon, LowBits
    <3> QED BY Zenon, <3>1, <3>2
  <2> QED BY Zenon, <2>1, <2>2, <2>3
<1> QED BY Zenon, <1>4, <1>5, <1>6

Octets(o) == \A i \in 1..4 : o[i] \in 0..255
WordOf(o) == FromOctets(o[1], o[2], o[3], o[4])

LEMMA FourOctets ==
  ASSUME NEW o, Octets(o)
  PROVE  \E o1, o2, o3, o4 \in 0..255 : o1 = o[1] /\ o2 = o[2] /\ o3 = o[3] /\ o4 = o[4]
<1>1. o[1] \in 0..255
  BY SMT DEF Octets
<1>2. o[2] \in 0..255
  BY SMT DEF Octets
<1>3. o[3] \in 0..255
  BY SMT DEF Octets
<1>4. o[4] \in 0..255
  BY SMT DEF Octets
<1> QED BY Zenon, <1>1, <1>2, <1>3, <1>4

\* x & y takes two words octet by octet.
LEMMA AndWords ==
  ASSUME NEW p, Octets(p), NEW q, Octets(q)
  PROVE  And(WordOf(p), WordOf(q))
           = FromOctets(AndOctet(p[1], q[1]), AndOctet(p[2], q[2]), AndOctet(p[3], q[3]), AndOctet(p[4], q[4]))
<1>p. PICK p1, p2, p3, p4 \in 0..255 : p1 = p[1] /\ p2 = p[2] /\ p3 = p[3] /\ p4 = p[4]
  BY Zenon, FourOctets
<1>q. PICK q1, q2, q3, q4 \in 0..255 : q1 = q[1] /\ q2 = q[2] /\ q3 = q[3] /\ q4 = q[4]
  BY Zenon, FourOctets
<1> DEFINE x == FromOctets(p1, p2, p3, p4)
           y == FromOctets(q1, q2, q3, q4)
           high(v, w) == AndDigit[v \div 16][w \div 16]
           low(v, w) == AndDigit[v % 16][w % 16]
<1>1. Digits(x, p1, p2, p3, p4) /\ Digits(y, q1, q2, q3, q4)
  BY ZenonT(30), WordDigits
<1> HIDE DEF x, y
<1>3. And(x, y) = low(p4, q4) + 2^4 * high(p4, q4) + 2^8 * low(p3, q3) + 2^12 * high(p3, q3)
                  + 2^16 * low(p2, q2) + 2^20 * high(p2, q2) + 2^24 * low(p1, q1)
                  + Shl(high(p1, q1), 28)
  BY Zenon, <1>1 DEF And, Digits
<1>4. ASSUME NEW v \in 0..255, NEW w \in 0..255
      PROVE  high(v, w) \in 0..15 /\ low(v, w) \in 0..15
  BY Zenon, Nibbles, AndDigits
<1> HIDE DEF high, low
<1>5. PICK h1 \in 0..15, l1 \in 0..15 : h1 = high(p1, q1) /\ l1 = low(p1, q1)
  BY Zenon, <1>4
<1>6. PICK h2 \in 0..15, l2 \in 0..15 : h2 = high(p2, q2) /\ l2 = low(p2, q2)
  BY Zenon, <1>4
<1>7. PICK h3 \in 0..15, l3 \in 0..15 : h3 = high(p3, q3) /\ l3 = low(p3, q3)
  BY Zenon, <1>4
<1>8. PICK h4 \in 0..15, l4 \in 0..15 : h4 = high(p4, q4) /\ l4 = low(p4, q4)
  BY Zenon, <1>4
<1>9. 2^28 = 268435456 /\ 2^24 = 16777216 /\ 2^20 = 1048576 /\ 2^16 = 65536 /\ 2^12 = 4096 /\ 2^8 = 256 /\ 2^4 = 16
      /\ 2^(32 - 28) = 16 /\ 2^(31 - 28) = 8
  BY SMT
<1>10. And(x, y) = l4 + 16 * h4 + 256 * l3 + 4096 * h3 + 65536 * l2 + 1048576 * h2 + 16777216 * l1
                   + Shl(h1, 28)
  BY SMT, <1>3, <1>5, <1>6, <1>7, <1>8, <1>9
<1>11. Shl(h1, 28) = (IF h1 >= 8 THEN h1 - 16 ELSE h1) * 268435456
  BY SMT, <1>9 DEF Shl
<1>12. And(x, y) = FromOctets(16 * h1 + l1, 16 * h2 + l2, 16 * h3 + l3, 16 * h4 + l4)
  <2>1. PICK e \in -8..7 : e = (IF h1 >= 8 THEN h1 - 16 ELSE h1)
    BY SMT
  <2>2. And(x, y) = l4 + 16 * h4 + 256 * l3 + 4096 * h3 + 65536 * l2 + 1048576 * h2 + 16777216 * l1
                    + e * 268435456
    BY SMT, <1>10, <1>11, <2>1
  <2>3. (IF 16 * h1 + l1 >= 128 THEN 16 * h1 + l1 - 256 ELSE 16 * h1 + l1) = 16 * e + l1
    BY SMT, <2>1
  <2>4. FromOctets(16 * h1 + l1, 16 * h2 + l2, 16 * h3 + l3, 16 * h4 + l4)
          = (16 * e + l1) * 16777216 + (16 * h2 + l2) * 65536 + (16 * h3 + l3) * 256 + (16 * h4 + l4)
    BY SMT, <2>3 DEF FromOctets
  <2> QED BY SMT, <2>2, <2>4
<1>13. /\ AndOctet(p1, q1) = 16 * h1 + l1 /\ AndOctet(p2, q2) = 16 * h2 + l2
       /\ AndOctet(p3, q3) = 16 * h3 + l3 /\ AndOctet(p4, q4) = 16 * h4 + l4
  BY Zenon, <1>5, <1>6, <1>7, <1>8 DEF AndOctet, high, low
<1> QED BY Zenon, <1>p, <1>q, <1>12, <1>13 DEF x, y, WordOf

\* ~x turns each octet over.
LEMMA NotWords ==
  ASSUME NEW q, Octets(q)
  PROVE  Not(WordOf(q)) = FromOctets(255 - q[1], 255 - q[2], 255 - q[3], 255 - q[4])
<1>q. PICK q1, q2, q3, q4 \in 0..255 : q1 = q[1] /\ q2 = q[2] /\ q3 = q[3] /\ q4 = q[4]
  BY Zenon, FourOctets
<1>1. PICK t \in -128..127 : t = (IF q1 >= 128 THEN q1 - 256 ELSE q1)
  BY SMT
<1>2. (IF 255 - q1 >= 128 THEN (255 - q1) - 256 ELSE 255 - q1) = -1 - t
  BY SMT, <1>1
<1>3. FromOctets(255 - q1, 255 - q2, 255 - q3, 255 - q4)
        = (-1 - t) * 16777216 + (255 - q2) * 65536 + (255 - q3) * 256 + (255 - q4)
  BY SMT, <1>2 DEF FromOctets
<1>4. FromOctets(q1, q2, q3, q4) = t * 16777216 + q2 * 65536 + q3 * 256 + q4
  BY SMT, <1>1 DEF FromOctets
<1>5. Not(FromOctets(q1, q2, q3, q4)) = FromOctets(255 - q1, 255 - q2, 255 - q3, 255 - q4)
  BY SMT, <1>3, <1>4 DEF Not
<1> QED BY Zenon, <1>q, <1>5 DEF WordOf

LEMMA NotBits ==
  ASSUME NEW q \in 0..255, NEW r \in 0..7
  PROVE  255 - q \in 0..255 /\ OctetBit(q, r) \in {0, 1} /\ OctetBit(255 - q, r) = 1 - OctetBit(q, r)
<1>1. 2^(7 - 0) = 128 /\ 2^(7 - 1) = 64 /\ 2^(7 - 2) = 32 /\ 2^(7 - 3) = 16
      /\ 2^(7 - 4) = 8 /\ 2^(7 - 5) = 4 /\ 2^(7 - 6) = 2 /\ 2^(7 - 7) = 1
  BY SMT
<1>2. ((255 - q) \div 128) % 2 = 1 - ((q \div 128) % 2)
  BY SMT
<1>3. ((255 - q) \div 64) % 2 = 1 - ((q \div 64) % 2)
  BY SMT
<1>4. ((255 - q) \div 32) % 2 = 1 - ((q \div 32) % 2)
  BY SMT
<1>5. ((255 - q) \div 16) % 2 = 1 - ((q \div 16) % 2)
  BY SMT
<1>6. ((255 - q) \div 8) % 2 = 1 - ((q \div 8) % 2)
  BY SMT
<1>7. ((255 - q) \div 4) % 2 = 1 - ((q \div 4) % 2)
  BY SMT
<1>8. ((255 - q) \div 2) % 2 = 1 - ((q \div 2) % 2)
  BY SMT
<1>9. ((255 - q) \div 1) % 2 = 1 - ((q \div 1) % 2)
  BY SMT
<1>10. r = 0 \/ r = 1 \/ r = 2 \/ r = 3 \/ r = 4 \/ r = 5 \/ r = 6 \/ r = 7
  BY SMT
<1>11. OctetBit(255 - q, r) = 1 - OctetBit(q, r)
  <2>1. CASE r = 0
    BY SMT, <1>1, <1>2, <2>1 DEF OctetBit
  <2>2. CASE r = 1
    BY SMT, <1>1, <1>3, <2>2 DEF OctetBit
  <2>3. CASE r = 2
    BY SMT, <1>1, <1>4, <2>3 DEF OctetBit
  <2>4. CASE r = 3
    BY SMT, <1>1, <1>5, <2>4 DEF OctetBit
  <2>5. CASE r = 4
    BY SMT, <1>1, <1>6, <2>5 DEF OctetBit
  <2>6. CASE r = 5
    BY SMT, <1>1, <1>7, <2>6 DEF OctetBit
  <2>7. CASE r = 6
    BY SMT, <1>1, <1>8, <2>7 DEF OctetBit
  <2>8. CASE r = 7
    BY SMT, <1>1, <1>9, <2>8 DEF OctetBit
  <2> QED BY Zenon, <1>10, <2>1, <2>2, <2>3, <2>4, <2>5, <2>6, <2>7, <2>8
<1>12. OctetBit(q, r) \in {0, 1}
  BY SMT, <1>1, <1>10 DEF OctetBit
<1>13. 255 - q \in 0..255
  BY SMT
<1> QED BY Zenon, <1>11, <1>12, <1>13

\* The octets of the words -h, -256h, .. of at most one octet's height.
Filled(word, h, o1, o2, o3, o4) ==
  /\ word = -h => o1 = 255 /\ o2 = 255 /\ o3 = 255 /\ o4 = 256 - h
  /\ word = -(256 * h) => o1 = 255 /\ o2 = 255 /\ o3 = 256 - h /\ o4 = 0
  /\ word = -(65536 * h) => o1 = 255 /\ o2 = 256 - h /\ o3 = 0 /\ o4 = 0
  /\ word = -(16777216 * h) => o1 = 256 - h /\ o2 = 0 /\ o3 = 0 /\ o4 = 0

\* The octets of -h, with h in any of the four: ones before it, 256 - h in its place.
LEMMA LeadingOnes ==
  ASSUME NEW o1 \in 0..255, NEW o2 \in 0..255, NEW o3 \in 0..255, NEW o4 \in 0..255,
         NEW h \in 1..128
  PROVE  Filled(FromOctets(o1, o2, o3, o4), h, o1, o2, o3, o4)
<1>1. PICK t \in -128..127 : t = (IF o1 >= 128 THEN o1 - 256 ELSE o1)
  BY SMT
<1>2. FromOctets(o1, o2, o3, o4) = t * 16777216 + o2 * 65536 + o3 * 256 + o4
  BY SMT, <1>1 DEF FromOctets
<1>3. ASSUME FromOctets(o1, o2, o3, o4) = -h
      PROVE  t = -1 /\ o2 = 255 /\ o3 = 255 /\ o4 = 256 - h
  BY SMT, <1>2, <1>3
<1>4. ASSUME FromOctets(o1, o2, o3, o4) = -(256 * h)
      PROVE  t = -1 /\ o2 = 255 /\ o3 = 256 - h /\ o4 = 0
  BY SMT, <1>2, <1>4
<1>5. ASSUME FromOctets(o1, o2, o3, o4) = -(65536 * h)
      PROVE  t = -1 /\ o2 = 256 - h /\ o3 = 0 /\ o4 = 0
  BY SMT, <1>2, <1>5
<1>6. ASSUME FromOctets(o1, o2, o3, o4) = -(16777216 * h)
      PROVE  t = -h /\ o2 = 0 /\ o3 = 0 /\ o4 = 0
  BY SMT, <1>2, <1>6
<1>7. /\ t = -1 => o1 = 255
      /\ t = -h => o1 = 256 - h
  BY SMT, <1>1
<1> QED BY SMT, <1>3, <1>4, <1>5, <1>6, <1>7 DEF Filled

\* Octet v begins with k ones, the others are zero.
Ones(v, k) == \A r \in 0..7 : OctetBit(v, r) = (IF r < k THEN 1 ELSE 0)

LEMMA EachBit ==
  ASSUME NEW v
  PROVE  /\ OctetBit(v, 0) = (v \div 128) % 2 /\ OctetBit(v, 1) = (v \div 64) % 2
         /\ OctetBit(v, 2) = (v \div 32) % 2 /\ OctetBit(v, 3) = (v \div 16) % 2
         /\ OctetBit(v, 4) = (v \div 8) % 2 /\ OctetBit(v, 5) = (v \div 4) % 2
         /\ OctetBit(v, 6) = (v \div 2) % 2 /\ OctetBit(v, 7) = (v \div 1) % 2
<1>1. 2^(7 - 0) = 128 /\ 2^(7 - 1) = 64 /\ 2^(7 - 2) = 32 /\ 2^(7 - 3) = 16
      /\ 2^(7 - 4) = 8 /\ 2^(7 - 5) = 4 /\ 2^(7 - 6) = 2 /\ 2^(7 - 7) = 1
  BY SMT
<1> QED BY SMT, <1>1 DEF OctetBit

LEMMA BitByBit ==
  ASSUME NEW v, NEW k \in 0..8,
         OctetBit(v, 0) = (IF k > 0 THEN 1 ELSE 0), OctetBit(v, 1) = (IF k > 1 THEN 1 ELSE 0),
         OctetBit(v, 2) = (IF k > 2 THEN 1 ELSE 0), OctetBit(v, 3) = (IF k > 3 THEN 1 ELSE 0),
         OctetBit(v, 4) = (IF k > 4 THEN 1 ELSE 0), OctetBit(v, 5) = (IF k > 5 THEN 1 ELSE 0),
         OctetBit(v, 6) = (IF k > 6 THEN 1 ELSE 0), OctetBit(v, 7) = (IF k > 7 THEN 1 ELSE 0)
  PROVE  Ones(v, k)
<1> SUFFICES ASSUME NEW r \in 0..7 PROVE OctetBit(v, r) = (IF r < k THEN 1 ELSE 0)
  BY SMT DEF Ones
<1>1. r = 0 \/ r = 1 \/ r = 2 \/ r = 3 \/ r = 4 \/ r = 5 \/ r = 6 \/ r = 7
  BY SMT
<1> QED BY SMT, <1>1

LEMMA OnesOf ==
  /\ Ones(255, 8) /\ Ones(254, 7) /\ Ones(252, 6) /\ Ones(248, 5) /\ Ones(240, 4)
  /\ Ones(224, 3) /\ Ones(192, 2) /\ Ones(128, 1) /\ Ones(0, 0)
<1>1. Ones(255, 8)
  <2>1. /\ OctetBit(255, 0) = 1 /\ OctetBit(255, 1) = 1 /\ OctetBit(255, 2) = 1 /\ OctetBit(255, 3) = 1
        /\ OctetBit(255, 4) = 1 /\ OctetBit(255, 5) = 1 /\ OctetBit(255, 6) = 1 /\ OctetBit(255, 7) = 1
    BY SMT, EachBit
  <2> QED BY SMT, BitByBit, <2>1
<1>2. Ones(254, 7)
  <2>1. /\ OctetBit(254, 0) = 1 /\ OctetBit(254, 1) = 1 /\ OctetBit(254, 2) = 1 /\ OctetBit(254, 3) = 1
        /\ OctetBit(254, 4) = 1 /\ OctetBit(254, 5) = 1 /\ OctetBit(254, 6) = 1 /\ OctetBit(254, 7) = 0
    BY SMT, EachBit
  <2> QED BY SMT, BitByBit, <2>1
<1>3. Ones(252, 6)
  <2>1. /\ OctetBit(252, 0) = 1 /\ OctetBit(252, 1) = 1 /\ OctetBit(252, 2) = 1 /\ OctetBit(252, 3) = 1
        /\ OctetBit(252, 4) = 1 /\ OctetBit(252, 5) = 1 /\ OctetBit(252, 6) = 0 /\ OctetBit(252, 7) = 0
    BY SMT, EachBit
  <2> QED BY SMT, BitByBit, <2>1
<1>4. Ones(248, 5)
  <2>1. /\ OctetBit(248, 0) = 1 /\ OctetBit(248, 1) = 1 /\ OctetBit(248, 2) = 1 /\ OctetBit(248, 3) = 1
        /\ OctetBit(248, 4) = 1 /\ OctetBit(248, 5) = 0 /\ OctetBit(248, 6) = 0 /\ OctetBit(248, 7) = 0
    BY SMT, EachBit
  <2> QED BY SMT, BitByBit, <2>1
<1>5. Ones(240, 4)
  <2>1. /\ OctetBit(240, 0) = 1 /\ OctetBit(240, 1) = 1 /\ OctetBit(240, 2) = 1 /\ OctetBit(240, 3) = 1
        /\ OctetBit(240, 4) = 0 /\ OctetBit(240, 5) = 0 /\ OctetBit(240, 6) = 0 /\ OctetBit(240, 7) = 0
    BY SMT, EachBit
  <2> QED BY SMT, BitByBit, <2>1
<1>6. Ones(224, 3)
  <2>1. /\ OctetBit(224, 0) = 1 /\ OctetBit(224, 1) = 1 /\ OctetBit(224, 2) = 1 /\ OctetBit(224, 3) = 0
        /\ OctetBit(224, 4) = 0 /\ OctetBit(224, 5) = 0 /\ OctetBit(224, 6) = 0 /\ OctetBit(224, 7) = 0
    BY SMT, EachBit
  <2> QED BY SMT, BitByBit, <2>1
<1>7. Ones(192, 2)
  <2>1. /\ OctetBit(192, 0) = 1 /\ OctetBit(192, 1) = 1 /\ OctetBit(192, 2) = 0 /\ OctetBit(192, 3) = 0
        /\ OctetBit(192, 4) = 0 /\ OctetBit(192, 5) = 0 /\ OctetBit(192, 6) = 0 /\ OctetBit(192, 7) = 0
    BY SMT, EachBit
  <2> QED BY SMT, BitByBit, <2>1
<1>8. Ones(128, 1)
  <2>1. /\ OctetBit(128, 0) = 1 /\ OctetBit(128, 1) = 0 /\ OctetBit(128, 2) = 0 /\ OctetBit(128, 3) = 0
        /\ OctetBit(128, 4) = 0 /\ OctetBit(128, 5) = 0 /\ OctetBit(128, 6) = 0 /\ OctetBit(128, 7) = 0
    BY SMT, EachBit
  <2> QED BY SMT, BitByBit, <2>1
<1>9. Ones(0, 0)
  <2>1. /\ OctetBit(0, 0) = 0 /\ OctetBit(0, 1) = 0 /\ OctetBit(0, 2) = 0 /\ OctetBit(0, 3) = 0
        /\ OctetBit(0, 4) = 0 /\ OctetBit(0, 5) = 0 /\ OctetBit(0, 6) = 0 /\ OctetBit(0, 7) = 0
    BY SMT, EachBit
  <2> QED BY SMT, BitByBit, <2>1
<1> QED BY Zenon, <1>1, <1>2, <1>3, <1>4, <1>5, <1>6, <1>7, <1>8, <1>9

\* The powers of two at the same bit of each octet.
Power(i, h) ==
  /\ 2^i = h /\ Ones(256 - h, 8 - i)
  /\ 2^(8 + i) = 256 * h /\ 2^(16 + i) = 65536 * h /\ 2^(24 + i) = 16777216 * h

LEMMA Powers ==
  ASSUME NEW i \in 0..7
  PROVE  \E h \in 1..128 : Power(i, h)
<1>1. CASE i = 0
  <2>1. /\ 2^0 = 1 /\ 2^(8 + 0) = 256 * 1 /\ 2^(16 + 0) = 65536 * 1
        /\ 2^(24 + 0) = 16777216 * 1
    BY SMT
  <2>2. 256 - 1 = 255 /\ 8 - 0 = 8 /\ 1 \in 1..128
    BY SMT
  <2>3. Ones(256 - 1, 8 - 0)
    BY SMT, <2>2, OnesOf
  <2> QED BY SMT, <1>1, <2>1, <2>2, <2>3 DEF Power
<1>2. CASE i = 1
  <2>1. /\ 2^1 = 2 /\ 2^(8 + 1) = 256 * 2 /\ 2^(16 + 1) = 65536 * 2
        /\ 2^(24 + 1) = 16777216 * 2
    BY SMT
  <2>2. 256 - 2 = 254 /\ 8 - 1 = 7 /\ 2 \in 1..128
    BY SMT
  <2>3. Ones(256 - 2, 8 - 1)
    BY SMT, <2>2, OnesOf
  <2> QED BY SMT, <1>2, <2>1, <2>2, <2>3 DEF Power
<1>3. CASE i = 2
  <2>1. /\ 2^2 = 4 /\ 2^(8 + 2) = 256 * 4 /\ 2^(16 + 2) = 65536 * 4
        /\ 2^(24 + 2) = 16777216 * 4
    BY SMT
  <2>2. 256 - 4 = 252 /\ 8 - 2 = 6 /\ 4 \in 1..128
    BY SMT
  <2>3. Ones(256 - 4, 8 - 2)
    BY SMT, <2>2, OnesOf
  <2> QED BY SMT, <1>3, <2>1, <2>2, <2>3 DEF Power
<1>4. CASE i = 3
  <2>1. /\ 2^3 = 8 /\ 2^(8 + 3) = 256 * 8 /\ 2^(16 + 3) = 65536 * 8
        /\ 2^(24 + 3) = 16777216 * 8
    BY SMT
  <2>2. 256 - 8 = 248 /\ 8 - 3 = 5 /\ 8 \in 1..128
    BY SMT
  <2>3. Ones(256 - 8, 8 - 3)
    BY SMT, <2>2, OnesOf
  <2> QED BY SMT, <1>4, <2>1, <2>2, <2>3 DEF Power
<1>5. CASE i = 4
  <2>1. /\ 2^4 = 16 /\ 2^(8 + 4) = 256 * 16 /\ 2^(16 + 4) = 65536 * 16
        /\ 2^(24 + 4) = 16777216 * 16
    BY SMT
  <2>2. 256 - 16 = 240 /\ 8 - 4 = 4 /\ 16 \in 1..128
    BY SMT
  <2>3. Ones(256 - 16, 8 - 4)
    BY SMT, <2>2, OnesOf
  <2> QED BY SMT, <1>5, <2>1, <2>2, <2>3 DEF Power
<1>6. CASE i = 5
  <2>1. /\ 2^5 = 32 /\ 2^(8 + 5) = 256 * 32 /\ 2^(16 + 5) = 65536 * 32
        /\ 2^(24 + 5) = 16777216 * 32
    BY SMT
  <2>2. 256 - 32 = 224 /\ 8 - 5 = 3 /\ 32 \in 1..128
    BY SMT
  <2>3. Ones(256 - 32, 8 - 5)
    BY SMT, <2>2, OnesOf
  <2> QED BY SMT, <1>6, <2>1, <2>2, <2>3 DEF Power
<1>7. CASE i = 6
  <2>1. /\ 2^6 = 64 /\ 2^(8 + 6) = 256 * 64 /\ 2^(16 + 6) = 65536 * 64
        /\ 2^(24 + 6) = 16777216 * 64
    BY SMT
  <2>2. 256 - 64 = 192 /\ 8 - 6 = 2 /\ 64 \in 1..128
    BY SMT
  <2>3. Ones(256 - 64, 8 - 6)
    BY SMT, <2>2, OnesOf
  <2> QED BY SMT, <1>7, <2>1, <2>2, <2>3 DEF Power
<1>8. CASE i = 7
  <2>1. /\ 2^7 = 128 /\ 2^(8 + 7) = 256 * 128 /\ 2^(16 + 7) = 65536 * 128
        /\ 2^(24 + 7) = 16777216 * 128
    BY SMT
  <2>2. 256 - 128 = 128 /\ 8 - 7 = 1 /\ 128 \in 1..128
    BY SMT
  <2>3. Ones(256 - 128, 8 - 7)
    BY SMT, <2>2, OnesOf
  <2> QED BY SMT, <1>8, <2>1, <2>2, <2>3 DEF Power
<1>9. i = 0 \/ i = 1 \/ i = 2 \/ i = 3 \/ i = 4 \/ i = 5 \/ i = 6 \/ i = 7
  BY SMT
<1> QED BY SMT, <1>1, <1>2, <1>3, <1>4, <1>5, <1>6, <1>7, <1>8, <1>9

\* The octets of -1 << c are 32 - c ones.
LEMMA MaskOctets ==
  ASSUME NEW o, Octets(o), NEW c \in 0..31, WordOf(o) = (IF c = 31 THEN MinInt32 ELSE -(2^c)),
         NEW r \in 0..7
  PROVE  /\ OctetBit(o[1], r) = (IF r < 32 - c THEN 1 ELSE 0)
         /\ OctetBit(o[2], r) = (IF 8 + r < 32 - c THEN 1 ELSE 0)
         /\ OctetBit(o[3], r) = (IF 16 + r < 32 - c THEN 1 ELSE 0)
         /\ OctetBit(o[4], r) = (IF 24 + r < 32 - c THEN 1 ELSE 0)
<1>o. PICK o1, o2, o3, o4 \in 0..255 : o1 = o[1] /\ o2 = o[2] /\ o3 = o[3] /\ o4 = o[4]
  BY Zenon, FourOctets
<1>w. FromOctets(o1, o2, o3, o4) = (IF c = 31 THEN MinInt32 ELSE -(2^c))
  BY Zenon, <1>o DEF WordOf
<1>s. SUFFICES /\ OctetBit(o1, r) = (IF r < 32 - c THEN 1 ELSE 0)
               /\ OctetBit(o2, r) = (IF 8 + r < 32 - c THEN 1 ELSE 0)
               /\ OctetBit(o3, r) = (IF 16 + r < 32 - c THEN 1 ELSE 0)
               /\ OctetBit(o4, r) = (IF 24 + r < 32 - c THEN 1 ELSE 0)
  BY Zenon, <1>o
<1>1. PICK i \in 0..7 : c = i \/ c = 8 + i \/ c = 16 + i \/ c = 24 + i
  BY SMT
<1>2. PICK h \in 1..128 : Power(i, h)
  BY Zenon, Powers
<1>3. FromOctets(o1, o2, o3, o4) = -(2^c)
  <2>1. 2^31 = 2147483648
    BY SMT
  <2>2. CASE c = 31
    <3>1. MinInt32 = -2147483648
      BY SMT DEF MinInt32
    <3> QED BY SMT, <1>w, <2>1, <2>2, <3>1
  <2>3. CASE c # 31
    BY SMT, <1>w, <2>3
  <2> QED BY SMT, <2>2, <2>3
<1>4. OctetBit(255, r) = 1 /\ OctetBit(0, r) = 0
  BY SMT, OnesOf DEF Ones
<1>5. OctetBit(256 - h, r) = (IF r < 8 - i THEN 1 ELSE 0)
  BY SMT, <1>2 DEF Power, Ones
<1>10. Filled(FromOctets(o1, o2, o3, o4), h, o1, o2, o3, o4)
  BY Zenon, LeadingOnes
<1>6. CASE c = i
  <2>1. FromOctets(o1, o2, o3, o4) = -h
    BY SMT, <1>2, <1>3, <1>6 DEF Power
  <2>2. o1 = 255 /\ o2 = 255 /\ o3 = 255 /\ o4 = 256 - h
    BY SMT, <1>10, <2>1 DEF Filled
  <2> QED BY SMT, <1>4, <1>5, <1>6, <2>2
<1>7. CASE c = 8 + i
  <2>1. FromOctets(o1, o2, o3, o4) = -(256 * h)
    BY SMT, <1>2, <1>3, <1>7 DEF Power
  <2>2. o1 = 255 /\ o2 = 255 /\ o3 = 256 - h /\ o4 = 0
    BY SMT, <1>10, <2>1 DEF Filled
  <2> QED BY SMT, <1>4, <1>5, <1>7, <2>2
<1>8. CASE c = 16 + i
  <2>1. FromOctets(o1, o2, o3, o4) = -(65536 * h)
    BY SMT, <1>2, <1>3, <1>8 DEF Power
  <2>2. o1 = 255 /\ o2 = 256 - h /\ o3 = 0 /\ o4 = 0
    BY SMT, <1>10, <2>1 DEF Filled
  <2> QED BY SMT, <1>4, <1>5, <1>8, <2>2
<1>9. CASE c = 24 + i
  <2>1. FromOctets(o1, o2, o3, o4) = -(16777216 * h)
    BY SMT, <1>2, <1>3, <1>9 DEF Power
  <2>2. o1 = 256 - h /\ o2 = 0 /\ o3 = 0 /\ o4 = 0
    BY SMT, <1>10, <2>1 DEF Filled
  <2> QED BY SMT, <1>4, <1>5, <1>9, <2>2
<1> QED BY Zenon, <1>1, <1>6, <1>7, <1>8, <1>9

LEMMA AndBits ==
  ASSUME NEW p, Octets(p), NEW q, Octets(q)
  PROVE  /\ And(WordOf(p), WordOf(q)) # 0 =>
              \E i \in 1..4, r \in 0..7 : OctetBit(p[i], r) = 1 /\ OctetBit(q[i], r) = 1
         /\ And(WordOf(p), WordOf(q)) # WordOf(q) =>
              \E i \in 1..4, r \in 0..7 : OctetBit(p[i], r) = 0 /\ OctetBit(q[i], r) = 1
<1>1. \A i \in 1..4 : p[i] \in 0..255 /\ q[i] \in 0..255
  BY Zenon DEF Octets
<1>2. And(WordOf(p), WordOf(q))
        = FromOctets(AndOctet(p[1], q[1]), AndOctet(p[2], q[2]), AndOctet(p[3], q[3]), AndOctet(p[4], q[4]))
  BY Zenon, AndWords
<1>3. FromOctets(0, 0, 0, 0) = 0
  BY SMT DEF FromOctets
<1>4. ASSUME And(WordOf(p), WordOf(q)) # 0
      PROVE  \E i \in 1..4, r \in 0..7 : OctetBit(p[i], r) = 1 /\ OctetBit(q[i], r) = 1
  <2>1. \E i \in 1..4 : AndOctet(p[i], q[i]) # 0
    BY Zenon, <1>2, <1>3, <1>4, OneToFour
  <2> QED BY Zenon, <1>1, <2>1, AndOctets
<1>5. ASSUME And(WordOf(p), WordOf(q)) # WordOf(q)
      PROVE  \E i \in 1..4, r \in 0..7 : OctetBit(p[i], r) = 0 /\ OctetBit(q[i], r) = 1
  <2>1. \E i \in 1..4 : AndOctet(p[i], q[i]) # q[i]
    BY Zenon, <1>2, <1>5, OneToFour DEF WordOf
  <2> QED BY Zenon, <1>1, <2>1, AndOctets
<1> QED BY Zenon, <1>4, <1>5

\* Each one of ~x is a zero of x.
LEMMA NotOctets ==
  ASSUME NEW q, Octets(q)
  PROVE  \E z : /\ Octets(z) /\ Not(WordOf(q)) = WordOf(z)
                /\ \A i \in 1..4, r \in 0..7 : OctetBit(z[i], r) = 1 => OctetBit(q[i], r) = 0
<1> DEFINE z == [i \in 1..4 |-> 255 - q[i]]
<1>1. \A i \in 1..4 : q[i] \in 0..255
  BY Zenon DEF Octets
<1>2. /\ z[1] = 255 - q[1] /\ z[2] = 255 - q[2] /\ z[3] = 255 - q[3] /\ z[4] = 255 - q[4]
      /\ \A i \in 1..4 : z[i] = 255 - q[i]
  BY Zenon, OneToFour
<1> HIDE DEF z
<1>3. Octets(z)
  <2> SUFFICES ASSUME NEW i \in 1..4 PROVE z[i] \in 0..255
    BY Zenon DEF Octets
  <2>1. PICK v \in 0..255 : v = q[i]
    BY Zenon, <1>1
  <2>2. z[i] = 255 - v
    BY ZenonT(30), <1>2, <2>1
  <2>3. 255 - v \in 0..255
    BY SMT
  <2> QED BY Zenon, <2>2, <2>3
<1>4. Not(WordOf(q)) = WordOf(z)
  <2>1. Not(WordOf(q)) = FromOctets(255 - q[1], 255 - q[2], 255 - q[3], 255 - q[4])
    BY Zenon, NotWords
  <2>2. WordOf(z) = FromOctets(255 - q[1], 255 - q[2], 255 - q[3], 255 - q[4])
    BY Zenon, <1>2 DEF WordOf
  <2> QED BY Zenon, <2>1, <2>2
<1>5. ASSUME NEW i \in 1..4, NEW r \in 0..7, OctetBit(z[i], r) = 1
      PROVE  OctetBit(q[i], r) = 0
  <2>1. PICK v \in 0..255 : v = q[i]
    BY Zenon, <1>1
  <2>2. OctetBit(v, r) \in {0, 1} /\ OctetBit(255 - v, r) = 1 - OctetBit(v, r)
    BY ZenonT(30), NotBits
  <2>3. OctetBit(255 - v, r) = 1
    BY ZenonT(30), <1>2, <1>5, <2>1
  <2>4. OctetBit(v, r) = 0
    BY SMT, <2>2, <2>3
  <2> QED BY Zenon, <2>1, <2>4
<1> QED BY Zenon, <1>3, <1>4, <1>5

BitOf(o, n) == (o[(n \div 8) + 1] \div 2^(7 - (n % 8))) % 2

LEMMA BitPlace ==
  ASSUME NEW i \in 1..4, NEW r \in 0..7
  PROVE  \E n \in 0..31 : n = 8 * (i - 1) + r /\ \A o : BitOf(o, n) = OctetBit(o[i], r)
<1>1. PICK n \in 0..31 : n = 8 * (i - 1) + r
  BY SMT
<1>2. n % 8 = r /\ (n \div 8) + 1 = i
  BY SMT, <1>1
<1>3. \A o : BitOf(o, n) = OctetBit(o[i], r)
  BY Zenon, <1>2 DEF BitOf, OctetBit
<1> QED BY Zenon, <1>1, <1>3

LEMMA PlaceOfBit ==
  ASSUME NEW n \in 0..31
  PROVE  \E i \in 1..4, r \in 0..7 : n = 8 * (i - 1) + r
<1>1. PICK i \in 1..4 : i = (n \div 8) + 1
  BY SMT
<1>2. PICK r \in 0..7 : r = n % 8
  BY SMT
<1>3. n = 8 * (i - 1) + r
  BY SMT, <1>1, <1>2
<1> QED BY Zenon, <1>3

LEMMA BitsOfOctets ==
  ASSUME NEW o, Octets(o), NEW n \in 0..31
  PROVE  BitOf(o, n) \in {0, 1}
<1>1. PICK i \in 1..4, r \in 0..7 : n = 8 * (i - 1) + r
  BY Zenon, PlaceOfBit
<1>2. o[i] \in 0..255
  BY Zenon DEF Octets
<1>3. BitOf(o, n) = OctetBit(o[i], r)
  BY Zenon, <1>1, BitPlace
<1> QED BY ZenonT(30), <1>2, <1>3, NotBits

\* The mask -1 << c has 32 - c ones, and they lead.
LEMMA MaskBits ==
  ASSUME NEW o, Octets(o), NEW c \in 0..31, WordOf(o) = (IF c = 31 THEN MinInt32 ELSE -(2^c)),
         NEW n \in 0..31
  PROVE  BitOf(o, n) = (IF n < 32 - c THEN 1 ELSE 0)
<1>1. PICK i \in 1..4, r \in 0..7 : n = 8 * (i - 1) + r
  BY Zenon, PlaceOfBit
<1>2. \A k \in 1..4 : o[k] \in 0..255
  BY Zenon DEF Octets
<1>3. BitOf(o, n) = OctetBit(o[i], r)
  BY Zenon, <1>1, BitPlace
<1>4. /\ OctetBit(o[1], r) = (IF r < 32 - c THEN 1 ELSE 0)
      /\ OctetBit(o[2], r) = (IF 8 + r < 32 - c THEN 1 ELSE 0)
      /\ OctetBit(o[3], r) = (IF 16 + r < 32 - c THEN 1 ELSE 0)
      /\ OctetBit(o[4], r) = (IF 24 + r < 32 - c THEN 1 ELSE 0)
  BY Zenon, MaskOctets
<1>5. i = 1 \/ i = 2 \/ i = 3 \/ i = 4
  BY SMT
<1> QED BY SMT, <1>1, <1>3, <1>4, <1>5

\* What the three tests of checkIPNetHost say of the bits of an address.
LEMMA AcceptedPair ==
  ASSUME NEW a \in Addr, NEW b \in Addr, checkMask(b) = "ENONE",
         checkIPNetHost(Bits(a), Bits(b)) = "ENONE"
  PROVE  \E len \in 1..31 :
           /\ \A n \in 0..31 : BitOf(Carried(b), n) = (IF n < len THEN 1 ELSE 0)
           /\ \E n \in 0..(len - 1) : BitOf(Carried(a), n) = 1
           /\ {BitOf(Carried(a), n) : n \in len..31} = {0, 1}
<1> DEFINE p == Carried(a)
           q == Carried(b)
<1>1. Octets(p) /\ Bits(a) = WordOf(p) /\ Octets(q) /\ Bits(b) = WordOf(q)
  <2>1. \A i \in 1..4 : i = 1 \/ i = 2 \/ i = 3 \/ i = 4
    BY SMT
  <2>2. /\ p[1] \in 0..255 /\ p[2] \in 0..255 /\ p[3] \in 0..255 /\ p[4] \in 0..255
        /\ Bits(a) = WordOf(p)
    BY Zenon, CarriedOctets DEF WordOf
  <2>3. /\ q[1] \in 0..255 /\ q[2] \in 0..255 /\ q[3] \in 0..255 /\ q[4] \in 0..255
        /\ Bits(b) = WordOf(q)
    BY Zenon, CarriedOctets DEF WordOf
  <2> HIDE DEF p, q
  <2> QED BY SMT, <2>1, <2>2, <2>3 DEF Octets
<1> HIDE DEF p, q
<1>2. PICK c \in 0..31 : WordOf(q) = (IF c = 31 THEN MinInt32 ELSE -(2^c))
  BY Zenon, <1>1 DEF checkMask
<1>3. \A n \in 0..31 : BitOf(q, n) = (IF n < 32 - c THEN 1 ELSE 0)
  BY Zenon, <1>1, <1>2, MaskBits
<1>4. And(WordOf(p), WordOf(q)) # 0
  BY SMT, <1>1 DEF checkIPNetHost
<1>5. And(WordOf(p), Not(WordOf(q))) # 0 /\ And(WordOf(p), Not(WordOf(q))) # Not(WordOf(q))
  BY SMT, <1>1, <1>4 DEF checkIPNetHost
<1>6. PICK z : /\ Octets(z) /\ Not(WordOf(q)) = WordOf(z)
               /\ \A i \in 1..4, r \in 0..7 : OctetBit(z[i], r) = 1 => OctetBit(q[i], r) = 0
  BY Zenon, <1>1, NotOctets
<1>7. PICK n1 \in 0..31 : BitOf(p, n1) = 1 /\ BitOf(q, n1) = 1
  <2>1. PICK i \in 1..4, r \in 0..7 : OctetBit(p[i], r) = 1 /\ OctetBit(q[i], r) = 1
    BY SMT, <1>1, <1>4, AndBits
  <2> QED BY Zenon, <2>1, BitPlace
<1>8. PICK n2 \in 0..31 : BitOf(p, n2) = 1 /\ BitOf(q, n2) = 0
  <2>1. PICK i \in 1..4, r \in 0..7 : OctetBit(p[i], r) = 1 /\ OctetBit(z[i], r) = 1
    BY SMT, <1>1, <1>5, <1>6, AndBits
  <2>2. OctetBit(q[i], r) = 0
    BY Zenon, <1>6, <2>1
  <2>3. PICK n \in 0..31 : \A o : BitOf(o, n) = OctetBit(o[i], r)
    BY Zenon, BitPlace
  <2> QED BY Zenon, <2>1, <2>2, <2>3
<1>9. PICK n3 \in 0..31 : BitOf(p, n3) = 0 /\ BitOf(q, n3) = 0
  <2>1. PICK i \in 1..4, r \in 0..7 : OctetBit(p[i], r) = 0 /\ OctetBit(z[i], r) = 1
    BY SMT, <1>1, <1>5, <1>6, AndBits
  <2>2. OctetBit(q[i], r) = 0
    BY Zenon, <1>6, <2>1
  <2>3. PICK n \in 0..31 : \A o : BitOf(o, n) = OctetBit(o[i], r)
    BY Zenon, BitPlace
  <2> QED BY Zenon, <2>1, <2>2, <2>3
<1>10. n1 < 32 - c /\ n2 >= 32 - c /\ n3 >= 32 - c
  BY SMT, <1>3, <1>7, <1>8, <1>9
<1>11. PICK len \in 1..31 : len = 32 - c
  BY SMT, <1>10
<1>12. /\ \A n \in 0..31 : BitOf(q, n) = (IF n < len THEN 1 ELSE 0)
       /\ n1 \in 0..(len - 1) /\ n2 \in len..31 /\ n3 \in len..31
  BY SMT, <1>3, <1>10, <1>11
<1>13. \A n \in len..31 : BitOf(p, n) \in {0, 1}
  <2>1. \A n \in len..31 : n \in 0..31
    BY SMT
  <2> QED BY Zenon, <1>1, <2>1, BitsOfOctets
<1>14. {BitOf(p, n) : n \in len..31} = {0, 1}
  BY Zenon, <1>8, <1>9, <1>12, <1>13
<1> QED BY Zenon, <1>7, <1>12, <1>14 DEF p, q

\* An accepted pair has passed each check.
PairInv ==
  call.fn = "pair" =>
    \E a \in Hosts, b \in Masks :
      /\ call.arg = <<a, b>>
      /\ call.result = "ENONE" =>
           checkIp(a, {}) = "ENONE" /\ checkMask(b) = "ENONE" /\ checkIpMask(a, b) = "ENONE"

\* A finished check of a pair holds what the checks returned.
LEMMA NextPairInv == PairInv /\ NextTools => PairInv'
<1> SUFFICES ASSUME PairInv, NextTools PROVE PairInv'
  OBVIOUS
<1>1. CASE Return
  BY <1>1 DEF Return, NoCall, PairInv
<1>2. CASE \E fn \in Encodings, s \in Strings, set \in Settings : Digest(fn, s, set)
  BY <1>2 DEF Digest, Encodings, PairInv
<1>3. CASE \E fn \in Encodings, kd \in KeyedStrings, set \in Settings : Keyed(fn, kd[1], kd[2], set)
  BY <1>3 DEF Keyed, Encodings, PairInv
<1>4. CASE \E a \in Hosts, b \in Masks : CheckPair(a, b)
  <2>1. PICK a \in Hosts, b \in Masks : CheckPair(a, b)
    BY Zenon, <1>4
  <2>2. /\ call'.arg = <<a, b>>
        /\ call'.result = IF checkIp(a, {}) # "ENONE" THEN checkIp(a, {})
                          ELSE IF checkMask(b) # "ENONE" THEN checkMask(b) ELSE checkIpMask(a, b)
    BY <2>1 DEF CheckPair
  <2> QED BY Zenon, <2>2 DEF PairInv
<1> QED BY <1>1, <1>2, <1>3, <1>4 DEF NextTools

\* So a pair that was accepted went through each of them.
LEMMA PairHost == PairInv => HostInNetwork
<1> SUFFICES ASSUME PairInv, call.fn = "pair", call.result = "ENONE" PROVE HostInNetwork
  BY Zenon DEF HostInNetwork
<1> DEFINE a == call.arg[1]
           b == call.arg[2]
<1>1. /\ a \in Hosts /\ b \in Masks
      /\ checkIp(a, {}) = "ENONE" /\ checkMask(b) = "ENONE" /\ checkIpMask(a, b) = "ENONE"
  <2>1. PICK x \in Hosts, y \in Masks :
          /\ call.arg = <<x, y>>
          /\ checkIp(x, {}) = "ENONE" /\ checkMask(y) = "ENONE" /\ checkIpMask(x, y) = "ENONE"
    BY Zenon DEF PairInv
  <2>2. a = x /\ b = y
    BY <2>1
  <2> HIDE DEF a, b
  <2> QED BY Zenon, <2>1, <2>2
<1> HIDE DEF a, b
<1>2. a # BadFormat /\ b # BadFormat
  BY <1>1 DEF checkIp, checkMask
<1>3. a \in Addr /\ b \in Addr
  BY SMT, <1>1, <1>2, ToolsAssumption DEF Addr, Admitted
<1>4. checkIPNetHost(Bits(a), Bits(b)) = "ENONE"
  BY Zenon, <1>1 DEF checkIpMask
<1>5. PICK len \in 1..31 :
        /\ \A n \in 0..31 : BitOf(Carried(b), n) = (IF n < len THEN 1 ELSE 0)
        /\ \E n \in 0..(len - 1) : BitOf(Carried(a), n) = 1
        /\ {BitOf(Carried(a), n) : n \in len..31} = {0, 1}
  BY Zenon, <1>1, <1>3, <1>4, AcceptedPair
<1> DEFINE bits(x) == [n \in 0..31 |-> BitOf(Carried(x), n)]
<1>6. /\ \A n \in 0..31 : bits(b)[n] = (IF n < len THEN 1 ELSE 0)
      /\ \E n \in 0..(len - 1) : bits(a)[n] = 1
      /\ {bits(a)[n] : n \in len..31} = {0, 1}
  <2>1. \A n \in 0..(len - 1) : n \in 0..31
    BY SMT
  <2>2. \A n \in len..31 : n \in 0..31
    BY SMT
  <2>3. {bits(a)[n] : n \in len..31} = {BitOf(Carried(a), n) : n \in len..31}
    BY Zenon, <2>2
  <2> QED BY Zenon, <1>5, <2>1, <2>3
<1> QED BY Zenon, <1>6 DEF HostInNetwork, BitOf, a, b

-----------------------------------------------------------------------------
(* Words: sums, shifts and the turns of core_md5 *)

\* Induction up to N, over a set of numbers.
LEMMA Upward ==
  ASSUME NEW N \in Nat, NEW S, 0 \in S, \A n \in 1..N : n - 1 \in S => n \in S
  PROVE  \A n \in 0..N : n \in S
<1> DEFINE Out == {n \in 0..N : n \notin S}
<1>1. SUFFICES ASSUME Out # {} PROVE FALSE
  OBVIOUS
<1>2. PICK x \in Out : \A y \in Out : x <= y
  <2>1. Out \in SUBSET Nat
    OBVIOUS
  <2> QED BY ONLY <1>1, <2>1, LeastNatural
<1>3. x \in 1..N /\ x \notin S
  BY <1>2
<1>4. x - 1 \in 0..N /\ ~(x <= x - 1)
  BY <1>3
<1>5. x - 1 \in S
  BY <1>2, <1>4
<1> QED BY <1>3, <1>5

\* f[n] is what n steps make of v0.
Steps(f, N, v0, step) == f = [n \in 0..N |-> IF n = 0 THEN v0 ELSE step[n][f[n - 1]]]

\* A function that a definition repeats step by step exists.
LEMMA Iterated ==
  ASSUME NEW N \in Nat, NEW V, NEW v0 \in V, NEW step \in [1..N -> [V -> V]]
  PROVE  \E f \in [0..N -> V] : Steps(f, N, v0, step)
<1> DEFINE UpTo(m) == \E f \in [0..m -> V] : f[0] = v0 /\ \A n \in 1..m : f[n] = step[n][f[n - 1]]
           S == {m \in 0..N : UpTo(m)}
<1>1. 0 \in S
  <2> DEFINE f == [n \in 0..0 |-> v0]
  <2>1. f \in [0..0 -> V] /\ f[0] = v0 /\ \A n \in 1..0 : f[n] = step[n][f[n - 1]]
    OBVIOUS
  <2>2. UpTo(0)
    BY <2>1
  <2> QED BY <2>2
<1>2. ASSUME NEW m \in 1..N, m - 1 \in S PROVE m \in S
  <2>1. PICK f \in [0..(m - 1) -> V] : f[0] = v0 /\ \A n \in 1..(m - 1) : f[n] = step[n][f[n - 1]]
    BY <1>2
  <2> DEFINE g == [n \in 0..m |-> IF n = m THEN step[m][f[m - 1]] ELSE f[n]]
  <2>2. step[m][f[m - 1]] \in V
    BY <2>1
  <2>3. g \in [0..m -> V]
    BY <2>1, <2>2
  <2>4. g[0] = v0
    BY <2>1
  <2>5. ASSUME NEW n \in 1..m PROVE g[n] = step[n][g[n - 1]]
    <3>1. g[n - 1] = f[n - 1]
      OBVIOUS
    <3> QED BY <2>1, <3>1
  <2>6. UpTo(m)
    BY <2>3, <2>4, <2>5
  <2> QED BY <2>6
<1>3. N \in S
  <2>1. \A n \in 0..N : n \in S
    <3> HIDE DEF S
    <3> QED BY <1>1, <1>2, Upward
  <2> QED BY <2>1
<1>4. PICK f \in [0..N -> V] : f[0] = v0 /\ \A n \in 1..N : f[n] = step[n][f[n - 1]]
  BY <1>3
<1>5. f = [n \in 0..N |-> IF n = 0 THEN v0 ELSE step[n][f[n - 1]]]
  <2>1. \A n \in 0..N : f[n] = IF n = 0 THEN v0 ELSE step[n][f[n - 1]]
    BY <1>4
  <2> QED BY <2>1
<1> QED BY <1>5 DEF Steps

\* The halves of a number, the low one a natural.
Halves(x, h, l) == Hi(x) = h /\ Lo(x) = l /\ x = Half * h + l /\ 0 <= l /\ l < Half

\* The word w is the number v modulo 2^32.
Wraps(w, v) == \E k \in Int : w = v + 4294967296 * k

\* A number has its two halves.
LEMMA HalfOf ==
  ASSUME NEW x \in Int
  PROVE  \E h \in Int, l \in Int : Halves(x, h, l)
<1>1. Hi(x) \in Int /\ Lo(x) \in Int
  BY SMT DEF Hi, Lo, Half
<1>2. Halves(x, Hi(x), Lo(x))
  BY SMT DEF Hi, Lo, Half, Halves
<1> QED BY Zenon, <1>1, <1>2

LEMMA Int32Ends == MinInt32 \in Int /\ MaxInt32 \in Int
BY SMT DEF MinInt32, MaxInt32

\* Addition modulo 2^32.
LEMMA SafeAdd ==
  ASSUME NEW x \in Int, NEW y \in Int
  PROVE  safe_add(x, y) \in Int32 /\ Wraps(safe_add(x, y), x + y)
<1>1. PICK hx \in Int, lx \in Int : Halves(x, hx, lx)
  BY Zenon, HalfOf
<1>2. PICK hy \in Int, ly \in Int : Halves(y, hy, ly)
  BY Zenon, HalfOf
<1>3. PICK low \in Int : low = lx + ly
  BY SMT
<1>4. PICK c \in Int, l \in Int : Halves(low, c, l)
  BY Zenon, HalfOf
<1>5. PICK m \in Int : m = hx + hy + c
  BY SMT
<1>6. PICK s \in Int, d \in Int :
        s * Half = Shl16(m) /\ s = m - 65536 * d /\ s >= -32768 /\ s <= 32767
  <2>1. PICK d \in Int : d = (m + 32768) \div 65536
    BY SMT
  <2>2. m + 32768 = 65536 * d + ((m + 32768) % 65536)
    BY SMT, <2>1
  <2>3. PICK s \in Int : s = ((m + 32768) % 65536) - 32768 /\ s >= -32768 /\ s <= 32767
    BY SMT
  <2>4. s = m - 65536 * d
    BY SMT, <2>2, <2>3
  <2>5. s * Half = Shl16(m)
    BY SMT, <2>3 DEF Shl16, Half
  <2> QED BY SMT, <2>1, <2>3, <2>4, <2>5
<1>7. l >= 0 /\ l <= 65535
  BY SMT, <1>4 DEF Halves, Half
<1>8. safe_add(x, y) = s * Half + l
  <2>1. /\ Hi(x) = hx /\ Lo(x) = lx /\ Hi(y) = hy /\ Lo(y) = ly /\ Hi(low) = c /\ Lo(low) = l
    BY Zenon, <1>1, <1>2, <1>4 DEF Halves
  <2>2. s * Half = Shl16(m)
    BY SMT, <1>6
  <2> QED BY Zenon, <2>1, <2>2, <1>3, <1>5 DEF safe_add
<1>9. PICK w \in Int : w = s * Half + l
  BY SMT, <1>7 DEF Half
<1>10. w >= MinInt32
  BY SMT, <1>6, <1>7, <1>9 DEF MinInt32, Half
<1>11. w <= MaxInt32
  BY SMT, <1>6, <1>7, <1>9 DEF MaxInt32, Half
<1>12. w \in Int32
  BY SMT, <1>10, <1>11, Int32Ends DEF Int32
<1>14. x + y = 65536 * (hx + hy) + 65536 * c + l
  BY SMT, <1>1, <1>2, <1>3, <1>4, <1>7 DEF Half, Halves
<1>15. w = 65536 * (hx + hy + c) - 4294967296 * d + l
  BY SMT, <1>5, <1>6, <1>7, <1>9 DEF Half
<1>16. w = x + y + 4294967296 * (-d)
  BY SMT, <1>7, <1>14, <1>15
<1>17. Wraps(w, x + y)
  BY SMT, <1>16 DEF Wraps
<1> QED BY Zenon, <1>8, <1>9, <1>12, <1>17

LEMMA Int32IsInt == \A x \in Int32 : x \in Int
BY SMT, Int32Ends DEF Int32

\* safe_add gives a word for any numbers.
LEMMA SafeAddType ==
  ASSUME NEW x \in Int, NEW y \in Int
  PROVE  safe_add(x, y) \in Int32 /\ safe_add(x, y) \in Int
BY Zenon, SafeAdd, Int32IsInt

LEMMA AndType ==
  ASSUME NEW x \in Int, NEW y \in Int
  PROVE  And(x, y) \in Int /\ Or(x, y) \in Int /\ Xor(x, y) \in Int /\ Not(x) \in Int
<1> DEFINE digit(unit) == AndDigit[(x \div unit) % 16][(y \div unit) % 16]
<1>1. ASSUME NEW unit \in Nat, unit > 0 PROVE digit(unit) \in 0..15
  <2>1. (x \div unit) % 16 \in 0..15
    BY SMT, <1>1
  <2>2. (y \div unit) % 16 \in 0..15
    BY SMT, <1>1
  <2> QED BY Zenon, <2>1, <2>2, AndDigits
<1>2. /\ 2^28 = 268435456 /\ 2^24 = 16777216 /\ 2^20 = 1048576 /\ 2^16 = 65536 /\ 2^12 = 4096
      /\ 2^8 = 256 /\ 2^4 = 16 /\ 2^(32 - 28) = 16 /\ 2^(31 - 28) = 8
  BY SMT
<1>3. /\ digit(1) \in 0..15 /\ digit(2^4) \in 0..15 /\ digit(2^8) \in 0..15 /\ digit(2^12) \in 0..15
      /\ digit(2^16) \in 0..15 /\ digit(2^20) \in 0..15 /\ digit(2^24) \in 0..15
      /\ digit(2^28) \in 0..15
  <2>1. /\ 1 \in Nat /\ 1 > 0 /\ 2^28 \in Nat /\ 2^28 > 0 /\ 2^24 \in Nat /\ 2^24 > 0
        /\ 2^20 \in Nat /\ 2^20 > 0 /\ 2^16 \in Nat /\ 2^16 > 0 /\ 2^12 \in Nat /\ 2^12 > 0
        /\ 2^8 \in Nat /\ 2^8 > 0 /\ 2^4 \in Nat /\ 2^4 > 0
    BY SMT, <1>2
  <2> HIDE DEF digit
  <2> QED BY Zenon, <1>1, <2>1
<1>4. And(x, y) = digit(1) + 2^4 * digit(2^4) + 2^8 * digit(2^8) + 2^12 * digit(2^12)
      + 2^16 * digit(2^16) + 2^20 * digit(2^20) + 2^24 * digit(2^24)
      + Shl(digit(2^28), 28)
  BY Zenon DEF And
<1> HIDE DEF digit
<1>5. PICK d0 \in 0..15, d1 \in 0..15, d2 \in 0..15, d3 \in 0..15 :
        d0 = digit(1) /\ d1 = digit(2^4) /\ d2 = digit(2^8) /\ d3 = digit(2^12)
  BY Zenon, <1>3
<1>6. PICK d4 \in 0..15, d5 \in 0..15, d6 \in 0..15, d7 \in 0..15 :
        d4 = digit(2^16) /\ d5 = digit(2^20) /\ d6 = digit(2^24) /\ d7 = digit(2^28)
  BY Zenon, <1>3
<1>7. And(x, y) = d0 + 2^4 * d1 + 2^8 * d2 + 2^12 * d3 + 2^16 * d4 + 2^20 * d5 + 2^24 * d6
                  + Shl(d7, 28)
  BY Zenon, <1>4, <1>5, <1>6
<1>8. PICK s \in Int : Shl(d7, 28) = s
  BY SMT, <1>2 DEF Shl
<1>9. And(x, y) \in Int
  BY SMT, <1>2, <1>7, <1>8
<1> QED BY SMT, <1>9 DEF Or, Xor, Not

Shifts == {7, 12, 17, 22, 5, 9, 14, 20, 4, 11, 16, 23, 6, 10, 15, 21}

LEMMA TwoTo ==
  ASSUME NEW e \in 0..31
  PROVE  \E p \in Nat : 2^e = p /\ p > 0
<1>1. PICK i \in 0..7, j \in 0..3 : e = 8 * j + i
  <2>1. e % 8 \in 0..7 /\ e \div 8 \in 0..3 /\ e = 8 * (e \div 8) + (e % 8)
    BY SMT
  <2> QED BY SMT, <2>1
<1>2. PICK h \in 1..128 : Power(i, h)
  BY Zenon, Powers
<1>3. CASE j = 0
  BY SMT, <1>1, <1>2, <1>3 DEF Power
<1>4. CASE j = 1
  BY SMT, <1>1, <1>2, <1>4 DEF Power
<1>5. CASE j = 2
  BY SMT, <1>1, <1>2, <1>5 DEF Power
<1>6. CASE j = 3
  BY SMT, <1>1, <1>2, <1>6 DEF Power
<1>7. j = 0 \/ j = 1 \/ j = 2 \/ j = 3
  BY SMT
<1> QED BY Zenon, <1>3, <1>4, <1>5, <1>6, <1>7

\* A rotation gives a number.
LEMMA RolType ==
  ASSUME NEW num \in Int, NEW s \in 1..31
  PROVE  bit_rol(num, s) \in Int
<1>1. s \in 0..31 /\ 32 - s \in 0..31 /\ 31 - s \in 0..31 /\ 32 - (32 - s) \in 0..31 /\ s # 0
  BY SMT
<1>2. PICK p \in Nat : 2^s = p /\ p > 0
  BY Zenon, <1>1, TwoTo
<1>3. PICK q \in Nat : 2^(32 - s) = q /\ q > 0
  BY Zenon, <1>1, TwoTo
<1>4. PICK r \in Nat : 2^(31 - s) = r /\ r > 0
  BY Zenon, <1>1, TwoTo
<1>5. PICK t \in Nat : 2^(32 - (32 - s)) = t /\ t > 0
  BY Zenon, <1>1, TwoTo
<1>6. PICK l \in Int : l = num % q
  BY SMT, <1>3
<1>7. PICK u \in Int : u = (num \div q) % t
  BY SMT, <1>3, <1>5
<1>8. PICK v \in Int : v = (IF l >= r THEN l - r - r ELSE l)
  <2>1. (IF l >= r THEN l - r - r ELSE l) \in Int
    BY SMT
  <2> QED BY Zenon, <2>1
<1>9. Shl(num, s) = v * p
  BY Zenon, <1>1, <1>2, <1>3, <1>4, <1>6, <1>8 DEF Shl
<1>10. UShr(num, 32 - s) = u
  BY Zenon, <1>3, <1>5, <1>7 DEF UShr
<1>11. v * p \in Int
  BY SMT
<1> QED BY SMT, <1>9, <1>10, <1>11 DEF bit_rol

\* The common part of the four rounds gives a word.
LEMMA CmnType ==
  ASSUME NEW q \in Int, NEW a \in Int, NEW b \in Int, NEW x \in Int, NEW s \in 1..31, NEW t \in Int
  PROVE  md5_cmn(q, a, b, x, s, t) \in Int32
<1>1. safe_add(a, q) \in Int /\ safe_add(x, t) \in Int
  BY Zenon, SafeAddType
<1>2. safe_add(safe_add(a, q), safe_add(x, t)) \in Int
  BY Zenon, <1>1, SafeAddType
<1>3. bit_rol(safe_add(safe_add(a, q), safe_add(x, t)), s) \in Int
  BY Zenon, <1>2, RolType
<1> QED BY Zenon, <1>3, SafeAddType DEF md5_cmn

\* So does a step of each round.
LEMMA RoundTypes ==
  ASSUME NEW a \in Int, NEW b \in Int, NEW c \in Int, NEW d \in Int,
         NEW x \in Int, NEW s \in 1..31, NEW t \in Int
  PROVE  /\ md5_ff(a, b, c, d, x, s, t) \in Int32 /\ md5_gg(a, b, c, d, x, s, t) \in Int32
         /\ md5_hh(a, b, c, d, x, s, t) \in Int32 /\ md5_ii(a, b, c, d, x, s, t) \in Int32
<1>1. Not(b) \in Int /\ Not(d) \in Int
  BY Zenon, AndType
<1>2. And(b, c) \in Int /\ And(Not(b), d) \in Int /\ And(b, d) \in Int /\ And(c, Not(d)) \in Int
  BY Zenon, <1>1, AndType
<1>3. Or(And(b, c), And(Not(b), d)) \in Int /\ Or(And(b, d), And(c, Not(d))) \in Int
  BY Zenon, <1>2, AndType
<1>4. Xor(b, c) \in Int /\ Or(b, Not(d)) \in Int
  BY Zenon, <1>1, AndType
<1>5. Xor(Xor(b, c), d) \in Int /\ Xor(c, Or(b, Not(d))) \in Int
  BY Zenon, <1>4, AndType
<1> QED BY Zenon, <1>3, <1>5, CmnType DEF md5_ff, md5_gg, md5_hh, md5_ii

Digest4 == [1..4 -> Int32]

LEMMA AtType ==
  ASSUME NEW x \in Seq(Int), NEW i \in Nat
  PROVE  At(x, i) \in Int
BY DEF At

\* A call rotates by 1 to 31 bits.
LEMMA ShiftType ==
  ASSUME NEW n \in 0..63
  PROVE  Shift[(n \div 16) + 1][(n % 4) + 1] \in 1..31
<1>1. (n \div 16) + 1 \in 1..4 /\ (n % 4) + 1 \in 1..4
  BY SMT
<1>2. \A i, j \in 1..4 : Shift[i][j] \in 1..31
  <2>1. \A j \in 1..4 : j = 1 \/ j = 2 \/ j = 3 \/ j = 4
    BY SMT
  <2>2. \A j \in 1..4 : Shift[1][j] \in 1..31 /\ Shift[2][j] \in 1..31 /\ Shift[3][j] \in 1..31 /\ Shift[4][j] \in 1..31
    BY SMT, <2>1 DEF Shift
  <2> QED BY <2>1, <2>2
<1> QED BY Zenon, <1>1, <1>2

LEMMA AddConstantType ==
  ASSUME NEW n \in 0..63
  PROVE  AddConstant[n + 1] \in Int
<1>1. AddConstant \in [1..64 -> Int]
  BY SMT DEF AddConstant
<1> QED BY SMT, <1>1

\* A call leaves four words.
LEMMA CallType ==
  ASSUME NEW r \in Digest4, NEW x \in Seq(Int), NEW i \in Nat, NEW n \in 0..63
  PROVE  Call(r, x, i, n) \in Digest4
<1> DEFINE role(j) == ((j - n) % 4) + 1
           s == Shift[(n \div 16) + 1][(n % 4) + 1]
           w == At(x, i + Word(n))
           t == AddConstant[n + 1]
           f(a, b, c, d) == CASE n < 16       -> md5_ff(a, b, c, d, w, s, t)
                              [] n \in 16..31 -> md5_gg(a, b, c, d, w, s, t)
                              [] n \in 32..47 -> md5_hh(a, b, c, d, w, s, t)
                              [] n >= 48      -> md5_ii(a, b, c, d, w, s, t)
<1>1. s \in 1..31 /\ t \in Int
  BY Zenon, ShiftType, AddConstantType
<1>2. w \in Int
  <2>1. Word(n) \in Nat
    <3>1. n \in Nat /\ (5 * n + 1) % 16 \in Nat /\ (3 * n + 5) % 16 \in Nat /\ (7 * n) % 16 \in Nat
      BY SMT
    <3>2. CASE n < 16
      BY SMT, <3>1, <3>2 DEF Word
    <3>3. CASE n \in 16..31
      BY SMT, <3>1, <3>3 DEF Word
    <3>4. CASE n \in 32..47
      BY SMT, <3>1, <3>4 DEF Word
    <3>5. CASE n >= 48
      BY SMT, <3>1, <3>5 DEF Word
    <3>6. n < 16 \/ n \in 16..31 \/ n \in 32..47 \/ n >= 48
      BY SMT
    <3> QED BY Zenon, <3>2, <3>3, <3>4, <3>5, <3>6
  <2>2. i + Word(n) \in Nat
    BY SMT, <2>1
  <2> QED BY Zenon, <2>2, AtType
<1>3. role(0) \in 1..4 /\ role(1) \in 1..4 /\ role(2) \in 1..4 /\ role(3) \in 1..4
  BY SMT
<1>4. r[role(0)] \in Int /\ r[role(1)] \in Int /\ r[role(2)] \in Int /\ r[role(3)] \in Int
  BY Zenon, <1>3, Int32IsInt DEF Digest4
<1> HIDE DEF s, w, t
<1>5. ASSUME NEW a \in Int, NEW b \in Int, NEW c \in Int, NEW d \in Int PROVE f(a, b, c, d) \in Int32
  <2>1. n < 16 \/ n \in 16..31 \/ n \in 32..47 \/ n >= 48
    BY SMT
  <2>2. n < 16 => ~(n \in 16..31) /\ ~(n \in 32..47) /\ ~(n >= 48)
    BY SMT
  <2>3. n \in 16..31 => ~(n < 16) /\ ~(n \in 32..47) /\ ~(n >= 48)
    BY SMT
  <2>4. n \in 32..47 => ~(n < 16) /\ ~(n \in 16..31) /\ ~(n >= 48)
    BY SMT
  <2>5. n >= 48 => ~(n < 16) /\ ~(n \in 16..31) /\ ~(n \in 32..47)
    BY SMT
  <2>6. /\ md5_ff(a, b, c, d, w, s, t) \in Int32 /\ md5_gg(a, b, c, d, w, s, t) \in Int32
        /\ md5_hh(a, b, c, d, w, s, t) \in Int32 /\ md5_ii(a, b, c, d, w, s, t) \in Int32
    BY Zenon, <1>1, <1>2, RoundTypes
  <2> QED BY <2>1, <2>2, <2>3, <2>4, <2>5, <2>6
<1>6. f(r[role(0)], r[role(1)], r[role(2)], r[role(3)]) \in Int32
  <2> HIDE DEF f, role
  <2> QED BY Zenon, <1>4, <1>5
<1>7. Call(r, x, i, n) = [r EXCEPT ![role(0)] = f(r[role(0)], r[role(1)], r[role(2)], r[role(3)])]
  BY Zenon DEF Call, s, w, t
<1> QED
  <2> HIDE DEF f, role
  <2> QED BY Zenon, <1>3, <1>6, <1>7 DEF Digest4

\* Array only copies.
LEMMA ArrayIs ==
  ASSUME NEW S, NEW n \in Nat, NEW f \in [1..n -> S]
  PROVE  Array(f) = f /\ f \in Seq(S) /\ Len(f) = n
<1>1. f \in Seq(S) /\ Len(f) = n
  OBVIOUS
<1> QED BY <1>1, ConcatEmptySeq DEF Array

\* The 64 calls of a turn on registers of words.
LEMMA TurnType ==
  ASSUME NEW r \in Digest4, NEW x \in Seq(Int), NEW i \in Nat
  PROVE  Block(r, x, i) \in Digest4
<1> DEFINE after[n \in 0..64] == IF n = 0 THEN r ELSE Call(after[n - 1], x, i, n - 1)
<1>1. PICK step \in [1..64 -> [Digest4 -> Digest4]] :
        \A n \in 1..64 : \A v \in Digest4 : step[n][v] = Call(v, x, i, n - 1)
  <2> DEFINE s == [n \in 1..64 |-> [v \in Digest4 |-> Call(v, x, i, n - 1)]]
  <2>1. ASSUME NEW n \in 1..64, NEW v \in Digest4 PROVE Call(v, x, i, n - 1) \in Digest4
    <3>1. n - 1 \in 0..63
      BY SMT
    <3> QED BY Zenon, <3>1, CallType
  <2>2. s \in [1..64 -> [Digest4 -> Digest4]]
    BY Zenon, <2>1
  <2>3. \A n \in 1..64 : \A v \in Digest4 : s[n][v] = Call(v, x, i, n - 1)
    BY Zenon
  <2> HIDE DEF s
  <2> QED BY Zenon, <2>2, <2>3
<1>2. PICK f \in [0..64 -> Digest4] : Steps(f, 64, r, step)
  <2>1. 64 \in Nat
    BY SMT
  <2> QED BY Zenon, <1>1, <2>1, Iterated
<1>3. f = [n \in 0..64 |-> IF n = 0 THEN r ELSE Call(f[n - 1], x, i, n - 1)]
  <2>1. ASSUME NEW n \in 0..64, n # 0 PROVE step[n][f[n - 1]] = Call(f[n - 1], x, i, n - 1)
    <3>1. n \in 1..64 /\ n - 1 \in 0..64
      BY SMT, <2>1
    <3>2. f[n - 1] \in Digest4
      BY Zenon, <3>1
    <3> QED BY ONLY <1>1, <3>1, <3>2, Zenon
  <2>2. \A n \in 0..64 : f[n] = (IF n = 0 THEN r ELSE Call(f[n - 1], x, i, n - 1))
    BY Zenon, <1>2, <2>1 DEF Steps
  <2> QED BY Zenon, <2>2
<1>4. after = [n \in 0..64 |-> IF n = 0 THEN r ELSE Call(after[n - 1], x, i, n - 1)]
  BY Zenon, <1>3
<1>5. \A n \in 0..64 : n \in {m \in 0..64 : after[m] \in Digest4}
  <2> DEFINE S == {m \in 0..64 : after[m] \in Digest4}
  <2> HIDE DEF after
  <2>1. 0 \in S
    BY SMT, <1>4
  <2>2. ASSUME NEW n \in 1..64, n - 1 \in S PROVE n \in S
    <3>1. after[n] = Call(after[n - 1], x, i, n - 1)
      <4>1. n \in 0..64 /\ n # 0
        BY SMT
      <4> QED BY Zenon, <1>4, <4>1
    <3>2. n - 1 \in 0..63 /\ n \in 0..64
      BY SMT
    <3> QED BY ZenonT(30), <2>2, <3>1, <3>2, CallType
  <2>3. 64 \in Nat
    BY SMT
  <2> HIDE DEF S
  <2>4. \A n \in 0..64 : n \in S
    BY Zenon, <2>1, <2>2, <2>3, Upward
  <2> QED BY Zenon, <2>4 DEF S
<1>6. \A j \in 1..4 : safe_add(after[64][j], r[j]) \in Int32
  <2> HIDE DEF after
  <2>1. after[64] \in Digest4
    <3>1. 64 \in 0..64
      BY SMT
    <3> QED BY Zenon, <1>5, <3>1
  <2> QED BY Zenon, <2>1, Int32IsInt, SafeAddType DEF Digest4
<1>7. Block(r, x, i) = Array([j \in 1..4 |-> safe_add(after[64][j], r[j])])
  BY Zenon DEF Block
<1> QED
  <2> HIDE DEF after
  <2>1. [j \in 1..4 |-> safe_add(after[64][j], r[j])] \in [1..4 -> Int32]
    BY Zenon, <1>6
  <2>2. 4 \in Nat
    BY SMT
  <2> QED BY ZenonT(30), <1>7, <2>1, <2>2, ArrayIs DEF Digest4

LEMMA ShlType ==
  ASSUME NEW num \in Int, NEW s \in 0..31
  PROVE  Shl(num, s) \in Int
<1>1. CASE s = 0
  BY SMT, <1>1 DEF Shl
<1>2. CASE s # 0
  <2>1. 32 - s \in 0..31 /\ 31 - s \in 0..31
    BY SMT, <1>2
  <2>2. PICK p \in Nat : 2^s = p /\ p > 0
    BY Zenon, TwoTo
  <2>3. PICK q \in Nat : 2^(32 - s) = q /\ q > 0
    BY Zenon, <2>1, TwoTo
  <2>4. PICK r \in Nat : 2^(31 - s) = r /\ r > 0
    BY Zenon, <2>1, TwoTo
  <2>5. PICK l \in Int : l = num % q
    BY SMT, <2>3
  <2>6. PICK v \in Int : v = (IF l >= r THEN l - r - r ELSE l)
    <3>1. (IF l >= r THEN l - r - r ELSE l) \in Int
      BY SMT
    <3> QED BY Zenon, <3>1
  <2>7. Shl(num, s) = v * p
    BY Zenon, <1>2, <2>2, <2>3, <2>4, <2>5, <2>6 DEF Shl
  <2>8. v * p \in Int
    BY SMT
  <2> QED BY Zenon, <2>7, <2>8
<1> QED BY Zenon, <1>1, <1>2

\* The padded array ends one word before the end of a block.
LEMMA PadType ==
  ASSUME NEW x \in Seq(Int), NEW len \in Nat
  PROVE  Pad(x, len) \in Seq(Int) /\ Len(Pad(x, len)) = ((len + 64) \div 512) * 16 + 15
<1> DEFINE last == ((len + 64) \div 512) * 16 + 14
           word(i) == IF i = len \div 32 THEN Or(At(x, i), Shl(128, len % 32)) ELSE At(x, i)
           f == [p \in 1..last |-> word(p - 1)]
<1>1. last \in Nat
  BY SMT
<1>2. ASSUME NEW i \in Nat PROVE word(i) \in Int
  <2>1. At(x, i) \in Int
    BY Zenon, AtType
  <2>2. len % 32 \in 0..31 /\ 128 \in Int
    BY SMT
  <2>3. Shl(128, len % 32) \in Int
    BY Zenon, <2>2, ShlType
  <2> QED BY Zenon, <2>1, <2>3, AndType
<1>3. f \in [1..last -> Int]
  <2> HIDE DEF word, last
  <2>1. \A p \in 1..last : p - 1 \in Nat
    BY SMT, <1>1
  <2> QED BY Zenon, <1>2, <2>1
<1>4. Pad(x, len) = f \o <<len>>
  BY Zenon DEF Pad
<1> HIDE DEF f, last
<1>5. f \in Seq(Int) /\ Len(f) = last
  BY Zenon, <1>1, <1>3, ArrayIs
<1>6. <<len>> \in Seq(Int) /\ Len(<<len>>) = 1
  BY SMT
<1>7. f \o <<len>> \in Seq(Int) /\ Len(f \o <<len>>) = last + 1
  BY Zenon, <1>5, <1>6, ConcatProperties
<1>8. last + 1 = ((len + 64) \div 512) * 16 + 15
  BY SMT DEF last
<1> QED BY Zenon, <1>4, <1>7, <1>8

LEMMA RegistersType == Registers \in Digest4
<1>1. \A w \in Int : w <= MaxInt32 /\ w >= MinInt32 => w \in Int32
  BY SMT, Int32Ends DEF Int32
<1>2. \A i \in 1..4 : i = 1 \/ i = 2 \/ i = 3 \/ i = 4
  BY SMT
<1>3. /\ Registers[1] \in Int /\ Registers[1] <= MaxInt32 /\ Registers[1] >= MinInt32
      /\ Registers[2] \in Int /\ Registers[2] <= MaxInt32 /\ Registers[2] >= MinInt32
  BY SMT DEF Registers, MaxInt32, MinInt32
<1>4. /\ Registers[3] \in Int /\ Registers[3] <= MaxInt32 /\ Registers[3] >= MinInt32
      /\ Registers[4] \in Int /\ Registers[4] <= MaxInt32 /\ Registers[4] >= MinInt32
  BY SMT DEF Registers, MaxInt32, MinInt32
<1>5. Registers = [i \in 1..4 |-> Registers[i]]
  BY SMT DEF Registers
<1>6. \A i \in 1..4 : Registers[i] \in Int32
  BY Zenon, <1>1, <1>2, <1>3, <1>4
<1> QED BY Zenon, <1>5, <1>6 DEF Digest4

\* The digest of any array of words is four words.
LEMMA DigestType ==
  ASSUME NEW x \in Seq(Int), NEW len \in Nat
  PROVE  core_md5(x, len) \in Digest4
<1> DEFINE p == Pad(x, len)
           n == (Len(p) + 15) \div 16
           after[k \in 0..n] == IF k = 0 THEN Registers ELSE Block(after[k - 1], p, (k - 1) * 16)
<1>1. p \in Seq(Int)
  BY Zenon, PadType
<1>2. n \in Nat
  BY SMT, <1>1
<1>3. core_md5(x, len) = after[n]
  BY Zenon DEF core_md5
<1> HIDE DEF p, n
<1>4. PICK step \in [1..n -> [Digest4 -> Digest4]] :
        \A k \in 1..n : \A v \in Digest4 : step[k][v] = Block(v, p, (k - 1) * 16)
  <2> DEFINE s == [k \in 1..n |-> [v \in Digest4 |-> Block(v, p, (k - 1) * 16)]]
  <2>1. ASSUME NEW k \in 1..n, NEW v \in Digest4 PROVE Block(v, p, (k - 1) * 16) \in Digest4
    <3>1. (k - 1) * 16 \in Nat
      BY SMT, <1>2
    <3> QED BY Zenon, <1>1, <3>1, TurnType
  <2>2. s \in [1..n -> [Digest4 -> Digest4]]
    BY Zenon, <2>1
  <2>3. \A k \in 1..n : \A v \in Digest4 : s[k][v] = Block(v, p, (k - 1) * 16)
    BY Zenon
  <2> HIDE DEF s
  <2> QED BY Zenon, <2>2, <2>3
<1>5. PICK f \in [0..n -> Digest4] : Steps(f, n, Registers, step)
  BY Zenon, <1>2, <1>4, RegistersType, Iterated
<1>6. f = [k \in 0..n |-> IF k = 0 THEN Registers ELSE Block(f[k - 1], p, (k - 1) * 16)]
  <2>1. ASSUME NEW k \in 0..n, k # 0 PROVE step[k][f[k - 1]] = Block(f[k - 1], p, (k - 1) * 16)
    <3>1. k \in 1..n /\ k - 1 \in 0..n
      BY SMT, <1>2, <2>1
    <3>2. f[k - 1] \in Digest4
      BY Zenon, <3>1
    <3> QED BY ONLY <1>4, <3>1, <3>2, Zenon
  <2>2. \A k \in 0..n : f[k] = (IF k = 0 THEN Registers ELSE Block(f[k - 1], p, (k - 1) * 16))
    BY Zenon, <1>5, <2>1 DEF Steps
  <2> QED BY Zenon, <2>2
<1>7. after = [k \in 0..n |-> IF k = 0 THEN Registers ELSE Block(after[k - 1], p, (k - 1) * 16)]
  BY Zenon, <1>6
<1> HIDE DEF after
<1>8. \A k \in 0..n : k \in {m \in 0..n : after[m] \in Digest4}
  <2> DEFINE S == {m \in 0..n : after[m] \in Digest4}
  <2>1. 0 \in S
    <3>1. 0 \in 0..n
      BY SMT, <1>2
    <3> QED BY Zenon, <1>7, <3>1, RegistersType
  <2>2. ASSUME NEW k \in 1..n, k - 1 \in S PROVE k \in S
    <3>1. k \in 0..n /\ k # 0 /\ (k - 1) * 16 \in Nat
      BY SMT, <1>2
    <3>2. after[k] = Block(after[k - 1], p, (k - 1) * 16)
      BY Zenon, <1>7, <3>1
    <3> QED BY Zenon, <1>1, <2>2, <3>1, <3>2, TurnType
  <2> HIDE DEF S
  <2>3. \A k \in 0..n : k \in S
    BY Zenon, <1>2, <2>1, <2>2, Upward
  <2> QED BY Zenon, <2>3 DEF S
<1>9. n \in 0..n
  BY SMT, <1>2
<1> QED BY Zenon, <1>3, <1>8, <1>9

-----------------------------------------------------------------------------
(* Words and their octets *)

Octet == 0..255

LEMMA AndZero ==
  ASSUME NEW v \in Octet
  PROVE  AndOctet(v, 0) = 0 /\ AndOctet(0, v) = 0
<1>1. v \in 0..255
  BY Zenon DEF Octet
<1>2. v \div 16 \in 0..15 /\ v % 16 \in 0..15
  BY Zenon, <1>1, Nibbles
<1>3. 0 \div 16 = 0 /\ 0 % 16 = 0 /\ 0 \in 0..15
  BY SMT
<1>4. ASSUME NEW d \in 0..15 PROVE AndDigit[d][0] = 0 /\ AndDigit[0][d] = 0
  <2>1. \A w \in {8, 4, 2, 1} : (0 \div w) % 2 # 1
    BY SMT
  <2> QED BY Zenon, <1>3, <2>1, AndDigits
<1>5. /\ AndDigit[v \div 16][0] = 0 /\ AndDigit[v % 16][0] = 0
      /\ AndDigit[0][v \div 16] = 0 /\ AndDigit[0][v % 16] = 0
  BY Zenon, <1>2, <1>4
<1> QED BY SMT, <1>3, <1>5 DEF AndOctet

LEMMA FromOctetsType ==
  ASSUME NEW p1 \in Octet, NEW p2 \in Octet, NEW p3 \in Octet, NEW p4 \in Octet
  PROVE  FromOctets(p1, p2, p3, p4) \in Int
<1>1. p1 \in Int /\ p2 \in Int /\ p3 \in Int /\ p4 \in Int
  BY SMT DEF Octet
<1> QED BY SMT, <1>1 DEF FromOctets

LEMMA NoOctets == FromOctets(0, 0, 0, 0) = 0 /\ 0 \in Octet
BY SMT DEF FromOctets, Octet

\* Of words that share no octet, the bits together are the sum.
LEMMA OrApart ==
  ASSUME NEW p, Octets(p), NEW q, Octets(q), \A i \in 1..4 : p[i] = 0 \/ q[i] = 0
  PROVE  Or(WordOf(p), WordOf(q)) = FromOctets(p[1] + q[1], p[2] + q[2], p[3] + q[3], p[4] + q[4])
<1>1. PICK p1, p2, p3, p4 \in 0..255 : p1 = p[1] /\ p2 = p[2] /\ p3 = p[3] /\ p4 = p[4]
  BY Zenon, FourOctets
<1>2. PICK q1, q2, q3, q4 \in 0..255 : q1 = q[1] /\ q2 = q[2] /\ q3 = q[3] /\ q4 = q[4]
  BY Zenon, FourOctets
<1>3. (p1 = 0 \/ q1 = 0) /\ (p2 = 0 \/ q2 = 0) /\ (p3 = 0 \/ q3 = 0) /\ (p4 = 0 \/ q4 = 0)
  BY Zenon, <1>1, <1>2, OneToFour
<1>4. /\ AndOctet(p1, q1) = 0 /\ AndOctet(p2, q2) = 0 /\ AndOctet(p3, q3) = 0 /\ AndOctet(p4, q4) = 0
  <2>1. /\ p1 \in Octet /\ p2 \in Octet /\ p3 \in Octet /\ p4 \in Octet
        /\ q1 \in Octet /\ q2 \in Octet /\ q3 \in Octet /\ q4 \in Octet
    BY Zenon DEF Octet
  <2>2. AndOctet(p1, q1) = 0
    BY ONLY <1>3, <2>1, AndZero, Zenon
  <2>3. AndOctet(p2, q2) = 0
    BY ONLY <1>3, <2>1, AndZero, Zenon
  <2>4. AndOctet(p3, q3) = 0
    BY ONLY <1>3, <2>1, AndZero, Zenon
  <2>5. AndOctet(p4, q4) = 0
    BY ONLY <1>3, <2>1, AndZero, Zenon
  <2> QED BY Zenon, <2>2, <2>3, <2>4, <2>5
<1>5. And(WordOf(p), WordOf(q)) = 0
  <2>1. And(WordOf(p), WordOf(q))
          = FromOctets(AndOctet(p1, q1), AndOctet(p2, q2), AndOctet(p3, q3), AndOctet(p4, q4))
    BY Zenon, <1>1, <1>2, AndWords
  <2> QED BY Zenon, <1>4, <2>1, NoOctets
<1>6. PICK s \in Int : s = (IF p1 >= 128 THEN p1 - 256 ELSE p1)
  <2>1. (IF p1 >= 128 THEN p1 - 256 ELSE p1) \in Int
    BY SMT
  <2> QED BY SMT, <2>1
<1>7. PICK t \in Int : t = (IF q1 >= 128 THEN q1 - 256 ELSE q1)
  <2>1. (IF q1 >= 128 THEN q1 - 256 ELSE q1) \in Int
    BY SMT
  <2> QED BY SMT, <2>1
<1>8. PICK u \in Int : u = s + t /\ u = (IF p1 + q1 >= 128 THEN (p1 + q1) - 256 ELSE p1 + q1)
  BY SMT, <1>3, <1>6, <1>7
<1>9. FromOctets(p1, p2, p3, p4) = s * 16777216 + p2 * 65536 + p3 * 256 + p4
  BY SMT, <1>6 DEF FromOctets
<1>10. FromOctets(q1, q2, q3, q4) = t * 16777216 + q2 * 65536 + q3 * 256 + q4
  BY SMT, <1>7 DEF FromOctets
<1>11. FromOctets(p1 + q1, p2 + q2, p3 + q3, p4 + q4)
        = u * 16777216 + (p2 + q2) * 65536 + (p3 + q3) * 256 + (p4 + q4)
  BY SMT, <1>8 DEF FromOctets
<1>12. PICK x \in Int : x = WordOf(p) /\ x = s * 16777216 + p2 * 65536 + p3 * 256 + p4
  <2>1. s * 16777216 + p2 * 65536 + p3 * 256 + p4 \in Int
    BY SMT
  <2>2. WordOf(p) = FromOctets(p1, p2, p3, p4)
    BY Zenon, <1>1 DEF WordOf
  <2> QED BY SMT, <1>9, <2>1, <2>2
<1>13. PICK y \in Int : y = WordOf(q) /\ y = t * 16777216 + q2 * 65536 + q3 * 256 + q4
  <2>1. t * 16777216 + q2 * 65536 + q3 * 256 + q4 \in Int
    BY SMT
  <2>2. WordOf(q) = FromOctets(q1, q2, q3, q4)
    BY Zenon, <1>2 DEF WordOf
  <2> QED BY SMT, <1>10, <2>1, <2>2
<1>16. x = WordOf(p) /\ y = WordOf(q)
  BY SMT, <1>12, <1>13
<1>14. Or(x, y) = x + y
  <2>1. And(x, y) = 0
    BY Zenon, <1>5, <1>16
  <2> QED BY SMT, <2>1 DEF Or
<1>15. x + y = FromOctets(p1 + q1, p2 + q2, p3 + q3, p4 + q4)
  BY SMT, <1>8, <1>11, <1>12, <1>13
<1> QED BY Zenon, <1>1, <1>2, <1>14, <1>15, <1>16

\* Octets joined to a word one after the other, or in pairs.
Joined(a, b, c, d) ==
  /\ Or(0, FromOctets(0, 0, 0, a)) = FromOctets(0, 0, 0, a)
  /\ Or(FromOctets(0, 0, 0, a), FromOctets(0, 0, b, 0)) = FromOctets(0, 0, b, a)
  /\ Or(FromOctets(0, 0, b, a), FromOctets(0, c, 0, 0)) = FromOctets(0, c, b, a)
  /\ Or(FromOctets(0, c, b, a), FromOctets(d, 0, 0, 0)) = FromOctets(d, c, b, a)
  /\ Or(0, FromOctets(0, 0, b, a)) = FromOctets(0, 0, b, a)
  /\ Or(FromOctets(0, 0, b, a), FromOctets(d, c, 0, 0)) = FromOctets(d, c, b, a)

\* The octets of a word, the lowest last.
Spelled(p, d, c, b, a) ==
  Octets(p) /\ WordOf(p) = FromOctets(d, c, b, a) /\ p[1] = d /\ p[2] = c /\ p[3] = b /\ p[4] = a

\* Four octets and the word they make.
LEMMA Spells ==
  ASSUME NEW a \in Octet, NEW b \in Octet, NEW c \in Octet, NEW d \in Octet
  PROVE  \E p : Spelled(p, d, c, b, a)
<1> DEFINE p == <<d, c, b, a>>
<1>1. p[1] = d /\ p[2] = c /\ p[3] = b /\ p[4] = a
  OBVIOUS
<1> HIDE DEF p
<1>2. \A i \in 1..4 : i = 1 \/ i = 2 \/ i = 3 \/ i = 4
  BY SMT
<1>3. Octets(p)
  BY Zenon, <1>1, <1>2 DEF Octets, Octet
<1>4. WordOf(p) = FromOctets(d, c, b, a)
  BY Zenon, <1>1 DEF WordOf
<1>5. Spelled(p, d, c, b, a)
  BY Zenon, <1>1, <1>3, <1>4 DEF Spelled
<1> QED BY Zenon, <1>5

\* |= puts the octets of a word in one after the other.
LEMMA JoinedOctets ==
  ASSUME NEW a \in Octet, NEW b \in Octet, NEW c \in Octet, NEW d \in Octet
  PROVE  Joined(a, b, c, d)
<1>00. \A i \in 1..4 : i = 1 \/ i = 2 \/ i = 3 \/ i = 4
  BY SMT
<1>0. a \in Int /\ b \in Int /\ c \in Int /\ d \in Int
  BY SMT DEF Octet
<1>1. Or(0, FromOctets(0, 0, 0, a)) = FromOctets(0, 0, 0, a)
  <2>1. PICK p : Spelled(p, 0, 0, 0, 0)
    BY Zenon, Spells, NoOctets
  <2>2. PICK q : Spelled(q, 0, 0, 0, a)
    BY Zenon, Spells, NoOctets
  <2>3. Or(FromOctets(0, 0, 0, 0), FromOctets(0, 0, 0, a)) = FromOctets(0 + 0, 0 + 0, 0 + 0, 0 + a)
    <3>1. \A i \in 1..4 : p[i] = 0 \/ q[i] = 0
      BY Zenon, <1>00, <2>1, <2>2 DEF Spelled
    <3>2. Or(WordOf(p), WordOf(q)) = FromOctets(p[1] + q[1], p[2] + q[2], p[3] + q[3], p[4] + q[4])
      BY Zenon, <2>1, <2>2, <3>1, OrApart DEF Spelled
    <3> QED BY Zenon, <2>1, <2>2, <3>2 DEF Spelled
  <2>4. FromOctets(0 + 0, 0 + 0, 0 + 0, 0 + a) = FromOctets(0, 0, 0, a)
    BY SMT, <1>0
  <2> QED BY Zenon, <2>3, <2>4, NoOctets
<1>2. Or(FromOctets(0, 0, 0, a), FromOctets(0, 0, b, 0)) = FromOctets(0, 0, b, a)
  <2>1. PICK p : Spelled(p, 0, 0, 0, a)
    BY Zenon, Spells, NoOctets
  <2>2. PICK q : Spelled(q, 0, 0, b, 0)
    BY Zenon, Spells, NoOctets
  <2>3. Or(FromOctets(0, 0, 0, a), FromOctets(0, 0, b, 0)) = FromOctets(0 + 0, 0 + 0, 0 + b, a + 0)
    <3>1. \A i \in 1..4 : p[i] = 0 \/ q[i] = 0
      BY Zenon, <1>00, <2>1, <2>2 DEF Spelled
    <3>2. Or(WordOf(p), WordOf(q)) = FromOctets(p[1] + q[1], p[2] + q[2], p[3] + q[3], p[4] + q[4])
      BY Zenon, <2>1, <2>2, <3>1, OrApart DEF Spelled
    <3> QED BY Zenon, <2>1, <2>2, <3>2 DEF Spelled
  <2>4. FromOctets(0 + 0, 0 + 0, 0 + b, a + 0) = FromOctets(0, 0, b, a)
    BY SMT, <1>0
  <2> QED BY Zenon, <2>3, <2>4, NoOctets
<1>3. Or(FromOctets(0, 0, b, a), FromOctets(0, c, 0, 0)) = FromOctets(0, c, b, a)
  <2>1. PICK p : Spelled(p, 0, 0, b, a)
    BY Zenon, Spells, NoOctets
  <2>2. PICK q : Spelled(q, 0, c, 0, 0)
    BY Zenon, Spells, NoOctets
  <2>3. Or(FromOctets(0, 0, b, a), FromOctets(0, c, 0, 0)) = FromOctets(0 + 0, 0 + c, b + 0, a + 0)
    <3>1. \A i \in 1..4 : p[i] = 0 \/ q[i] = 0
      BY Zenon, <1>00, <2>1, <2>2 DEF Spelled
    <3>2. Or(WordOf(p), WordOf(q)) = FromOctets(p[1] + q[1], p[2] + q[2], p[3] + q[3], p[4] + q[4])
      BY Zenon, <2>1, <2>2, <3>1, OrApart DEF Spelled
    <3> QED BY Zenon, <2>1, <2>2, <3>2 DEF Spelled
  <2>4. FromOctets(0 + 0, 0 + c, b + 0, a + 0) = FromOctets(0, c, b, a)
    BY SMT, <1>0
  <2> QED BY Zenon, <2>3, <2>4, NoOctets
<1>4. Or(FromOctets(0, c, b, a), FromOctets(d, 0, 0, 0)) = FromOctets(d, c, b, a)
  <2>1. PICK p : Spelled(p, 0, c, b, a)
    BY Zenon, Spells, NoOctets
  <2>2. PICK q : Spelled(q, d, 0, 0, 0)
    BY Zenon, Spells, NoOctets
  <2>3. Or(FromOctets(0, c, b, a), FromOctets(d, 0, 0, 0)) = FromOctets(0 + d, c + 0, b + 0, a + 0)
    <3>1. \A i \in 1..4 : p[i] = 0 \/ q[i] = 0
      BY Zenon, <1>00, <2>1, <2>2 DEF Spelled
    <3>2. Or(WordOf(p), WordOf(q)) = FromOctets(p[1] + q[1], p[2] + q[2], p[3] + q[3], p[4] + q[4])
      BY Zenon, <2>1, <2>2, <3>1, OrApart DEF Spelled
    <3> QED BY Zenon, <2>1, <2>2, <3>2 DEF Spelled
  <2>4. FromOctets(0 + d, c + 0, b + 0, a + 0) = FromOctets(d, c, b, a)
    BY SMT, <1>0
  <2> QED BY Zenon, <2>3, <2>4, NoOctets
<1>5. Or(0, FromOctets(0, 0, b, a)) = FromOctets(0, 0, b, a)
  <2>1. PICK p : Spelled(p, 0, 0, 0, 0)
    BY Zenon, Spells, NoOctets
  <2>2. PICK q : Spelled(q, 0, 0, b, a)
    BY Zenon, Spells, NoOctets
  <2>3. Or(FromOctets(0, 0, 0, 0), FromOctets(0, 0, b, a)) = FromOctets(0 + 0, 0 + 0, 0 + b, 0 + a)
    <3>1. \A i \in 1..4 : p[i] = 0 \/ q[i] = 0
      BY Zenon, <1>00, <2>1, <2>2 DEF Spelled
    <3>2. Or(WordOf(p), WordOf(q)) = FromOctets(p[1] + q[1], p[2] + q[2], p[3] + q[3], p[4] + q[4])
      BY Zenon, <2>1, <2>2, <3>1, OrApart DEF Spelled
    <3> QED BY Zenon, <2>1, <2>2, <3>2 DEF Spelled
  <2>4. FromOctets(0 + 0, 0 + 0, 0 + b, 0 + a) = FromOctets(0, 0, b, a)
    BY SMT, <1>0
  <2> QED BY Zenon, <2>3, <2>4, NoOctets
<1>6. Or(FromOctets(0, 0, b, a), FromOctets(d, c, 0, 0)) = FromOctets(d, c, b, a)
  <2>1. PICK p : Spelled(p, 0, 0, b, a)
    BY Zenon, Spells, NoOctets
  <2>2. PICK q : Spelled(q, d, c, 0, 0)
    BY Zenon, Spells, NoOctets
  <2>3. Or(FromOctets(0, 0, b, a), FromOctets(d, c, 0, 0)) = FromOctets(0 + d, 0 + c, b + 0, a + 0)
    <3>1. \A i \in 1..4 : p[i] = 0 \/ q[i] = 0
      BY Zenon, <1>00, <2>1, <2>2 DEF Spelled
    <3>2. Or(WordOf(p), WordOf(q)) = FromOctets(p[1] + q[1], p[2] + q[2], p[3] + q[3], p[4] + q[4])
      BY Zenon, <2>1, <2>2, <3>1, OrApart DEF Spelled
    <3> QED BY Zenon, <2>1, <2>2, <3>2 DEF Spelled
  <2>4. FromOctets(0 + d, 0 + c, b + 0, a + 0) = FromOctets(d, c, b, a)
    BY SMT, <1>0
  <2> QED BY Zenon, <2>3, <2>4, NoOctets
<1> QED BY Zenon, <1>1, <1>2, <1>3, <1>4, <1>5, <1>6 DEF Joined

\* An octet shifted to its place in a word.
Placed(v) ==
  /\ Shl(v, 0) = FromOctets(0, 0, 0, v) /\ Shl(v, 8) = FromOctets(0, 0, v, 0)
  /\ Shl(v, 16) = FromOctets(0, v, 0, 0) /\ Shl(v, 24) = FromOctets(v, 0, 0, 0)
PairPlaced(h, l) ==
  /\ Shl(256 * h + l, 0) = FromOctets(0, 0, h, l) /\ Shl(256 * h + l, 16) = FromOctets(h, l, 0, 0)

\* << moves an octet to its place in a word.
LEMMA PlacedOctet == ASSUME NEW v \in Octet PROVE Placed(v)
<1>1. v \in Int /\ v >= 0 /\ v <= 255
  BY SMT DEF Octet
<1>2. /\ 2^(32 - 8) = 16777216 /\ 2^(31 - 8) = 8388608 /\ 2^8 = 256
      /\ 2^(32 - 16) = 65536 /\ 2^(31 - 16) = 32768 /\ 2^16 = 65536
      /\ 2^(32 - 24) = 256 /\ 2^(31 - 24) = 128 /\ 2^24 = 16777216
  BY SMT
<1>3. v % 16777216 = v /\ v % 65536 = v /\ v % 256 = v
  BY SMT, <1>1
<1>4. Shl(v, 0) = FromOctets(0, 0, 0, v)
  BY SMT, <1>1 DEF Shl, FromOctets
<1>5. Shl(v, 8) = FromOctets(0, 0, v, 0)
  BY SMT, <1>1, <1>2, <1>3 DEF Shl, FromOctets
<1>6. Shl(v, 16) = FromOctets(0, v, 0, 0)
  BY SMT, <1>1, <1>2, <1>3 DEF Shl, FromOctets
<1>7. Shl(v, 24) = FromOctets(v, 0, 0, 0)
  BY SMT, <1>1, <1>2, <1>3 DEF Shl, FromOctets
<1> QED BY Zenon, <1>4, <1>5, <1>6, <1>7 DEF Placed

\* And a character of sixteen bits to its half.
LEMMA PlacedPair == ASSUME NEW h \in Octet, NEW l \in Octet PROVE PairPlaced(h, l)
<1>1. h \in Int /\ h >= 0 /\ h <= 255 /\ l \in Int /\ l >= 0 /\ l <= 255
  BY SMT DEF Octet
<1>2. 2^(32 - 16) = 65536 /\ 2^(31 - 16) = 32768 /\ 2^16 = 65536
  BY SMT
<1>3. (256 * h + l) % 65536 = 256 * h + l
  BY SMT, <1>1
<1>4. Shl(256 * h + l, 0) = FromOctets(0, 0, h, l)
  BY SMT, <1>1 DEF Shl, FromOctets
<1>5. Shl(256 * h + l, 16) = FromOctets(h, l, 0, 0)
  BY SMT, <1>1, <1>2, <1>3 DEF Shl, FromOctets
<1> QED BY Zenon, <1>4, <1>5 DEF PairPlaced

-----------------------------------------------------------------------------
(* Strings, their bytes and their words *)

\* The bytes of a string: the low byte of each character, or both, the low one first.
BytesOf(str, chrsz) ==
  IF chrsz = 8 THEN Array([k \in 1..Len(str) |-> str[k] % 256]) ELSE LittleEndian(str)

\* A character is a low and a high byte.
Character(c, h, l) == c \in Int /\ c % 256 = l /\ c \div 256 = h /\ c = 256 * h + l
                      /\ c % 2^8 = l /\ c % 2^16 = c

\* A character is a high and a low byte.
LEMMA Characters ==
  ASSUME NEW c \in Code
  PROVE  \E h \in Octet, l \in Octet : Character(c, h, l)
<1>1. c \in Int /\ c >= 0 /\ c <= 65535
  BY SMTT(30) DEF Code
<1>2. PICK l \in Octet : l = c % 256
  BY SMT, <1>1 DEF Octet
<1>3. PICK h \in Octet : h = c \div 256
  BY SMT, <1>1 DEF Octet
<1>4. l \in Int /\ h \in Int
  BY SMT DEF Octet
<1>5. c = 256 * h + l
  BY SMT, <1>1, <1>2, <1>3, <1>4
<1>6. 2^8 = 256 /\ 2^16 = 65536
  BY SMT
<1>7. c % 65536 = c
  BY SMT, <1>1
<1>8. Character(c, h, l)
  BY SMT, <1>1, <1>2, <1>3, <1>5, <1>6, <1>7 DEF Character
<1> QED BY Zenon, <1>8

LEMMA ByteOf == ASSUME NEW c \in Code PROVE c % 256 \in Octet /\ c \div 256 \in Octet
<1>1. PICK h \in Octet, l \in Octet : Character(c, h, l)
  BY Zenon, Characters
<1>2. c % 256 = l /\ c \div 256 = h
  BY Zenon, <1>1 DEF Character
<1> QED BY Zenon, <1>2

LEMMA TextType ==
  ASSUME NEW str \in Seq(Code)
  PROVE  Len(str) \in Nat /\ \A k \in 1..Len(str) : str[k] \in Code
BY Zenon, LenProperties, ElementOfSeq

\* Byte i of a string, counted from zero, zero beyond its end.
LEMMA BytesEight ==
  ASSUME NEW str \in Seq(Code)
  PROVE  /\ BytesOf(str, 8) \in Seq(Octet) /\ Len(BytesOf(str, 8)) = Len(str)
         /\ \A i \in Nat : i < Len(str) => At(BytesOf(str, 8), i) = str[i + 1] % 256
<1> DEFINE f == [k \in 1..Len(str) |-> str[k] % 256]
           b == BytesOf(str, 8)
<1>1. b = Array(f)
  BY SMT DEF BytesOf
<1>2. f \in [1..Len(str) -> Octet]
  <2>1. ASSUME NEW k \in 1..Len(str) PROVE str[k] % 256 \in Octet
    <3>1. str[k] \in Code
      BY Zenon, TextType
    <3> QED BY Zenon, <3>1, ByteOf
  <2> QED BY Zenon, <2>1
<1> HIDE DEF f, b
<1>3. b = f /\ b \in Seq(Octet) /\ Len(b) = Len(str)
  BY Zenon, <1>1, <1>2, ArrayIs, TextType
<1>4. ASSUME NEW i \in Nat, i < Len(str) PROVE At(b, i) = str[i + 1] % 256
  <2>1. i + 1 \in 1..Len(str)
    BY SMT, <1>4, TextType
  <2>2. f[i + 1] = str[i + 1] % 256
    BY Zenon, <2>1 DEF f
  <2> QED BY Zenon, <1>3, <1>4, <2>2 DEF At
<1> QED BY Zenon, <1>3, <1>4 DEF b

\* Characters of sixteen bits have two bytes each, the low one first.
LEMMA BytesSixteen ==
  ASSUME NEW str \in Seq(Code)
  PROVE  /\ BytesOf(str, 16) \in Seq(Octet) /\ Len(BytesOf(str, 16)) = 2 * Len(str)
         /\ \A i \in Nat : i < Len(str) =>
              /\ At(BytesOf(str, 16), 2 * i) = str[i + 1] % 256
              /\ At(BytesOf(str, 16), 2 * i + 1) = str[i + 1] \div 256
<1> DEFINE byte(k) == IF k % 2 = 1 THEN str[(k + 1) \div 2] % 256 ELSE str[(k + 1) \div 2] \div 256
           f == [k \in 1..(2 * Len(str)) |-> byte(k)]
           b == BytesOf(str, 16)
<1>1. b = Array(f)
  BY SMT DEF BytesOf, LittleEndian
<1>2. f \in [1..(2 * Len(str)) -> Octet]
  <2>1. ASSUME NEW k \in 1..(2 * Len(str)) PROVE byte(k) \in Octet
    <3>1. (k + 1) \div 2 \in 1..Len(str)
      BY SMT, TextType
    <3>2. str[(k + 1) \div 2] \in Code
      BY Zenon, <3>1, TextType
    <3> QED BY Zenon, <3>2, ByteOf
  <2> HIDE DEF byte
  <2> QED BY Zenon, <2>1
<1> HIDE DEF f, b, byte
<1>3. b = f /\ b \in Seq(Octet) /\ Len(b) = 2 * Len(str)
  <2>1. PICK n \in Nat : n = 2 * Len(str)
    BY SMT, TextType
  <2>2. f \in [1..n -> Octet]
    BY Zenon, <1>2, <2>1
  <2>3. Array(f) = f /\ f \in Seq(Octet) /\ Len(f) = n
    BY ONLY <2>2, ArrayIs, Zenon
  <2> QED BY Zenon, <1>1, <2>1, <2>3
<1>4. ASSUME NEW i \in Nat, i < Len(str)
      PROVE  At(b, 2 * i) = str[i + 1] % 256 /\ At(b, 2 * i + 1) = str[i + 1] \div 256
  <2>1. /\ 2 * i + 1 \in 1..(2 * Len(str)) /\ (2 * i + 1) + 1 \in 1..(2 * Len(str))
        /\ 2 * i < 2 * Len(str) /\ 2 * i + 1 < 2 * Len(str)
        /\ ((2 * i + 1) + 1) \div 2 = i + 1 /\ (((2 * i + 1) + 1) + 1) \div 2 = i + 1
        /\ (2 * i + 1) % 2 = 1 /\ ((2 * i + 1) + 1) % 2 # 1
    BY SMT, <1>4, TextType
  <2>2. f[2 * i + 1] = str[i + 1] % 256 /\ f[(2 * i + 1) + 1] = str[i + 1] \div 256
    BY Zenon, <2>1 DEF f, byte
  <2> QED BY Zenon, <1>3, <2>1, <2>2 DEF At
<1> QED BY Zenon, <1>3, <1>4 DEF b

LEMMA OctetAt ==
  ASSUME NEW b \in Seq(Octet), NEW i \in Nat
  PROVE  At(b, i) \in Octet
<1>1. CASE i < Len(b)
  <2>1. i + 1 \in 1..Len(b)
    BY SMT, <1>1
  <2>2. b[i + 1] \in Octet
    BY Zenon, <2>1, ElementOfSeq
  <2> QED BY Zenon, <1>1, <2>2 DEF At
<1>2. CASE ~(i < Len(b))
  BY Zenon, <1>2, NoOctets DEF At
<1> QED BY Zenon, <1>1, <1>2

\* A word of an array of characters, as str2binl makes it.
Char(str, chrsz, k) == IF k <= Len(str) THEN str[k] % 2^chrsz ELSE 0
Part(str, chrsz, p, n) == Shl(Char(str, chrsz, (p - 1) * (32 \div chrsz) + n), (n - 1) * chrsz)
WordAt(str, chrsz, p) ==
  LET after[n \in 0..(32 \div chrsz)] ==
        IF n = 0 THEN 0 ELSE Or(after[n - 1], Part(str, chrsz, p, n))
  IN  after[32 \div chrsz]

\* The words of str2binl, each by its own.
LEMMA WordsOf ==
  ASSUME NEW str, NEW chrsz
  PROVE  str2binl(str, chrsz)
           = Array([p \in 1..((Len(str) * chrsz + 31) \div 32) |-> WordAt(str, chrsz, p)])
BY Zenon DEF str2binl, WordAt, Part, Char

LEMMA PartType ==
  ASSUME NEW str \in Seq(Code), NEW chrsz \in {8, 16}, NEW p \in Nat, p > 0,
         NEW n \in 1..(32 \div chrsz)
  PROVE  Part(str, chrsz, p, n) \in Int
<1> DEFINE k == (p - 1) * (32 \div chrsz) + n
<1>1. k \in Nat /\ k > 0 /\ (n - 1) * chrsz \in 0..31
  <2>1. CASE chrsz = 8
    BY SMT, <2>1
  <2>2. CASE chrsz = 16
    BY SMT, <2>2
  <2> QED BY Zenon, <2>1, <2>2
<1> HIDE DEF k
<1>2. Char(str, chrsz, k) \in Int
  <2>1. CASE k <= Len(str)
    <3>1. k \in 1..Len(str)
      BY SMT, <1>1, <2>1, TextType
    <3>2. PICK h \in Octet, l \in Octet : Character(str[k], h, l)
      BY Zenon, <3>1, TextType, Characters
    <3>3. str[k] % 2^chrsz = l \/ str[k] % 2^chrsz = str[k]
      BY Zenon, <3>2 DEF Character
    <3>4. l \in Int /\ str[k] \in Int
      BY SMT, <3>2 DEF Character, Octet
    <3> QED BY Zenon, <2>1, <3>3, <3>4 DEF Char
  <2>2. CASE ~(k <= Len(str))
    <3>1. 0 \in Int
      BY SMT
    <3> QED BY Zenon, <2>2, <3>1 DEF Char
  <2> QED BY Zenon, <2>1, <2>2
<1> QED BY Zenon, <1>1, <1>2, ShlType DEF Part, k

\* Its parts are joined one after the other.
LEMMA WordSteps ==
  ASSUME NEW str \in Seq(Code), NEW chrsz \in {8, 16}, NEW p \in Nat, p > 0
  PROVE  \E g : /\ WordAt(str, chrsz, p) = g[32 \div chrsz] /\ g[0] = 0
                /\ \A n \in 1..(32 \div chrsz) : g[n] = Or(g[n - 1], Part(str, chrsz, p, n))
<1> DEFINE per == 32 \div chrsz
           after[n \in 0..per] == IF n = 0 THEN 0 ELSE Or(after[n - 1], Part(str, chrsz, p, n))
<1>1. per \in Nat
  BY SMT
<1>2. WordAt(str, chrsz, p) = after[per]
  BY Zenon DEF WordAt
<1>3. \A n \in 1..per : Part(str, chrsz, p, n) \in Int
  BY Zenon, PartType
<1> HIDE DEF per
<1>4. PICK step \in [1..per -> [Int -> Int]] :
        \A n \in 1..per : \A v \in Int : step[n][v] = Or(v, Part(str, chrsz, p, n))
  <2> DEFINE s == [n \in 1..per |-> [v \in Int |-> Or(v, Part(str, chrsz, p, n))]]
  <2>1. ASSUME NEW n \in 1..per, NEW v \in Int PROVE Or(v, Part(str, chrsz, p, n)) \in Int
    BY Zenon, <1>3, AndType
  <2>2. s \in [1..per -> [Int -> Int]]
    BY Zenon, <2>1
  <2>3. \A n \in 1..per : \A v \in Int : s[n][v] = Or(v, Part(str, chrsz, p, n))
    BY Zenon
  <2> HIDE DEF s
  <2> QED BY Zenon, <2>2, <2>3
<1>5. PICK f \in [0..per -> Int] : Steps(f, per, 0, step)
  <2>1. 0 \in Int
    BY SMT
  <2> QED BY Zenon, <1>1, <1>4, <2>1, Iterated
<1>6. f = [n \in 0..per |-> IF n = 0 THEN 0 ELSE Or(f[n - 1], Part(str, chrsz, p, n))]
  <2>1. ASSUME NEW n \in 0..per, n # 0 PROVE step[n][f[n - 1]] = Or(f[n - 1], Part(str, chrsz, p, n))
    <3>1. n \in 1..per /\ n - 1 \in 0..per
      BY SMT, <1>1, <2>1
    <3>2. f[n - 1] \in Int
      BY Zenon, <3>1
    <3> QED BY ONLY <1>4, <3>1, <3>2, Zenon
  <2>2. \A n \in 0..per : f[n] = (IF n = 0 THEN 0 ELSE Or(f[n - 1], Part(str, chrsz, p, n)))
    BY Zenon, <1>5, <2>1 DEF Steps
  <2> QED BY Zenon, <2>2
<1>7. after = [n \in 0..per |-> IF n = 0 THEN 0 ELSE Or(after[n - 1], Part(str, chrsz, p, n))]
  BY Zenon, <1>6
<1> HIDE DEF after
<1>8. after[0] = 0
  <2>1. 0 \in 0..per
    BY SMT, <1>1
  <2> QED BY Zenon, <1>7, <2>1
<1>9. ASSUME NEW n \in 1..per PROVE after[n] = Or(after[n - 1], Part(str, chrsz, p, n))
  <2>1. n \in 0..per /\ n # 0
    BY SMT, <1>1
  <2> QED BY Zenon, <1>7, <2>1
<1> QED BY Zenon, <1>2, <1>8, <1>9 DEF per

WordFrom(b, i) == FromOctets(At(b, 4 * i + 3), At(b, 4 * i + 2), At(b, 4 * i + 1), At(b, 4 * i))

\* Beyond the end of a string its bytes are zero.
LEMMA BytesBeyond ==
  ASSUME NEW str \in Seq(Code), NEW i \in Nat, ~(i < Len(str))
  PROVE  /\ At(BytesOf(str, 8), i) = 0 /\ At(BytesOf(str, 16), 2 * i) = 0
         /\ At(BytesOf(str, 16), 2 * i + 1) = 0
<1>1. ~(2 * i < 2 * Len(str)) /\ ~(2 * i + 1 < 2 * Len(str))
  BY SMT, TextType
<1>2. Len(BytesOf(str, 8)) = Len(str) /\ Len(BytesOf(str, 16)) = 2 * Len(str)
  BY Zenon, BytesEight, BytesSixteen
<1>3. /\ ~(i < Len(BytesOf(str, 8))) /\ ~(2 * i < Len(BytesOf(str, 16)))
      /\ ~(2 * i + 1 < Len(BytesOf(str, 16)))
  BY Zenon, <1>1, <1>2
<1> QED BY Zenon, <1>3 DEF At

\* The characters are the bytes, or pairs of bytes.
LEMMA CharEight ==
  ASSUME NEW str \in Seq(Code), NEW i \in Nat
  PROVE  Char(str, 8, i + 1) = At(BytesOf(str, 8), i)
<1>1. CASE i < Len(str)
  <2>1. i + 1 \in 1..Len(str) /\ i + 1 <= Len(str)
    BY SMT, <1>1, TextType
  <2>2. PICK h \in Octet, l \in Octet : Character(str[i + 1], h, l)
    BY Zenon, <2>1, TextType, Characters
  <2>3. str[i + 1] % 2^8 = str[i + 1] % 256
    BY Zenon, <2>2 DEF Character
  <2> QED BY Zenon, <1>1, <2>1, <2>3, BytesEight DEF Char
<1>2. CASE ~(i < Len(str))
  <2>1. ~(i + 1 <= Len(str))
    BY SMT, <1>2, TextType
  <2> QED BY Zenon, <1>2, <2>1, BytesBeyond DEF Char
<1> QED BY Zenon, <1>1, <1>2

LEMMA CharSixteen ==
  ASSUME NEW str \in Seq(Code), NEW i \in Nat
  PROVE  Char(str, 16, i + 1) = 256 * At(BytesOf(str, 16), 2 * i + 1) + At(BytesOf(str, 16), 2 * i)
<1>1. CASE i < Len(str)
  <2>1. i + 1 \in 1..Len(str) /\ i + 1 <= Len(str)
    BY SMT, <1>1, TextType
  <2>2. PICK h \in Octet, l \in Octet : Character(str[i + 1], h, l)
    BY Zenon, <2>1, TextType, Characters
  <2>3. str[i + 1] % 2^16 = 256 * h + l /\ str[i + 1] % 256 = l /\ str[i + 1] \div 256 = h
    BY Zenon, <2>2 DEF Character
  <2> QED BY ZenonT(30), <1>1, <2>1, <2>3, BytesSixteen DEF Char
<1>2. CASE ~(i < Len(str))
  <2>1. ~(i + 1 <= Len(str)) /\ 0 = 256 * 0 + 0
    BY SMT, <1>2, TextType
  <2> QED BY Zenon, <1>2, <2>1, BytesBeyond DEF Char
<1> QED BY Zenon, <1>1, <1>2

\* A word of str2binl is made of four bytes, with chrsz 8 ...
LEMMA WordAtEight ==
  ASSUME NEW str \in Seq(Code), NEW i \in Nat
  PROVE  WordAt(str, 8, i + 1) = WordFrom(BytesOf(str, 8), i)
<1>1. PICK a \in Octet, b \in Octet, c \in Octet, d \in Octet :
        /\ a = At(BytesOf(str, 8), 4 * i) /\ b = At(BytesOf(str, 8), 4 * i + 1)
        /\ c = At(BytesOf(str, 8), 4 * i + 2) /\ d = At(BytesOf(str, 8), 4 * i + 3)
  <2>1. 4 * i \in Nat /\ 4 * i + 1 \in Nat /\ 4 * i + 2 \in Nat /\ 4 * i + 3 \in Nat
    BY SMT
  <2>2. BytesOf(str, 8) \in Seq(Octet)
    BY Zenon, BytesEight
  <2> QED BY Zenon, <2>1, <2>2, OctetAt
<1>2. /\ Part(str, 8, i + 1, 1) = FromOctets(0, 0, 0, a)
      /\ Part(str, 8, i + 1, 2) = FromOctets(0, 0, b, 0)
      /\ Part(str, 8, i + 1, 3) = FromOctets(0, c, 0, 0)
      /\ Part(str, 8, i + 1, 4) = FromOctets(d, 0, 0, 0)
  <2>1. /\ ((i + 1) - 1) * (32 \div 8) + 1 = (4 * i) + 1
        /\ ((i + 1) - 1) * (32 \div 8) + 2 = (4 * i + 1) + 1
        /\ ((i + 1) - 1) * (32 \div 8) + 3 = (4 * i + 2) + 1
        /\ ((i + 1) - 1) * (32 \div 8) + 4 = (4 * i + 3) + 1
        /\ (1 - 1) * 8 = 0 /\ (2 - 1) * 8 = 8 /\ (3 - 1) * 8 = 16 /\ (4 - 1) * 8 = 24
        /\ 4 * i \in Nat /\ 4 * i + 1 \in Nat /\ 4 * i + 2 \in Nat /\ 4 * i + 3 \in Nat
    BY SMT
  <2>2. /\ Char(str, 8, (4 * i) + 1) = a /\ Char(str, 8, (4 * i + 1) + 1) = b
        /\ Char(str, 8, (4 * i + 2) + 1) = c /\ Char(str, 8, (4 * i + 3) + 1) = d
    BY Zenon, <1>1, <2>1, CharEight
  <2>3. Placed(a) /\ Placed(b) /\ Placed(c) /\ Placed(d)
    BY Zenon, PlacedOctet
  <2>4. /\ Part(str, 8, i + 1, 1) = Shl(a, 0) /\ Part(str, 8, i + 1, 2) = Shl(b, 8)
        /\ Part(str, 8, i + 1, 3) = Shl(c, 16) /\ Part(str, 8, i + 1, 4) = Shl(d, 24)
    BY Zenon, <2>1, <2>2 DEF Part
  <2> QED BY Zenon, <2>3, <2>4 DEF Placed
<1>3. PICK g : /\ WordAt(str, 8, i + 1) = g[32 \div 8] /\ g[0] = 0
               /\ \A n \in 1..(32 \div 8) : g[n] = Or(g[n - 1], Part(str, 8, i + 1, n))
  <2>1. i + 1 \in Nat /\ i + 1 > 0 /\ 8 \in {8, 16}
    BY SMT
  <2> QED BY Zenon, <2>1, WordSteps
<1>4. /\ 32 \div 8 = 4 /\ 1 \in 1..4 /\ 2 \in 1..4 /\ 3 \in 1..4 /\ 4 \in 1..4
      /\ 1 - 1 = 0 /\ 2 - 1 = 1 /\ 3 - 1 = 2 /\ 4 - 1 = 3
  BY SMT
<1>5. /\ g[1] = Or(0, FromOctets(0, 0, 0, a)) /\ g[2] = Or(g[1], FromOctets(0, 0, b, 0))
      /\ g[3] = Or(g[2], FromOctets(0, c, 0, 0)) /\ g[4] = Or(g[3], FromOctets(d, 0, 0, 0))
  BY Zenon, <1>2, <1>3, <1>4
<1>6. Joined(a, b, c, d)
  BY Zenon, JoinedOctets
<1>7. g[4] = FromOctets(d, c, b, a)
  BY Zenon, <1>5, <1>6 DEF Joined
<1> QED BY Zenon, <1>1, <1>3, <1>4, <1>7 DEF WordFrom

\* ... and with chrsz 16.
LEMMA WordAtSixteen ==
  ASSUME NEW str \in Seq(Code), NEW i \in Nat
  PROVE  WordAt(str, 16, i + 1) = WordFrom(BytesOf(str, 16), i)
<1>1. PICK a \in Octet, b \in Octet, c \in Octet, d \in Octet :
        /\ a = At(BytesOf(str, 16), 4 * i) /\ b = At(BytesOf(str, 16), 4 * i + 1)
        /\ c = At(BytesOf(str, 16), 4 * i + 2) /\ d = At(BytesOf(str, 16), 4 * i + 3)
  <2>1. 4 * i \in Nat /\ 4 * i + 1 \in Nat /\ 4 * i + 2 \in Nat /\ 4 * i + 3 \in Nat
    BY SMT
  <2>2. BytesOf(str, 16) \in Seq(Octet)
    BY Zenon, BytesSixteen
  <2> QED BY Zenon, <2>1, <2>2, OctetAt
<1>2. /\ Part(str, 16, i + 1, 1) = FromOctets(0, 0, b, a)
      /\ Part(str, 16, i + 1, 2) = FromOctets(d, c, 0, 0)
  <2>1. /\ ((i + 1) - 1) * (32 \div 16) + 1 = (2 * i) + 1
        /\ ((i + 1) - 1) * (32 \div 16) + 2 = (2 * i + 1) + 1
        /\ (1 - 1) * 16 = 0 /\ (2 - 1) * 16 = 16
        /\ 2 * i \in Nat /\ 2 * i + 1 \in Nat
        /\ 2 * (2 * i) = 4 * i /\ 2 * (2 * i) + 1 = 4 * i + 1
        /\ 2 * (2 * i + 1) = 4 * i + 2 /\ 2 * (2 * i + 1) + 1 = 4 * i + 3
    BY SMT
  <2>2. Char(str, 16, (2 * i) + 1) = 256 * b + a
    <3>1. Char(str, 16, (2 * i) + 1)
            = 256 * At(BytesOf(str, 16), 2 * (2 * i) + 1) + At(BytesOf(str, 16), 2 * (2 * i))
      BY Zenon, <2>1, CharSixteen
    <3> QED BY Zenon, <1>1, <2>1, <3>1
  <2>3. Char(str, 16, (2 * i + 1) + 1) = 256 * d + c
    <3>1. Char(str, 16, (2 * i + 1) + 1)
            = 256 * At(BytesOf(str, 16), 2 * (2 * i + 1) + 1) + At(BytesOf(str, 16), 2 * (2 * i + 1))
      BY Zenon, <2>1, CharSixteen
    <3> QED BY Zenon, <1>1, <2>1, <3>1
  <2>4. PairPlaced(b, a) /\ PairPlaced(d, c)
    BY Zenon, PlacedPair
  <2>5. /\ Part(str, 16, i + 1, 1) = Shl(256 * b + a, 0)
        /\ Part(str, 16, i + 1, 2) = Shl(256 * d + c, 16)
    BY Zenon, <2>1, <2>2, <2>3 DEF Part
  <2> QED BY Zenon, <2>4, <2>5 DEF PairPlaced
<1>3. PICK g : /\ WordAt(str, 16, i + 1) = g[32 \div 16] /\ g[0] = 0
               /\ \A n \in 1..(32 \div 16) : g[n] = Or(g[n - 1], Part(str, 16, i + 1, n))
  <2>1. i + 1 \in Nat /\ i + 1 > 0 /\ 16 \in {8, 16}
    BY SMT
  <2> QED BY Zenon, <2>1, WordSteps
<1>4. /\ 32 \div 16 = 2 /\ 1 \in 1..2 /\ 2 \in 1..2 /\ 1 - 1 = 0 /\ 2 - 1 = 1
  BY SMT
<1>5. g[1] = Or(0, FromOctets(0, 0, b, a)) /\ g[2] = Or(g[1], FromOctets(d, c, 0, 0))
  BY Zenon, <1>2, <1>3, <1>4
<1>6. Joined(a, b, c, d)
  BY Zenon, JoinedOctets
<1>7. g[2] = FromOctets(d, c, b, a)
  BY Zenon, <1>5, <1>6 DEF Joined
<1> QED BY Zenon, <1>1, <1>3, <1>4, <1>7 DEF WordFrom

\* The array of words that holds a sequence of bytes, four to a word.
Packed(b) == [p \in 1..((Len(b) + 3) \div 4) |-> WordFrom(b, p - 1)]

LEMMA WordFromType ==
  ASSUME NEW b \in Seq(Octet), NEW i \in Nat
  PROVE  WordFrom(b, i) \in Int
<1>1. 4 * i \in Nat /\ 4 * i + 1 \in Nat /\ 4 * i + 2 \in Nat /\ 4 * i + 3 \in Nat
  BY SMT
<1>2. /\ At(b, 4 * i) \in Octet /\ At(b, 4 * i + 1) \in Octet
      /\ At(b, 4 * i + 2) \in Octet /\ At(b, 4 * i + 3) \in Octet
  BY Zenon, <1>1, OctetAt
<1> QED BY Zenon, <1>2, FromOctetsType DEF WordFrom

LEMMA PackedType ==
  ASSUME NEW b \in Seq(Octet)
  PROVE  Packed(b) \in Seq(Int) /\ Len(Packed(b)) = (Len(b) + 3) \div 4 /\ Array(Packed(b)) = Packed(b)
<1>1. PICK n \in Nat : n = (Len(b) + 3) \div 4
  BY SMT, LenProperties
<1>2. ASSUME NEW p \in 1..n PROVE WordFrom(b, p - 1) \in Int
  <2>1. p - 1 \in Nat
    BY SMT
  <2> QED BY Zenon, <2>1, WordFromType
<1>3. PICK f \in [1..n -> Int] : f = Packed(b)
  <2>1. Packed(b) = [p \in 1..n |-> WordFrom(b, p - 1)]
    BY Zenon, <1>1 DEF Packed
  <2>2. [p \in 1..n |-> WordFrom(b, p - 1)] \in [1..n -> Int]
    BY Zenon, <1>2
  <2> QED BY Zenon, <2>1, <2>2
<1>4. Array(f) = f /\ f \in Seq(Int) /\ Len(f) = n
  BY Zenon, ArrayIs
<1> QED BY Zenon, <1>1, <1>3, <1>4

\* The words of a string are the words of its bytes.
LEMMA PackedString ==
  ASSUME NEW str \in Seq(Code), NEW chrsz \in {8, 16}
  PROVE  /\ str2binl(str, chrsz) = Packed(BytesOf(str, chrsz))
         /\ BytesOf(str, chrsz) \in Seq(Octet) /\ Len(str) * chrsz = 8 * Len(BytesOf(str, chrsz))
<1>1. PICK b \in Seq(Octet) : b = BytesOf(str, chrsz)
  BY Zenon, BytesEight, BytesSixteen
<1>2. Len(str) * chrsz = 8 * Len(b)
  <2>1. chrsz = 8 => Len(b) = Len(str)
    BY Zenon, <1>1, BytesEight
  <2>2. chrsz = 16 => Len(b) = 2 * Len(str)
    BY Zenon, <1>1, BytesSixteen
  <2> QED BY SMT, <2>1, <2>2, TextType
<1>3. (Len(str) * chrsz + 31) \div 32 = (Len(b) + 3) \div 4
  BY SMT, <1>2, LenProperties
<1>4. ASSUME NEW p \in 1..((Len(b) + 3) \div 4) PROVE WordAt(str, chrsz, p) = WordFrom(b, p - 1)
  <2>1. PICK i \in Nat : p = i + 1 /\ p - 1 = i
    BY SMT
  <2>2. chrsz = 8 \/ chrsz = 16
    BY Zenon
  <2> QED BY Zenon, <1>1, <2>1, <2>2, WordAtEight, WordAtSixteen
<1>5. [p \in 1..((Len(b) + 3) \div 4) |-> WordAt(str, chrsz, p)] = Packed(b)
  BY Zenon, <1>4 DEF Packed
<1>6. str2binl(str, chrsz) = Array(Packed(b))
  BY Zenon, <1>3, <1>5, WordsOf
<1> QED BY Zenon, <1>1, <1>2, <1>6, PackedType

\* A string of bytes is its own bytes.
LEMMA BytesOfBytes ==
  ASSUME NEW b \in Seq(Octet)
  PROVE  b \in Seq(Code) /\ BytesOf(b, 8) = b
<1>1. Len(b) \in Nat /\ \A k \in 1..Len(b) : b[k] \in Octet
  BY Zenon, LenProperties, ElementOfSeq
<1>2. ASSUME NEW v \in Octet PROVE v \in Code /\ v % 256 = v
  <2>1. v \in Int /\ v >= 0 /\ v <= 255 /\ v % 256 = v
    BY SMT DEF Octet
  <2>2. v \in Nat /\ v <= 65535
    BY SMT, <2>1
  <2> QED BY SMTT(30), <2>1, <2>2 DEF Code
<1>3. b = [k \in 1..Len(b) |-> b[k]]
  BY SMT
<1>4. PICK f \in [1..Len(b) -> Code] : f = b
  <2>1. [k \in 1..Len(b) |-> b[k]] \in [1..Len(b) -> Code]
    BY Zenon, <1>1, <1>2
  <2> QED BY Zenon, <1>3, <2>1
<1>5. b \in Seq(Code)
  BY Zenon, <1>1, <1>4, ArrayIs
<1>6. Array(f) = f
  BY Zenon, <1>1, ArrayIs
<1>7. [k \in 1..Len(b) |-> b[k] % 256] = b
  <2>1. \A k \in 1..Len(b) : b[k] % 256 = b[k]
    BY Zenon, <1>1, <1>2
  <2> QED BY Zenon, <1>3, <2>1
<1>8. BytesOf(b, 8) = Array(b)
  BY SMT, <1>7 DEF BytesOf
<1> QED BY Zenon, <1>4, <1>5, <1>6, <1>8

\* The digest of bytes, and of the string they are the bytes of.
DigestOf(b) == core_md5(Packed(b), 8 * Len(b))

LEMMA DigestOfType == ASSUME NEW b \in Seq(Octet) PROVE DigestOf(b) \in Digest4
<1>1. 8 * Len(b) \in Nat
  BY SMT, LenProperties
<1> QED BY Zenon, <1>1, PackedType, DigestType DEF DigestOf

\* The digest of a string depends on its bytes alone.
LEMMA DigestOfString ==
  ASSUME NEW str \in Seq(Code), NEW chrsz \in {8, 16}
  PROVE  md5(str, chrsz) = DigestOf(BytesOf(str, chrsz))
BY Zenon, PackedString DEF md5, DigestOf

\* That of a sequence of bytes is the reference of the properties.
LEMMA DigestOfBytes ==
  ASSUME NEW b \in Seq(Octet)
  PROVE  /\ str2binl(b, 8) = Packed(b) /\ md5(b, 8) = DigestOf(b)
         /\ DigestBytes(b) = binl2str(DigestOf(b), 8)
<1>1. 8 \in {8, 16}
  BY SMT
<1>2. str2binl(b, 8) = Packed(b)
  BY Zenon, <1>1, BytesOfBytes, PackedString
<1>3. md5(b, 8) = DigestOf(b)
  BY Zenon, <1>1, BytesOfBytes, DigestOfString
<1> QED BY Zenon, <1>2, <1>3 DEF DigestBytes

\* A word beyond the array is zero, as are the bytes beyond the sequence.
LEMMA PackedAt ==
  ASSUME NEW b \in Seq(Octet), NEW i \in Nat
  PROVE  At(Packed(b), i) = WordFrom(b, i)
<1>1. CASE i < (Len(b) + 3) \div 4
  <2>1. i + 1 \in 1..((Len(b) + 3) \div 4) /\ (i + 1) - 1 = i
    BY SMT, <1>1, LenProperties
  <2>2. Packed(b)[i + 1] = WordFrom(b, i)
    BY Zenon, <2>1 DEF Packed
  <2> QED BY Zenon, <1>1, <2>2, PackedType DEF At
<1>2. CASE ~(i < (Len(b) + 3) \div 4)
  <2>1. /\ ~(4 * i < Len(b)) /\ ~(4 * i + 1 < Len(b)) /\ ~(4 * i + 2 < Len(b))
        /\ ~(4 * i + 3 < Len(b))
    BY SMT, <1>2, LenProperties
  <2>2. WordFrom(b, i) = FromOctets(0, 0, 0, 0)
    BY Zenon, <2>1 DEF WordFrom, At
  <2>3. ~(i < Len(Packed(b)))
    BY Zenon, <1>2, PackedType
  <2> QED BY Zenon, <2>2, <2>3, NoOctets DEF At
<1> QED BY Zenon, <1>1, <1>2

-----------------------------------------------------------------------------
(* From words to bytes, digits and characters *)

\* The octets of a word and its halves, by division.
Divided(x, d, c, b, a) ==
  /\ (x \div 2^(8 * 0)) % 256 = a /\ (x \div 2^(8 * 1)) % 256 = b
  /\ (x \div 2^(8 * 2)) % 256 = c /\ (x \div 2^(8 * 3)) % 256 = d
  /\ (x \div 2^0) % 2^16 = 256 * b + a /\ (x \div 2^16) % 2^16 = 256 * d + c

\* Division by powers of two takes the octets out of a word.
LEMMA WordDivided ==
  ASSUME NEW a \in Octet, NEW b \in Octet, NEW c \in Octet, NEW d \in Octet
  PROVE  Divided(FromOctets(d, c, b, a), d, c, b, a)
<1>1. /\ a \in Int /\ a >= 0 /\ a <= 255 /\ b \in Int /\ b >= 0 /\ b <= 255
      /\ c \in Int /\ c >= 0 /\ c <= 255 /\ d \in Int /\ d >= 0 /\ d <= 255
  BY SMT DEF Octet
<1>2. PICK e \in Int : e = (IF d >= 128 THEN d - 256 ELSE d)
  BY SMT, <1>1
<1>3. e % 256 = d
  BY SMT, <1>1, <1>2
<1>4. PICK x \in Int : x = FromOctets(d, c, b, a) /\ x = e * 16777216 + c * 65536 + b * 256 + a
  <2>1. e * 16777216 + c * 65536 + b * 256 + a \in Int
    BY SMT, <1>1
  <2> QED BY SMT, <1>2, <2>1 DEF FromOctets
<1>5. PICK x1 \in Int : x1 = x \div 256 /\ x1 = e * 65536 + c * 256 + b
  BY SMT, <1>1, <1>4
<1>6. PICK x2 \in Int : x2 = x \div 65536 /\ x2 = e * 256 + c
  BY SMT, <1>1, <1>4
<1>7. x \div 16777216 = e
  BY SMT, <1>1, <1>4
<1>8. x % 256 = a /\ x1 % 256 = b /\ x2 % 256 = c
  BY SMT, <1>1, <1>4, <1>5, <1>6
<1>9. x % 65536 = 256 * b + a
  BY SMT, <1>1, <1>4
<1>10. x2 % 65536 = 256 * d + c
  BY SMT, <1>1, <1>2, <1>6
<1>11. /\ 2^(8 * 0) = 1 /\ 2^(8 * 1) = 256 /\ 2^(8 * 2) = 65536 /\ 2^(8 * 3) = 16777216
       /\ 2^0 = 1 /\ 2^16 = 65536
  BY SMT
<1>12. x \div 1 = x
  BY SMT
<1>13. Divided(x, d, c, b, a)
  <2>1. (x \div 2^(8 * 0)) % 256 = a /\ (x \div 2^0) % 2^16 = 256 * b + a
    BY SMT, <1>8, <1>9, <1>11, <1>12
  <2>2. (x \div 2^(8 * 1)) % 256 = b
    BY SMT, <1>5, <1>8, <1>11
  <2>3. (x \div 2^(8 * 2)) % 256 = c /\ (x \div 2^16) % 2^16 = 256 * d + c
    BY SMT, <1>6, <1>8, <1>10, <1>11
  <2>4. (x \div 2^(8 * 3)) % 256 = d
    BY SMT, <1>3, <1>7, <1>11
  <2> QED BY Zenon, <2>1, <2>2, <2>3, <2>4 DEF Divided
<1>14. FromOctets(d, c, b, a) = x
  BY SMT, <1>4
<1> QED BY Zenon, <1>13, <1>14

\* Every word has its octets.
LEMMA WordOctets ==
  ASSUME NEW w \in Int32
  PROVE  \E a \in Octet, b \in Octet, c \in Octet, d \in Octet :
           w = FromOctets(d, c, b, a) /\ Divided(w, d, c, b, a)
<1>1. w \in Int /\ w >= MinInt32 /\ w <= MaxInt32
  BY SMT, Int32Ends, Int32IsInt DEF Int32
<1>2. PICK a \in Octet, x1 \in Int : w = 256 * x1 + a
  <2>1. w = 256 * (w \div 256) + (w % 256) /\ w % 256 \in Octet /\ w \div 256 \in Int
    BY SMT, <1>1 DEF Octet
  <2> QED BY SMT, <2>1
<1>3. PICK b \in Octet, x2 \in Int : x1 = 256 * x2 + b
  <2>1. x1 = 256 * (x1 \div 256) + (x1 % 256) /\ x1 % 256 \in Octet /\ x1 \div 256 \in Int
    BY SMT DEF Octet
  <2> QED BY SMT, <2>1
<1>4. PICK c \in Octet, e \in Int : x2 = 256 * e + c
  <2>1. x2 = 256 * (x2 \div 256) + (x2 % 256) /\ x2 % 256 \in Octet /\ x2 \div 256 \in Int
    BY SMT DEF Octet
  <2> QED BY SMT, <2>1
<1>5. /\ a \in Int /\ a >= 0 /\ a <= 255 /\ b \in Int /\ b >= 0 /\ b <= 255
      /\ c \in Int /\ c >= 0 /\ c <= 255
  BY SMT DEF Octet
<1>6. w = e * 16777216 + c * 65536 + b * 256 + a
  BY SMT, <1>2, <1>3, <1>4, <1>5
<1>7. e >= -128 /\ e <= 127
  BY SMT, <1>1, <1>5, <1>6 DEF MinInt32, MaxInt32
<1>8. PICK d \in Octet : e = (IF d >= 128 THEN d - 256 ELSE d)
  <2>1. CASE e >= 0
    <3>1. e \in Octet
      BY SMT, <1>7, <2>1 DEF Octet
    <3>2. e = (IF e >= 128 THEN e - 256 ELSE e)
      BY SMT, <1>7
    <3> QED BY SMT, <3>1, <3>2
  <2>2. CASE ~(e >= 0)
    <3>1. PICK d \in Octet : d = e + 256
      BY SMT, <1>7, <2>2 DEF Octet
    <3>2. e = (IF d >= 128 THEN d - 256 ELSE d)
      BY SMT, <1>7, <3>1
    <3> QED BY SMT, <3>2
  <2> QED BY Zenon, <2>1, <2>2
<1>9. w = FromOctets(d, c, b, a)
  BY SMT, <1>6, <1>8 DEF FromOctets
<1> QED BY ONLY <1>9, WordDivided, Zenon

\* So the bytes out of an array of words.
LEMMA PackedDivided ==
  ASSUME NEW b \in Seq(Octet), NEW i \in Nat
  PROVE  Divided(At(Packed(b), i), At(b, 4 * i + 3), At(b, 4 * i + 2), At(b, 4 * i + 1), At(b, 4 * i))
<1>1. 4 * i \in Nat /\ 4 * i + 1 \in Nat /\ 4 * i + 2 \in Nat /\ 4 * i + 3 \in Nat
  BY SMT
<1>2. /\ At(b, 4 * i) \in Octet /\ At(b, 4 * i + 1) \in Octet
      /\ At(b, 4 * i + 2) \in Octet /\ At(b, 4 * i + 3) \in Octet
  BY Zenon, <1>1, OctetAt
<1>3. PICK a \in Octet, h \in Octet, c \in Octet, d \in Octet :
        a = At(b, 4 * i) /\ h = At(b, 4 * i + 1) /\ c = At(b, 4 * i + 2) /\ d = At(b, 4 * i + 3)
  BY Zenon, <1>2
<1>4. At(Packed(b), i) = FromOctets(d, c, h, a)
  BY Zenon, <1>3, PackedAt DEF WordFrom
<1>5. Divided(FromOctets(d, c, h, a), d, c, h, a)
  BY ONLY WordDivided, Zenon
<1> QED BY Zenon, <1>3, <1>4, <1>5

\* A number is four times its quarter and a rest.
LEMMA Quarters ==
  ASSUME NEW k \in Nat
  PROVE  \E i \in Nat, r \in 0..3 : k = 4 * i + r /\ k \div 4 = i /\ k % 4 = r
<1>1. k \div 4 \in Nat /\ k % 4 \in 0..3 /\ k = 4 * (k \div 4) + (k % 4)
  BY SMT
<1> QED BY Zenon, <1>1

\* Byte k of an array of words.
LEMMA ByteAt ==
  ASSUME NEW b \in Seq(Octet), NEW k \in Nat
  PROVE  (At(Packed(b), k \div 4) \div 2^(8 * (k % 4))) % 256 = At(b, k)
<1>1. PICK i \in Nat, r \in 0..3 : k = 4 * i + r /\ k \div 4 = i /\ k % 4 = r
  BY Zenon, Quarters
<1>2. Divided(At(Packed(b), i), At(b, 4 * i + 3), At(b, 4 * i + 2), At(b, 4 * i + 1), At(b, 4 * i))
  BY Zenon, PackedDivided
<1>3. 4 * i + 0 = 4 * i /\ (r = 0 \/ r = 1 \/ r = 2 \/ r = 3)
  BY SMT
<1>4. (At(Packed(b), i) \div 2^(8 * r)) % 256 = At(b, 4 * i + r)
  BY ZenonT(30), <1>2, <1>3 DEF Divided
<1> QED BY Zenon, <1>1, <1>4

\* A digest is sixteen bytes.
LEMMA DigestBytesOf ==
  ASSUME NEW w \in Digest4
  PROVE  \E o \in Seq(Octet) : Len(o) = 16 /\ Packed(o) = w
<1> DEFINE byte(k) == (w[(k \div 4) + 1] \div 2^(8 * (k % 4))) % 256
           f == [k \in 1..16 |-> byte(k - 1)]
<1>1. ASSUME NEW i \in 0..3
      PROVE  \E a \in Octet, b \in Octet, c \in Octet, d \in Octet :
               w[i + 1] = FromOctets(d, c, b, a) /\ Divided(w[i + 1], d, c, b, a)
  <2>1. i + 1 \in 1..4
    BY SMT
  <2>2. w[i + 1] \in Int32
    BY Zenon, <2>1 DEF Digest4
  <2> QED BY Zenon, <2>2, WordOctets
<1>2. ASSUME NEW i \in 0..3, NEW r \in 0..3
      PROVE  byte(4 * i + r) = (w[i + 1] \div 2^(8 * r)) % 256
  <2>1. (4 * i + r) \div 4 = i /\ (4 * i + r) % 4 = r
    BY SMT
  <2> QED BY Zenon, <2>1
<1> HIDE DEF byte
<1>3. ASSUME NEW k \in 1..16 PROVE byte(k - 1) \in Octet
  <2>1. PICK i \in 0..3, r \in 0..3 : k - 1 = 4 * i + r
    <3>1. /\ (k - 1) \div 4 \in 0..3 /\ (k - 1) % 4 \in 0..3
          /\ k - 1 = 4 * ((k - 1) \div 4) + ((k - 1) % 4)
      BY SMT
    <3> QED BY Zenon, <3>1
  <2>2. PICK a \in Octet, b \in Octet, c \in Octet, d \in Octet :
          w[i + 1] = FromOctets(d, c, b, a) /\ Divided(w[i + 1], d, c, b, a)
    BY Zenon, <1>1
  <2>3. (w[i + 1] \div 2^(8 * r)) % 256 \in Octet
    <3>1. r = 0 \/ r = 1 \/ r = 2 \/ r = 3
      BY SMT
    <3>2. r = 0 => (w[i + 1] \div 2^(8 * r)) % 256 = a
      BY Zenon, <2>2 DEF Divided
    <3>3. r = 1 => (w[i + 1] \div 2^(8 * r)) % 256 = b
      BY ZenonT(30), <2>2 DEF Divided
    <3>4. r = 2 => (w[i + 1] \div 2^(8 * r)) % 256 = c
      BY Zenon, <2>2 DEF Divided
    <3>5. r = 3 => (w[i + 1] \div 2^(8 * r)) % 256 = d
      BY ZenonT(30), <2>2 DEF Divided
    <3> QED BY Zenon, <3>1, <3>2, <3>3, <3>4, <3>5
  <2>4. byte(4 * i + r) = (w[i + 1] \div 2^(8 * r)) % 256
    BY Zenon, <1>2
  <2> QED BY Zenon, <2>1, <2>3, <2>4
<1>4. PICK o \in [1..16 -> Octet] : \A k \in 1..16 : o[k] = byte(k - 1)
  <2>1. f \in [1..16 -> Octet]
    BY Zenon, <1>3
  <2>2. \A k \in 1..16 : f[k] = byte(k - 1)
    BY Zenon
  <2> HIDE DEF f
  <2> QED BY Zenon, <2>1, <2>2
<1>5. o \in Seq(Octet) /\ Len(o) = 16
  <2>1. PICK n \in Nat : n = 16
    BY SMT
  <2>2. o \in [1..n -> Octet]
    BY Zenon, <2>1
  <2>3. o \in Seq(Octet) /\ Len(o) = n
    BY ONLY <2>2, ArrayIs, Zenon
  <2> QED BY Zenon, <2>1, <2>3
<1>6. ASSUME NEW i \in 0..3 PROVE WordFrom(o, i) = w[i + 1]
  <2>1. ASSUME NEW r \in 0..3 PROVE At(o, 4 * i + r) = (w[i + 1] \div 2^(8 * r)) % 256
    <3>1. (4 * i + r) + 1 \in 1..16 /\ ((4 * i + r) + 1) - 1 = 4 * i + r /\ 4 * i + r < 16
      BY SMT
    <3>2. o[(4 * i + r) + 1] = byte(4 * i + r)
      BY Zenon, <1>4, <3>1
    <3>3. byte(4 * i + r) = (w[i + 1] \div 2^(8 * r)) % 256
      BY Zenon, <1>2
    <3>4. At(o, 4 * i + r) = o[(4 * i + r) + 1]
      BY Zenon, <1>5, <3>1 DEF At
    <3> QED BY Zenon, <3>2, <3>3, <3>4
  <2>2. PICK a \in Octet, b \in Octet, c \in Octet, d \in Octet :
          w[i + 1] = FromOctets(d, c, b, a) /\ Divided(w[i + 1], d, c, b, a)
    BY Zenon, <1>1
  <2>3. 0 \in 0..3 /\ 1 \in 0..3 /\ 2 \in 0..3 /\ 3 \in 0..3 /\ 4 * i + 0 = 4 * i
    BY SMT
  <2>4. /\ At(o, 4 * i) = a /\ At(o, 4 * i + 1) = b
        /\ At(o, 4 * i + 2) = c /\ At(o, 4 * i + 3) = d
    <3>1. At(o, 4 * i + 0) = a
      BY ZenonT(30), <2>1, <2>2, <2>3 DEF Divided
    <3>2. At(o, 4 * i + 1) = b
      BY ZenonT(30), <2>1, <2>2, <2>3 DEF Divided
    <3>3. At(o, 4 * i + 2) = c
      BY ZenonT(30), <2>1, <2>2, <2>3 DEF Divided
    <3>4. At(o, 4 * i + 3) = d
      BY ZenonT(30), <2>1, <2>2, <2>3 DEF Divided
    <3> QED BY ZenonT(30), <2>3, <3>1, <3>2, <3>3, <3>4
  <2> QED BY Zenon, <2>2, <2>4 DEF WordFrom
<1>7. Packed(o) = w
  <2>1. (Len(o) + 3) \div 4 = 4
    BY SMT, <1>5
  <2>2. ASSUME NEW p \in 1..4 PROVE WordFrom(o, p - 1) = w[p]
    <3>1. p - 1 \in 0..3 /\ (p - 1) + 1 = p
      BY SMT
    <3> QED BY Zenon, <1>6, <3>1
  <2>3. w = [p \in 1..4 |-> w[p]]
    BY Zenon DEF Digest4
  <2>4. Packed(o) = [p \in 1..4 |-> WordFrom(o, p - 1)]
    BY Zenon, <2>1 DEF Packed
  <2> QED BY Zenon, <2>2, <2>3, <2>4
<1> QED BY Zenon, <1>5, <1>7

\* The string of a packed array is its bytes, filled up to whole words.
LEMMA UnpackedString ==
  ASSUME NEW b \in Seq(Octet), Len(b) % 4 = 0
  PROVE  binl2str(Packed(b), 8) = b
<1>1. Len(b) \in Nat /\ Len(Packed(b)) * (32 \div 8) = Len(b)
  <2>1. Len(Packed(b)) = (Len(b) + 3) \div 4 /\ Len(b) \in Nat
    BY Zenon, PackedType, LenProperties
  <2> QED BY SMT, <2>1
<1> DEFINE char(k) == LET i == (k - 1) * 8 IN (At(Packed(b), i \div 32) \div 2^(i % 32)) % 2^8
<1>2. ASSUME NEW k \in 1..Len(b) PROVE char(k) = b[k]
  <2>1. /\ k - 1 \in Nat /\ ((k - 1) * 8) \div 32 = (k - 1) \div 4
        /\ ((k - 1) * 8) % 32 = 8 * ((k - 1) % 4) /\ 2^8 = 256
        /\ k - 1 < Len(b) /\ (k - 1) + 1 = k
    BY SMT, <1>1
  <2>2. char(k) = At(b, k - 1)
    BY Zenon, <2>1, ByteAt
  <2>3. At(b, k - 1) = b[k]
    BY Zenon, <2>1 DEF At
  <2> QED BY Zenon, <2>2, <2>3
<1>3. binl2str(Packed(b), 8) = Array([k \in 1..Len(b) |-> char(k)])
  BY Zenon, <1>1 DEF binl2str
<1> HIDE DEF char
<1>4. [k \in 1..Len(b) |-> char(k)] = b
  <2>1. b = [k \in 1..Len(b) |-> b[k]]
    BY SMT
  <2> QED BY Zenon, <1>2, <2>1
<1>5. Array(b) = b
  BY Zenon, ConcatEmptySeq DEF Array
<1> QED BY Zenon, <1>3, <1>4, <1>5

\* The hexadecimal digits of a word.
Nibbled(x, d, c, b, a) ==
  /\ (x \div 2^(0 * 8 + 4)) % 16 = a \div 16 /\ (x \div 2^(0 * 8 + 0)) % 16 = a % 16
  /\ (x \div 2^(1 * 8 + 4)) % 16 = b \div 16 /\ (x \div 2^(1 * 8 + 0)) % 16 = b % 16
  /\ (x \div 2^(2 * 8 + 4)) % 16 = c \div 16 /\ (x \div 2^(2 * 8 + 0)) % 16 = c % 16
  /\ (x \div 2^(3 * 8 + 4)) % 16 = d \div 16 /\ (x \div 2^(3 * 8 + 0)) % 16 = d % 16

\* The same of the digits of a word ...
LEMMA WordNibbled ==
  ASSUME NEW a \in Octet, NEW b \in Octet, NEW c \in Octet, NEW d \in Octet
  PROVE  Nibbled(FromOctets(d, c, b, a), d, c, b, a)
<1>1. Digits(FromOctets(d, c, b, a), d, c, b, a)
  <2>1. a \in 0..255 /\ b \in 0..255 /\ c \in 0..255 /\ d \in 0..255
    BY Zenon DEF Octet
  <2> QED BY ONLY <2>1, WordDigits, Zenon
<1>2. /\ 0 * 8 + 4 = 4 /\ 1 * 8 + 0 = 8 /\ 1 * 8 + 4 = 12 /\ 2 * 8 + 0 = 16
      /\ 2 * 8 + 4 = 20 /\ 3 * 8 + 0 = 24 /\ 3 * 8 + 4 = 28 /\ 2^(0 * 8 + 0) = 1
  BY SMT
<1> QED BY Zenon, <1>1, <1>2 DEF Nibbled, Digits

\* ... and of an array of words.
LEMMA NibblesAt ==
  ASSUME NEW b \in Seq(Octet), NEW k \in Nat
  PROVE  /\ (At(Packed(b), k \div 4) \div 2^((k % 4) * 8 + 4)) % 16 = At(b, k) \div 16
         /\ (At(Packed(b), k \div 4) \div 2^((k % 4) * 8 + 0)) % 16 = At(b, k) % 16
<1>1. PICK i \in Nat, r \in 0..3 : k = 4 * i + r /\ k \div 4 = i /\ k % 4 = r
  BY Zenon, Quarters
<1>2. PICK a \in Octet, h \in Octet, c \in Octet, d \in Octet :
        a = At(b, 4 * i) /\ h = At(b, 4 * i + 1) /\ c = At(b, 4 * i + 2) /\ d = At(b, 4 * i + 3)
  <2>1. 4 * i \in Nat /\ 4 * i + 1 \in Nat /\ 4 * i + 2 \in Nat /\ 4 * i + 3 \in Nat
    BY SMT
  <2> QED BY Zenon, <2>1, OctetAt
<1>3. At(Packed(b), i) = FromOctets(d, c, h, a)
  BY Zenon, <1>2, PackedAt DEF WordFrom
<1>4. Nibbled(FromOctets(d, c, h, a), d, c, h, a)
  BY ONLY WordNibbled, Zenon
<1>5. 4 * i + 0 = 4 * i /\ (r = 0 \/ r = 1 \/ r = 2 \/ r = 3)
  BY SMT
<1>6. (At(Packed(b), i) \div 2^(r * 8 + 4)) % 16 = At(b, 4 * i + r) \div 16
  BY Zenon, <1>2, <1>3, <1>4, <1>5 DEF Nibbled
<1>7. (At(Packed(b), i) \div 2^(r * 8 + 0)) % 16 = At(b, 4 * i + r) % 16
  BY Zenon, <1>2, <1>3, <1>4, <1>5 DEF Nibbled
<1> QED BY Zenon, <1>1, <1>6, <1>7

\* A digit is read back, whichever its case.
LEMMA HexDigits ==
  ASSUME NEW v \in 0..15, NEW hexcase \in BOOLEAN
  PROVE  HexValue(HexDigit(v, hexcase)) = v
<1>1. CASE v < 10
  BY SMT, <1>1 DEF HexDigit, HexValue
<1>2. CASE ~(v < 10) /\ hexcase
  BY SMT, <1>2 DEF HexDigit, HexValue
<1>3. CASE ~(v < 10) /\ ~hexcase
  BY SMT, <1>3 DEF HexDigit, HexValue
<1> QED BY Zenon, <1>1, <1>2, <1>3

LEMMA ArrayOf ==
  ASSUME NEW n \in Nat, NEW f, f = [k \in 1..n |-> f[k]]
  PROVE  Array(f) = f /\ Len(f) = n
<1>1. PICK S : S = {f[k] : k \in 1..n}
  BY Zenon
<1>2. f \in [1..n -> S]
  <2>1. \A k \in 1..n : f[k] \in S
    BY Zenon, <1>1
  <2>2. [k \in 1..n |-> f[k]] \in [1..n -> S]
    BY Zenon, <2>1
  <2> QED BY Zenon, <2>2
<1> QED BY ONLY <1>2, ArrayIs, Zenon

\* A digest in hexadecimal digits, of either case, stands for its bytes.
LEMMA HexDecoded ==
  ASSUME NEW b \in Seq(Octet), Len(b) % 4 = 0, NEW hexcase \in BOOLEAN
  PROVE  HexBytes(binl2hex(Packed(b), hexcase)) = b
<1>1. Len(b) \in Nat /\ Len(Packed(b)) * 8 = 2 * Len(b)
  <2>1. Len(Packed(b)) = (Len(b) + 3) \div 4 /\ Len(b) \in Nat
    BY Zenon, PackedType, LenProperties
  <2> QED BY SMT, <2>1
<1> DEFINE digit(k) == LET i  == (k - 1) \div 2
                           sh == (i % 4) * 8 + (IF k % 2 = 1 THEN 4 ELSE 0)
                       IN  HexDigit((At(Packed(b), i \div 4) \div 2^sh) % 16, hexcase)
           f == [k \in 1..(2 * Len(b)) |-> digit(k)]
<1>2. binl2hex(Packed(b), hexcase) = Array(f)
  BY Zenon, <1>1 DEF binl2hex
<1>3. ASSUME NEW k \in Nat
      PROVE  /\ HexValue(digit(2 * k + 1)) = At(b, k) \div 16
             /\ HexValue(digit(2 * k + 2)) = At(b, k) % 16
  <2>1. /\ ((2 * k + 1) - 1) \div 2 = k /\ ((2 * k + 2) - 1) \div 2 = k
        /\ (2 * k + 1) % 2 = 1 /\ (2 * k + 2) % 2 # 1
    BY SMT
  <2>2. At(b, k) \div 16 \in 0..15 /\ At(b, k) % 16 \in 0..15
    <3>1. PICK v \in Octet : v = At(b, k)
      BY Zenon, OctetAt
    <3>2. v \div 16 \in 0..15 /\ v % 16 \in 0..15
      BY SMT DEF Octet
    <3> QED BY Zenon, <3>1, <3>2
  <2>3. digit(2 * k + 1) = HexDigit(At(b, k) \div 16, hexcase)
    BY Zenon, <2>1, NibblesAt
  <2>4. digit(2 * k + 2) = HexDigit(At(b, k) % 16, hexcase)
    BY Zenon, <2>1, NibblesAt
  <2> QED BY Zenon, <2>2, <2>3, <2>4, HexDigits
<1> HIDE DEF digit
<1>4. PICK s : s = Array(f) /\ Len(s) = 2 * Len(b) /\ \A k \in 1..(2 * Len(b)) : s[k] = digit(k)
  <2>1. PICK n \in Nat : n = 2 * Len(b)
    BY SMT, <1>1
  <2>2. f = [k \in 1..n |-> f[k]] /\ \A k \in 1..n : f[k] = digit(k)
    BY Zenon, <2>1
  <2> HIDE DEF f
  <2>3. PICK g : g = f /\ g = [k \in 1..n |-> g[k]] /\ \A k \in 1..n : g[k] = digit(k)
    BY Zenon, <2>2
  <2>4. Array(g) = g /\ Len(g) = n
    BY Zenon, <2>3, ArrayOf
  <2> QED BY Zenon, <2>1, <2>3, <2>4
<1>5. ASSUME NEW k \in 1..Len(b) PROVE 16 * HexValue(s[2 * k - 1]) + HexValue(s[2 * k]) = b[k]
  <2>1. PICK i \in Nat : /\ k = i + 1 /\ 2 * k - 1 = 2 * i + 1 /\ 2 * k = 2 * i + 2
                         /\ 2 * i + 1 \in 1..(2 * Len(b)) /\ 2 * i + 2 \in 1..(2 * Len(b))
                         /\ i < Len(b)
    BY SMT, <1>1
  <2>2. PICK v \in Octet : v = At(b, i) /\ v = b[k]
    BY Zenon, <2>1, OctetAt DEF At
  <2>3. HexValue(s[2 * k - 1]) = v \div 16 /\ HexValue(s[2 * k]) = v % 16
    BY Zenon, <1>3, <1>4, <2>1, <2>2
  <2>4. 16 * (v \div 16) + (v % 16) = v
    BY SMT DEF Octet
  <2> QED BY Zenon, <2>2, <2>3, <2>4
<1>6. Len(s) \div 2 = Len(b)
  BY SMT, <1>1, <1>4
<1>7. HexBytes(s) = Array([k \in 1..Len(b) |-> 16 * HexValue(s[2 * k - 1]) + HexValue(s[2 * k])])
  BY Zenon, <1>6 DEF HexBytes
<1>8. [k \in 1..Len(b) |-> 16 * HexValue(s[2 * k - 1]) + HexValue(s[2 * k])] = b
  <2>1. b = [k \in 1..Len(b) |-> b[k]]
    BY SMT
  <2> QED BY Zenon, <1>5, <2>1
<1>9. Array(b) = b
  BY Zenon, ConcatEmptySeq DEF Array
<1> QED BY Zenon, <1>2, <1>4, <1>7, <1>8, <1>9

\* Two bytes to a character.
LEMMA PairAt ==
  ASSUME NEW b \in Seq(Octet), NEW k \in Nat
  PROVE  (At(Packed(b), (k * 16) \div 32) \div 2^((k * 16) % 32)) % 2^16
           = 256 * At(b, 2 * k + 1) + At(b, 2 * k)
<1>1. PICK i \in Nat, r \in 0..1 : k = 2 * i + r
  <2>1. k \div 2 \in Nat /\ k % 2 \in 0..1 /\ k = 2 * (k \div 2) + (k % 2)
    BY SMT
  <2> QED BY Zenon, <2>1
<1>2. PICK a \in Octet, h \in Octet, c \in Octet, d \in Octet :
        a = At(b, 4 * i) /\ h = At(b, 4 * i + 1) /\ c = At(b, 4 * i + 2) /\ d = At(b, 4 * i + 3)
  <2>1. 4 * i \in Nat /\ 4 * i + 1 \in Nat /\ 4 * i + 2 \in Nat /\ 4 * i + 3 \in Nat
    BY SMT
  <2> QED BY Zenon, <2>1, OctetAt
<1>3. At(Packed(b), i) = FromOctets(d, c, h, a)
  BY Zenon, <1>2, PackedAt DEF WordFrom
<1>4. Divided(FromOctets(d, c, h, a), d, c, h, a)
  BY ONLY WordDivided, Zenon
<1>5. CASE r = 0
  <2>1. /\ (k * 16) \div 32 = i /\ (k * 16) % 32 = 0 /\ 2 * k = 4 * i /\ 2 * k + 1 = 4 * i + 1
    BY SMT, <1>1, <1>5
  <2> QED BY ZenonT(30), <1>2, <1>3, <1>4, <2>1 DEF Divided
<1>6. CASE r = 1
  <2>1. /\ (k * 16) \div 32 = i /\ (k * 16) % 32 = 16
        /\ 2 * k = 4 * i + 2 /\ 2 * k + 1 = 4 * i + 3
    BY SMT, <1>1, <1>6
  <2> QED BY ZenonT(30), <1>2, <1>3, <1>4, <2>1 DEF Divided
<1>7. r = 0 \/ r = 1
  BY SMT
<1> QED BY Zenon, <1>5, <1>6, <1>7

\* A digest as a string of 16-bit characters stands for its bytes.
LEMMA WideDecoded ==
  ASSUME NEW b \in Seq(Octet), Len(b) % 4 = 0
  PROVE  LittleEndian(binl2str(Packed(b), 16)) = b
<1>1. Len(b) \in Nat /\ 2 * (Len(Packed(b)) * (32 \div 16)) = Len(b) /\ Len(Packed(b)) \in Nat
  <2>1. Len(Packed(b)) = (Len(b) + 3) \div 4 /\ Len(b) \in Nat
    BY Zenon, PackedType, LenProperties
  <2> QED BY SMT, <2>1
<1>2. PICK n \in Nat : n = Len(Packed(b)) * (32 \div 16) /\ 2 * n = Len(b)
  BY SMT, <1>1
<1> DEFINE char(k) == LET i == (k - 1) * 16 IN (At(Packed(b), i \div 32) \div 2^(i % 32)) % 2^16
           f == [k \in 1..n |-> char(k)]
<1>3. binl2str(Packed(b), 16) = Array(f)
  BY Zenon, <1>2 DEF binl2str
<1>4. ASSUME NEW k \in Nat PROVE char(k + 1) = 256 * At(b, 2 * k + 1) + At(b, 2 * k)
  <2>1. (k + 1) - 1 = k
    BY SMT
  <2>2. char(k + 1) = (At(Packed(b), (k * 16) \div 32) \div 2^((k * 16) % 32)) % 2^16
    BY Zenon, <2>1
  <2> QED BY ONLY <2>2, PairAt, Zenon
<1> HIDE DEF char
<1>5. PICK s : s = Array(f) /\ Len(s) = n /\ \A k \in 1..n : s[k] = char(k)
  <2>2. f = [k \in 1..n |-> f[k]] /\ \A k \in 1..n : f[k] = char(k)
    BY Zenon
  <2> HIDE DEF f
  <2>3. PICK g : g = f /\ g = [k \in 1..n |-> g[k]] /\ \A k \in 1..n : g[k] = char(k)
    BY Zenon, <2>2
  <2>4. Array(g) = g /\ Len(g) = n
    BY ONLY <2>3, ArrayOf, Zenon
  <2> QED BY Zenon, <2>3, <2>4
<1> DEFINE byte(k) == LET c == s[(k + 1) \div 2] IN IF k % 2 = 1 THEN c % 256 ELSE c \div 256
<1>6. ASSUME NEW k \in 1..Len(b) PROVE byte(k) = b[k]
  <2>1. PICK i \in Nat : /\ (k + 1) \div 2 = i + 1 /\ i + 1 \in 1..n
                         /\ (k = 2 * i + 1 \/ k = 2 * i + 2) /\ 2 * i + 1 < Len(b)
    <3>1. (k + 1) \div 2 - 1 \in Nat
      BY SMT, <1>1, <1>2
    <3> QED BY SMT, <3>1, <1>1, <1>2
  <2>2. PICK l \in Octet, h \in Octet : l = At(b, 2 * i) /\ h = At(b, 2 * i + 1)
    <3>1. 2 * i \in Nat /\ 2 * i + 1 \in Nat
      BY SMT
    <3> QED BY Zenon, <3>1, OctetAt
  <2>3. s[(k + 1) \div 2] = 256 * h + l
    BY ZenonT(30), <1>4, <1>5, <2>1, <2>2
  <2>4. (256 * h + l) % 256 = l /\ (256 * h + l) \div 256 = h
    BY SMT DEF Octet
  <2>5. CASE k = 2 * i + 1
    <3>1. k % 2 = 1 /\ 2 * i < Len(b)
      BY SMT, <1>1, <2>1, <2>5
    <3>2. At(b, 2 * i) = b[k]
      BY Zenon, <2>5, <3>1 DEF At
    <3> QED BY Zenon, <2>2, <2>3, <2>4, <3>1, <3>2
  <2>6. CASE k = 2 * i + 2
    <3>1. k % 2 # 1 /\ (2 * i + 1) + 1 = k
      BY SMT, <2>6
    <3>2. At(b, 2 * i + 1) = b[k]
      BY Zenon, <2>1, <3>1 DEF At
    <3> QED BY Zenon, <2>2, <2>3, <2>4, <3>1, <3>2
  <2> QED BY Zenon, <2>1, <2>5, <2>6
<1>7. LittleEndian(s) = Array([k \in 1..Len(b) |-> byte(k)])
  BY Zenon, <1>2, <1>5 DEF LittleEndian
<1> HIDE DEF byte
<1>8. [k \in 1..Len(b) |-> byte(k)] = b
  <2>1. b = [k \in 1..Len(b) |-> b[k]]
    BY SMT
  <2> QED BY Zenon, <1>6, <2>1
<1>9. Array(b) = b
  BY Zenon, ConcatEmptySeq DEF Array
<1> QED BY Zenon, <1>3, <1>5, <1>7, <1>8, <1>9

\* The flattening of a sequence, step by step.
LEMMA Flattened ==
  ASSUME NEW S, NEW N \in Nat, N > 0, NEW seqs \in [1..N -> Seq(S)]
  PROVE  \E g : /\ FlattenSeq(seqs) = g[N] /\ g[0] = <<>>
                /\ \A n \in 1..N : g[n] = g[n - 1] \o seqs[n]
<1>1. PICK step \in [1..N -> [Seq(S) -> Seq(S)]] :
        \A n \in 1..N : \A v \in Seq(S) : step[n][v] = v \o seqs[n]
  <2> DEFINE s == [n \in 1..N |-> [v \in Seq(S) |-> v \o seqs[n]]]
  <2>1. ASSUME NEW n \in 1..N, NEW v \in Seq(S) PROVE v \o seqs[n] \in Seq(S)
    BY Zenon, ConcatProperties
  <2>2. s \in [1..N -> [Seq(S) -> Seq(S)]]
    BY Zenon, <2>1
  <2>3. \A n \in 1..N : \A v \in Seq(S) : s[n][v] = v \o seqs[n]
    BY Zenon
  <2> HIDE DEF s
  <2> QED BY Zenon, <2>2, <2>3
<1>2. <<>> \in Seq(S)
  BY SMT
<1>3. PICK f \in [0..N -> Seq(S)] : Steps(f, N, <<>>, step)
  BY Zenon, <1>1, <1>2, Iterated
<1>4. f[0] = <<>> /\ \A n \in 1..N : f[n] = f[n - 1] \o seqs[n]
  <2>1. 0 \in 0..N
    BY SMT
  <2>2. ASSUME NEW n \in 1..N PROVE n \in 0..N /\ n # 0 /\ n - 1 \in 0..N
    BY SMT
  <2>3. ASSUME NEW n \in 1..N PROVE f[n] = f[n - 1] \o seqs[n]
    <3>1. f[n] = step[n][f[n - 1]]
      BY Zenon, <1>3, <2>2 DEF Steps
    <3>2. f[n - 1] \in Seq(S)
      BY Zenon, <2>2
    <3>3. step[n][f[n - 1]] = f[n - 1] \o seqs[n]
      BY Zenon, <1>1, <3>2
    <3> QED BY Zenon, <3>1, <3>3
  <2> QED BY Zenon, <1>3, <2>1, <2>3 DEF Steps
<1>5. Len(seqs) = N
  BY SMT
<1> DEFINE flatten[i \in 1..N] == IF i = 1 THEN seqs[i] ELSE flatten[i - 1] \o seqs[i]
<1>6. FlattenSeq(seqs) = flatten[N]
  <2>1. Len(seqs) # 0
    BY SMT, <1>5
  <2> QED BY Zenon, <1>5, <2>1 DEF FlattenSeq
<1>7. PICK h : h = [i \in 1..N |-> IF i = 1 THEN seqs[i] ELSE h[i - 1] \o seqs[i]]
  <2> DEFINE h == [i \in 1..N |-> f[i]]
  <2>1. ASSUME NEW i \in 1..N PROVE f[i] = (IF i = 1 THEN seqs[i] ELSE h[i - 1] \o seqs[i])
    <3>1. CASE i = 1
      <4>1. i - 1 = 0
        BY SMT, <3>1
      <4>2. <<>> \o seqs[i] = seqs[i]
        BY Zenon, ConcatEmptySeq
      <4> QED BY Zenon, <1>4, <3>1, <4>1, <4>2
    <3>2. CASE i # 1
      <4>1. i - 1 \in 1..N
        BY SMT, <3>2
      <4> QED BY Zenon, <1>4, <3>2, <4>1
    <3> QED BY Zenon, <3>1, <3>2
  <2> QED BY Zenon, <2>1
<1>8. flatten = [i \in 1..N |-> IF i = 1 THEN seqs[i] ELSE flatten[i - 1] \o seqs[i]]
  BY Zenon, <1>7
<1> HIDE DEF flatten
<1>9. \A n \in 0..N : n \in {m \in 0..N : m = 0 \/ flatten[m] = f[m]}
  <2> DEFINE T == {m \in 0..N : m = 0 \/ flatten[m] = f[m]}
  <2>1. 0 \in T
    BY SMT
  <2>2. ASSUME NEW n \in 1..N, n - 1 \in T PROVE n \in T
    <3>1. n \in 0..N /\ f[n] = f[n - 1] \o seqs[n]
      <4>1. n \in 0..N
        BY SMT
      <4> QED BY Zenon, <1>4, <4>1
    <3>2. CASE n = 1
      <4>1. n - 1 = 0
        BY SMT, <3>2
      <4>2. <<>> \o seqs[n] = seqs[n]
        BY Zenon, ConcatEmptySeq
      <4>3. f[n] = seqs[n]
        BY Zenon, <1>4, <3>1, <4>1, <4>2
      <4> QED BY Zenon, <1>8, <3>1, <3>2, <4>3
    <3>3. CASE n # 1
      <4>1. n - 1 # 0
        BY SMT, <3>3
      <4>2. flatten[n] = flatten[n - 1] \o seqs[n]
        BY Zenon, <1>8, <3>3
      <4> QED BY Zenon, <2>2, <3>1, <4>1, <4>2
    <3> QED BY Zenon, <3>2, <3>3
  <2> HIDE DEF T
  <2>3. \A n \in 0..N : n \in T
    BY Zenon, <2>1, <2>2, Upward
  <2> QED BY Zenon, <2>3 DEF T
<1>10. N \in 0..N /\ N # 0
  BY SMT
<1>11. FlattenSeq(seqs) = f[N]
  BY Zenon, <1>6, <1>9, <1>10
<1> QED BY Zenon, <1>4, <1>11

\* The four sextets of three bytes.
Sextets(a, b, c, s0, s1, s2, s3) ==
  LET t == a * 65536 + b * 256 + c
  IN  /\ (t \div 2^(6 * (3 - 0))) % 64 = s0 /\ (t \div 2^(6 * (3 - 1))) % 64 = s1
      /\ (t \div 2^(6 * (3 - 2))) % 64 = s2 /\ (t \div 2^(6 * (3 - 3))) % 64 = s3
      /\ s0 \in 0..63 /\ s1 \in 0..63 /\ s2 \in 0..63 /\ s3 \in 0..63
Regrouped(a, b, c, s0, s1, s2, s3) ==
  /\ ((s0 * 2^(2 + 0)) % 256) + (s1 \div 2^(4 - 0)) = a
  /\ ((s1 * 2^(2 + 2)) % 256) + (s2 \div 2^(4 - 2)) = b
  /\ ((s2 * 2^(2 + 4)) % 256) + (s3 \div 2^(4 - 4)) = c

\* Three octets in four groups of six bits, and back.
LEMMA SextetsOf ==
  ASSUME NEW a \in Octet, NEW b \in Octet, NEW c \in Octet
  PROVE  \E s0, s1, s2, s3 : Sextets(a, b, c, s0, s1, s2, s3) /\ Regrouped(a, b, c, s0, s1, s2, s3)
<1>1. PICK a1 \in 0..63, a0 \in 0..3 : a = 4 * a1 + a0
  <2>1. a \div 4 \in 0..63 /\ a % 4 \in 0..3 /\ a = 4 * (a \div 4) + (a % 4)
    BY SMT DEF Octet
  <2> QED BY Zenon, <2>1
<1>2. PICK b1 \in 0..15, b0 \in 0..15 : b = 16 * b1 + b0
  <2>1. b \div 16 \in 0..15 /\ b % 16 \in 0..15 /\ b = 16 * (b \div 16) + (b % 16)
    BY SMT DEF Octet
  <2> QED BY Zenon, <2>1
<1>3. PICK c1 \in 0..3, c0 \in 0..63 : c = 64 * c1 + c0
  <2>1. c \div 64 \in 0..3 /\ c % 64 \in 0..63 /\ c = 64 * (c \div 64) + (c % 64)
    BY SMT DEF Octet
  <2> QED BY Zenon, <2>1
<1> DEFINE s1 == 16 * a0 + b1
           s2 == 4 * b0 + c1
           t == a * 65536 + b * 256 + c
<1>4. /\ 2^(6 * (3 - 0)) = 262144 /\ 2^(6 * (3 - 1)) = 4096 /\ 2^(6 * (3 - 2)) = 64
      /\ 2^(6 * (3 - 3)) = 1 /\ 2^(2 + 0) = 4 /\ 2^(2 + 2) = 16 /\ 2^(2 + 4) = 64
      /\ 2^(4 - 0) = 16 /\ 2^(4 - 2) = 4 /\ 2^(4 - 4) = 1
  BY SMT
<1>5. t = 262144 * a1 + 4096 * s1 + 64 * s2 + c0
  BY SMT, <1>1, <1>2, <1>3
<1>6. t \div 262144 = a1 /\ t \div 4096 = 64 * a1 + s1 /\ t \div 64 = 4096 * a1 + 64 * s1 + s2
  BY SMT, <1>5
<1>7. a1 % 64 = a1 /\ (64 * a1 + s1) % 64 = s1 /\ (4096 * a1 + 64 * s1 + s2) % 64 = s2
      /\ (t \div 1) % 64 = c0 /\ s1 \in 0..63 /\ s2 \in 0..63
  BY SMT, <1>5
<1>8. Sextets(a, b, c, a1, s1, s2, c0)
  BY SMT, <1>4, <1>6, <1>7 DEF Sextets
<1>9. /\ ((a1 * 4) % 256) + (s1 \div 16) = a
      /\ ((s1 * 16) % 256) + (s2 \div 4) = b
      /\ ((s2 * 64) % 256) + (c0 \div 1) = c
  <2>1. ((a1 * 4) % 256) + (s1 \div 16) = a
    BY SMT, <1>1
  <2>2. (s1 * 16) % 256 = 16 * b1 /\ s2 \div 4 = b0
    BY SMT
  <2>3. (s2 * 64) % 256 = 64 * c1 /\ c0 \div 1 = c0
    BY SMT
  <2> QED BY SMT, <1>2, <1>3, <2>1, <2>2, <2>3
<1>10. Regrouped(a, b, c, a1, s1, s2, c0)
  BY SMT, <1>4, <1>9 DEF Regrouped
<1> QED BY Zenon, <1>8, <1>10

\* A base-64 character is read back and is not the padding.
LEMMA B64Values ==
  ASSUME NEW v \in 0..63
  PROVE  B64Value(B64Char(v)) = v /\ B64Char(v) # 61 /\ B64Char(v) \in Nat
<1>1. CASE v < 26
  <2>1. B64Char(v) = 65 + v
    BY SMT, <1>1 DEF B64Char
  <2>2. PICK c \in 65..90 : c = 65 + v
    BY SMT, <1>1
  <2>3. B64Value(c) = c - 65
    BY SMT DEF B64Value
  <2> QED BY SMT, <2>1, <2>2, <2>3
<1>2. CASE v \in 26..51
  <2>1. B64Char(v) = 71 + v
    BY SMT, <1>2 DEF B64Char
  <2>2. PICK c \in 97..122 : c = 71 + v
    BY SMT, <1>2
  <2>3. B64Value(c) = c - 71
    BY SMT DEF B64Value
  <2> QED BY SMT, <2>1, <2>2, <2>3
<1>3. CASE v \in 52..61
  <2>1. B64Char(v) = v - 4
    BY SMT, <1>3 DEF B64Char
  <2>2. PICK c \in 48..57 : c = v - 4
    BY SMT, <1>3
  <2>3. B64Value(c) = c + 4
    BY SMT DEF B64Value
  <2> QED BY SMT, <2>1, <2>2, <2>3
<1>4. CASE v = 62
  BY SMT, <1>4 DEF B64Char, B64Value
<1>5. CASE v = 63
  BY SMT, <1>5 DEF B64Char, B64Value
<1>6. v < 26 \/ v \in 26..51 \/ v \in 52..61 \/ v = 62 \/ v = 63
  BY SMT
<1> QED BY Zenon, <1>1, <1>2, <1>3, <1>4, <1>5, <1>6

\* The sextet of character k of a base-64 string, counted from zero.
Sextet(b, k) ==
  LET i == 3 * (k \div 4)
  IN  ((At(b, i) * 65536 + At(b, i + 1) * 256 + At(b, i + 2)) \div 2^(6 * (3 - (k % 4)))) % 64

\* The groups of six bits of an array of words.
LEMMA SextetsAt ==
  ASSUME NEW b \in Seq(Octet), NEW q \in Nat
  PROVE  /\ Sextets(At(b, 3 * q), At(b, 3 * q + 1), At(b, 3 * q + 2),
                    Sextet(b, 4 * q), Sextet(b, 4 * q + 1), Sextet(b, 4 * q + 2), Sextet(b, 4 * q + 3))
         /\ Regrouped(At(b, 3 * q), At(b, 3 * q + 1), At(b, 3 * q + 2),
                      Sextet(b, 4 * q), Sextet(b, 4 * q + 1), Sextet(b, 4 * q + 2), Sextet(b, 4 * q + 3))
<1>1. PICK a \in Octet, c \in Octet, d \in Octet :
        a = At(b, 3 * q) /\ c = At(b, 3 * q + 1) /\ d = At(b, 3 * q + 2)
  <2>1. 3 * q \in Nat /\ 3 * q + 1 \in Nat /\ 3 * q + 2 \in Nat
    BY SMT
  <2> QED BY Zenon, <2>1, OctetAt
<1>2. PICK s0, s1, s2, s3 : Sextets(a, c, d, s0, s1, s2, s3) /\ Regrouped(a, c, d, s0, s1, s2, s3)
  BY ONLY SextetsOf, Zenon
<1>3. PICK t : t = a * 65536 + c * 256 + d
  BY SMT
<1>4. /\ s0 = (t \div 2^(6 * (3 - 0))) % 64 /\ s1 = (t \div 2^(6 * (3 - 1))) % 64
      /\ s2 = (t \div 2^(6 * (3 - 2))) % 64 /\ s3 = (t \div 2^(6 * (3 - 3))) % 64
  BY SMT, <1>2, <1>3 DEF Sextets
<1>5. ASSUME NEW k, k \div 4 = q PROVE Sextet(b, k) = (t \div 2^(6 * (3 - (k % 4)))) % 64
  BY SMT, <1>1, <1>3, <1>5 DEF Sextet
<1>6. /\ (4 * q) \div 4 = q /\ (4 * q + 1) \div 4 = q /\ (4 * q + 2) \div 4 = q /\ (4 * q + 3) \div 4 = q
      /\ (4 * q) % 4 = 0 /\ (4 * q + 1) % 4 = 1 /\ (4 * q + 2) % 4 = 2 /\ (4 * q + 3) % 4 = 3
  BY SMT
<1>7. /\ Sextet(b, 4 * q) = s0 /\ Sextet(b, 4 * q + 1) = s1
      /\ Sextet(b, 4 * q + 2) = s2 /\ Sextet(b, 4 * q + 3) = s3
  BY Zenon, <1>4, <1>5, <1>6
<1> QED BY Zenon, <1>1, <1>2, <1>7

LEMMA SextetType ==
  ASSUME NEW b \in Seq(Octet), NEW k \in Nat
  PROVE  Sextet(b, k) \in 0..63
<1>1. PICK q \in Nat, r \in 0..3 : k = 4 * q + r /\ k \div 4 = q /\ k % 4 = r
  BY Zenon, Quarters
<1>2. /\ Sextet(b, 4 * q) \in 0..63 /\ Sextet(b, 4 * q + 1) \in 0..63
      /\ Sextet(b, 4 * q + 2) \in 0..63 /\ Sextet(b, 4 * q + 3) \in 0..63
  BY SMT, SextetsAt DEF Sextets
<1>3. k = 4 * q \/ k = 4 * q + 1 \/ k = 4 * q + 2 \/ k = 4 * q + 3
  BY SMT, <1>1
<1> QED BY Zenon, <1>2, <1>3

\* The characters of sixteen bytes: twenty-two, and two of padding.
B64Chars(b, pad) ==
  [k \in 1..24 |-> IF k > 22 THEN pad ELSE <<B64Char(Sextet(b, k - 1))>>]

\* binl2b64 of sixteen bytes writes 22 characters and two paddings.
LEMMA B64Is ==
  ASSUME NEW b \in Seq(Octet), Len(b) = 16, NEW pad
  PROVE  binl2b64(Packed(b), pad) = FlattenSeq(B64Chars(b, pad))
<1> DEFINE byte(i) == (At(Packed(b), i \div 4) \div 2^(8 * (i % 4))) % 256
           triplet(i) == byte(i) * 65536 + byte(i + 1) * 256 + byte(i + 2)
           char(k) == LET i == 3 * (k \div 4)
                          j == k % 4
                      IN  IF i * 8 + j * 6 > (Len(Packed(b)) * 4) * 8 THEN pad
                          ELSE <<B64Char((triplet(i) \div 2^(6 * (3 - j))) % 64)>>
<1>1. Len(Packed(b)) * 4 = 16 /\ 4 * ((Len(Packed(b)) * 4 + 2) \div 3) = 24
  <2>1. Len(Packed(b)) = (16 + 3) \div 4
    BY Zenon, PackedType
  <2> QED BY SMT, <2>1
<1>2. binl2b64(Packed(b), pad) = FlattenSeq([k \in 1..24 |-> char(k - 1)])
  <2>1. binl2b64(Packed(b), pad)
          = FlattenSeq([k \in 1..(4 * ((Len(Packed(b)) * 4 + 2) \div 3)) |-> char(k - 1)])
    BY SMT DEF binl2b64
  <2> HIDE DEF char
  <2> QED BY Zenon, <1>1, <2>1
<1>3. ASSUME NEW i \in Nat PROVE byte(i) = At(b, i)
  BY Zenon, ByteAt
<1> HIDE DEF byte
<1>4. ASSUME NEW k \in 1..24
      PROVE  char(k - 1) = (IF k > 22 THEN pad ELSE <<B64Char(Sextet(b, k - 1))>>)
  <2>1. PICK i \in Nat : i = 3 * ((k - 1) \div 4)
    BY SMT
  <2>2. i * 8 + ((k - 1) % 4) * 6 > (Len(Packed(b)) * 4) * 8 <=> k > 22
    BY SMT, <1>1, <2>1
  <2>3. byte(i) = At(b, i) /\ byte(i + 1) = At(b, i + 1) /\ byte(i + 2) = At(b, i + 2)
    <3>1. i + 1 \in Nat /\ i + 2 \in Nat
      BY SMT
    <3> QED BY Zenon, <1>3, <3>1
  <2>4. (triplet(i) \div 2^(6 * (3 - ((k - 1) % 4)))) % 64 = Sextet(b, k - 1)
    BY SMT, <2>1, <2>3 DEF Sextet
  <2> HIDE DEF triplet
  <2> QED BY Zenon, <2>1, <2>2, <2>4
<1> HIDE DEF char
<1>5. [k \in 1..24 |-> char(k - 1)] = B64Chars(b, pad)
  BY Zenon, <1>4 DEF B64Chars
<1> QED BY Zenon, <1>2, <1>5

\* The string ends with the padding.
Encodes(s, c, pad) ==
  /\ \A k \in 1..22 : s[k] = c[k]
  /\ Len(s) = 22 + 2 * Len(pad) /\ \A k \in 1..Len(s) : k > 22 => <<s[k]>> = pad

Pads == {<<>>, <<61>>}
Padded(seqs, c, pad) == seqs = [k \in 1..24 |-> IF k > 22 THEN pad ELSE <<c[k]>>]

One(w, v) == w = <<v>>
Longer(e, s, w, v) ==
  e = s \o w /\ Len(e) = Len(s) + 1 /\ e[Len(s) + 1] = v /\ \A k \in 1..Len(s) : e[k] = s[k]

\* A sequence and one element more.
LEMMA Appended ==
  ASSUME NEW S, NEW s \in Seq(S), NEW v \in S, NEW w, One(w, v)
  PROVE  \E e \in Seq(S) : Longer(e, s, w, v)
<1>1. PICK e \in Seq(S) : e = s \o <<v>> /\ e = s \o w
  <2>1. s \o <<v>> \in Seq(S)
    BY SMT
  <2> QED BY Zenon, <2>1 DEF One
<1>2. Len(e) = Len(s) + 1 /\ e[Len(s) + 1] = v /\ \A k \in 1..Len(s) : e[k] = s[k]
  BY SMT, <1>1
<1> QED BY Zenon, <1>1, <1>2 DEF Longer

LEMMA TwoPads == ASSUME NEW q, <<q>> \in Pads, NEW pad \in Pads PROVE pad = <<>> \/ pad = <<q>>
BY SMT DEF Pads

\* What binl2b64 returns: the characters, then the paddings, if any.
LEMMA B64Encodes ==
  ASSUME NEW S, NEW q \in S, NEW c \in [1..22 -> S], NEW pad \in Pads, <<q>> \in Pads, NEW seqs,
         Padded(seqs, c, pad)
  PROVE  Encodes(FlattenSeq(seqs), c, pad)
<1>0. PICK m \in Nat : m = 24 /\ m > 0
  BY SMT
<1>1. seqs \in [1..m -> Seq(S)]
  <2>1. pad \in Seq(S)
    <3>1. <<>> \in Seq(S) /\ <<q>> \in Seq(S)
      BY SMT
    <3> QED BY Zenon, <3>1, TwoPads
  <2>2. ASSUME NEW k \in 1..24, ~(k > 22) PROVE <<c[k]>> \in Seq(S)
    <3>1. k \in 1..22
      BY SMT, <2>2
    <3>2. c[k] \in S
      BY Zenon, <3>1
    <3> QED BY SMT, <3>2
  <2>3. [k \in 1..24 |-> IF k > 22 THEN pad ELSE <<c[k]>>] \in [1..24 -> Seq(S)]
    BY Zenon, <2>1, <2>2
  <2> QED BY Zenon, <1>0, <2>3 DEF Padded
<1>2. PICK g : /\ FlattenSeq(seqs) = g[m] /\ g[0] = <<>>
               /\ \A n \in 1..m : g[n] = g[n - 1] \o seqs[n]
  <2>1. m > 0
    BY Zenon, <1>0
  <2> QED BY ZenonT(30), <1>1, <2>1, Flattened
<1>3. \A n \in 1..24 : g[n] = g[n - 1] \o (IF n > 22 THEN pad ELSE <<c[n]>>)
  BY Zenon, <1>0, <1>2 DEF Padded
<1> DEFINE T == {n \in 0..22 : g[n] \in Seq(S) /\ Len(g[n]) = n /\ \A k \in 1..n : g[n][k] = c[k]}
<1>4. 0 \in T
  <2>1. 0 \in 0..22 /\ <<>> \in Seq(S) /\ Len(<<>>) = 0 /\ \A k \in 1..0 : FALSE
    BY SMT
  <2> QED BY Zenon, <1>2, <2>1
<1>5. ASSUME NEW n \in 1..22, n - 1 \in T PROVE n \in T
  <2>1. g[n] = g[n - 1] \o <<c[n]>>
    <3>1. n \in 1..24 /\ ~(n > 22)
      BY SMT
    <3> QED BY Zenon, <1>3, <3>1
  <2>2. PICK s \in Seq(S) : s = g[n - 1] /\ Len(s) = n - 1 /\ \A k \in 1..(n - 1) : s[k] = c[k]
    BY Zenon, <1>5
  <2>3. PICK v \in S : v = c[n]
    BY Zenon
  <2>4. (n - 1) + 1 = n /\ \A k \in 1..n : k = n \/ k \in 1..(n - 1)
    BY SMT
  <2>9. PICK w : One(w, v)
    BY Zenon DEF One
  <2>5. PICK e \in Seq(S) : Longer(e, s, w, v)
    BY Zenon, <2>9, Appended
  <2>6. e[n] = v /\ Len(e) = n /\ \A k \in 1..(n - 1) : e[k] = s[k]
    BY Zenon, <2>2, <2>4, <2>5 DEF Longer
  <2>7. \A k \in 1..n : e[k] = c[k]
    BY Zenon, <2>2, <2>3, <2>4, <2>6
  <2>8. n \in 0..22 /\ g[n] = e
    <3>1. n \in 0..22
      BY SMT
    <3> QED BY Zenon, <2>1, <2>2, <2>3, <2>5, <2>9, <3>1 DEF One, Longer
  <2> QED BY Zenon, <2>5, <2>6, <2>7, <2>8
<1> HIDE DEF T
<1>6. \A n \in 0..22 : n \in T
  <2>1. 22 \in Nat
    BY SMT
  <2> QED BY Zenon, <1>4, <1>5, <2>1, Upward
<1>7. PICK s \in Seq(S) : s = g[22] /\ Len(s) = 22 /\ \A k \in 1..22 : s[k] = c[k]
  <2>1. 22 \in 0..22
    BY SMT
  <2> QED BY Zenon, <1>6, <2>1 DEF T
<1>8. g[m] = (s \o pad) \o pad
  <2>1. /\ 23 \in 1..24 /\ 24 \in 1..24 /\ 23 > 22 /\ 24 > 22 /\ 23 - 1 = 22 /\ 24 - 1 = 23
    BY SMT
  <2>2. g[23] = g[22] \o pad /\ g[24] = g[23] \o pad
    BY Zenon, <1>3, <2>1
  <2> QED BY Zenon, <1>0, <1>7, <2>2
<1>9. PICK e : e = (s \o pad) \o pad
  BY Zenon
<1>10. Encodes(e, c, pad)
  <2>1. CASE pad = <<>>
    <3>1. e = s
      <4>1. s \o <<>> = s
        BY Zenon, ConcatEmptySeq
      <4> QED BY Zenon, <1>9, <2>1, <4>1
    <3>2. 22 = 22 + 2 * Len(pad) /\ \A k \in 1..22 : ~(k > 22)
      BY SMT, <2>1
    <3> QED BY Zenon, <1>7, <3>1, <3>2 DEF Encodes
  <2>2. CASE pad = <<q>>
    <3>1. PICK w : One(w, q) /\ w = pad
      BY Zenon, <2>2 DEF One
    <3>2. PICK t \in Seq(S) : Longer(t, s, w, q)
      BY Zenon, <3>1, Appended
    <3>3. PICK u \in Seq(S) : Longer(u, t, w, q)
      BY Zenon, <3>1, Appended
    <3>4. e = u
      BY Zenon, <1>9, <3>1, <3>2, <3>3 DEF Longer
    <3>5. Len(t) = 23 /\ Len(s) = 22 /\ 22 + 1 = 23 /\ 23 + 1 = 24
      <4>1. Len(t) = Len(s) + 1 /\ Len(s) = 22
        BY Zenon, <1>7, <3>2 DEF Longer
      <4> QED BY SMT, <4>1
    <3>6. /\ 23 \in 1..23 /\ \A k \in 1..22 : k \in 1..23
          /\ \A k \in 1..24 : k > 22 => k = 23 \/ k = 24
      BY SMT
    <3>7. Len(e) = 24 /\ e[24] = q /\ e[23] = q
      BY Zenon, <3>2, <3>3, <3>4, <3>5, <3>6 DEF Longer
    <3>8. \A k \in 1..22 : e[k] = s[k]
      BY Zenon, <3>2, <3>3, <3>4, <3>5, <3>6 DEF Longer
    <3>9. 24 = 22 + 2 * Len(pad)
      BY SMT, <2>2
    <3>10. \A k \in 1..24 : k > 22 => <<e[k]>> = pad
      BY Zenon, <3>1, <3>6, <3>7 DEF One
    <3> QED BY Zenon, <1>7, <3>7, <3>8, <3>9, <3>10 DEF Encodes
  <2> QED BY Zenon, <2>1, <2>2, TwoPads
<1> QED BY Zenon, <1>2, <1>8, <1>9, <1>10

LEMMA PadCharacter == <<61>> \in Pads
BY SMT DEF Pads

\* A digest in base 64, with or without padding, stands for its bytes.
LEMMA B64Decoded ==
  ASSUME NEW b \in Seq(Octet), Len(b) = 16, NEW pad \in Pads
  PROVE  B64Bytes(binl2b64(Packed(b), pad), pad) = b
<1> DEFINE C == [k \in 1..22 |-> B64Char(Sextet(b, k - 1))]
<1>1. ASSUME NEW k \in 1..22
      PROVE  /\ Sextet(b, k - 1) \in 0..63 /\ B64Value(B64Char(Sextet(b, k - 1))) = Sextet(b, k - 1)
             /\ B64Char(Sextet(b, k - 1)) # 61 /\ B64Char(Sextet(b, k - 1)) \in Nat
  <2>1. k - 1 \in Nat
    BY SMT
  <2> QED BY Zenon, <2>1, SextetType, B64Values
<1>2. PICK S : S = Nat
  BY Zenon
<1>3. PICK c \in [1..22 -> S] : \A k \in 1..22 : c[k] = B64Char(Sextet(b, k - 1))
  <2>1. C \in [1..22 -> S]
    BY Zenon, <1>1, <1>2
  <2> QED BY Zenon, <2>1
<1>4. PICK s : s = binl2b64(Packed(b), pad) /\ Encodes(s, c, pad)
  <2>1. PICK seqs : seqs = B64Chars(b, pad) /\ Padded(seqs, c, pad)
    <3>1. ASSUME NEW k \in 1..24, ~(k > 22) PROVE k \in 1..22
      BY SMT, <3>1
    <3>2. [k \in 1..24 |-> IF k > 22 THEN pad ELSE <<B64Char(Sextet(b, k - 1))>>]
            = [k \in 1..24 |-> IF k > 22 THEN pad ELSE <<c[k]>>]
      BY Zenon, <1>3, <3>1
    <3> QED BY Zenon, <3>2 DEF B64Chars, Padded
  <2>2. PICK q \in S : q = 61
    <3>1. 61 \in Nat
      BY SMT
    <3> QED BY Zenon, <1>2, <3>1
  <2>3. <<q>> \in Pads
    BY Zenon, <2>2, PadCharacter
  <2>4. Padded(seqs, c, pad)
    BY Zenon, <2>1
  <2>5. Encodes(FlattenSeq(seqs), c, pad)
    BY ONLY <2>3, <2>4, B64Encodes, Zenon
  <2> QED BY Zenon, <2>1, <2>5, B64Is
<1>5. /\ \A k \in 1..22 : s[k] = B64Char(Sextet(b, k - 1)) /\ k \in 1..Len(s)
      /\ \A k \in 1..Len(s) : k \notin 1..22 => <<s[k]>> = pad
  <2>1. PICK l, p \in Nat : l = Len(s) /\ l = 22 + 2 * p
    <3>1. Len(s) = 22 + 2 * Len(pad)
      BY Zenon, <1>4 DEF Encodes
    <3>2. Len(pad) \in Nat
      BY SMT DEF Pads
    <3>3. PICK p \in Nat : p = Len(pad)
      BY Zenon, <3>2
    <3>4. PICK l \in Nat : l = 22 + 2 * p
      BY SMT
    <3> QED BY Zenon, <3>1, <3>3, <3>4
  <2>2. \A k \in 1..22 : k \in 1..l
    BY SMT, <2>1
  <2>3. \A k \in 1..l : k \notin 1..22 => k > 22
    BY SMT, <2>1
  <2>4. \A k \in 1..22 : k \in 1..Len(s)
    BY Zenon, <2>1, <2>2
  <2>5. \A k \in 1..Len(s) : k \notin 1..22 => k > 22
    BY Zenon, <2>1, <2>3
  <2> QED BY Zenon, <1>3, <1>4, <2>4, <2>5 DEF Encodes
<1>6. {k \in 1..Len(s) : <<s[k]>> # pad} = 1..22
  <2>1. ASSUME NEW k \in 1..22 PROVE <<s[k]>> # pad
    <3>0. s[k] = B64Char(Sextet(b, k - 1))
      BY Zenon, <1>5
    <3>3. B64Char(Sextet(b, k - 1)) # 61
      BY Zenon, <1>1
    <3>1. PICK v : v = s[k] /\ v # 61
      BY Zenon, <3>0, <3>3
    <3>2. <<v>> # <<>> /\ <<v>> # <<61>>
      BY SMT, <3>1
    <3> QED BY ZenonT(30), <3>1, <3>2, TwoPads, PadCharacter
  <2> QED BY Zenon, <1>5, <2>1
<1>7. (6 * Cardinality(1..22)) \div 8 = 16
  <2>1. Cardinality(1..22) = (IF 1 > 22 THEN 0 ELSE (22 - 1) + 1)
    <3>1. 1 \in Int /\ 22 \in Int
      BY SMT
    <3> QED BY Zenon, <3>1, FS_Interval
  <2> QED BY SMT, <2>1
<1> DEFINE byte(n, from) == ((B64Value(s[n + 1]) * 2^(2 + from)) % 256)
                            + (B64Value(s[n + 2]) \div 2^(4 - from))
<1>8. B64Bytes(s, pad) = Array([k \in 1..16 |-> byte((8 * (k - 1)) \div 6, (8 * (k - 1)) % 6)])
  BY Zenon, <1>6, <1>7 DEF B64Bytes
<1>9. ASSUME NEW n \in 0..20
      PROVE  byte(n, 0) = ((Sextet(b, n) * 2^(2 + 0)) % 256) + (Sextet(b, n + 1) \div 2^(4 - 0))
             /\ byte(n, 2) = ((Sextet(b, n) * 2^(2 + 2)) % 256) + (Sextet(b, n + 1) \div 2^(4 - 2))
             /\ byte(n, 4) = ((Sextet(b, n) * 2^(2 + 4)) % 256) + (Sextet(b, n + 1) \div 2^(4 - 4))
  <2>1. n + 1 \in 1..22 /\ n + 2 \in 1..22 /\ (n + 1) - 1 = n /\ (n + 2) - 1 = n + 1
    BY SMT
  <2>2. B64Value(s[n + 1]) = Sextet(b, n) /\ B64Value(s[n + 2]) = Sextet(b, n + 1)
    BY ZenonT(30), <1>1, <1>5, <2>1
  <2> QED BY Zenon, <2>2
<1> HIDE DEF byte
<1>10. ASSUME NEW k \in 1..16 PROVE byte((8 * (k - 1)) \div 6, (8 * (k - 1)) % 6) = b[k]
  <2>1. PICK m \in 0..5, r \in 0..2 : k - 1 = 3 * m + r
    <3>1. (k - 1) \div 3 \in 0..5 /\ (k - 1) % 3 \in 0..2 /\ k - 1 = 3 * ((k - 1) \div 3) + ((k - 1) % 3)
      BY SMTT(30)
    <3> QED BY Zenon, <3>1
  <2>2. Regrouped(At(b, 3 * m), At(b, 3 * m + 1), At(b, 3 * m + 2),
                  Sextet(b, 4 * m), Sextet(b, 4 * m + 1), Sextet(b, 4 * m + 2), Sextet(b, 4 * m + 3))
    <3>1. m \in Nat
      BY SMT
    <3> QED BY Zenon, <3>1, SextetsAt
  <2>3. At(b, k - 1) = b[k]
    <3>1. k - 1 < 16 /\ (k - 1) + 1 = k
      BY SMT
    <3> QED BY Zenon, <3>1 DEF At
  <2>4. CASE r = 0
    <3>1. /\ k - 1 = 3 * m /\ (8 * (k - 1)) \div 6 = 4 * m /\ (8 * (k - 1)) % 6 = 0
          /\ 4 * m \in 0..20
      BY SMT, <2>1, <2>4
    <3>2. byte(4 * m, 0) = At(b, 3 * m)
      BY Zenon, <1>9, <2>2, <3>1 DEF Regrouped
    <3> QED BY Zenon, <2>3, <3>1, <3>2
  <2>5. CASE r = 1
    <3>1. /\ k - 1 = 3 * m + 1 /\ (8 * (k - 1)) \div 6 = 4 * m + 1 /\ (8 * (k - 1)) % 6 = 2
          /\ 4 * m + 1 \in 0..20 /\ (4 * m + 1) + 1 = 4 * m + 2
      BY SMT, <2>1, <2>5
    <3>3. byte(4 * m + 1, 2) = ((Sextet(b, 4 * m + 1) * 2^(2 + 2)) % 256)
                                + (Sextet(b, (4 * m + 1) + 1) \div 2^(4 - 2))
      BY Zenon, <1>9, <3>1
    <3>4. Sextet(b, (4 * m + 1) + 1) = Sextet(b, 4 * m + 2)
      BY Zenon, <3>1
    <3>2. byte(4 * m + 1, 2) = At(b, 3 * m + 1)
      BY Zenon, <2>2, <3>3, <3>4 DEF Regrouped
    <3> QED BY Zenon, <2>3, <3>1, <3>2
  <2>6. CASE r = 2
    <3>1. /\ k - 1 = 3 * m + 2 /\ (8 * (k - 1)) \div 6 = 4 * m + 2 /\ (8 * (k - 1)) % 6 = 4
          /\ 4 * m + 2 \in 0..20 /\ (4 * m + 2) + 1 = 4 * m + 3
      BY SMT, <2>1, <2>6
    <3>3. byte(4 * m + 2, 4) = ((Sextet(b, 4 * m + 2) * 2^(2 + 4)) % 256)
                                + (Sextet(b, (4 * m + 2) + 1) \div 2^(4 - 4))
      BY Zenon, <1>9, <3>1
    <3>4. Sextet(b, (4 * m + 2) + 1) = Sextet(b, 4 * m + 3)
      BY Zenon, <3>1
    <3>2. byte(4 * m + 2, 4) = At(b, 3 * m + 2)
      BY Zenon, <2>2, <3>3, <3>4 DEF Regrouped
    <3> QED BY Zenon, <2>3, <3>1, <3>2
  <2>7. r = 0 \/ r = 1 \/ r = 2
    BY SMT
  <2> QED BY Zenon, <2>4, <2>5, <2>6, <2>7
<1>11. [k \in 1..16 |-> byte((8 * (k - 1)) \div 6, (8 * (k - 1)) % 6)] = b
  <2>1. b = [k \in 1..16 |-> b[k]]
    BY SMT
  <2> QED BY Zenon, <1>10, <2>1
<1>12. Array(b) = b
  BY Zenon, ConcatEmptySeq DEF Array
<1> QED BY Zenon, <1>4, <1>8, <1>11, <1>12

\* What is made of a digest stands for its sixteen bytes, whatever the encoding.
LEMMA EncodedDecoded ==
  ASSUME NEW c, NEW w \in Digest4, c.set \in Settings, c.fn \in Encodings,
         c.result = encoded(c.fn, w, c.set)
  PROVE  Decoded(c) = binl2str(w, 8)
<1>1. PICK o \in Seq(Octet) : Len(o) = 16 /\ Packed(o) = w
  BY Zenon, DigestBytesOf
<1>2. Len(o) % 4 = 0
  BY SMT, <1>1
<1>3. binl2str(w, 8) = o
  BY Zenon, <1>1, <1>2, UnpackedString
<1>4. /\ c.set.hexcase \in BOOLEAN /\ c.set.b64pad \in Pads
      /\ c.set.chrsz = 8 \/ c.set.chrsz = 16
  BY ZenonT(30), ToolsAssumption DEF Pads
<1>5. "hex" # "b64" /\ "hex" # "str" /\ "b64" # "str"
  BY SMT
<1>6. CASE c.fn = "hex"
  <2>1. c.result = binl2hex(w, c.set.hexcase) /\ Decoded(c) = HexBytes(c.result)
    BY Zenon, <1>5, <1>6 DEF encoded, Decoded
  <2> QED BY Zenon, <1>1, <1>2, <1>3, <1>4, <2>1, HexDecoded
<1>7. CASE c.fn = "b64"
  <2>1. c.result = binl2b64(w, c.set.b64pad) /\ Decoded(c) = B64Bytes(c.result, c.set.b64pad)
    BY Zenon, <1>5, <1>7 DEF encoded, Decoded
  <2>2. B64Bytes(binl2b64(Packed(o), c.set.b64pad), c.set.b64pad) = o
    BY Zenon, <1>1, <1>4, B64Decoded
  <2> QED BY Zenon, <1>1, <1>3, <2>1, <2>2
<1>8. CASE c.fn = "str"
  <2>1. c.result = binl2str(w, c.set.chrsz)
    BY Zenon, <1>5, <1>8 DEF encoded
  <2>2. Decoded(c) = (IF c.set.chrsz = 8 THEN c.result ELSE LittleEndian(c.result))
    BY Zenon, <1>5, <1>8 DEF Decoded
  <2>3. CASE c.set.chrsz = 8
    BY Zenon, <2>1, <2>2, <2>3
  <2>4. CASE c.set.chrsz = 16
    <3>1. 16 # 8
      BY SMT
    <3>2. Decoded(c) = LittleEndian(binl2str(Packed(o), 16))
      BY Zenon, <1>1, <2>1, <2>2, <2>4, <3>1
    <3> QED BY Zenon, <1>2, <1>3, <3>2, WideDecoded
  <2> QED BY Zenon, <1>4, <2>3, <2>4
<1> QED BY Zenon, <1>6, <1>7, <1>8 DEF Encodings

\* The bytes a digest is made of.
LEMMA BytesAre ==
  ASSUME NEW str \in Text, NEW set \in Settings
  PROVE  /\ Bytes(str, set) \in Seq(Octet) /\ md5(str, set.chrsz) = DigestOf(Bytes(str, set))
         /\ str2binl(str, set.chrsz) = Packed(Bytes(str, set))
         /\ Len(str) * set.chrsz = 8 * Len(Bytes(str, set)) /\ str \in Seq(Code)
<1>1. str \in Seq(Code)
  BY Zenon DEF Text
<1>2. set.chrsz \in {8, 16}
  BY Zenon, ToolsAssumption
<1>3. Bytes(str, set) = BytesOf(str, set.chrsz)
  BY Zenon DEF Bytes, BytesOf
<1> QED BY Zenon, <1>1, <1>2, <1>3, PackedString, DigestOfString

\* What a page is given stands for the digest of the bytes.
LEMMA OneDigestOfCall ==
  ASSUME NEW c, NEW str \in Text, c.set \in Settings, c.fn \in Encodings,
         c.result = encoded(c.fn, md5(str, c.set.chrsz), c.set)
  PROVE  Decoded(c) = DigestBytes(Bytes(str, c.set))
<1>1. PICK b \in Seq(Octet) : b = Bytes(str, c.set) /\ md5(str, c.set.chrsz) = DigestOf(b)
  BY Zenon, BytesAre
<1>2. Decoded(c) = binl2str(DigestOf(b), 8)
  BY Zenon, <1>1, DigestOfType, EncodedDecoded
<1> QED BY Zenon, <1>1, <1>2, DigestOfBytes

-----------------------------------------------------------------------------
(* The padding *)

\* The bytes with the byte that ends them.
Ended(e, b) == e = b \o <<128>>

\* The bytes with the byte 128 behind them.
LEMMA EndedBytes ==
  ASSUME NEW b \in Seq(Octet), NEW e, Ended(e, b)
  PROVE  /\ e \in Seq(Octet) /\ Len(e) = Len(b) + 1 /\ At(e, Len(b)) = 128
         /\ \A k \in Nat : k # Len(b) => At(e, k) = At(b, k)
<1>1. 128 \in Octet /\ Len(b) \in Nat /\ Len(b) < Len(b) + 1
  <2>1. 128 \in Octet
    BY SMT DEF Octet
  <2>2. Len(b) \in Nat
    BY Zenon, LenProperties
  <2> QED BY SMT, <2>1, <2>2
<1>2. PICK w : One(w, 128) /\ e = b \o w
  BY Zenon DEF One, Ended
<1>3. PICK f \in Seq(Octet) : Longer(f, b, w, 128)
  <2>1. One(w, 128)
    BY Zenon, <1>2
  <2> QED BY Zenon, <1>1, <2>1, Appended
<1>4. f = e
  BY Zenon, <1>2, <1>3 DEF Longer
<1>5. Len(f) = Len(b) + 1 /\ f[Len(b) + 1] = 128 /\ \A k \in 1..Len(b) : f[k] = b[k]
  BY Zenon, <1>3 DEF Longer
<1>6. At(f, Len(b)) = 128
  BY ZenonT(30), <1>1, <1>5 DEF At
<1>7. ASSUME NEW k \in Nat, k # Len(b) PROVE At(f, k) = At(b, k)
  <2>1. CASE k < Len(b)
    <3>1. k + 1 \in 1..Len(b) /\ k < Len(b) + 1
      BY SMT, <1>1, <2>1
    <3> QED BY Zenon, <1>5, <2>1, <3>1 DEF At
  <2>2. CASE ~(k < Len(b))
    <3>1. ~(k < Len(b) + 1)
      BY SMT, <1>1, <1>7, <2>2
    <3> QED BY Zenon, <1>5, <2>2, <3>1 DEF At
  <2> QED BY Zenon, <2>1, <2>2
<1> QED BY Zenon, <1>4, <1>5, <1>6, <1>7

\* Bit 1 put after the last byte.
LEMMA EndedWord ==
  ASSUME NEW b \in Seq(Octet), NEW e, Ended(e, b), NEW i \in Nat
  PROVE  (IF i = (8 * Len(b)) \div 32 THEN Or(WordFrom(b, i), Shl(128, (8 * Len(b)) % 32))
          ELSE WordFrom(b, i)) = WordFrom(e, i)
<1>1. PICK n \in Nat : n = Len(b)
  BY Zenon, LenProperties
<1>2. /\ 4 * i \in Nat /\ 4 * i + 1 \in Nat /\ 4 * i + 2 \in Nat /\ 4 * i + 3 \in Nat
  BY SMT
<1>3. \A k \in Nat : k # n => At(e, k) = At(b, k)
  BY Zenon, <1>1, EndedBytes
<1>4. At(e, n) = 128
  BY Zenon, <1>1, EndedBytes
<1>5. CASE i # (8 * n) \div 32
  <2>1. n # 4 * i /\ n # 4 * i + 1 /\ n # 4 * i + 2 /\ n # 4 * i + 3
    BY SMT, <1>5
  <2>2. /\ At(e, 4 * i) = At(b, 4 * i) /\ At(e, 4 * i + 1) = At(b, 4 * i + 1)
        /\ At(e, 4 * i + 2) = At(b, 4 * i + 2) /\ At(e, 4 * i + 3) = At(b, 4 * i + 3)
    BY Zenon, <1>2, <1>3, <2>1
  <2> QED BY Zenon, <1>1, <1>5, <2>2 DEF WordFrom
<1>6. CASE i = (8 * n) \div 32
  <2>1. \A k \in Nat : ~(k < n) => At(b, k) = 0
    BY Zenon, <1>1 DEF At
  <2>2. PICK a \in Octet, h \in Octet, c \in Octet :
          a = At(b, 4 * i) /\ h = At(b, 4 * i + 1) /\ c = At(b, 4 * i + 2)
    BY Zenon, <1>2, OctetAt
  <2>3. 128 \in Octet
    BY SMT DEF Octet
  <2>4. Placed(128)
    BY Zenon, <2>3, PlacedOctet
  <2>5. Or(WordFrom(b, i), Shl(128, (8 * n) % 32)) = WordFrom(e, i)
    <3>1. CASE n = 4 * i
      <4>1. (8 * n) % 32 = 0 /\ n # 4 * i + 1 /\ n # 4 * i + 2 /\ n # 4 * i + 3
            /\ ~(4 * i < n) /\ ~(4 * i + 1 < n) /\ ~(4 * i + 2 < n) /\ ~(4 * i + 3 < n)
        BY SMT, <3>1
      <4>2. WordFrom(b, i) = FromOctets(0, 0, 0, 0)
        BY Zenon, <1>2, <2>1, <4>1 DEF WordFrom
      <4>3. WordFrom(e, i) = FromOctets(0, 0, 0, 128)
        BY Zenon, <1>2, <1>3, <1>4, <2>1, <3>1, <4>1 DEF WordFrom
      <4>4. Joined(128, 128, 128, 128)
        BY Zenon, <2>3, JoinedOctets
      <4>5. Shl(128, (8 * n) % 32) = FromOctets(0, 0, 0, 128)
        BY Zenon, <2>4, <4>1 DEF Placed
      <4> QED BY ZenonT(30), <4>2, <4>3, <4>4, <4>5, NoOctets DEF Joined
    <3>2. CASE n = 4 * i + 1
      <4>1. (8 * n) % 32 = 8 /\ n # 4 * i /\ n # 4 * i + 2 /\ n # 4 * i + 3
            /\ ~(4 * i + 1 < n) /\ ~(4 * i + 2 < n) /\ ~(4 * i + 3 < n)
        BY SMT, <3>2
      <4>2. WordFrom(b, i) = FromOctets(0, 0, 0, a)
        BY Zenon, <1>2, <2>1, <2>2, <4>1 DEF WordFrom
      <4>3. WordFrom(e, i) = FromOctets(0, 0, 128, a)
        <5>1. At(e, 4 * i + 1) = 128
          BY Zenon, <1>4, <3>2
        <5>2. At(e, 4 * i) = a
          BY Zenon, <1>2, <1>3, <2>2, <4>1
        <5>3. At(e, 4 * i + 2) = 0 /\ At(e, 4 * i + 3) = 0
          BY Zenon, <1>2, <1>3, <2>1, <4>1
        <5> QED BY Zenon, <5>1, <5>2, <5>3 DEF WordFrom
      <4>4. Joined(a, 128, 128, 128)
        BY Zenon, <2>3, JoinedOctets
      <4>5. Shl(128, (8 * n) % 32) = FromOctets(0, 0, 128, 0)
        BY Zenon, <2>4, <4>1 DEF Placed
      <4> QED BY Zenon, <4>2, <4>3, <4>4, <4>5 DEF Joined
    <3>3. CASE n = 4 * i + 2
      <4>1. (8 * n) % 32 = 16 /\ n # 4 * i /\ n # 4 * i + 1 /\ n # 4 * i + 3
            /\ ~(4 * i + 2 < n) /\ ~(4 * i + 3 < n)
        BY SMT, <3>3
      <4>2. WordFrom(b, i) = FromOctets(0, 0, h, a)
        BY Zenon, <1>2, <2>1, <2>2, <4>1 DEF WordFrom
      <4>3. WordFrom(e, i) = FromOctets(0, 128, h, a)
        <5>1. At(e, 4 * i + 2) = 128
          BY Zenon, <1>4, <3>3
        <5>2. At(e, 4 * i) = a /\ At(e, 4 * i + 1) = h
          BY Zenon, <1>2, <1>3, <2>2, <4>1
        <5>3. At(e, 4 * i + 3) = 0
          BY Zenon, <1>2, <1>3, <2>1, <4>1
        <5> QED BY Zenon, <5>1, <5>2, <5>3 DEF WordFrom
      <4>4. Joined(a, h, 128, 128)
        BY Zenon, <2>3, JoinedOctets
      <4>5. Shl(128, (8 * n) % 32) = FromOctets(0, 128, 0, 0)
        BY Zenon, <2>4, <4>1 DEF Placed
      <4> QED BY Zenon, <4>2, <4>3, <4>4, <4>5 DEF Joined
    <3>4. CASE n = 4 * i + 3
      <4>1. (8 * n) % 32 = 24 /\ n # 4 * i /\ n # 4 * i + 1 /\ n # 4 * i + 2
            /\ ~(4 * i + 3 < n)
        BY SMT, <3>4
      <4>2. WordFrom(b, i) = FromOctets(0, c, h, a)
        BY Zenon, <1>2, <2>1, <2>2, <4>1 DEF WordFrom
      <4>3. WordFrom(e, i) = FromOctets(128, c, h, a)
        BY ZenonT(30), <1>2, <1>3, <1>4, <2>2, <3>4, <4>1 DEF WordFrom
      <4>4. Joined(a, h, c, 128)
        BY Zenon, <2>3, JoinedOctets
      <4>5. Shl(128, (8 * n) % 32) = FromOctets(128, 0, 0, 0)
        BY Zenon, <2>4, <4>1 DEF Placed
      <4> QED BY Zenon, <4>2, <4>3, <4>4, <4>5 DEF Joined
    <3>5. n = 4 * i \/ n = 4 * i + 1 \/ n = 4 * i + 2 \/ n = 4 * i + 3
      BY SMT, <1>6
    <3> QED BY Zenon, <3>1, <3>2, <3>3, <3>4, <3>5
  <2> QED BY Zenon, <1>1, <1>6, <2>5
<1> QED BY Zenon, <1>5, <1>6

\* The words core_md5 reads: the ended bytes, then the length.
LastWord(last, b) == last = ((8 * Len(b) + 64) \div 512) * 16 + 14
PadsTo(words, e, len, last) ==
  /\ Len(words) = last + 1
  /\ \A i \in Nat : i < last => At(words, i) = WordFrom(e, i)
  /\ At(words, last) = len /\ At(words, last + 1) = 0

\* Pad returns the words of the ended bytes, zeros and the length.
LEMMA PaddedWords ==
  ASSUME NEW b \in Seq(Octet), NEW e, Ended(e, b), NEW last \in Nat, LastWord(last, b)
  PROVE  PadsTo(Pad(Packed(b), 8 * Len(b)), e, 8 * Len(b), last)
<1>0. b \in Seq(Octet) /\ Ended(e, b)
  OBVIOUS
<1>1. PICK len \in Nat : len = 8 * Len(b) /\ last = ((len + 64) \div 512) * 16 + 14
  <2>1. Len(b) \in Nat
    BY Zenon, LenProperties
  <2> QED BY SMT, <2>1 DEF LastWord
<1> DEFINE word(i) == IF i = len \div 32 THEN Or(At(Packed(b), i), Shl(128, len % 32))
                      ELSE At(Packed(b), i)
           f == [p \in 1..last |-> word(p - 1)]
           words == Pad(Packed(b), len)
<1>2. words = f \o <<len>>
  BY ZenonT(30), <1>1 DEF Pad
<1>3. ASSUME NEW i \in Nat PROVE word(i) = WordFrom(e, i)
  <2>1. At(Packed(b), i) = WordFrom(b, i)
    BY Zenon, PackedAt
  <2>2. (IF i = (8 * Len(b)) \div 32 THEN Or(WordFrom(b, i), Shl(128, (8 * Len(b)) % 32))
         ELSE WordFrom(b, i)) = WordFrom(e, i)
    BY ONLY <1>0, i \in Nat, EndedWord, Zenon
  <2> QED BY Zenon, <1>1, <2>1, <2>2
<1> HIDE DEF word, words
<1>4. PICK S : S = {f[p] : p \in 1..last} \cup {len}
  BY Zenon
<1>5. f = [p \in 1..last |-> f[p]] /\ \A p \in 1..last : f[p] = word(p - 1)
  BY Zenon
<1> HIDE DEF f
<1>6. len \in S /\ f \in [1..last -> S]
  <2>1. \A p \in 1..last : f[p] \in S
    BY Zenon, <1>4
  <2>2. [p \in 1..last |-> f[p]] \in [1..last -> S]
    BY Zenon, <2>1
  <2>3. f \in [1..last -> S]
    BY Zenon, <1>5, <2>2
  <2> QED BY Zenon, <1>4, <2>3
<1>7. f \in Seq(S) /\ Len(f) = last
  BY ONLY <1>6, ArrayIs, Zenon
<1>8. PICK w : One(w, len) /\ words = f \o w
  BY Zenon, <1>2 DEF One
<1>9. PICK g \in Seq(S) : Longer(g, f, w, len)
  <2>1. One(w, len)
    BY Zenon, <1>8
  <2> QED BY Zenon, <1>6, <1>7, <2>1, Appended
<1>10. words = g /\ Len(g) = last + 1 /\ g[last + 1] = len /\ \A p \in 1..last : g[p] = f[p]
  BY Zenon, <1>7, <1>8, <1>9 DEF Longer
<1>11. ASSUME NEW i \in Nat, i < last PROVE At(g, i) = WordFrom(e, i)
  <2>1. i + 1 \in 1..last /\ (i + 1) - 1 = i /\ i < last + 1
    BY SMT, <1>11
  <2>2. PICK j \in 1..last : j = i + 1 /\ j - 1 = i
    BY Zenon, <2>1
  <2>3. g[j] = f[j]
    BY ONLY <1>10, <2>2, Zenon
  <2>4. f[j] = word(j - 1)
    BY Zenon, <1>5, <2>2
  <2>5. i < Len(g)
    BY Zenon, <1>10, <2>1
  <2>6. At(g, i) = g[j]
    BY Zenon, <2>2, <2>5 DEF At
  <2>7. word(i) = WordFrom(e, i)
    BY Zenon, <1>3
  <2> QED BY Zenon, <2>2, <2>3, <2>4, <2>6, <2>7
<1>12. At(g, last) = len /\ At(g, last + 1) = 0
  <2>1. last < last + 1 /\ ~(last + 1 < last + 1)
    BY SMT
  <2>2. last < Len(g) /\ ~(last + 1 < Len(g))
    <3>1. Len(g) = last + 1
      BY Zenon, <1>10
    <3> QED BY SMT, <3>1
  <2>3. g[last + 1] = len
    BY Zenon, <1>10
  <2> QED BY Zenon, <2>2, <2>3 DEF At
<1>13. Len(g) = last + 1
  BY Zenon, <1>10
<1>14. Pad(Packed(b), 8 * Len(b)) = g
  BY Zenon, <1>1, <1>10 DEF words
<1>15. PadsTo(g, e, len, last)
  BY Zenon, <1>11, <1>12, <1>13 DEF PadsTo
<1> QED BY Zenon, <1>1, <1>14, <1>15

\* The bytes of a length.
LengthIn(L, len) ==
  /\ L = LengthBytes(len) /\ L \in Seq(Octet) /\ Len(L) = 8
  /\ \A j \in 0..3 : (len \div 2^(8 * j)) % 256 = L[j + 1] /\ L[4 + (j + 1)] = 0

\* The length as eight bytes, and their places in its word.
LEMMA LengthDivided ==
  ASSUME NEW len \in Nat, len < 2^30
  PROVE  \E L : LengthIn(L, len)
<1>0. 2^30 = 1073741824
  BY SMT
<1>1. /\ len % 256 \in Octet /\ (len \div 256) % 256 \in Octet /\ (len \div 65536) % 256 \in Octet
  BY SMT DEF Octet
<1>2. len \div 16777216 \in Octet /\ (len \div 16777216) % 256 = len \div 16777216
  BY SMT, <1>0 DEF Octet
<1>3. PICK l0, l1, l2, l3 \in Octet :
        l0 = len % 256 /\ l1 = (len \div 256) % 256 /\ l2 = (len \div 65536) % 256 /\ l3 = len \div 16777216
  BY SMT, <1>1, <1>2
<1>4. PICK L : L = LengthBytes(len) /\ L = <<l0, l1, l2, l3, 0, 0, 0, 0>>
  <2>1. LengthBytes(len) = <<l0, l1, l2, l3, 0, 0, 0, 0>>
    BY SMT, <1>3 DEF LengthBytes
  <2> QED BY Zenon, <2>1
<1>5. Len(L) = 8 /\ L[1] = l0 /\ L[2] = l1 /\ L[3] = l2 /\ L[4] = l3
      /\ L[5] = 0 /\ L[6] = 0 /\ L[7] = 0 /\ L[8] = 0
  BY SMT, <1>4
<1>6. L \in Seq(Octet)
  <2>1. 0 \in Octet
    BY SMT DEF Octet
  <2> QED BY SMT, <1>4, <2>1
<1>7. /\ 2^(8 * 0) = 1 /\ 2^(8 * 1) = 256 /\ 2^(8 * 2) = 65536 /\ 2^(8 * 3) = 16777216
      /\ len \div 1 = len
  BY SMT
<1>8. /\ (len \div 2^(8 * 0)) % 256 = l0 /\ (len \div 2^(8 * 1)) % 256 = l1
      /\ (len \div 2^(8 * 2)) % 256 = l2 /\ (len \div 2^(8 * 3)) % 256 = l3
  BY SMT, <1>2, <1>3, <1>7
<1>9. /\ 0 + 1 = 1 /\ 1 + 1 = 2 /\ 2 + 1 = 3 /\ 3 + 1 = 4 /\ 4 + 1 = 5 /\ 4 + 2 = 6 /\ 4 + 3 = 7 /\ 4 + 4 = 8
      /\ \A j \in 0..3 : j = 0 \/ j = 1 \/ j = 2 \/ j = 3
  BY SMT
<1>10. \A j \in 0..3 : (len \div 2^(8 * j)) % 256 = L[j + 1] /\ L[4 + (j + 1)] = 0
  <2>1. /\ L[0 + 1] = l0 /\ L[1 + 1] = l1 /\ L[2 + 1] = l2 /\ L[3 + 1] = l3
        /\ L[4 + (0 + 1)] = 0 /\ L[4 + (1 + 1)] = 0 /\ L[4 + (2 + 1)] = 0 /\ L[4 + (3 + 1)] = 0
    BY Zenon, <1>5, <1>9
  <2>2. ASSUME NEW j, j = 0 PROVE (len \div 2^(8 * j)) % 256 = L[j + 1] /\ L[4 + (j + 1)] = 0
    BY Zenon, <1>8, <2>1, <2>2
  <2>3. ASSUME NEW j, j = 1 PROVE (len \div 2^(8 * j)) % 256 = L[j + 1] /\ L[4 + (j + 1)] = 0
    BY Zenon, <1>8, <2>1, <2>3
  <2>4. ASSUME NEW j, j = 2 PROVE (len \div 2^(8 * j)) % 256 = L[j + 1] /\ L[4 + (j + 1)] = 0
    BY Zenon, <1>8, <2>1, <2>4
  <2>5. ASSUME NEW j, j = 3 PROVE (len \div 2^(8 * j)) % 256 = L[j + 1] /\ L[4 + (j + 1)] = 0
    BY Zenon, <1>8, <2>1, <2>5
  <2> QED BY Zenon, <1>9, <2>2, <2>3, <2>4, <2>5
<1>11. L = LengthBytes(len) /\ Len(L) = 8
  BY Zenon, <1>4, <1>5
<1>12. LengthIn(L, len)
  BY Zenon, <1>6, <1>10, <1>11 DEF LengthIn
<1> QED BY Zenon, <1>12

\* A sequence followed by another, element by element.
Follows(e, s, t) ==
  /\ e = s \o t /\ e \in Seq(Octet) /\ Len(e) = Len(s) + Len(t)
  /\ \A k \in Nat : k < Len(s) => At(e, k) = At(s, k)
  /\ \A k \in Nat : At(e, Len(s) + k) = At(t, k)

\* One sequence after another, byte by byte.
LEMMA Followed ==
  ASSUME NEW s \in Seq(Octet), NEW t \in Seq(Octet)
  PROVE  \E e \in Seq(Octet) : Follows(e, s, t)
<1>0. Len(s) \in Nat /\ Len(t) \in Nat
  BY Zenon, LenProperties
<1>1. PICK e \in Seq(Octet) : e = s \o t
  BY Zenon, ConcatProperties
<1>2. Len(e) = Len(s) + Len(t)
  BY Zenon, <1>1, ConcatProperties
<1>3. \A i \in 1..(Len(s) + Len(t)) : e[i] = IF i <= Len(s) THEN s[i] ELSE t[i - Len(s)]
  BY Zenon, <1>1, ConcatProperties
<1>4. ASSUME NEW k \in Nat, k < Len(s) PROVE At(e, k) = At(s, k)
  <2>1. k + 1 \in 1..(Len(s) + Len(t)) /\ k + 1 <= Len(s) /\ k < Len(e)
    BY SMT, <1>0, <1>2, <1>4
  <2> QED BY Zenon, <1>3, <1>4, <2>1 DEF At
<1>5. ASSUME NEW k \in Nat PROVE At(e, Len(s) + k) = At(t, k)
  <2>1. CASE k < Len(t)
    <3>1. /\ (Len(s) + k) + 1 \in 1..(Len(s) + Len(t)) /\ ~((Len(s) + k) + 1 <= Len(s))
          /\ Len(s) + k < Len(e) /\ ((Len(s) + k) + 1) - Len(s) = k + 1
      BY SMT, <1>0, <1>2, <2>1
    <3>2. PICK i \in 1..(Len(s) + Len(t)) : i = (Len(s) + k) + 1
      BY Zenon, <3>1
    <3>3. e[i] = t[i - Len(s)]
      <4>1. ~(i <= Len(s))
        BY Zenon, <3>1, <3>2
      <4> QED BY ONLY <1>3, <4>1, i \in 1..(Len(s) + Len(t)), Zenon
    <3> QED BY Zenon, <2>1, <3>1, <3>2, <3>3 DEF At
  <2>2. CASE ~(k < Len(t))
    <3>1. ~(Len(s) + k < Len(e))
      BY SMT, <1>0, <1>2, <2>2
    <3> QED BY Zenon, <2>2, <3>1 DEF At
  <2> QED BY Zenon, <2>1, <2>2
<1>6. Follows(e, s, t)
  BY Zenon, <1>1, <1>2, <1>4, <1>5 DEF Follows
<1> QED BY Zenon, <1>6

\* The zero bytes of the padding: the number of them, and of whole blocks before
\* the last.
ZerosOf(n) == CHOOSE z \in 0..63 : (n + 1 + z) % 64 = 56

\* The fewest zeros that fill the last block up to the length.
LEMMA ZerosFill ==
  ASSUME NEW n \in Nat
  PROVE  \E z \in Nat, q \in Nat : /\ z = ZerosOf(n) /\ n + 1 + z = 64 * q + 56
                                   /\ ((8 * n + 64) \div 512) * 16 + 14 = 16 * q + 14
<1>1. \E z \in 0..63 : (n + 1 + z) % 64 = 56
  <2>1. (55 - n) % 64 \in 0..63 /\ (n + 1 + ((55 - n) % 64)) % 64 = 56
    BY SMT
  <2> QED BY Zenon, <2>1
<1>2. PICK z \in 0..63 : z = ZerosOf(n) /\ (n + 1 + z) % 64 = 56
  BY Zenon, <1>1 DEF ZerosOf
<1>3. PICK q \in Int : q = (n + 1 + z) \div 64
  BY SMT
<1>4. n + 1 + z = 64 * q + 56
  BY SMT, <1>2, <1>3
<1>5. q \in Nat /\ z \in Nat
  BY SMT, <1>4
<1>6. ((8 * n + 64) \div 512) = q
  BY SMT, <1>4, <1>5
<1>7. ((8 * n + 64) \div 512) * 16 + 14 = 16 * q + 14
  BY SMT, <1>6
<1>8. z = ZerosOf(n)
  BY Zenon, <1>2
<1> WITNESS z \in Nat, q \in Nat
<1> QED BY Zenon, <1>4, <1>7, <1>8

\* A run of zero bytes.
Run(Z, z) == Z \in Seq(Octet) /\ Len(Z) = z /\ \A k \in Nat : At(Z, k) = 0

LEMMA Zeros == ASSUME NEW z \in Nat PROVE Run([k \in 1..z |-> 0], z)
<1>1. PICK f : f = [k \in 1..z |-> 0]
  BY Zenon
<1>2. f \in [1..z -> Octet]
  BY Zenon, <1>1, NoOctets
<1>3. f \in Seq(Octet) /\ Len(f) = z
  BY Zenon, <1>2, ArrayIs
<1>4. ASSUME NEW k \in Nat PROVE At(f, k) = 0
  <2>1. CASE k < z
    <3>1. k + 1 \in 1..z
      BY SMT, <2>1
    <3>2. f[k + 1] = 0
      BY Zenon, <1>1, <3>1
    <3> QED BY Zenon, <1>3, <2>1, <3>2 DEF At
  <2>2. CASE ~(k < z)
    BY Zenon, <1>3, <2>2 DEF At
  <2> QED BY Zenon, <2>1, <2>2
<1> QED BY Zenon, <1>1, <1>3, <1>4 DEF Run

\* The padded bytes: the ended ones, zeros, and the eight bytes of the length.
WantedBytes(b, z) == b \o <<128>> \o [k \in 1..z |-> 0] \o LengthBytes(8 * Len(b))

FilledTo(b, z, q, L) ==
  /\ Len(b) + 1 + z = 64 * q + 56
  /\ L \in Seq(Octet) /\ Len(L) = 8 /\ L = LengthBytes(8 * Len(b))

\* What they are, z zeros being needed to fill q blocks but for the length.
Wanted(m, e, L, q) ==
  /\ m \in Seq(Octet) /\ Len(m) = 64 * q + 64
  /\ \A k \in Nat : k < 64 * q + 56 => At(m, k) = At(e, k)
  /\ \A k \in Nat : At(m, (64 * q + 56) + k) = At(L, k)

\* The bytes RFC 1321 wants, each at its place.
LEMMA WantedAre ==
  ASSUME NEW b \in Seq(Octet), NEW e, Ended(e, b), NEW z \in Nat, NEW q \in Nat,
         NEW L, FilledTo(b, z, q, L)
  PROVE  Wanted(WantedBytes(b, z), e, L, q)
<1>1. PICK n \in Nat : n = Len(b) /\ n + 1 + z = 64 * q + 56
  BY Zenon, LenProperties DEF FilledTo
<1>2. /\ e \in Seq(Octet) /\ Len(e) = n + 1
  <2>1. b \in Seq(Octet) /\ Ended(e, b)
    OBVIOUS
  <2>2. e \in Seq(Octet) /\ Len(e) = Len(b) + 1
    BY ONLY <2>1, EndedBytes, Zenon
  <2> QED BY Zenon, <1>1, <2>2
<1>3. PICK Z \in Seq(Octet) : Z = [k \in 1..z |-> 0] /\ Run(Z, z)
  BY Zenon, Zeros DEF Run
<1>4. PICK c \in Seq(Octet) : Follows(c, e, Z)
  BY ONLY <1>2, Z \in Seq(Octet), Followed, Zenon
<1>5. PICK m \in Seq(Octet) : Follows(m, c, L)
  <2>1. L \in Seq(Octet)
    BY Zenon DEF FilledTo
  <2> QED BY ONLY <2>1, c \in Seq(Octet), Followed, Zenon
<1>6. m = WantedBytes(b, z)
  <2>1. e = b \o <<128>> /\ L = LengthBytes(8 * Len(b))
    BY Zenon DEF Ended, FilledTo
  <2>2. c = e \o Z /\ m = c \o L
    BY Zenon, <1>4, <1>5 DEF Follows
  <2> QED BY Zenon, <1>3, <2>1, <2>2 DEF WantedBytes
<1>7. Len(c) = 64 * q + 56
  <2>1. Len(c) = Len(e) + Len(Z) /\ Len(Z) = z
    BY Zenon, <1>3, <1>4 DEF Follows, Run
  <2> QED BY SMT, <1>1, <1>2, <2>1
<1>8. Len(m) = 64 * q + 64
  <2>1. Len(m) = Len(c) + Len(L) /\ Len(L) = 8
    BY Zenon, <1>5 DEF Follows, FilledTo
  <2> QED BY SMT, <1>7, <2>1
<1>9. ASSUME NEW k \in Nat, k < 64 * q + 56 PROVE At(m, k) = At(e, k)
  <2>1. At(m, k) = At(c, k)
    BY Zenon, <1>5, <1>7, <1>9 DEF Follows
  <2>2. CASE k < Len(e)
    BY Zenon, <1>4, <2>1, <2>2 DEF Follows
  <2>3. CASE ~(k < Len(e))
    <3>1. PICK j \in Nat : k = Len(e) + j
      <4>1. k - Len(e) \in Nat /\ k = Len(e) + (k - Len(e))
        BY SMT, <1>2, <2>3
      <4> QED BY Zenon, <4>1
    <3>2. At(c, k) = 0
      BY Zenon, <1>3, <1>4, <3>1 DEF Follows, Run
    <3>3. At(e, k) = 0
      BY Zenon, <2>3 DEF At
    <3> QED BY Zenon, <2>1, <3>2, <3>3
  <2> QED BY Zenon, <2>2, <2>3
<1>10. ASSUME NEW k \in Nat PROVE At(m, (64 * q + 56) + k) = At(L, k)
  BY Zenon, <1>5, <1>7 DEF Follows
<1>11. Wanted(m, e, L, q)
  BY Zenon, <1>8, <1>9, <1>10 DEF Wanted
<1> QED BY Zenon, <1>6, <1>11

\* The bytes of the words that core_md5 reads.
BlocksOf(want, words) ==
  /\ Len(words) \in (Len(want) \div 4 - 15)..(Len(want) \div 4)
  /\ \A k \in 0..(Len(want) - 1) :
       (At(words, k \div 4) \div 2^(8 * (k % 4))) % 256 = want[k + 1]

LEMMA ByteScales == \A j \in 0..3 : 2^(8 * j) \in Nat /\ 2^(8 * j) > 0
<1>1. /\ 2^(8 * 0) = 1 /\ 2^(8 * 1) = 256 /\ 2^(8 * 2) = 65536 /\ 2^(8 * 3) = 16777216
  BY SMT
<1>2. \A j \in 0..3 : j = 0 \/ j = 1 \/ j = 2 \/ j = 3
  BY SMT
<1>3. /\ 2^(8 * 0) \in Nat /\ 2^(8 * 0) > 0 /\ 2^(8 * 1) \in Nat /\ 2^(8 * 1) > 0
      /\ 2^(8 * 2) \in Nat /\ 2^(8 * 2) > 0 /\ 2^(8 * 3) \in Nat /\ 2^(8 * 3) > 0
  BY SMT, <1>1
<1>4. ASSUME NEW j \in 0..3 PROVE 2^(8 * j) \in Nat /\ 2^(8 * j) > 0
  <2>1. CASE j = 0
    BY Zenon, <1>3, <2>1
  <2>2. CASE j = 1
    BY Zenon, <1>3, <2>2
  <2>3. CASE j = 2
    BY Zenon, <1>3, <2>3
  <2>4. CASE j = 3
    BY Zenon, <1>3, <2>4
  <2> QED BY Zenon, <1>2, <2>1, <2>2, <2>3, <2>4
<1> QED BY Zenon, <1>4

\* The words of Pad hold these bytes: the message and the byte 128, zeros, the length.
LEMMA WordsOfBlocks ==
  ASSUME NEW e \in Seq(Octet), NEW len \in Nat, NEW q \in Nat, NEW words, NEW last \in Nat,
         PadsTo(words, e, len, last), NEW L, LengthIn(L, len),
         NEW want, Wanted(want, e, L, q), last = 16 * q + 14
  PROVE  BlocksOf(want, words)
<1>1. Len(want) = 64 * q + 64 /\ Len(words) = last + 1
  BY Zenon DEF Wanted, PadsTo
<1>2. Len(words) \in (Len(want) \div 4 - 15)..(Len(want) \div 4)
  BY SMT, <1>1
<1>3. ASSUME NEW k \in 0..(Len(want) - 1)
      PROVE  (At(words, k \div 4) \div 2^(8 * (k % 4))) % 256 = want[k + 1]
  <2>1. k \in Nat /\ k < 64 * q + 64 /\ k < Len(want)
    BY SMT, <1>1
  <2>2. want[k + 1] = At(want, k)
    BY Zenon, <2>1 DEF At
  <2>3. CASE k < 64 * q + 56
    <3>1. PICK i \in Nat : i = k \div 4 /\ i < last
      BY SMT, <2>1, <2>3
    <3>2. At(words, i) = WordFrom(e, i)
      BY Zenon, <3>1 DEF PadsTo
    <3>3. At(words, i) = At(Packed(e), i)
      BY Zenon, <3>2, PackedAt
    <3>4. At(words, k \div 4) = At(Packed(e), k \div 4)
      BY Zenon, <3>1, <3>3
    <3>5. (At(Packed(e), k \div 4) \div 2^(8 * (k % 4))) % 256 = At(e, k)
      BY Zenon, <2>1, ByteAt
    <3>6. At(want, k) = At(e, k)
      BY Zenon, <2>1, <2>3 DEF Wanted
    <3> QED BY Zenon, <2>2, <3>4, <3>5, <3>6
  <2>4. CASE ~(k < 64 * q + 56)
    <3>1. PICK m \in Nat : k = (64 * q + 56) + m /\ m < 8
      <4>1. k - (64 * q + 56) \in Nat /\ k = (64 * q + 56) + (k - (64 * q + 56))
            /\ k - (64 * q + 56) < 8
        BY SMT, <2>1, <2>4
      <4> QED BY Zenon, <4>1
    <3>2. At(want, k) = At(L, m)
      BY Zenon, <3>1 DEF Wanted
    <3>3. At(L, m) = L[m + 1]
      BY Zenon, <3>1 DEF At, LengthIn
    <3>4. CASE m < 4
      <4>1. PICK j \in 0..3 : j = m /\ k \div 4 = last /\ k % 4 = j
        <5>1. m \in 0..3 /\ k \div 4 = last /\ k % 4 = m
          BY SMT, <3>1, <3>4
        <5> QED BY Zenon, <5>1
      <4>2. (len \div 2^(8 * j)) % 256 = L[j + 1]
        BY Zenon DEF LengthIn
      <4>3. At(words, last) = len
        BY Zenon DEF PadsTo
      <4> QED BY Zenon, <2>2, <3>2, <3>3, <4>1, <4>2, <4>3
    <3>5. CASE ~(m < 4)
      <4>1. PICK j \in 0..3 : m + 1 = 4 + (j + 1) /\ k \div 4 = last + 1 /\ k % 4 = j
        <5>1. m - 4 \in 0..3 /\ m + 1 = 4 + ((m - 4) + 1) /\ k \div 4 = last + 1 /\ k % 4 = m - 4
          BY SMT, <3>1, <3>5
        <5> QED BY Zenon, <5>1
      <4>2. L[4 + (j + 1)] = 0
        BY Zenon DEF LengthIn
      <4>3. At(words, last + 1) = 0
        BY Zenon DEF PadsTo
      <4>4. 2^(8 * j) \in Nat /\ 2^(8 * j) > 0
        BY Zenon, <4>1, ByteScales
      <4>5. (0 \div 2^(8 * j)) % 256 = 0
        <5>1. PICK s \in Nat : s = 2^(8 * j) /\ s > 0
          BY Zenon, <4>4
        <5>2. (0 \div s) % 256 = 0
          BY SMT, <5>1
        <5> QED BY Zenon, <5>1, <5>2
      <4> QED BY Zenon, <2>2, <3>2, <3>3, <4>1, <4>2, <4>3, <4>5
    <3> QED BY Zenon, <3>4, <3>5
  <2> QED BY Zenon, <2>3, <2>4
<1> QED BY Zenon, <1>2, <1>3 DEF BlocksOf

\* So Pad does what RFC 1321 says, for the words of any bytes ...
LEMMA BlocksPadded ==
  ASSUME NEW b \in Seq(Octet), 8 * Len(b) < 2^30
  PROVE  BlocksOf(WantedBytes(b, ZerosOf(Len(b))), Pad(Packed(b), 8 * Len(b)))
<1>1. PICK n \in Nat : n = Len(b)
  BY Zenon, LenProperties
<1>2. PICK z \in Nat, q \in Nat : /\ z = ZerosOf(n) /\ n + 1 + z = 64 * q + 56
                                  /\ ((8 * n + 64) \div 512) * 16 + 14 = 16 * q + 14
  BY ZenonT(30), ZerosFill
<1>3. PICK last \in Nat : last = 16 * q + 14 /\ LastWord(last, b)
  <2>1. 16 * q + 14 \in Nat
    BY SMT
  <2> QED BY Zenon, <1>1, <1>2, <2>1 DEF LastWord
<1>4. PICK e : Ended(e, b)
  BY Zenon DEF Ended
<1>5. PICK len \in Nat : len = 8 * Len(b) /\ len < 2^30
  <2>1. 8 * n \in Nat
    BY SMT
  <2> QED BY Zenon, <1>1, <2>1
<1>6. PICK L : LengthIn(L, len)
  <2>1. len < 2^30
    BY Zenon, <1>5
  <2> QED BY Zenon, <2>1, LengthDivided
<1>8. FilledTo(b, z, q, L)
  BY Zenon, <1>1, <1>2, <1>5, <1>6 DEF FilledTo, LengthIn
<1>9. PICK words : words = Pad(Packed(b), 8 * Len(b)) /\ PadsTo(words, e, len, last)
  <2>1. LastWord(last, b)
    BY Zenon, <1>3
  <2>2. PadsTo(Pad(Packed(b), 8 * Len(b)), e, 8 * Len(b), last)
    BY Zenon, <1>4, <2>1, PaddedWords
  <2> QED BY Zenon, <1>5, <2>2
<1>10. PICK want : want = WantedBytes(b, z) /\ Wanted(want, e, L, q)
  BY Zenon, <1>4, <1>8, WantedAre
<1>11. e \in Seq(Octet)
  BY Zenon, <1>4, EndedBytes
<1>12. BlocksOf(want, words)
  BY Zenon, <1>3, <1>6, <1>9, <1>10, <1>11, WordsOfBlocks
<1> QED BY Zenon, <1>1, <1>2, <1>9, <1>10, <1>12

\* ... and those of any string.
LEMMA PaddedOfCall ==
  ASSUME NEW str \in Text, NEW set \in Settings
  PROVE  LET bytes == Bytes(str, set)
             n     == Len(bytes)
             zeros == CHOOSE z \in 0..63 : (n + 1 + z) % 64 = 56
             want  == bytes \o <<128>> \o [k \in 1..zeros |-> 0] \o LengthBytes(8 * n)
             words == Pad(str2binl(str, set.chrsz), 8 * n)
         IN  /\ Len(words) \in (Len(want) \div 4 - 15)..(Len(want) \div 4)
             /\ \A k \in 0..(Len(want) - 1) :
                  (At(words, k \div 4) \div 2^(8 * (k % 4))) % 256 = want[k + 1]
<1>1. PICK b \in Seq(Octet) : /\ b = Bytes(str, set) /\ str2binl(str, set.chrsz) = Packed(b)
                             /\ Len(str) * set.chrsz = 8 * Len(b)
  BY Zenon, BytesAre
<1>2. 8 * Len(b) < 2^30
  <2>1. set.chrsz = 8 \/ set.chrsz = 16
    BY Zenon, ToolsAssumption
  <2>2. Len(str) \in Nat /\ Len(str) < 2^26
    BY Zenon, TextType DEF Text
  <2>3. 2^26 = 67108864 /\ 2^30 = 1073741824
    BY SMT
  <2> QED BY SMT, <1>1, <2>1, <2>2, <2>3
<1>3. BlocksOf(WantedBytes(b, ZerosOf(Len(b))), Pad(Packed(b), 8 * Len(b)))
  BY Zenon, <1>2, BlocksPadded
<1> DEFINE zeros(n) == CHOOSE z \in 0..63 : (n + 1 + z) % 64 = 56
           filled(bytes) == bytes \o <<128>> \o [k \in 1..zeros(Len(bytes)) |-> 0]
                            \o LengthBytes(8 * Len(bytes))
<1>4. filled(b) = WantedBytes(b, ZerosOf(Len(b)))
  BY Zenon DEF WantedBytes, ZerosOf
<1>5. Bytes(str, set) = b /\ filled(Bytes(str, set)) = filled(b)
  BY Zenon, <1>1
<1>6. PICK want, words : /\ want = filled(Bytes(str, set)) /\ BlocksOf(want, words)
                         /\ words = Pad(str2binl(str, set.chrsz), 8 * Len(Bytes(str, set)))
  <2> HIDE DEF filled
  <2> QED BY Zenon, <1>1, <1>3, <1>4, <1>5
<1>7. /\ Len(words) \in (Len(want) \div 4 - 15)..(Len(want) \div 4)
      /\ \A k \in 0..(Len(want) - 1) :
           (At(words, k \div 4) \div 2^(8 * (k % 4))) % 256 = want[k + 1]
  BY Zenon, <1>6 DEF BlocksOf
<1> QED BY ONLY <1>6, <1>7, ZenonT(30)

-----------------------------------------------------------------------------
(* HMAC *)

\* The common bits of two digits: what is left of their sum is a digit, with the
\* high bit of the first if the second has none.
LEMMA CommonDigit ==
  ASSUME NEW p \in 0..15, NEW q \in 0..15
  PROVE  \E a \in 0..15 : /\ a = AndDigit[p][q] /\ a <= p /\ a <= q /\ p + q - 2 * a <= 15
                          /\ q < 8 => a < 8 /\ (p >= 8 <=> p + q - 2 * a >= 8)
<1> DEFINE both(w) == IF (p \div w) % 2 = 1 /\ (q \div w) % 2 = 1 THEN w ELSE 0
<1>1. AndDigit[p][q] = both(1) + both(2) + both(4) + both(8)
  BY SMT DEF AndDigit
<1>2. PICK p0 \in 0..1, p1 \in 0..1, p2 \in 0..1, p3 \in 0..1 :
        /\ p0 = (p \div 1) % 2 /\ p1 = (p \div 2) % 2 /\ p2 = (p \div 4) % 2 /\ p3 = (p \div 8) % 2
        /\ p = p0 + 2 * p1 + 4 * p2 + 8 * p3
  <2>1. /\ (p \div 1) % 2 \in 0..1 /\ (p \div 2) % 2 \in 0..1 /\ (p \div 4) % 2 \in 0..1
        /\ (p \div 8) % 2 \in 0..1
        /\ p = ((p \div 1) % 2) + 2 * ((p \div 2) % 2) + 4 * ((p \div 4) % 2) + 8 * ((p \div 8) % 2)
    BY SMT
  <2> QED BY Zenon, <2>1
<1>3. PICK q0 \in 0..1, q1 \in 0..1, q2 \in 0..1, q3 \in 0..1 :
        /\ q0 = (q \div 1) % 2 /\ q1 = (q \div 2) % 2 /\ q2 = (q \div 4) % 2 /\ q3 = (q \div 8) % 2
        /\ q = q0 + 2 * q1 + 4 * q2 + 8 * q3
  <2>1. /\ (q \div 1) % 2 \in 0..1 /\ (q \div 2) % 2 \in 0..1 /\ (q \div 4) % 2 \in 0..1
        /\ (q \div 8) % 2 \in 0..1
        /\ q = ((q \div 1) % 2) + 2 * ((q \div 2) % 2) + 4 * ((q \div 4) % 2) + 8 * ((q \div 8) % 2)
    BY SMT
  <2> QED BY Zenon, <2>1
<1>4. /\ both(1) = (IF p0 = 1 /\ q0 = 1 THEN 1 ELSE 0) /\ both(2) = (IF p1 = 1 /\ q1 = 1 THEN 2 ELSE 0)
      /\ both(4) = (IF p2 = 1 /\ q2 = 1 THEN 4 ELSE 0) /\ both(8) = (IF p3 = 1 /\ q3 = 1 THEN 8 ELSE 0)
  BY Zenon, <1>2, <1>3
<1>5. PICK b0 \in 0..1, b1 \in 0..1, b2 \in 0..1, b3 \in 0..1 :
        /\ both(1) = b0 /\ both(2) = 2 * b1 /\ both(4) = 4 * b2 /\ both(8) = 8 * b3
        /\ b0 <= p0 /\ b1 <= p1 /\ b2 <= p2 /\ b3 <= p3
        /\ b0 <= q0 /\ b1 <= q1 /\ b2 <= q2 /\ b3 <= q3
        /\ p0 + q0 - 2 * b0 \in 0..1 /\ p1 + q1 - 2 * b1 \in 0..1
        /\ p2 + q2 - 2 * b2 \in 0..1 /\ p3 + q3 - 2 * b3 \in 0..1
  <2> HIDE DEF both
  <2>1. PICK b0 \in 0..1 : both(1) = b0 /\ b0 <= p0 /\ b0 <= q0 /\ p0 + q0 - 2 * b0 \in 0..1
    <3>1. p0 = 1 /\ q0 = 1 => p0 + q0 - 2 * 1 \in 0..1
      BY SMT
    <3>2. ~(p0 = 1 /\ q0 = 1) => p0 + q0 - 2 * 0 \in 0..1
      BY SMT
    <3> QED BY SMT, <1>4, <3>1, <3>2
  <2>2. PICK b1 \in 0..1 : both(2) = 2 * b1 /\ b1 <= p1 /\ b1 <= q1 /\ p1 + q1 - 2 * b1 \in 0..1
    BY SMT, <1>4
  <2>3. PICK b2 \in 0..1 : both(4) = 4 * b2 /\ b2 <= p2 /\ b2 <= q2 /\ p2 + q2 - 2 * b2 \in 0..1
    BY SMT, <1>4
  <2>4. PICK b3 \in 0..1 : both(8) = 8 * b3 /\ b3 <= p3 /\ b3 <= q3 /\ p3 + q3 - 2 * b3 \in 0..1
    BY SMT, <1>4
  <2> QED BY Zenon, <2>1, <2>2, <2>3, <2>4
<1>6. PICK a \in Int : a = AndDigit[p][q] /\ a = b0 + 2 * b1 + 4 * b2 + 8 * b3
  <2> HIDE DEF both
  <2> QED BY SMT, <1>1, <1>5
<1>7. a \in 0..15 /\ a <= p /\ a <= q /\ p + q - 2 * a <= 15
  BY SMT, <1>2, <1>3, <1>5, <1>6
<1>8. q < 8 => a < 8 /\ (p >= 8 <=> p + q - 2 * a >= 8)
  <2>1. q < 8 => q3 = 0 /\ b3 = 0
    BY SMT, <1>3, <1>5
  <2>2. p >= 8 <=> p3 = 1
    BY SMT, <1>2
  <2> QED BY SMT, <1>2, <1>3, <1>5, <1>6, <2>1, <2>2
<1> QED BY Zenon, <1>6, <1>7, <1>8

\* So for octets.
Common(v, m, a) ==
  /\ a = AndOctet(v, m) /\ a \in 0..127 /\ v + m - 2 * a \in 0..255
  /\ v >= 128 <=> v + m - 2 * a >= 128

LEMMA CommonPart ==
  ASSUME NEW h \in 0..15, NEW g \in 0..15, NEW b \in 0..15, b <= h, b <= g, h + g - 2 * b <= 15
  PROVE  h + g - 2 * b \in 0..15
<1>1. h + g - 2 * b >= 0
  BY SMT
<1> QED BY SMT, <1>1

\* What an octet and a pad have in common is an octet.
LEMMA CommonOctet ==
  ASSUME NEW v \in 0..255, NEW m \in 0..127
  PROVE  \E a : Common(v, m, a)
<1>1. PICK h \in 0..15, l \in 0..15 : h = v \div 16 /\ l = v % 16 /\ v = 16 * h + l
  BY Zenon, Nibbles
<1>2. m \in 0..255
  BY SMT
<1>3. PICK g \in 0..15, k \in 0..15 : g = m \div 16 /\ k = m % 16 /\ m = 16 * g + k
  BY Zenon, <1>2, Nibbles
<1>4. PICK b \in 0..15 : /\ b = AndDigit[h][g] /\ b <= h /\ b <= g /\ h + g - 2 * b <= 15
                         /\ g < 8 => b < 8 /\ (h >= 8 <=> h + g - 2 * b >= 8)
  BY Zenon, CommonDigit
<1>5. PICK c \in 0..15 : /\ c = AndDigit[l][k] /\ c <= l /\ c <= k /\ l + k - 2 * c <= 15
                         /\ k < 8 => c < 8 /\ (l >= 8 <=> l + k - 2 * c >= 8)
  BY Zenon, CommonDigit
<1>6. /\ b <= h /\ b <= g /\ h + g - 2 * b <= 15 /\ c <= l /\ c <= k /\ l + k - 2 * c <= 15
      /\ g < 8 => b < 8
  BY Zenon, <1>4, <1>5
<1>7. g < 8
  BY SMT, <1>3
<1>8. PICK a \in Int : a = 16 * b + c /\ a = AndOctet(v, m)
  <2>1. AndOctet(v, m) = 16 * b + c
    BY Zenon, <1>1, <1>3, <1>4, <1>5 DEF AndOctet
  <2> QED BY SMT, <2>1
<1>9. b < 8
  BY Zenon, <1>7, <1>6
<1>10. 16 * b + c \in 0..127
  BY SMT, <1>9
<1>11. a = 16 * b + c
  BY Zenon, <1>8
<1>12. a \in 0..127
  BY SMT, <1>10, <1>11
<1>13. v + m - 2 * a = 16 * (h + g - 2 * b) + (l + k - 2 * c)
  BY SMT, <1>1, <1>3, <1>8
<1>14. PICK x \in 0..15, y \in 0..15 : x = h + g - 2 * b /\ y = l + k - 2 * c
  <2>1. h + g - 2 * b \in 0..15
    BY Zenon, <1>6, CommonPart
  <2>2. l + k - 2 * c \in 0..15
    BY Zenon, <1>6, CommonPart
  <2> QED BY Zenon, <2>1, <2>2
<1>15. v + m - 2 * a \in 0..255
  BY SMT, <1>13, <1>14
<1>16. h >= 8 <=> x >= 8
  BY Zenon, <1>4, <1>7, <1>14
<1>17. v >= 128 <=> v + m - 2 * a >= 128
  BY SMT, <1>1, <1>13, <1>14, <1>16
<1> QED BY Zenon, <1>8, <1>12, <1>15, <1>17 DEF Common

LEMMA LowOctet == ASSUME NEW v \in Octet PROVE FromOctets(0, 0, 0, v) = v
<1>1. v \in Int
  BY SMT DEF Octet
<1> QED BY SMT, <1>1 DEF FromOctets

Xored(v, m, a) == Xor(v, m) = v + m - 2 * a /\ Xor(v, m) \in Octet

\* Their xor is one, too.
LEMMA XorOctet ==
  ASSUME NEW v \in Octet, NEW m \in 0..127, NEW a, Common(v, m, a)
  PROVE  Xored(v, m, a)
<1>1. m \in Octet /\ 0 \in Octet
  BY SMT DEF Octet
<1>2. PICK p : Spelled(p, 0, 0, 0, v)
  BY ONLY <1>1, v \in Octet, Spells, Zenon
<1>3. PICK q : Spelled(q, 0, 0, 0, m)
  BY ONLY <1>1, Spells, Zenon
<1>4. And(WordOf(p), WordOf(q))
        = FromOctets(AndOctet(p[1], q[1]), AndOctet(p[2], q[2]), AndOctet(p[3], q[3]), AndOctet(p[4], q[4]))
  BY Zenon, <1>2, <1>3, AndWords DEF Spelled
<1>5. AndOctet(0, 0) = 0
  BY Zenon, <1>1, AndZero
<1>6. And(WordOf(p), WordOf(q)) = FromOctets(0, 0, 0, a)
  BY Zenon, <1>2, <1>3, <1>4, <1>5 DEF Spelled, Common
<1>7. a \in Octet
  <2>1. a \in 0..127
    BY Zenon DEF Common
  <2> QED BY SMT, <2>1 DEF Octet
<1>8. WordOf(p) = v /\ WordOf(q) = m /\ FromOctets(0, 0, 0, a) = a
  BY Zenon, <1>1, <1>2, <1>3, <1>7, LowOctet DEF Spelled
<1>9. And(v, m) = a
  BY Zenon, <1>6, <1>8
<1>10. Xor(v, m) = (v - a) + (m - a)
  BY Zenon, <1>9 DEF Xor
<1>11. (v - a) + (m - a) = v + m - 2 * a
  BY SMT, <1>1, <1>7 DEF Octet
<1>12. v + m - 2 * a \in Octet
  BY Zenon DEF Common, Octet
<1> QED BY Zenon, <1>10, <1>11, <1>12 DEF Xored

\* A word with the same octet put to each of its octets.
Each(m) == FromOctets(m, m, m, m)

XorsTo(d, c, b, a, m) ==
  Xor(FromOctets(d, c, b, a), Each(m)) = FromOctets(Xor(d, m), Xor(c, m), Xor(b, m), Xor(a, m))

\* The xor of a word with a pad whose octets are all the same is that of its octets.
LEMMA XorWord ==
  ASSUME NEW d \in Octet, NEW c \in Octet, NEW b \in Octet, NEW a \in Octet, NEW m \in 0..127
  PROVE  XorsTo(d, c, b, a, m)
<1>1. d \in 0..255 /\ c \in 0..255 /\ b \in 0..255 /\ a \in 0..255
  BY Zenon DEF Octet
<1>2. PICK dm, cm, bm, am : Common(d, m, dm) /\ Common(c, m, cm) /\ Common(b, m, bm) /\ Common(a, m, am)
  BY Zenon, <1>1, CommonOctet
<1>3. PICK p : Spelled(p, d, c, b, a)
  BY ONLY d \in Octet, c \in Octet, b \in Octet, a \in Octet, Spells, Zenon
<1>4. m \in Octet
  BY SMT DEF Octet
<1>5. PICK q : Spelled(q, m, m, m, m)
  BY ONLY <1>4, Spells, Zenon
<1>6. And(WordOf(p), WordOf(q))
        = FromOctets(AndOctet(p[1], q[1]), AndOctet(p[2], q[2]), AndOctet(p[3], q[3]), AndOctet(p[4], q[4]))
  BY Zenon, <1>3, <1>5, AndWords DEF Spelled
<1>7. And(FromOctets(d, c, b, a), Each(m)) = FromOctets(dm, cm, bm, am)
  BY Zenon, <1>2, <1>3, <1>5, <1>6 DEF Spelled, Common, Each
<1>8. /\ dm \in 0..127 /\ cm \in 0..127 /\ bm \in 0..127 /\ am \in 0..127
      /\ d >= 128 <=> d + m - 2 * dm >= 128
  BY Zenon, <1>2 DEF Common
<1>9. PICK s \in Int : s = (IF d >= 128 THEN d - 256 ELSE d)
  BY SMT, <1>1
<1>10. PICK x \in Int : x = FromOctets(d, c, b, a) /\ x = s * 16777216 + c * 65536 + b * 256 + a
  <2>1. s * 16777216 + c * 65536 + b * 256 + a \in Int
    BY SMT, <1>1
  <2> QED BY SMT, <1>9, <2>1 DEF FromOctets
<1>11. PICK y \in Int : y = Each(m) /\ y = m * 16777216 + m * 65536 + m * 256 + m
  BY SMT DEF FromOctets, Each
<1>12. PICK z \in Int : z = FromOctets(dm, cm, bm, am) /\ z = dm * 16777216 + cm * 65536 + bm * 256 + am
  BY SMT, <1>8 DEF FromOctets
<1>13. FromOctets(d + m - 2 * dm, c + m - 2 * cm, b + m - 2 * bm, a + m - 2 * am)
         = (s + m - 2 * dm) * 16777216 + (c + m - 2 * cm) * 65536 + (b + m - 2 * bm) * 256 + (a + m - 2 * am)
  <2>1. (IF d + m - 2 * dm >= 128 THEN (d + m - 2 * dm) - 256 ELSE d + m - 2 * dm) = s + m - 2 * dm
    BY SMT, <1>1, <1>8, <1>9
  <2> QED BY SMT, <2>1 DEF FromOctets
<1>14. (x - z) + (y - z)
         = (s + m - 2 * dm) * 16777216 + (c + m - 2 * cm) * 65536 + (b + m - 2 * bm) * 256 + (a + m - 2 * am)
  BY SMT, <1>1, <1>8, <1>10, <1>11, <1>12
<1>15. Xor(x, y) = (x - z) + (y - z)
  <2>1. And(x, y) = z
    <3>1. x = FromOctets(d, c, b, a) /\ y = Each(m) /\ z = FromOctets(dm, cm, bm, am)
      BY SMT, <1>10, <1>11, <1>12
    <3> QED BY Zenon, <1>7, <3>1
  <2> QED BY Zenon, <2>1 DEF Xor
<1>16. /\ Xor(d, m) = d + m - 2 * dm /\ Xor(c, m) = c + m - 2 * cm
       /\ Xor(b, m) = b + m - 2 * bm /\ Xor(a, m) = a + m - 2 * am
  <2>1. Xored(d, m, dm) /\ Xored(c, m, cm) /\ Xored(b, m, bm) /\ Xored(a, m, am)
    BY Zenon, <1>2, XorOctet
  <2> QED BY Zenon, <2>1 DEF Xored
<1>17. Xor(x, y) = FromOctets(d + m - 2 * dm, c + m - 2 * cm, b + m - 2 * bm, a + m - 2 * am)
  BY SMT, <1>13, <1>14, <1>15
<1>18. x = FromOctets(d, c, b, a) /\ y = Each(m)
  BY SMT, <1>10, <1>11
<1> QED BY Zenon, <1>16, <1>17, <1>18 DEF XorsTo

\* The key filled up to 64 bytes, each xor a constant.
With(k, c) == [i \in 1..64 |-> Xor(IF i <= Len(k) THEN k[i] ELSE 0, c)]
Masked(w, k, c) ==
  /\ w = With(k, c) /\ w \in Seq(Octet) /\ Len(w) = 64
  /\ \A j \in 0..63 : At(w, j) = Xor(At(k, j), c)

\* The key with the pad is a block of 64 octets.
LEMMA WithAre ==
  ASSUME NEW k \in Seq(Octet), NEW c \in 0..127
  PROVE  \E w \in Seq(Octet) : Masked(w, k, c)
<1>1. Len(k) \in Nat
  BY Zenon, LenProperties
<1>2. ASSUME NEW v \in Octet PROVE Xor(v, c) \in Octet
  <2>1. v \in 0..255
    BY Zenon DEF Octet
  <2>2. PICK a : Common(v, c, a)
    BY Zenon, <2>1, CommonOctet
  <2>3. Xored(v, c, a)
    BY Zenon, <2>2, XorOctet
  <2> QED BY Zenon, <2>3 DEF Xored
<1>3. ASSUME NEW i \in 1..64 PROVE Xor(IF i <= Len(k) THEN k[i] ELSE 0, c) \in Octet
  <2>1. CASE i <= Len(k)
    <3>1. i \in 1..Len(k)
      BY SMT, <1>1, <2>1
    <3>2. k[i] \in Octet
      BY Zenon, <3>1, ElementOfSeq
    <3> QED BY Zenon, <1>2, <2>1, <3>2
  <2>2. CASE ~(i <= Len(k))
    BY Zenon, <1>2, <2>2, NoOctets
  <2> QED BY Zenon, <2>1, <2>2
<1>4. PICK n \in Nat : n = 64
  BY SMT
<1>5. PICK w : w = With(k, c)
  BY Zenon
<1>6. w \in [1..n -> Octet]
  BY Zenon, <1>3, <1>4, <1>5 DEF With
<1>7. w \in Seq(Octet) /\ Len(w) = n
  BY Zenon, <1>6, ArrayIs
<1>8. ASSUME NEW j \in 0..63 PROVE At(w, j) = Xor(At(k, j), c)
  <2>1. PICK i \in 1..64 : i = j + 1
    BY SMT
  <2>2. j < 64 /\ (j < Len(k) <=> i <= Len(k))
    BY SMT, <1>1, <2>1
  <2>3. w[i] = Xor(IF i <= Len(k) THEN k[i] ELSE 0, c)
    BY Zenon, <1>5 DEF With
  <2>4. At(w, j) = w[i]
    <3>1. j < Len(w)
      BY Zenon, <1>4, <1>7, <2>2
    <3> QED BY Zenon, <2>1, <3>1 DEF At
  <2>5. At(k, j) = (IF i <= Len(k) THEN k[i] ELSE 0)
    BY Zenon, <2>1, <2>2 DEF At
  <2> QED BY Zenon, <2>3, <2>4, <2>5
<1>9. Masked(w, k, c)
  BY Zenon, <1>4, <1>5, <1>7, <1>8 DEF Masked
<1> QED BY Zenon, <1>7, <1>9

\* The same by words.
PackedMask(w, k, c) == Packed(w) = [p \in 1..16 |-> Xor(At(Packed(k), p - 1), Each(c))]

\* Its words are those of ipad or opad.
LEMMA PackedWith ==
  ASSUME NEW k \in Seq(Octet), NEW c \in 0..127, NEW w \in Seq(Octet), Masked(w, k, c)
  PROVE  PackedMask(w, k, c)
<1>1. ASSUME NEW p \in 1..16 PROVE Xor(At(Packed(k), p - 1), Each(c)) = WordFrom(w, p - 1)
  <2>1. PICK i \in Nat : i = p - 1
    BY SMT
  <2>2. /\ 4 * i \in Nat /\ 4 * i + 1 \in Nat /\ 4 * i + 2 \in Nat /\ 4 * i + 3 \in Nat
        /\ 4 * i \in 0..63 /\ 4 * i + 1 \in 0..63 /\ 4 * i + 2 \in 0..63 /\ 4 * i + 3 \in 0..63
    BY SMT, <2>1
  <2>3. PICK a \in Octet, b \in Octet, h \in Octet, d \in Octet :
          a = At(k, 4 * i) /\ b = At(k, 4 * i + 1) /\ h = At(k, 4 * i + 2) /\ d = At(k, 4 * i + 3)
    BY Zenon, <2>2, OctetAt
  <2>4. At(Packed(k), i) = FromOctets(d, h, b, a)
    BY Zenon, <2>3, PackedAt DEF WordFrom
  <2>5. WordFrom(w, i) = FromOctets(Xor(d, c), Xor(h, c), Xor(b, c), Xor(a, c))
    <3>1. /\ At(w, 4 * i) = Xor(a, c) /\ At(w, 4 * i + 1) = Xor(b, c)
          /\ At(w, 4 * i + 2) = Xor(h, c) /\ At(w, 4 * i + 3) = Xor(d, c)
      BY Zenon, <2>2, <2>3 DEF Masked
    <3> QED BY Zenon, <3>1 DEF WordFrom
  <2>6. Xor(FromOctets(d, h, b, a), Each(c)) = FromOctets(Xor(d, c), Xor(h, c), Xor(b, c), Xor(a, c))
    <3>1. XorsTo(d, h, b, a, c)
      BY Zenon, XorWord
    <3> QED BY Zenon, <3>1 DEF XorsTo
  <2> QED BY Zenon, <2>1, <2>4, <2>5, <2>6
<1>2. (Len(w) + 3) \div 4 = 16
  <2>1. Len(w) = 64
    BY Zenon DEF Masked
  <2> QED BY SMT, <2>1
<1>3. Packed(w) = [p \in 1..16 |-> WordFrom(w, p - 1)]
  BY Zenon, <1>2 DEF Packed
<1> QED BY Zenon, <1>1, <1>3 DEF PackedMask

\* Whole words before others.
Whole(s) == Len(s) % 4 = 0

\* Whole words are counted apart from what follows.
LEMMA WordCount ==
  ASSUME NEW n \in Nat, NEW m \in Nat, n % 4 = 0
  PROVE  4 * ((n + 3) \div 4) = n /\ ((n + 3) \div 4) + ((m + 3) \div 4) = (n + m + 3) \div 4
BY SMT

AfterFour(n, l, j) ==
  /\ 4 * l \in Nat /\ 4 * l + 1 \in Nat /\ 4 * l + 2 \in Nat /\ 4 * l + 3 \in Nat
  /\ 4 * j = n + 4 * l /\ 4 * j + 1 = n + (4 * l + 1)
  /\ 4 * j + 2 = n + (4 * l + 2) /\ 4 * j + 3 = n + (4 * l + 3)

LEMMA FourAfter ==
  ASSUME NEW n \in Nat, NEW i \in Nat, NEW l \in Nat, NEW j \in Nat, 4 * i = n, j = i + l
  PROVE  AfterFour(n, l, j)
BY SMT DEF AfterFour

\* After whole words the data begins in a word of its own.
LEMMA PackedFollowed ==
  ASSUME NEW s \in Seq(Octet), NEW t \in Seq(Octet), Whole(s), NEW e \in Seq(Octet), Follows(e, s, t)
  PROVE  Packed(s) \o Packed(t) = Packed(e)
<1>1. PICK n \in Nat, m \in Nat : n = Len(s) /\ m = Len(t) /\ n % 4 = 0
  BY Zenon, LenProperties DEF Whole
<1>2. PICK S : S = Int
  BY Zenon
<1>3. PICK u \in Seq(S), v \in Seq(S) : u = Packed(s) /\ v = Packed(t)
  BY Zenon, <1>2, PackedType
<1>4. Len(u) = (n + 3) \div 4 /\ Len(v) = (m + 3) \div 4
  BY Zenon, <1>1, <1>3, PackedType
<1>5. PICK f \in Seq(S) : f = u \o v
  <2>1. u \o v \in Seq(S)
    BY Zenon, ConcatProperties
  <2> QED BY Zenon, <2>1
<1>6. /\ Len(f) = Len(u) + Len(v)
      /\ \A i \in 1..(Len(u) + Len(v)) : f[i] = IF i <= Len(u) THEN u[i] ELSE v[i - Len(u)]
  BY Zenon, <1>5, ConcatProperties
<1>7. PICK g : g = Packed(e) /\ g \in Seq(Int) /\ Len(g) = (n + m + 3) \div 4
  <2>1. Len(e) = n + m
    BY Zenon, <1>1 DEF Follows
  <2> QED BY Zenon, <2>1, PackedType
<1>8. 4 * Len(u) = n /\ Len(f) = Len(g) /\ Len(u) \in Nat /\ Len(v) \in Nat
  <2>1. PICK lu \in Nat, lv \in Nat : lu = Len(u) /\ lv = Len(v)
    BY Zenon, LenProperties
  <2>2. lu = (n + 3) \div 4 /\ lv = (m + 3) \div 4
    BY Zenon, <1>4, <2>1
  <2>3. 4 * lu = n /\ lu + lv = (n + m + 3) \div 4
    <3>1. n % 4 = 0
      BY Zenon, <1>1
    <3> QED BY Zenon, <2>2, <3>1, WordCount
  <2>4. Len(f) = lu + lv /\ Len(g) = (n + m + 3) \div 4
    BY Zenon, <1>6, <1>7, <2>1
  <2> QED BY Zenon, <2>1, <2>3, <2>4
<1>9. ASSUME NEW i \in 1..Len(f) PROVE f[i] = g[i]
  <2>1. PICK j \in Nat : i = j + 1
    BY SMT, <1>6, <1>8
  <2>2. j < Len(g) /\ i \in 1..(Len(u) + Len(v))
    BY SMT, <1>6, <1>8, <2>1
  <2>3. g[i] = WordFrom(e, j)
    <3>1. At(g, j) = WordFrom(e, j)
      BY Zenon, <1>7, PackedAt
    <3> QED BY Zenon, <2>1, <2>2, <3>1 DEF At
  <2>4. CASE i <= Len(u)
    <3>1. j < Len(u)
      BY SMT, <1>8, <2>1, <2>4
    <3>2. f[i] = u[i]
      BY Zenon, <1>6, <2>2, <2>4
    <3>3. At(u, j) = WordFrom(s, j)
      BY Zenon, <1>3, PackedAt
    <3>4. u[i] = WordFrom(s, j)
      BY Zenon, <2>1, <3>1, <3>3 DEF At
    <3>5. /\ 4 * j \in Nat /\ 4 * j + 1 \in Nat /\ 4 * j + 2 \in Nat /\ 4 * j + 3 \in Nat
          /\ 4 * j < n /\ 4 * j + 1 < n /\ 4 * j + 2 < n /\ 4 * j + 3 < n
      BY SMT, <1>8, <3>1
    <3>6. /\ At(e, 4 * j) = At(s, 4 * j) /\ At(e, 4 * j + 1) = At(s, 4 * j + 1)
          /\ At(e, 4 * j + 2) = At(s, 4 * j + 2) /\ At(e, 4 * j + 3) = At(s, 4 * j + 3)
      BY Zenon, <1>1, <3>5 DEF Follows
    <3> QED BY Zenon, <2>3, <3>2, <3>4, <3>6 DEF WordFrom
  <2>5. CASE ~(i <= Len(u))
    <3>1. PICK l \in Nat : i - Len(u) = l + 1 /\ j = Len(u) + l /\ l < Len(v)
      <4>1. j - Len(u) \in Nat /\ i - Len(u) = (j - Len(u)) + 1 /\ j = Len(u) + (j - Len(u))
            /\ j - Len(u) < Len(v)
        BY SMT, <1>8, <2>1, <2>2, <2>5
      <4> QED BY Zenon, <4>1
    <3>2. f[i] = v[i - Len(u)]
      BY Zenon, <1>6, <2>2, <2>5
    <3>3. At(v, l) = WordFrom(t, l)
      BY Zenon, <1>3, PackedAt
    <3>4. v[i - Len(u)] = WordFrom(t, l)
      BY Zenon, <3>1, <3>3 DEF At
    <3>5. /\ 4 * l \in Nat /\ 4 * l + 1 \in Nat /\ 4 * l + 2 \in Nat /\ 4 * l + 3 \in Nat
          /\ 4 * j = n + 4 * l /\ 4 * j + 1 = n + (4 * l + 1)
          /\ 4 * j + 2 = n + (4 * l + 2) /\ 4 * j + 3 = n + (4 * l + 3)
      <4>1. PICK lu \in Nat : lu = Len(u) /\ 4 * lu = n /\ j = lu + l
        BY Zenon, <1>8, <3>1
      <4>2. AfterFour(n, l, j)
        BY ONLY <4>1, n \in Nat, l \in Nat, j \in Nat, FourAfter, Zenon
      <4> QED BY Zenon, <4>2 DEF AfterFour
    <3>6. /\ At(e, 4 * j) = At(t, 4 * l) /\ At(e, 4 * j + 1) = At(t, 4 * l + 1)
          /\ At(e, 4 * j + 2) = At(t, 4 * l + 2) /\ At(e, 4 * j + 3) = At(t, 4 * l + 3)
      BY Zenon, <1>1, <3>5 DEF Follows
    <3> QED BY Zenon, <2>3, <3>2, <3>4, <3>6 DEF WordFrom
  <2> QED BY Zenon, <2>4, <2>5
<1>10. f = g
  <2>1. f = [i \in 1..Len(f) |-> f[i]] /\ g = [i \in 1..Len(g) |-> g[i]]
    <3>1. g \in Seq(S)
      BY Zenon, <1>2, <1>7
    <3> QED BY SMT, <3>1
  <2> QED BY Zenon, <1>8, <1>9, <2>1
<1> QED BY Zenon, <1>3, <1>7, <1>10, <1>5

\* 0x36363636 and 0x5C5C5C5C.
LEMMA PadBytes == InnerPad = Each(54) /\ OuterPad = Each(92) /\ 54 \in 0..127 /\ 92 \in 0..127
<1>1. Each(54) = 54 * 16777216 + 54 * 65536 + 54 * 256 + 54
  BY SMT DEF Each, FromOctets
<1>2. Each(92) = 92 * 16777216 + 92 * 65536 + 92 * 256 + 92
  BY SMT DEF Each, FromOctets
<1> QED BY SMT, <1>1, <1>2 DEF InnerPad, OuterPad

\* A digest as bytes, and as words again.
Digested(d, b) == d = DigestBytes(b) /\ Len(d) = 16 /\ Packed(d) = DigestOf(b)

\* A digest is sixteen bytes, those of its words.
LEMMA DigestPacked ==
  ASSUME NEW b \in Seq(Octet)
  PROVE  \E d \in Seq(Octet) : Digested(d, b)
<1>1. PICK w \in Digest4 : w = DigestOf(b)
  BY Zenon, DigestOfType
<1>2. PICK o \in Seq(Octet) : Len(o) = 16 /\ Packed(o) = w
  BY Zenon, DigestBytesOf
<1>3. Len(o) % 4 = 0
  BY SMT, <1>2
<1>4. binl2str(w, 8) = o
  BY Zenon, <1>2, <1>3, UnpackedString
<1>5. DigestBytes(b) = binl2str(DigestOf(b), 8)
  BY Zenon, DigestOfBytes
<1>6. Digested(o, b)
  BY Zenon, <1>1, <1>2, <1>4, <1>5 DEF Digested
<1> QED BY Zenon, <1>6

\* The key as it is used.
KeyOf(key) == IF Len(key) > 64 THEN DigestBytes(key) ELSE key

\* A key of more than 64 bytes is replaced by its digest, a shorter one is not.
LEMMA KeyUsed ==
  ASSUME NEW str \in Text, NEW set \in Settings
  PROVE  LET words == str2binl(str, set.chrsz)
             bkey  == IF Len(words) > 16 THEN core_md5(words, Len(str) * set.chrsz) ELSE words
         IN  /\ KeyOf(Bytes(str, set)) \in Seq(Octet)
             /\ bkey = Packed(KeyOf(Bytes(str, set)))
<1>1. PICK b \in Seq(Octet) : /\ b = Bytes(str, set) /\ str2binl(str, set.chrsz) = Packed(b)
                             /\ Len(str) * set.chrsz = 8 * Len(b)
  BY Zenon, BytesAre
<1>2. Len(Packed(b)) > 16 <=> Len(b) > 64
  <2>1. PICK n \in Nat : n = Len(b) /\ Len(Packed(b)) = (n + 3) \div 4
    BY Zenon, LenProperties, PackedType
  <2>2. (n + 3) \div 4 > 16 <=> n > 64
    BY SMT
  <2> QED BY Zenon, <2>1, <2>2
<1>3. CASE Len(b) > 64
  <2>1. PICK d \in Seq(Octet) : Digested(d, b)
    BY Zenon, DigestPacked
  <2>2. KeyOf(b) = d
    BY Zenon, <1>3, <2>1 DEF KeyOf, Digested
  <2>3. core_md5(Packed(b), 8 * Len(b)) = Packed(d)
    BY Zenon, <2>1 DEF Digested, DigestOf
  <2> QED BY Zenon, <1>1, <1>2, <1>3, <2>2, <2>3
<1>4. CASE ~(Len(b) > 64)
  BY Zenon, <1>1, <1>2, <1>4 DEF KeyOf
<1> QED BY Zenon, <1>3, <1>4

\* A block of 64 bytes and what follows it, hashed.
BlockHashed(e, w, t) ==
  /\ e = w \o t /\ Packed(w) \o Packed(t) = Packed(e)
  /\ core_md5(Packed(w) \o Packed(t), 512 + 8 * Len(t)) = DigestOf(e)

\* core_md5 of a block and what follows it, in words and in bytes.
LEMMA HashedBlock ==
  ASSUME NEW w \in Seq(Octet), Len(w) = 64, NEW t \in Seq(Octet)
  PROVE  \E e \in Seq(Octet) : BlockHashed(e, w, t)
<1>1. PICK e \in Seq(Octet) : Follows(e, w, t)
  BY Zenon, Followed
<1>2. Whole(w)
  BY SMT DEF Whole
<1>3. Packed(w) \o Packed(t) = Packed(e)
  BY Zenon, <1>1, <1>2, PackedFollowed
<1>4. PICK n \in Nat : n = Len(t)
  BY Zenon, LenProperties
<1>5. Len(e) = 64 + n
  BY Zenon, <1>1, <1>4 DEF Follows
<1>6. 512 + 8 * n = 8 * (64 + n)
  BY SMT
<1>7. core_md5(Packed(w) \o Packed(t), 512 + 8 * Len(t)) = DigestOf(e)
  BY Zenon, <1>3, <1>4, <1>5, <1>6 DEF DigestOf
<1>8. BlockHashed(e, w, t)
  BY Zenon, <1>1, <1>3, <1>7 DEF BlockHashed, Follows
<1> QED BY Zenon, <1>8

\* The bytes whose digest the keyed digest is.
Nested(e, key, data, set) ==
  /\ core_hmac_md5(key, data, set.chrsz) = DigestOf(e)
  /\ e = With(KeyOf(Bytes(key, set)), 92)
         \o DigestBytes(With(KeyOf(Bytes(key, set)), 54) \o Bytes(data, set))

\* core_hmac_md5 is the digest of the outer block and the inner digest.
LEMMA HmacOf ==
  ASSUME NEW key \in Text, NEW data \in Text, NEW set \in Settings
  PROVE  \E e \in Seq(Octet) : Nested(e, key, data, set)
<1>1. PICK k \in Seq(Octet) : k = KeyOf(Bytes(key, set))
  BY Zenon, KeyUsed
<1>2. PICK b \in Seq(Octet) : /\ b = Bytes(data, set) /\ str2binl(data, set.chrsz) = Packed(b)
                             /\ Len(data) * set.chrsz = 8 * Len(b)
  BY Zenon, BytesAre
<1> DEFINE words == str2binl(key, set.chrsz)
           bkey  == IF Len(words) > 16 THEN core_md5(words, Len(key) * set.chrsz) ELSE words
           ipad  == [p \in 1..16 |-> Xor(At(bkey, p - 1), InnerPad)]
           opad  == [p \in 1..16 |-> Xor(At(bkey, p - 1), OuterPad)]
           hash  == core_md5(ipad \o str2binl(data, set.chrsz), 512 + Len(data) * set.chrsz)
<1>3. core_hmac_md5(key, data, set.chrsz) = core_md5(opad \o hash, 512 + 128)
  BY Zenon DEF core_hmac_md5
<1>4. bkey = Packed(k)
  BY Zenon, <1>1, KeyUsed
<1> HIDE DEF bkey
<1>5. /\ ipad = [p \in 1..16 |-> Xor(At(Packed(k), p - 1), InnerPad)]
      /\ opad = [p \in 1..16 |-> Xor(At(Packed(k), p - 1), OuterPad)]
  BY Zenon, <1>4
<1> HIDE DEF ipad, opad
<1>6. hash = core_md5(ipad \o str2binl(data, set.chrsz), 512 + Len(data) * set.chrsz)
  BY Zenon
<1> HIDE DEF hash
<1>7. PICK wi \in Seq(Octet) : Masked(wi, k, 54)
  BY Zenon, PadBytes, WithAre
<1>8. PICK wo \in Seq(Octet) : Masked(wo, k, 92)
  BY Zenon, PadBytes, WithAre
<1>9. ipad = Packed(wi)
  <2>1. PackedMask(wi, k, 54)
    BY Zenon, <1>7, PadBytes, PackedWith
  <2> QED BY Zenon, <1>5, <2>1, PadBytes DEF PackedMask
<1>10. opad = Packed(wo)
  <2>1. PackedMask(wo, k, 92)
    BY Zenon, <1>8, PadBytes, PackedWith
  <2> QED BY Zenon, <1>5, <2>1, PadBytes DEF PackedMask
<1>11. PICK f \in Seq(Octet) : BlockHashed(f, wi, b)
  BY Zenon, <1>7, HashedBlock DEF Masked
<1>12. PICK d \in Seq(Octet) : Digested(d, f)
  BY Zenon, DigestPacked
<1>13. hash = Packed(d)
  <2>1. hash = core_md5(Packed(wi) \o Packed(b), 512 + 8 * Len(b))
    BY Zenon, <1>2, <1>6, <1>9
  <2>2. hash = DigestOf(f)
    BY Zenon, <1>11, <2>1 DEF BlockHashed
  <2> QED BY Zenon, <1>12, <2>2 DEF Digested
<1>14. PICK e \in Seq(Octet) : BlockHashed(e, wo, d)
  BY Zenon, <1>8, HashedBlock DEF Masked
<1>15. core_md5(opad \o hash, 512 + 128) = DigestOf(e)
  <2>1. Len(d) = 16
    BY Zenon, <1>12 DEF Digested
  <2>2. 8 * 16 = 128
    BY SMT
  <2>3. core_md5(opad \o hash, 512 + 128) = core_md5(Packed(wo) \o Packed(d), 512 + 8 * Len(d))
    BY Zenon, <1>10, <1>13, <2>1, <2>2
  <2> QED BY Zenon, <1>14, <2>3 DEF BlockHashed
<1>16. e = With(k, 92) \o DigestBytes(With(k, 54) \o Bytes(data, set))
  <2>1. f = With(k, 54) \o Bytes(data, set)
    BY Zenon, <1>2, <1>7, <1>11 DEF BlockHashed, Masked
  <2>2. d = DigestBytes(f)
    BY Zenon, <1>12 DEF Digested
  <2>3. e = With(k, 92) \o d
    BY Zenon, <1>8, <1>14 DEF BlockHashed, Masked
  <2> QED BY Zenon, <2>1, <2>2, <2>3
<1>17. core_hmac_md5(key, data, set.chrsz) = DigestOf(e)
  BY Zenon, <1>3, <1>15
<1>18. Nested(e, key, data, set)
  BY Zenon, <1>1, <1>16, <1>17 DEF Nested
<1> QED BY Zenon, <1>18

\* A keyed call.
LEMMA HmacOfCall ==
  ASSUME NEW c, NEW key \in Text, NEW data \in Text, c.set \in Settings, c.fn \in Encodings,
         c.result = encoded(c.fn, core_hmac_md5(key, data, c.set.chrsz), c.set)
  PROVE  LET k == KeyOf(Bytes(key, c.set))
         IN  Decoded(c) = DigestBytes(With(k, 92) \o DigestBytes(With(k, 54) \o Bytes(data, c.set)))
<1>1. PICK e \in Seq(Octet) : Nested(e, key, data, c.set)
  BY Zenon, HmacOf
<1>2. DigestOf(e) \in Digest4
  BY Zenon, DigestOfType
<1>3. c.result = encoded(c.fn, DigestOf(e), c.set)
  BY Zenon, <1>1 DEF Nested
<1>4. Decoded(c) = binl2str(DigestOf(e), 8)
  BY Zenon, <1>2, <1>3, EncodedDecoded
<1>5. Decoded(c) = DigestBytes(e)
  BY Zenon, <1>4, DigestOfBytes
<1> QED BY Zenon, <1>1, <1>5 DEF Nested

-----------------------------------------------------------------------------
(* The calls *)

\* What the last call of a digest function was given and returned.
HashInv ==
  Hashes =>
    /\ call.set \in Settings
    /\ ~call.keyed => call.arg \in Strings /\ call.result = encoded(call.fn, md5(call.arg, call.set.chrsz), call.set)
    /\ call.keyed => \E kd \in KeyedStrings :
         /\ call.arg[1] = kd[1] /\ call.arg[2] = kd[2]
         /\ call.result = encoded(call.fn, core_hmac_md5(kd[1], kd[2], call.set.chrsz), call.set)

\* Each call of a page keeps it.
LEMMA NextHashInv == HashInv /\ NextTools => HashInv'
<1> SUFFICES ASSUME HashInv, NextTools PROVE HashInv'
  OBVIOUS
<1>0. "none" \notin Encodings /\ "pair" \notin Encodings
  BY SMT DEF Encodings
<1>1. CASE Return
  <2>1. call'.fn = "none"
    BY SMT, <1>1 DEF Return, NoCall
  <2> QED BY Zenon, <1>0, <2>1 DEF HashInv, Hashes
<1>2. ASSUME NEW fn \in Encodings, NEW s \in Strings, NEW set \in Settings, Digest(fn, s, set)
      PROVE  HashInv'
  <2>1. PICK r : r = encoded(fn, md5(s, set.chrsz), set)
    BY Zenon
  <2>2. call' = [fn |-> fn, keyed |-> FALSE, arg |-> s, set |-> set, result |-> r]
    BY Zenon, <1>2, <2>1 DEF Digest
  <2>3. call'.fn = fn /\ call'.keyed = FALSE /\ call'.arg = s /\ call'.set = set /\ call'.result = r
    BY SMT, <2>2
  <2> QED BY Zenon, <2>1, <2>3 DEF HashInv
<1>3. ASSUME NEW fn \in Encodings, NEW kd \in KeyedStrings, NEW set \in Settings,
             Keyed(fn, kd[1], kd[2], set)
      PROVE  HashInv'
  <2>1. PICK r : r = encoded(fn, core_hmac_md5(kd[1], kd[2], set.chrsz), set)
    BY Zenon
  <2>2. PICK k, d, p : k = kd[1] /\ d = kd[2] /\ p = <<k, d>>
    BY Zenon
  <2>3. call' = [fn |-> fn, keyed |-> TRUE, arg |-> p, set |-> set, result |-> r]
    BY Zenon, <1>3, <2>1, <2>2 DEF Keyed
  <2>4. call'.fn = fn /\ call'.keyed = TRUE /\ call'.arg = p /\ call'.set = set /\ call'.result = r
    BY SMT, <2>3
  <2>5. p[1] = k /\ p[2] = d
    BY SMT, <2>2
  <2> QED BY Zenon, <2>1, <2>2, <2>4, <2>5 DEF HashInv
<1>4. ASSUME NEW a \in Hosts, NEW b \in Masks, CheckPair(a, b) PROVE HashInv'
  <2>1. call'.fn = "pair"
    BY SMT, <1>4 DEF CheckPair
  <2> QED BY Zenon, <1>0, <2>1 DEF HashInv, Hashes
<1> QED BY Zenon, <1>1, <1>2, <1>3, <1>4 DEF NextTools

\* The three properties of the digests follow from it.
LEMMA HashInvDigest == HashInv => OneDigest
<1> SUFFICES ASSUME HashInv, OnString PROVE Decoded(call) = DigestBytes(Bytes(call.arg, call.set))
  BY Zenon DEF OneDigest
<1>1. /\ call.set \in Settings /\ call.fn \in Encodings /\ call.arg \in Strings
      /\ call.result = encoded(call.fn, md5(call.arg, call.set.chrsz), call.set)
  BY Zenon DEF HashInv, OnString, Hashes
<1>2. call.arg \in Text
  BY Zenon, <1>1, ToolsAssumption
<1> QED BY Zenon, <1>1, <1>2, OneDigestOfCall

LEMMA HashInvPadded == HashInv => PaddedToBlocks
<1> SUFFICES ASSUME HashInv, OnString PROVE PaddedToBlocks
  BY Zenon DEF PaddedToBlocks
<1>1. call.set \in Settings /\ call.arg \in Strings
  BY Zenon DEF HashInv, OnString, Hashes
<1>2. call.arg \in Text
  BY Zenon, <1>1, ToolsAssumption
<1> QED BY ZenonT(30), <1>1, <1>2, PaddedOfCall DEF PaddedToBlocks

LEMMA HashInvNested == HashInv => HmacNested
<1> SUFFICES ASSUME HashInv, OnKey PROVE HmacNested
  BY Zenon DEF HmacNested
<1>1. PICK kd \in KeyedStrings :
        /\ call.arg[1] = kd[1] /\ call.arg[2] = kd[2]
        /\ call.result = encoded(call.fn, core_hmac_md5(kd[1], kd[2], call.set.chrsz), call.set)
  BY Zenon DEF HashInv, OnKey
<1>2. call.set \in Settings /\ call.fn \in Encodings /\ kd[1] \in Text /\ kd[2] \in Text
  BY ZenonT(30), ToolsAssumption DEF HashInv, OnKey, Hashes
<1>3. PICK key, data : key = call.arg[1] /\ data = call.arg[2] /\ key = kd[1] /\ data = kd[2]
  BY Zenon, <1>1
<1>4. PICK k : k = KeyOf(Bytes(key, call.set))
  BY Zenon
<1>5. Decoded(call) = DigestBytes(With(k, 92) \o DigestBytes(With(k, 54) \o Bytes(data, call.set)))
  <2>1. PICK c : /\ c = call /\ c.set \in Settings /\ c.fn \in Encodings
                 /\ c.result = encoded(c.fn, core_hmac_md5(key, data, c.set.chrsz), c.set)
    BY Zenon, <1>1, <1>2, <1>3
  <2>2. key \in Text /\ data \in Text
    BY Zenon, <1>2, <1>3
  <2>3. Decoded(c) = DigestBytes(With(KeyOf(Bytes(key, c.set)), 92)
                                   \o DigestBytes(With(KeyOf(Bytes(key, c.set)), 54) \o Bytes(data, c.set)))
    <3> HIDE <1>3
    <3> QED BY Zenon, <2>1, <2>2, HmacOfCall
  <2> QED BY Zenon, <1>4, <2>1, <2>3
<1> QED BY Zenon, <1>3, <1>4, <1>5 DEF HmacNested, KeyOf, With
=============================================================================
