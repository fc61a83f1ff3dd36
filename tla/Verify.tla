-------------------------------- MODULE Verify --------------------------------
(***************************************************************************)
(* The address checks of verify.js.  An address that passes the format     *)
(* check is a sequence of four octets (the format admits 0 .. 999), any    *)
(* other text is the model value BadFormat.  transIp yields a JavaScript   *)
(* number: its bits are the word Bits(a), and compared as a number it is   *)
(* that word without its sign.                                             *)
(***************************************************************************)
EXTENDS JsInt32, Sequences, SequencesExt

CONSTANT BadFormat

\* transIp, as the word the bit operators make of it; an octet beyond 255
\* carries into the one before.
Bits(a) ==
  LET low == a[2] * 65536 + a[3] * 256 + a[4]
  IN  Shl(a[1] + (low \div 2^24), 24) + (low % 2^24)

\* The first octet is only held against 224; unCheck names the checks the
\* caller switches off.
validIpAddr(a, unCheck) ==
  CASE \E d \in 2..4 : a[d] > 255 -> "EINVIP"
    [] OTHER ->
       CASE a[1] = 0 \/ a[1] > 224 -> "EINVNET"
         [] a[1] = 224 /\ "multi" \notin unCheck -> "EINVGROUPIP"
         [] a[1] = 127 /\ "loop" \notin unCheck -> "EINVLOOPIP"
         [] OTHER -> "ENONE"

checkIp(a, unCheck) ==
  IF a = BadFormat THEN "EINVIPFMT" ELSE validIpAddr(a, unCheck)

\* -1 << c, compared at the lowest bit c that is set; no other word than
\* -1 << c itself has it there and passes.
checkMask(a) ==
  IF a # BadFormat /\ \E c \in 0..31 : Bits(a) = (IF c = 31 THEN MinInt32 ELSE -(2^c))
  THEN "ENONE" ELSE "EINVMASK"

\* A number of at least 2^31 is never equal to the result of a bit operator.
EqualsBits(w, bits) == w >= 0 /\ w = bits

\* Slip: the broadcast address is admitted.
NetHostBroadcast(a, b) ==
  CASE And(a, b) = 0 \/ EqualsBits(b, And(a, b)) -> "EINVNETID"
    [] OTHER -> IF And(a, Not(b)) = 0 THEN "EINVHOSTID" ELSE "ENONE"

checkIPNetHost(a, b) ==
  CASE And(a, b) = 0 \/ EqualsBits(b, And(a, b)) -> "EINVNETID"
    [] OTHER -> CASE And(a, Not(b)) \in {0, Not(b)} -> "EINVHOSTID"
                  [] OTHER -> "ENONE"

getIpClass(a) == CASE a[1] <= 127 -> "A"
                   [] a[1] \in 128..191 -> "B"
                   [] a[1] \in 192..223 -> "C"
                   [] a[1] > 223 -> "D or E"
ClassMask == [A |-> -16777216, B |-> -65536, C |-> -256]

\* The mask as a number is greater than the network part, which a bit
\* operator has given a sign (in classes D and E both are plain numbers).
checkIpClass(a, b) ==
  LET cls == getIpClass(a)
      d == IF cls \in DOMAIN ClassMask THEN And(Bits(a), ClassMask[cls]) ELSE Bits(a)
      e == Bits(b)
      greater == IF cls \in DOMAIN ClassMask THEN e < 0 \/ e > d
                 ELSE IF (e < 0) = (d < 0) THEN e > d ELSE e < 0
  IN  IF greater THEN "ENONE" ELSE "EINVIPMASKPAIR"

checkIpMask(a, b) ==
  LET c == checkIPNetHost(Bits(a), Bits(b))
  IN  IF c # "ENONE" THEN c ELSE checkIpClass(a, b)

==============================================================================
