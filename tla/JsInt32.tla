------------------------------- MODULE JsInt32 -------------------------------
(***************************************************************************)
(* The 32-bit integers of JavaScript's bitwise operators, as md5.js,       *)
(* verify.js and securityEncode of the log-in pages use them.  A word is   *)
(* an integer of -2^31 .. 2^31-1; \div and % of TLA+ round down, so they   *)
(* are the arithmetic shift and the mask of two's complement.  An operand  *)
(* that is undefined in JavaScript is 0 here.                              *)
(***************************************************************************)
EXTENDS Integers

Half == 65536
MaxInt32 == 2147483647
MinInt32 == -2147483647 - 1
Int32 == MinInt32 .. MaxInt32

\* x & 0xFFFF and x >> 16: the halves of a word, the high one with the sign.
Lo(x) == x % Half
Hi(x) == x \div Half

\* m << 16: the low half of m as a signed number, moved up.
Shl16(m) == (((m + 32768) % Half) - 32768) * Half

\* x << n (n = 0 or 1 < n < 31) and x >>> n (1 < n < 32); x >> n is x \div 2^n.
Shl(x, n) ==
  LET low  == x % 2^(32 - n)
      sign == 2^(31 - n)
  IN  IF n = 0 THEN x ELSE (IF low >= sign THEN low - sign - sign ELSE low) * 2^n
UShr(x, n) == (x \div 2^n) % 2^(32 - n)

\* ~x
Not(x) == -1 - x

\* x & y of single hexadecimal digits, bit by bit, and of words, digit by digit.
AndDigit ==
  LET both(p, q, bit) == IF (p \div bit) % 2 = 1 /\ (q \div bit) % 2 = 1 THEN bit ELSE 0
  IN  [p \in 0..15 |-> [q \in 0..15 |->
         both(p, q, 1) + both(p, q, 2) + both(p, q, 4) + both(p, q, 8)]]
And(x, y) ==
  LET digit(unit) == AndDigit[(x \div unit) % 16][(y \div unit) % 16]
  IN  digit(1) + 2^4 * digit(2^4) + 2^8 * digit(2^8) + 2^12 * digit(2^12)
      + 2^16 * digit(2^16) + 2^20 * digit(2^20) + 2^24 * digit(2^24)
      + Shl(digit(2^28), 28)

\* x | y and x ^ y: the sums of words without a bit in common.
Or(x, y)  == (x - And(x, y)) + y
Xor(x, y) == (x - And(x, y)) + (y - And(x, y))
==============================================================================
