--------------------------------- MODULE MD5 ---------------------------------
(***************************************************************************)
(* md5.js of the authentication pages: MD5 and HMAC-MD5 over JavaScript    *)
(* strings.  A string is a sequence of character codes and an array of     *)
(* words a sequence of words, element i of the array at position i + 1 (an *)
(* element beyond the length is undefined, which the bit operators read as *)
(* 0).  The three configurable variables of the script are the last        *)
(* parameters of the operators that read them: hexcase, b64pad (a string)  *)
(* and chrsz (8 or 16).                                                    *)
(***************************************************************************)
EXTENDS JsInt32, Sequences, SequencesExt

At(x, i) == IF i < Len(x) THEN x[i + 1] ELSE 0

\* The array with the elements of f (a concatenation, so that TLC evaluates
\* them once).
Array(f) == f \o <<>>

\* Slip: the carry of the low halves is dropped.
SafeAddNoCarry(x, y) == Shl16(Hi(x) + Hi(y)) + Lo(Lo(x) + Lo(y))

\* The sum of two words, modulo 2^32, from sums of their halves.
safe_add(x, y) ==
  LET lsw == Lo(x) + Lo(y)
      msw == Hi(x) + Hi(y) + Hi(lsw)
  IN  Shl16(msw) + Lo(lsw)

\* The two shifted parts have no bit in common.
bit_rol(num, cnt) == Shl(num, cnt) + UShr(num, 32 - cnt)

md5_cmn(q, a, b, x, s, t) ==
  safe_add(bit_rol(safe_add(safe_add(a, q), safe_add(x, t)), s), b)
md5_ff(a, b, c, d, x, s, t) == md5_cmn(Or(And(b, c), And(Not(b), d)), a, b, x, s, t)
md5_gg(a, b, c, d, x, s, t) == md5_cmn(Or(And(b, d), And(c, Not(d))), a, b, x, s, t)
md5_hh(a, b, c, d, x, s, t) == md5_cmn(Xor(Xor(b, c), d), a, b, x, s, t)
md5_ii(a, b, c, d, x, s, t) == md5_cmn(Xor(c, Or(b, Not(d))), a, b, x, s, t)

------------------------------------------------------------------------------
\* The arguments of the 64 calls: the constant, the shift and the word.
AddConstant == <<
     -680876936,  -389564586,   606105819, -1044525330,
     -176418897,  1200080426, -1473231341,   -45705983,
     1770035416, -1958414417,      -42063, -1990404162,
     1804603682,   -40341101, -1502002290,  1236535329,
     -165796510, -1069501632,   643717713,  -373897302,
     -701558691,    38016083,  -660478335,  -405537848,
      568446438, -1019803690,  -187363961,  1163531501,
    -1444681467,   -51403784,  1735328473, -1926607734,
        -378558, -2022574463,  1839030562,   -35309556,
    -1530992060,  1272893353,  -155497632, -1094730640,
      681279174,  -358537222,  -722521979,    76029189,
     -640364487,  -421815835,   530742520,  -995338651,
     -198630844,  1126891415, -1416354905,   -57434055,
     1700485571, -1894986606,    -1051523, -2054922799,
     1873313359,   -30611744, -1560198380,  1309151649,
     -145523070, -1120210379,   718787259,  -343485551 >>
Shift == << <<7, 12, 17, 22>>, <<5, 9, 14, 20>>, <<4, 11, 16, 23>>, <<6, 10, 15, 21>> >>
Word(n) == CASE n < 16 -> n
             [] n \in 16..31 -> (5 * n + 1) % 16
             [] n \in 32..47 -> (3 * n + 5) % 16
             [] n >= 48 -> (7 * n) % 16

\* Call n (0 .. 63) on the registers r = <<a, b, c, d>>: the registers take
\* turns, a, d, c, b, as the one assigned.
Call(r, x, i, n) ==
  LET role(j) == ((j - n) % 4) + 1
      s == Shift[(n \div 16) + 1][(n % 4) + 1]
      f(a, b, c, d) == LET w == At(x, i + Word(n))
                           t == AddConstant[n + 1]
                       IN  CASE n < 16       -> md5_ff(a, b, c, d, w, s, t)
                             [] n \in 16..31 -> md5_gg(a, b, c, d, w, s, t)
                             [] n \in 32..47 -> md5_hh(a, b, c, d, w, s, t)
                             [] n >= 48      -> md5_ii(a, b, c, d, w, s, t)
  IN  [r EXCEPT ![role(0)] = f(r[role(0)], r[role(1)], r[role(2)], r[role(3)])]

\* One turn of the loop over blocks of 16 words.
Block(r, x, i) ==
  LET after[n \in 0..64] == IF n = 0 THEN r ELSE Call(after[n - 1], x, i, n - 1)
  IN  Array([j \in 1..4 |-> safe_add(after[64][j], r[j])])

\* Slip: no room is kept for the length.
PadNoRoom(x, len) ==
  LET last == (len \div 512) * 16 + 14
      word(i) == IF i = len \div 32 THEN Or(At(x, i), Shl(128, len % 32)) ELSE At(x, i)
  IN  [p \in 1..last |-> word(p - 1)] \o <<len>>

\* The array x of len bits with the padding: bit 1, then the length in the
\* last but one word of the last block (the last word stays undefined).
Pad(x, len) ==
  LET last == ((len + 64) \div 512) * 16 + 14
      word(i) == IF i = len \div 32 THEN Or(At(x, i), Shl(128, len % 32)) ELSE At(x, i)
  IN  [p \in 1..last |-> word(p - 1)] \o <<len>>

Registers == <<1732584193, -271733879, -1732584194, 271733878>>

\* The digest, as an array of four words.
core_md5(x, len) ==
  LET p == Pad(x, len)
      n == (Len(p) + 15) \div 16
      after[k \in 0..n] ==
        IF k = 0 THEN Registers ELSE Block(after[k - 1], p, (k - 1) * 16)
  IN  after[n]

------------------------------------------------------------------------------
\* Slip: a character of more than chrsz bits runs into the one after it.
StringUnmasked(str, chrsz) ==
  LET per == 32 \div chrsz
      char(k) == IF k <= Len(str) THEN str[k] ELSE 0
      word(p) == LET after[n \in 0..per] ==
                       IF n = 0 THEN 0
                       ELSE Or(after[n - 1], Shl(char((p - 1) * per + n), (n - 1) * chrsz))
                 IN  after[per]
  IN  Array([p \in 1..((Len(str) * chrsz + 31) \div 32) |-> word(p)])

\* The characters of a word, the first in the lowest bits.
str2binl(str, chrsz) ==
  LET per == 32 \div chrsz
      char(k) == IF k <= Len(str) THEN str[k] % 2^chrsz ELSE 0
      word(p) == LET after[n \in 0..per] ==
                       IF n = 0 THEN 0
                       ELSE Or(after[n - 1], Shl(char((p - 1) * per + n), (n - 1) * chrsz))
                 IN  after[per]
  IN  Array([p \in 1..((Len(str) * chrsz + 31) \div 32) |-> word(p)])

binl2str(bin, chrsz) ==
  Array([k \in 1..(Len(bin) * (32 \div chrsz)) |->
           LET i == (k - 1) * chrsz
           IN  (At(bin, i \div 32) \div 2^(i % 32)) % 2^chrsz])

\* The code of a digit: 0-9, then A-F or a-f.
HexDigit(v, hexcase) == IF v < 10 THEN 48 + v ELSE (IF hexcase THEN 55 ELSE 87) + v
binl2hex(bin, hexcase) ==
  Array([k \in 1..(Len(bin) * 8) |->
           LET i  == (k - 1) \div 2
               sh == (i % 4) * 8 + (IF k % 2 = 1 THEN 4 ELSE 0)
           IN  HexDigit((At(bin, i \div 4) \div 2^sh) % 16, hexcase)])

\* The code of a base-64 character: A-Z, a-z, 0-9, +, /.
B64Char(v) == CASE v < 26 -> 65 + v
                [] v \in 26..51 -> 71 + v
                [] v \in 52..61 -> v - 4
                [] v = 62 -> 43
                [] v = 63 -> 47
binl2b64(bin, b64pad) ==
  LET bytes == Len(bin) * 4
      byte(i) == (At(bin, i \div 4) \div 2^(8 * (i % 4))) % 256
      triplet(i) == byte(i) * 65536 + byte(i + 1) * 256 + byte(i + 2)
      char(k) == LET i == 3 * (k \div 4)
                     j == k % 4
                 IN  IF i * 8 + j * 6 > bytes * 8 THEN b64pad
                     ELSE <<B64Char((triplet(i) \div 2^(6 * (3 - j))) % 64)>>
  IN  FlattenSeq([k \in 1..(4 * ((bytes + 2) \div 3)) |-> char(k - 1)])

------------------------------------------------------------------------------
\* 0x36363636 and 0x5C5C5C5C.
InnerPad == 909522486
OuterPad == 1549556828

\* Slip: a key of just 16 words is hashed, too.
HmacHashesAtBlock(key, data, chrsz) ==
  LET words == str2binl(key, chrsz)
      bkey  == IF Len(words) >= 16 THEN core_md5(words, Len(key) * chrsz) ELSE words
      ipad  == [p \in 1..16 |-> Xor(At(bkey, p - 1), InnerPad)]
      opad  == [p \in 1..16 |-> Xor(At(bkey, p - 1), OuterPad)]
      hash  == core_md5(ipad \o str2binl(data, chrsz), 512 + Len(data) * chrsz)
  IN  core_md5(opad \o hash, 512 + 128)

\* A key of more than 16 words is replaced by its digest.
core_hmac_md5(key, data, chrsz) ==
  LET words == str2binl(key, chrsz)
      bkey  == IF Len(words) > 16 THEN core_md5(words, Len(key) * chrsz) ELSE words
      ipad  == [p \in 1..16 |-> Xor(At(bkey, p - 1), InnerPad)]
      opad  == [p \in 1..16 |-> Xor(At(bkey, p - 1), OuterPad)]
      hash  == core_md5(ipad \o str2binl(data, chrsz), 512 + Len(data) * chrsz)
  IN  core_md5(opad \o hash, 512 + 128)

md5(s, chrsz) == core_md5(str2binl(s, chrsz), Len(s) * chrsz)
\* The last step of the six functions that the pages call.
encoded(fn, bin, set) ==
  CASE fn = "hex" -> binl2hex(bin, set.hexcase)
    [] fn = "b64" -> binl2b64(bin, set.b64pad)
    [] fn = "str" -> binl2str(bin, set.chrsz)
==============================================================================
