------------------------------ MODULE PageTools ------------------------------
(***************************************************************************)
(* The pages call the functions of md5.js and verify.js one at a time.     *)
(* `call' is the last call with its arguments and its result.              *)
(***************************************************************************)
EXTENDS MD5, Verify, FiniteSets

CONSTANTS
  Strings,      \* the strings the pages hash
  KeyedStrings, \* pairs <<key, data>> given to the keyed functions
  Settings,     \* [hexcase, b64pad, chrsz]: the configurable variables of md5.js
  Suite,        \* test suite of RFC 1321 and RFC 2202: argument -> digest, 16 bytes
  Hosts,        \* addresses typed into an address field
  Masks         \* and into a mask field

\* What a field takes: fewer than 2^26 characters of 16 bits, so that the length in
\* bits, which core_md5 shifts with >>, is a positive word.
Code == 0..65535
Text == {s \in Seq(Code) : Len(s) < 2^26}

\* chrsz may be 8 or 16, the padding character "" or "=".  The format check admits
\* octets up to 999.
ASSUME ToolsAssumption ==
  /\ \A s \in Strings : s \in Text
  /\ \A kd \in KeyedStrings : kd[1] \in Text /\ kd[2] \in Text
  /\ \A set \in Settings : set.hexcase \in BOOLEAN /\ set.b64pad \in {<<>>, <<61>>}
                             /\ set.chrsz \in {8, 16}
  /\ \A a \in Hosts \cup Masks : a = BadFormat \/ a \in [1..4 -> 0..999]

VARIABLE call

Encodings == {"hex", "b64", "str"}

NoCall == [fn |-> "none"]

InitTools == call = NoCall

Return == /\ call # NoCall
          /\ call' = NoCall

\* hex_md5, b64_md5 and str_md5; hex_hmac_md5, b64_hmac_md5 and str_hmac_md5.
Digest(fn, s, set) ==
  /\ call = NoCall
  /\ call' = [fn |-> fn, keyed |-> FALSE, arg |-> s, set |-> set,
              result |-> encoded(fn, md5(s, set.chrsz), set)]

Keyed(fn, k, d, set) ==
  /\ call = NoCall
  /\ call' = [fn |-> fn, keyed |-> TRUE, arg |-> <<k, d>>, set |-> set,
              result |-> encoded(fn, core_hmac_md5(k, d, set.chrsz), set)]

\* The host and mask fields of a form are checked one by one, then together.
CheckPair(a, b) ==
  /\ call = NoCall
  /\ LET ip   == checkIp(a, {})
         mask == checkMask(b)
     IN  call' = [fn |-> "pair", arg |-> <<a, b>>,
                  result |-> IF ip # "ENONE" THEN ip ELSE IF mask # "ENONE" THEN mask
                             ELSE checkIpMask(a, b)]

NextTools ==
  \/ Return
  \/ \E fn \in Encodings, s \in Strings, set \in Settings : Digest(fn, s, set)
  \/ \E fn \in Encodings, kd \in KeyedStrings, set \in Settings : Keyed(fn, kd[1], kd[2], set)
  \/ \E a \in Hosts, b \in Masks : CheckPair(a, b)

------------------------------------------------------------------------------
\* The bytes a result stands for.
HexValue(c) == IF c \in 48..57 THEN c - 48 ELSE IF c \in 65..70 THEN c - 55 ELSE c - 87
B64Value(c) == CASE c \in 65..90 -> c - 65
                 [] c \in 97..122 -> c - 71
                 [] c \in 48..57 -> c + 4
                 [] c = 43 -> 62
                 [] c = 47 -> 63
LittleEndian(str) == Array([k \in 1..(2 * Len(str)) |->
  LET c == str[(k + 1) \div 2] IN IF k % 2 = 1 THEN c % 256 ELSE c \div 256])
HexBytes(str) == Array([k \in 1..(Len(str) \div 2) |->
  16 * HexValue(str[2 * k - 1]) + HexValue(str[2 * k])])
B64Bytes(str, pad) ==
  LET coded == {k \in 1..Len(str) : <<str[k]>> # pad}
      byte(n, from) == ((B64Value(str[n + 1]) * 2^(2 + from)) % 256)
                       + (B64Value(str[n + 2]) \div 2^(4 - from))
  IN  Array([k \in 1..((6 * Cardinality(coded)) \div 8) |->
         byte((8 * (k - 1)) \div 6, (8 * (k - 1)) % 6)])
Decoded(c) == CASE c.fn = "hex" -> HexBytes(c.result)
                [] c.fn = "b64" -> B64Bytes(c.result, c.set.b64pad)
                [] c.fn = "str" -> IF c.set.chrsz = 8 THEN c.result ELSE LittleEndian(c.result)

\* The digest of a sequence of bytes, as bytes.
DigestBytes(bytes) == binl2str(md5(bytes, 8), 8)

Hashes == call.fn \in Encodings
OnString == Hashes /\ ~call.keyed
OnKey == Hashes /\ call.keyed
Bytes(str, set) == IF set.chrsz = 8 THEN Array([k \in 1..Len(str) |-> str[k] % 256]) ELSE LittleEndian(str)

\* On the test suites of RFC 1321 and RFC 2202 every function returns the
\* digest of the suite, whatever its encoding.
DigestsKnown ==
  Hashes /\ call.set.chrsz = 8 /\ call.arg \in DOMAIN Suite =>
    Decoded(call) = Suite[call.arg]

\* Every encoding stands for the same digest, that of the bytes of the string: the
\* low byte of each character or, when characters have 16 bits, both, the low one
\* first.
OneDigest ==
  OnString => Decoded(call) = DigestBytes(Bytes(call.arg, call.set))

LengthBytes(len) ==
  <<len % 256, (len \div 256) % 256, (len \div 65536) % 256, len \div 16777216, 0, 0, 0, 0>>

\* RFC 1321, 3.1 and 3.2: the words core_md5 reads are the bytes of the string, the
\* byte 128, as few zero bytes as fill the last block but for its last eight
\* bytes, and there the length in bits, the low byte first.
PaddedToBlocks ==
  OnString /\ call.fn = "hex" =>
    LET bytes == Bytes(call.arg, call.set)
        n     == Len(bytes)
        zeros == CHOOSE z \in 0..63 : (n + 1 + z) % 64 = 56
        want  == bytes \o <<128>> \o [k \in 1..zeros |-> 0] \o LengthBytes(8 * n)
        words == Pad(str2binl(call.arg, call.set.chrsz), 8 * n)
    IN  /\ Len(words) \in (Len(want) \div 4 - 15)..(Len(want) \div 4)
        /\ \A k \in 0..(Len(want) - 1) :
             (At(words, k \div 4) \div 2^(8 * (k % 4))) % 256 = want[k + 1]

\* RFC 2104: the keyed digest is the digest of the key xor 0x5c.. and the
\* digest of the key xor 0x36.. and the data; the key is filled up to 64
\* bytes, one of more than 64 is replaced by its digest first.
HmacNested ==
  OnKey =>
    LET key  == Bytes(call.arg[1], call.set)
        data == Bytes(call.arg[2], call.set)
        k    == IF Len(key) > 64 THEN DigestBytes(key) ELSE key
        with(c) == [i \in 1..64 |-> Xor(IF i <= Len(k) THEN k[i] ELSE 0, c)]
    IN  Decoded(call) = DigestBytes(with(92) \o DigestBytes(with(54) \o data))

\* The octets of the number transIp makes of an address: one beyond 255 carries
\* into the one before.
Carried(a) ==
  LET low == a[2] * 65536 + a[3] * 256 + a[4]
  IN  <<(a[1] + (low \div 2^24)) % 256, (low \div 65536) % 256, (low \div 256) % 256, low % 256>>

\* The fields of a form that pass all checks hold, as numbers, a mask of leading
\* ones, neither none nor all, and an address that is not the network's own nor
\* its broadcast address, nor in network zero.
HostInNetwork ==
  call.fn = "pair" /\ call.result = "ENONE" =>
    LET bits(a) == [n \in 0..31 |-> (Carried(a)[(n \div 8) + 1] \div 2^(7 - (n % 8))) % 2]
        a == bits(call.arg[1])
        m == bits(call.arg[2])
    IN  \E len \in 1..31 :
          /\ \A n \in 0..31 : m[n] = (IF n < len THEN 1 ELSE 0)
          /\ \E n \in 0..(len - 1) : a[n] = 1
          /\ {a[n] : n \in len..31} = {0, 1}
==============================================================================
