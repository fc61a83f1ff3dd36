------------------------------ MODULE MCWebPages ------------------------------
(***************************************************************************)
(* The inputs of the pages' model: the test suites of RFC 1321 and RFC     *)
(* 2202, strings around the boundaries of a block, and the addresses at    *)
(* the edges of classes and masks.                                         *)
(***************************************************************************)
EXTENDS WebPages

CONSTANTS A, B \* two names

\* The codes of the characters the suites are written with.
Written == " -=?0123456789ABCDEFGHIJKLMNOPQRSTUVWXYZabcdefghijklmnopqrstuvwxyz"
CodeAt == <<32, 45, 61, 63>> \o [d \in 1..10 |-> 47 + d] \o [l \in 1..26 |-> 64 + l]
          \o [l \in 1..26 |-> 96 + l]
CodeOf == [c \in {SubSeq(Written, p, p) : p \in 1..Len(Written)} |->
           CodeAt[CHOOSE p \in 1..Len(Written) : SubSeq(Written, p, p) = c]]
Codes(str) == [p \in 1..Len(str) |-> CodeOf[SubSeq(str, p, p)]]
DigestOf(hex) == HexBytes(Codes(hex))
Repeated(c, n) == [p \in 1..n |-> c]

DigestSuite ==
  LET pairs == {
    <<"", "d41d8cd98f00b204e9800998ecf8427e">>,
    <<"a", "0cc175b9c0f1b6a831c399e269772661">>,
    <<"abc", "900150983cd24fb0d6963f7d28e17f72">>,
    <<"message digest", "f96b697d7cb7938d525a2f31aaf161d0">>,
    <<"abcdefghijklmnopqrstuvwxyz", "c3fcd3d76192e4007dfb496cca67e13b">>,
    <<"ABCDEFGHIJKLMNOPQRSTUVWXYZabcdefghijklmnopqrstuvwxyz0123456789",
      "d174ab98d277d9f5a5611c2c9f419d9f">>,
    <<"12345678901234567890123456789012345678901234567890123456789012345678901234567890",
      "57edf4a22be3c955ac49da2e2107b67a">> }
  IN  [s \in {Codes(p[1]) : p \in pairs} |->
         DigestOf((CHOOSE p \in pairs : Codes(p[1]) = s)[2])]

HmacSuite ==
  << Repeated(11, 16), Codes("Hi There") >>
     :> DigestOf("9294727a3638bb1c13f48ef8158bfc9d")
  @@ << Codes("Jefe"), Codes("what do ya want for nothing?") >>
     :> DigestOf("750c783e6ab0b503eaa86e310a5db738")
  @@ << Repeated(170, 80), Codes("Test Using Larger Than Block-Size Key - Hash Key First") >>
     :> DigestOf("6b1ab7fe4bd7bf8f0b62e6ce61b9d0cd")

MCSuite == DigestSuite @@ HmacSuite

\* A string of n bytes that differ, high bits included.
Mixed(n) == [p \in 1..n |-> (37 * p + 101) % 256]
MCStrings == DOMAIN DigestSuite \cup {Mixed(n) : n \in {28, 55, 56, 57, 63, 64, 120}}
             \cup {[p \in 1..5 |-> 13000 * p + 300]}
MCKeyedStrings == DOMAIN HmacSuite \cup {<<Mixed(n), Codes("data")>> : n \in {32, 63, 64, 65}}
MCSettings == { [hexcase |-> FALSE, b64pad |-> <<>>, chrsz |-> 8],
                [hexcase |-> TRUE, b64pad |-> Codes("="), chrsz |-> 8],
                [hexcase |-> FALSE, b64pad |-> <<>>, chrsz |-> 16] }

MCHosts == {BadFormat} \cup
  { <<0, 1, 2, 3>>, <<1, 0, 0, 1>>, <<10, 0, 0, 255>>, <<10, 256, 0, 1>>, <<126, 255, 255, 254>>,
    <<127, 0, 0, 1>>, <<128, 0, 0, 1>>, <<172, 16, 255, 255>>, <<191, 255, 0, 1>>,
    <<192, 168, 1, 0>>, <<192, 168, 1, 127>>, <<192, 168, 1, 128>>, <<223, 255, 255, 255>>,
    <<224, 0, 0, 1>>, <<225, 0, 0, 1>> }
MCMasks == {BadFormat} \cup
  { <<0, 0, 0, 0>>, <<128, 0, 0, 0>>, <<254, 0, 0, 0>>, <<255, 0, 0, 0>>, <<255, 128, 0, 0>>,
    <<255, 255, 0, 0>>, <<255, 255, 255, 0>>, <<255, 0, 255, 0>>, <<255, 255, 255, 128>>,
    <<255, 255, 255, 254>>, <<255, 255, 255, 255>>, <<127, 255, 255, 0>>, <<511, 255, 255, 0>>,
    <<255, 254, 384, 0>> }

MCFirstData == << [name |-> A, ip |-> <<10, 0, 0, 1>>], [name |-> B, ip |-> <<10, 0, 0, 1>>],
                  [name |-> A, ip |-> <<10, 0, 0, 2>>] >>
MCAddresses == {<<10, 0, 0, 1>>, <<0, 0, 0, 1>>}
==============================================================================
