------------------------------ MODULE StartKey ------------------------------
(***************************************************************************)
(* createStartKey(index) of overlay/ChordKey.java: the start of finger     *)
(* `index' of the node with this key.  The code adds 1 << index to the     *)
(* lowest byte and, while the sum overflows a byte, adds 1 << index AND    *)
(* the carry to the next byte, so the start is key + 2^index only until    *)
(* the first overflow.  Byte width and key length are scaled down: the     *)
(* code has Radix = 256, Bytes = 4, and 16 = 2 * 8 fingers.                *)
(***************************************************************************)
EXTENDS Integers

CONSTANTS Radix, Bytes

ASSUME StartKeyAssumption == Radix \in Nat \ {0, 1} /\ Bytes \in Nat \ {0}

CreateStartKey(key, index) ==
  LET byte(p)  == (key \div Radix^p) % Radix
      above(p) == (key \div Radix^(p + 1)) * Radix^(p + 1)
      add[p \in 0 .. Bytes, carry \in 0 .. Radix - 1] ==
        LET value == byte(p) + 2^index + carry
        IN  IF p = Bytes THEN 0
            ELSE (value % Radix) * Radix^p
                 + (IF value < Radix THEN above(p)
                    ELSE add[p + 1, (value \div Radix) % Radix])
  IN  add[0, 0]
=============================================================================
