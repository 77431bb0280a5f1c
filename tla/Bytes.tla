------------------------------- MODULE Bytes -------------------------------
(***************************************************************************)
(* Byte-level helpers of the parser: the XOR of one byte with one key byte *)
(* and the little-endian integer conversions of Utils.cpp.                 *)
(*                                                                         *)
(* TLC's integers are 32 bits wide, the program's are up to 64.  Integers  *)
(* decoded here saturate at Huge: every limit the code compares them with  *)
(* (a block size, a count, a script length) lies below it, so no decision  *)
(* of the code tells two saturated values apart.                           *)
(***************************************************************************)
EXTENDS Integers, Sequences

Byte == 0 .. 255

Huge == 1073741824                                                \* 2^30

(* The bit of weight w of the exclusive or of a and b.                     *)
XorBit(a, b, w) == (((a \div w) + (b \div w)) % 2) * w

Xor(a, b) ==
    XorBit(a, b, 1)  + XorBit(a, b, 2)  + XorBit(a, b, 4)  + XorBit(a, b, 8) +
    XorBit(a, b, 16) + XorBit(a, b, 32) + XorBit(a, b, 64) + XorBit(a, b, 128)

Le16(s) == s[1] + 256 * s[2]

(* From 2^30 on (fourth byte 64 or more) the value is Huge.                *)
Le32(s) == IF s[4] >= 64 THEN Huge
           ELSE Le16(s) + 65536 * s[3] + 16777216 * s[4]

Le64(s) == IF \E i \in 5 .. 8 : s[i] # 0 THEN Huge ELSE Le32(s)

Reversed(s) == [i \in 1 .. Len(s) |-> s[Len(s) + 1 - i]]
=============================================================================
