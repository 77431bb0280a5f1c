--------------------------- MODULE MCAddressCodec ---------------------------
(***************************************************************************)
(* Small instance of AddressCodec.  Regrouping bits and the checksum of    *)
(* Bech32 are affine over the field of two elements, so the programs with  *)
(* at most one 1 bit stand for all programs of their length.  Base58 is    *)
(* given every number of leading zeros, the bytes around 58 and 256, and   *)
(* the program of a known address.                                         *)
(***************************************************************************)
EXTENDS AddressCodec

OneBit(n) == {[i \in 1 .. n |-> IF i = k THEN 2 ^ b ELSE 0] : k \in 1 .. n, b \in 0 .. 7}
Zeros(n) == [i \in 1 .. n |-> 0]

Known == <<117, 30, 118, 232, 25, 145, 150, 212, 84, 148, 28, 69, 209, 179, 163, 35, 241, 67, 59, 214>>

Hashes ==
    {[i \in 1 .. 20 |-> IF i <= z THEN 0 ELSE b] : z \in 0 .. 20, b \in {1, 57, 58, 255}} \cup {Known}

MCPrograms ==
    [kind : {"base58"}, version : {0, 5}, payload : Hashes]
      \cup [kind : {"bech32"}, version : {0}, payload : OneBit(20) \cup {Zeros(20), Known}]
      \cup [kind : {"bech32"}, version : {0, 1}, payload : OneBit(32) \cup {Zeros(32)}]

\* 4 bytes that depend on every byte of what is hashed; those of the all-zero
\* hash do not begin with a zero, like the real ones (94a00911).
MCChecksum(full) ==
    LET sum[n \in 0 .. Len(full)] == IF n = 0 THEN 0 ELSE (sum[n - 1] * 3 + full[n]) % 251
        s == sum[Len(full)]
    IN  IF s = 0 THEN <<148, 160, 9, 17>> ELSE <<s, 0, 255 - s, (7 * s) % 256>>
=============================================================================
