---------------------------- MODULE AddressCodec ----------------------------
(***************************************************************************)
(* TransactionScriptParser: how the text of an address is spelled, in      *)
(* Base58Check and in Bech32.  A text is the sequence of the positions of  *)
(* its symbols in the code's alphabet, counted from 0; the constant prefix *)
(* "bc1" of a Bech32 text is left out.                                     *)
(*                                                                         *)
(* A uint32_t is the set of the positions of its 1 bits: shifts move the   *)
(* members, masks intersect, and the exclusive or is the symmetric         *)
(* difference.  Double SHA-256 is external.                                *)
(***************************************************************************)
EXTENDS Bytes, FiniteSetsExt

CONSTANTS
    Programs,      \* what is to be encoded: [kind, version, payload]
    Checksum(_)    \* the first 4 bytes of the double SHA-256, external

ASSUME ProgramsAssumption ==
    \A p \in Programs :
        /\ p.kind \in {"base58", "bech32"}
        /\ p.version \in IF p.kind = "base58" THEN {0, 5} ELSE {0, 1}
        /\ p.payload \in Seq(Byte)

ASSUME ChecksumAssumption ==
    \A p \in Programs : Checksum(<<p.version>> \o p.payload) \in [1 .. 4 -> Byte]

VARIABLES
    program,     \* what was encoded
    text         \* its text

vars == <<program, text>>

Nothing == [kind |-> "nothing", version |-> 0, payload |-> <<>>]

Bits(n, width) == {i \in 0 .. width - 1 : (n \div 2 ^ i) % 2 = 1}
Number(bits) ==
    LET n[i \in 0 .. 30] ==
            (IF i = 0 THEN 0 ELSE n[i - 1]) + (IF i \in bits THEN 2 ^ i ELSE 0)
    IN  n[30]

\* x << n and x >> n on a uint32_t
ShiftLeft(x, n) == {i + n : i \in {j \in x : j + n < 32}}
ShiftRight(x, n) == {i - n : i \in {j \in x : j >= n}}

-----------------------------------------------------------------------------
(* base58Check                                                             *)

\* A mutation of LeadingZeros: they are not preserved.
LeadingZerosDropped(s) == 0

LeadingZeros(s) ==
    CHOOSE n \in 0 .. Len(s) :
        (\A i \in 1 .. n : s[i] = 0) /\ (n < Len(s) => s[n + 1] # 0)

\* The digits of 256 * (the number whose digits are given) + byte, the least
\* significant digit first.
MultiplyAdd(digits, byte) ==
    LET carry[i \in 0 .. Len(digits)] ==
            IF i = 0 THEN byte ELSE (carry[i - 1] + 256 * digits[i]) \div 58
        in(i) == IF i = 0 THEN 0 ELSE (carry[i - 1] + 256 * digits[i]) % 58
        rest[c \in 0 .. 255] == IF c = 0 THEN <<>> ELSE <<c % 58>> \o rest[c \div 58]
    IN  [i \in 1 .. Len(digits) |-> in(i)] \o rest[carry[Len(digits)]]

Digits(bytes) ==
    LET from[n \in 1 .. Len(bytes) + 1, d \in Seq(0 .. 57)] ==
            IF n > Len(bytes) THEN d ELSE from[n + 1, MultiplyAdd(d, bytes[n])]
    IN  from[1, <<>>]

Base58Check(version, payload) ==
    LET full == <<version>> \o payload
    IN  [i \in 1 .. LeadingZeros(full) |-> 0] \o Reversed(Digits(full \o Checksum(full)))

-----------------------------------------------------------------------------
(* bech32Encode.  It always asks convertBits to pad.                       *)

\* A mutation of Flush: the last bits are not moved to the left.
FlushUnshifted(acc, n) == IF n > 0 THEN <<Number(acc \cap 0 .. n - 1)>> ELSE <<>>

\* The n bits that are left in the accumulator, as one more value.
Flush(acc, n) == IF n > 0 THEN <<Number(ShiftLeft(acc, 5 - n) \cap 0 .. 4)>> ELSE <<>>

\* The values of 5 bits that n bits of the accumulator make, the highest first.
Values(acc, n) ==
    [k \in 1 .. n \div 5 |-> Number(ShiftRight(acc, n - 5 * k) \cap 0 .. 4)]

ConvertBits(data) ==
    LET from[n \in 1 .. Len(data) + 1, acc \in SUBSET (0 .. 31), bits \in 0 .. 4] ==
            IF n > Len(data) THEN Flush(acc, bits)
            ELSE LET next == ShiftLeft(acc, 8) \cup Bits(data[n], 8)
                 IN  Values(next, bits + 8) \o from[n + 1, next, (bits + 8) % 5]
    IN  from[1, {}, 0]

Prefix == <<98, 99>>                                             \* "bc"

HrpExpand(prefix) ==
    [i \in 1 .. Len(prefix) |-> prefix[i] \div 32] \o <<0>>
      \o [i \in 1 .. Len(prefix) |-> prefix[i] % 32]

\* 0x3b6a57b2, 0x26508e6d, 0x1ea119fa, 0x3d4233dd, 0x2a1462b3
Bech32Gen ==
    LET values == <<996825010, 642813549, 513874426, 1027748829, 705979059>>
    IN  [i \in 1 .. 5 |-> Bits(values[i], 30)]

\* The exclusive or of a sequence of words: the bits set in an odd number of them
Odd(words) == {b \in 0 .. 31 : Cardinality({i \in DOMAIN words : b \in words[i]}) % 2 = 1}

PolymodStep(c, value) ==
    LET added == {i \in 0 .. 4 : 25 + i \in c}
        shifted == ShiftLeft(c \cap 0 .. 24, 5)
    IN  Odd(<<shifted, Bits(value, 5)>> \o [i \in 1 .. 5 |-> IF i - 1 \in added THEN Bech32Gen[i] ELSE {}])

Bech32Polymod(values) ==
    LET from[n \in 1 .. Len(values) + 1, c \in SUBSET (0 .. 31)] ==
            IF n > Len(values) THEN c ELSE from[n + 1, PolymodStep(c, values[n])]
    IN  from[1, {0}]

\* A mutation of ChecksumXor: Bech32 for every version.
ChecksumXorOfVersion0(version) == {0}

\* 1, and 0x2bc830a3 for the versions after 0
ChecksumXor(version) == IF version = 0 THEN {0} ELSE Bits(734539939, 30)

\* A mutation of CreateBech32Checksum: the values are not masked.
CreateBech32ChecksumUnmasked(data, xorValue) ==
    LET p == SymDiff(Bech32Polymod(HrpExpand(Prefix) \o data \o [i \in 1 .. 6 |-> 0]), xorValue)
    IN  [i \in 1 .. 6 |-> Number(ShiftRight(p, 5 * (6 - i)))]

CreateBech32Checksum(data, xorValue) ==
    LET p == SymDiff(Bech32Polymod(HrpExpand(Prefix) \o data \o [i \in 1 .. 6 |-> 0]), xorValue)
    IN  [i \in 1 .. 6 |-> Number(ShiftRight(p, 5 * (6 - i)) \cap 0 .. 4)]

Bech32Encode(version, witProgram) ==
    LET data == <<version>> \o ConvertBits(witProgram)
    IN  data \o CreateBech32Checksum(data, ChecksumXor(version))

-----------------------------------------------------------------------------
(* One program is encoded: nothing is kept from one call to the next.      *)
AddressText(p) ==
    IF p.kind = "base58" THEN Base58Check(p.version, p.payload)
                         ELSE Bech32Encode(p.version, p.payload)

Init == program = Nothing /\ text = <<>>

Encode ==
    /\ program = Nothing
    /\ program' \in Programs
    /\ text' = AddressText(program')

Next == Encode

Spec == Init /\ [][Next]_vars
-----------------------------------------------------------------------------
(* Properties.  What a text says is defined here by other means than the   *)
(* code's: a reader of Base58 multiplies by 58 in base 256, a reader of    *)
(* Bech32 cuts a string of bits, and the checksum is a remainder of        *)
(* polynomials over the field of 32 elements.                              *)

(* Every symbol of a text is one of the code's alphabet (the index into    *)
(* kBase58Alphabet and kBech32Charset is in range).                        *)
TypeOK ==
    /\ program \in Programs \cup {Nothing}
    /\ text \in Seq(IF program.kind = "base58" THEN 0 .. 57 ELSE 0 .. 31)

\* The bytes of 58 * (the number of these bytes) + digit, most significant first
Read58(bytes, digit) ==
    LET n == Len(bytes)
        carry[i \in 1 .. n + 1] ==
            IF i = n + 1 THEN digit ELSE (carry[i + 1] + 58 * bytes[i]) \div 256
        low == [i \in 1 .. n |-> (carry[i + 1] + 58 * bytes[i]) % 256]
    IN  IF carry[1] = 0 THEN low ELSE <<carry[1]>> \o low

\* What a wallet reads: a zero byte for each leading "1", then the number.
Base58Decoded(t) ==
    LET ones == CHOOSE n \in 0 .. Len(t) :
                    (\A i \in 1 .. n : t[i] = 0) /\ (n < Len(t) => t[n + 1] # 0)
        from[n \in 1 .. Len(t) + 1, b \in Seq(Byte)] ==
            IF n > Len(t) THEN b ELSE from[n + 1, Read58(b, t[n])]
    IN  [i \in 1 .. ones |-> 0] \o from[1, <<>>]

(* A Base58Check text says the version, the payload and the checksum, with *)
(* every leading zero byte (base58Check: "Preserves leading zeros as '1'   *)
(* characters in the result string").                                      *)
Base58RoundTrip ==
    program.kind = "base58" =>
        LET full == <<program.version>> \o program.payload
        IN  Base58Decoded(text) = full \o Checksum(full)

\* The bits of s, each element width bits, most significant first
BitString(s, width) ==
    [k \in 0 .. width * Len(s) - 1 |->
        (s[k \div width + 1] \div 2 ^ (width - 1 - (k % width))) % 2]

(* The symbols between the version and the checksum are the bits of the    *)
(* witness program, filled up with fewer than five zeros (convertBits with *)
(* padding).                                                               *)
Bech32RoundTrip ==
    program.kind = "bech32" =>
        LET b == BitString(program.payload, 8)
            d == BitString(SubSeq(text, 2, Len(text) - 6), 5)
        IN  /\ text[1] = program.version
            /\ Cardinality(DOMAIN d) \in Cardinality(DOMAIN b) .. Cardinality(DOMAIN b) + 4
            /\ \A k \in DOMAIN d : d[k] = IF k \in DOMAIN b THEN b[k] ELSE 0

\* The field of 32 elements: x^5 = x^3 + 1, addition is exclusive or.
Double(a) == IF a < 16 THEN 2 * a ELSE Xor(2 * a - 32, 9)
Times(a, b) ==
    LET d1 == Double(a)
        d2 == Double(d1)
        d3 == Double(d2)
        term(x, i) == IF (b \div 2 ^ i) % 2 = 1 THEN x ELSE 0
    IN  Xor(term(a, 0), Xor(term(d1, 1), Xor(term(d2, 2), Xor(term(d3, 3), term(Double(d3), 4)))))

Generator == <<29, 22, 20, 21, 29, 18>>          \* of x^6, without its leading term

\* The remainder of the polynomial with these coefficients, the leading 1 first
Remainder(coefficients) ==
    LET step(q, a) == LET moved == Append(Tail(q), a)
                      IN  [i \in 1 .. 6 |-> Xor(moved[i], Times(q[1], Generator[i]))]
        from[n \in 1 .. Len(coefficients) + 1, q \in Seq(0 .. 31)] ==
            IF n > Len(coefficients) THEN q ELSE from[n + 1, step(q, coefficients[n])]
    IN  from[1, <<0, 0, 0, 0, 0, 1>>]

(* Text, version and checksum form a word of the Bech32 code for version 0 *)
(* and of the Bech32m code for later ones: their remainder is 1, or        *)
(* 0x2bc830a3 (bech32Polymod and createBech32Checksum).                    *)
ChecksumVerifies ==
    program.kind = "bech32" =>
        Remainder(<<3, 3, 0, 2, 3>> \o text) =
            IF program.version = 0 THEN <<0, 0, 0, 0, 0, 1>> ELSE <<21, 28, 16, 12, 5, 3>>
=============================================================================
