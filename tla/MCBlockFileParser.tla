------------------------- MODULE MCBlockFileParser -------------------------
(***************************************************************************)
(* Small instance of BlockFileParser: block files built field by field,    *)
(* with the real widths, then damaged.  The files hold no block, one or    *)
(* two; blocks with no, one or two transactions; legacy and segwit         *)
(* transactions; scripts and witness items of length 0, 1 and 2; stacks    *)
(* with 0, 1 and 2 items; counts in their short and their 3-byte form.     *)
(***************************************************************************)
EXTENDS BlockJson

Fill(n, b) == [i \in 1 .. n |-> b]

\* CompactSize n in 1 byte, and in the longer form that starts with 253
Short(n) == <<n>>
Long(n)  == <<253, n, 0>>

LeBytes(n) == <<n % 256, n \div 256, 0, 0>>

TxInBytes(n)  == Fill(32, 7) \o Fill(4, 0) \o Short(n) \o Fill(n, 81) \o Fill(4, 255)
TxOutBytes(n) == Fill(8, 3) \o Long(n) \o Fill(n, 106)
LockBytes == Fill(4, 0)
VersionBytes == <<2, 0, 0, 0>>

LegacyTx ==
    VersionBytes \o Short(1) \o TxInBytes(2) \o Long(2) \o TxOutBytes(0) \o TxOutBytes(1) \o LockBytes

\* two inputs: a stack of two items (1 and 0 bytes) and an empty stack
SegwitTx ==
    VersionBytes \o SegwitFlag \o Short(2) \o TxInBytes(0) \o TxInBytes(1)
        \o Short(1) \o TxOutBytes(2)
        \o Short(2) \o Short(1) \o <<48>> \o Short(0) \o Short(0) \o LockBytes

\* one input spent with a one-item stack, no output
OddTx == VersionBytes \o SegwitFlag \o Short(1) \o TxInBytes(0) \o Short(0)
             \o Short(1) \o Long(2) \o <<48, 49>> \o LockBytes

Header == Fill(4, 1) \o Fill(32, 5) \o Fill(32, 6) \o Fill(12, 9)

Framed(body) == MagicBytes \o LeBytes(Len(body)) \o body

HeaderOnlyBlock == Framed(Header \o Short(0))
LegacyBlock     == Framed(Header \o Short(1) \o LegacyTx)
MixedBlock      == Framed(Header \o Long(2) \o SegwitTx \o OddTx)

WellFormed == {<<>>, HeaderOnlyBlock, LegacyBlock, MixedBlock, LegacyBlock \o MixedBlock}

Key == <<17, 255, 0, 128, 63, 202, 5, 90>>

Stored(f, key) == [disk |-> Deobfuscate(key, 0, f), key |-> key]

\* every file whole, in the clear, obfuscated, and read without its key
Whole == {Stored(f, k) : f \in WellFormed, k \in {<<>>, Key}}
             \cup {[disk |-> Stored(LegacyBlock, Key).disk, key |-> <<>>]}

\* a file cut off at every possible place, and one followed by zero padding
Cut == {Stored(SubSeq(MixedBlock, 1, n), <<>>) : n \in 0 .. Len(MixedBlock)}
           \cup {Stored(LegacyBlock \o Fill(10, 0), <<>>)}

\* a block that announces one transaction more than it holds, and a stack
\* that announces one item more
OneTooMany ==
    {Stored(Framed(Header \o Short(2) \o LegacyTx), <<>>),
     Stored(Framed(Header \o Short(1) \o VersionBytes \o SegwitFlag \o Short(1) \o TxInBytes(0)
                       \o Short(0) \o Short(2) \o Short(1) \o <<48>> \o LockBytes), <<>>)}

\* one byte of a file replaced
Damaged(f, values) ==
    {Stored([f EXCEPT ![i] = v], <<>>) : i \in 1 .. Len(f), v \in values}

WholeImages   == Whole
CutImages     == Whole \cup Cut \cup OneTooMany
DamagedImages == CutImages \cup Damaged(MixedBlock, {0, 1, 2, 253, 255})

-----------------------------------------------------------------------------
(* The grammar takes each of the well-formed files for the blocks it was   *)
(* made of: what the parser is compared with is not empty.                 *)
ASSUME GrammarAssumption ==
    /\ \A b \in {HeaderOnlyBlock, LegacyBlock, MixedBlock} : Format!Block(b, 0) = Len(b)
    /\ Format!Block(LegacyBlock \o MixedBlock, 0) = Len(LegacyBlock)
    /\ Format!Block(LegacyBlock \o MixedBlock, Len(LegacyBlock)) = Len(LegacyBlock \o MixedBlock)
=============================================================================
