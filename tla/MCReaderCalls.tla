--------------------------- MODULE MCReaderCalls ---------------------------
(***************************************************************************)
(* Small instance of ReaderCalls.  The plain files hold CompactSize        *)
(* integers of every width, whole and cut short, and are long enough for a *)
(* hash; one is stored in the clear, one obfuscated with a key whose eight *)
(* bytes differ, one is empty.                                             *)
(***************************************************************************)
EXTENDS ReaderCalls, TLC

Pattern(n) == [i \in 1 .. n |-> (37 * i) % 251]

\* widths 3, 5 and 9 at offsets 3, 7 and 33; the last byte announces more
PlainFile ==
    [i \in 1 .. 44 |-> CASE i = 4 -> 253 [] i = 8 -> 254 [] i = 34 -> 255 [] i = 44 -> 254
                         [] i \in 38 .. 42 -> 0 [] i = 12 -> 3 [] OTHER -> Pattern(44)[i]]

Key == <<17, 255, 0, 128, 63, 202, 5, 90>>

MCImages ==
    {[disk |-> PlainFile, key |-> <<>>],
     [disk |-> Deobfuscate(Key, 0, PlainFile), key |-> Key],
     [disk |-> <<>>, key |-> Key]}

MCLengths == {0, 1, 2, 4, 9, 20, 200}

MCPositions == {0, 3, 7, 12, 33, 43, 44, 47}

=============================================================================
