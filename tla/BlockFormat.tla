----------------------------- MODULE BlockFormat -----------------------------
(***************************************************************************)
(* The format of a block file as a grammar over its plain bytes: for each  *)
(* kind of part, where the one that begins behind the first p bytes of a   *)
(* file ends, or Nowhere when there is none.  It is what the parser is     *)
(* compared with, and knows nothing of reads, rewinds, positions kept      *)
(* twice and return codes.                                                 *)
(*                                                                         *)
(* The parts that a list may be made of are functions of the place where   *)
(* they begin.                                                             *)
(***************************************************************************)
EXTENDS Integers, Sequences

CONSTANTS
    Limit,      \* no list, text or transaction is longer than memory allows
    MaxSize     \* no block is longer

Nowhere == -1

Places(f) == {Nowhere} \cup 0 .. Len(f)

Skip(f, p, n) == IF p # Nowhere /\ p + n <= Len(f) THEN p + n ELSE Nowhere

(* An integer from its bytes, least significant first.  From 2^30 on, more *)
(* than any limit, the exact value does not matter.                        *)
Beyond == 1073741824

Digit(bytes, i) == IF i <= Len(bytes) THEN bytes[i] ELSE 0

Number(bytes) ==
    IF Digit(bytes, 4) >= 64 \/ \E i \in 5 .. 8 : Digit(bytes, i) # 0 THEN Beyond
    ELSE Digit(bytes, 1) + 256 * Digit(bytes, 2)
             + 65536 * Digit(bytes, 3) + 16777216 * Digit(bytes, 4)

(* A count: one byte, or a mark and 2, 4 or 8 bytes.                       *)
Wide(mark) == CASE mark < 253 -> 0 [] mark = 253 -> 2 [] mark = 254 -> 4 [] OTHER -> 8

CountEnd(f, p) ==
    IF Skip(f, p, 1) = Nowhere THEN Nowhere ELSE Skip(f, p, 1 + Wide(f[p + 1]))

Count(f, p) ==
    IF Wide(f[p + 1]) = 0 THEN f[p + 1]
    ELSE Number(SubSeq(f, p + 2, p + 1 + Wide(f[p + 1])))

Counted(f, p) == CountEnd(f, p) # Nowhere /\ Count(f, p) <= Limit

(* n parts of one kind, one after another; and as many as a count says.    *)
Repeat(part, n, p) ==
    LET end[k \in 0 .. n] == IF k = 0 THEN p ELSE part[end[k - 1]]
    IN  end[n]

List(f, part, p) ==
    IF Counted(f, p) THEN Repeat(part, Count(f, p), CountEnd(f, p)) ELSE Nowhere

Text(f, p) == IF Counted(f, p) THEN Skip(f, CountEnd(f, p), Count(f, p)) ELSE Nowhere

Input(f) == [p \in Places(f) |-> Skip(f, Text(f, Skip(f, p, 36)), 4)]
Output(f) == [p \in Places(f) |-> Text(f, Skip(f, p, 8))]
Item(f) == [p \in Places(f) |-> Text(f, p)]
Stack(f) == [p \in Places(f) |-> List(f, Item(f), p)]

(* A transaction: its version, in the segwit form the flag, the inputs,    *)
(* the outputs, in the segwit form a stack for each input, the lock time.  *)
Segwit(f, p) == Skip(f, p, 6) # Nowhere /\ SubSeq(f, p + 5, p + 6) = <<0, 1>>

Begin(f, p) == Skip(f, p, IF Segwit(f, p) THEN 6 ELSE 4)
Inputs(f, p) == List(f, Input(f), Begin(f, p))
Outputs(f, p) == List(f, Output(f), Inputs(f, p))

Stacks(f, p) ==
    IF Segwit(f, p) /\ Outputs(f, p) # Nowhere
    THEN Repeat(Stack(f), Count(f, Begin(f, p)), Outputs(f, p))
    ELSE Outputs(f, p)

Transaction(f) ==
    [p \in Places(f) |->
        LET end == Skip(f, Stacks(f, p), 4) IN IF end - p <= Limit THEN end ELSE Nowhere]

(* A block: the magic number, the size, the header, the transactions.      *)
Transactions(f, p) == List(f, Transaction(f), Skip(f, p, 88))

Block(f, p) ==
    LET size == Number(SubSeq(f, p + 5, p + 8))
    IN  IF /\ Skip(f, p, 88) # Nowhere
           /\ SubSeq(f, p + 1, p + 4) = <<249, 190, 180, 217>>
           /\ size \in 1 .. MaxSize
           /\ Transactions(f, p) = p + 8 + size
        THEN p + 8 + size ELSE Nowhere
=============================================================================
