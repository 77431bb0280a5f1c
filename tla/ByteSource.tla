----------------------------- MODULE ByteSource -----------------------------
(***************************************************************************)
(* What a client of BitcoinReader may rely on, without streams, state      *)
(* bits, caches or obfuscation: a sequence of plain bytes and a cursor.    *)
(* Every answer is either exactly what the plain bytes say at the cursor,  *)
(* or a refusal; after a failed read nothing but a read of zero bytes is   *)
(* ever granted again, so a client cannot pick up bytes from a place it    *)
(* did not ask for.                                                        *)
(***************************************************************************)
EXTENDS Bytes

CONSTANTS
    Contents,    \* the possible plain contents of the file
    Lengths,     \* how many bytes a client asks for at once
    Positions,   \* where a client moves the cursor to
    MaxRequest   \* the longest request memory allows

VARIABLES
    content,     \* the plain bytes
    cursor,      \* where the next read starts: what getReadPosition() answers
    broken,      \* a read has failed
    answer       \* what the last call returned

vars == <<content, cursor, broken, answer>>

Bytes(n) == SubSeq(content, cursor + 1, cursor + n)

Available(n) == ~broken /\ cursor + n <= Len(content)

Init ==
    /\ content \in Contents
    /\ cursor = 0
    /\ broken = FALSE
    /\ answer = [kind |-> "none"]

(* n bytes in file order.                                                   *)
Read(n) ==
    /\ n = 0 \/ Available(n)
    /\ cursor' = cursor + n
    /\ answer' = [kind |-> "bytes", asked |-> n, data |-> IF n = 0 THEN <<>> ELSE Bytes(n)]
    /\ UNCHANGED <<content, broken>>

(* A read is refused only when the bytes asked for are not there, or after *)
(* an earlier refusal.                                                     *)
Refuse(n) ==
    /\ n # 0 /\ ~Available(n)
    /\ broken' = TRUE
    /\ answer' = [kind |-> "refused", asked |-> n]
    /\ UNCHANGED <<content, cursor>>

(* A request larger than memory ends in an exception and reads nothing.    *)
Throw(n) ==
    /\ n > MaxRequest
    /\ answer' = [kind |-> "thrown", asked |-> n]
    /\ broken' \in {broken, cursor >= Len(content)}
    /\ broken => broken'
    /\ UNCHANGED <<content, cursor>>

(* A 32-byte hash arrives in reverse order.                                *)
ReadHash ==
    /\ Available(32)
    /\ cursor' = cursor + 32
    /\ answer' = [kind |-> "hash", data |-> Reversed(Bytes(32))]
    /\ UNCHANGED <<content, broken>>

(* A CompactSize integer is self-delimiting: 1, 3, 5 or 9 bytes.           *)
SizeWidth == LET first == content[cursor + 1]
             IN  CASE first < 253 -> 1 [] first = 253 -> 3 [] first = 254 -> 5 [] OTHER -> 9

SizeAvailable == Available(1) /\ Available(SizeWidth)

SizeValue ==
    LET tail == SubSeq(content, cursor + 2, cursor + SizeWidth)
    IN  CASE SizeWidth = 1 -> content[cursor + 1]
          [] SizeWidth = 3 -> Le16(tail)
          [] SizeWidth = 5 -> Le32(tail)
          [] SizeWidth = 9 -> Le64(tail)

ReadSize ==
    /\ SizeAvailable
    /\ cursor' = cursor + SizeWidth
    /\ answer' = [kind |-> "size", value |-> SizeValue]
    /\ UNCHANGED <<content, broken>>

(* One cut short by the end of the content has consumed its first byte.    *)
RefuseSize ==
    /\ ~SizeAvailable
    /\ broken' = TRUE
    /\ cursor' = IF Available(1) THEN cursor + 1 ELSE cursor
    /\ answer' = [kind |-> "no size"]
    /\ UNCHANGED content

MoveTo(p) ==
    /\ answer' = [kind |-> "moved", to |-> p, done |-> ~broken]
    /\ cursor' = IF broken THEN cursor ELSE p
    /\ UNCHANGED <<content, broken>>

(* The end is reported exactly when no byte is left or the source broke.   *)
AskEnd ==
    /\ answer' = [kind |-> "end", value |-> broken \/ cursor >= Len(content)]
    /\ UNCHANGED <<content, cursor, broken>>

Next ==
    \/ \E n \in Lengths : Read(n) \/ Refuse(n) \/ Throw(n)
    \/ ReadHash
    \/ Refuse(32)
    \/ ReadSize
    \/ RefuseSize
    \/ \E p \in Positions : MoveTo(p)
    \/ AskEnd

Spec == Init /\ [][Next]_vars
=============================================================================
