---------------------------- MODULE ReaderCalls ----------------------------
(***************************************************************************)
(* One BitcoinReader and a client that calls its public operations in any  *)
(* order.  The client keeps one rule the parsers of this program keep: it  *)
(* stops at the first TRUE of isEof() (BlockFileParser::parse leaves its   *)
(* loop).  SpecAnyClient drops that rule.                                  *)
(***************************************************************************)
EXTENDS BitcoinReader

CONSTANTS
    Images,      \* what can be on disk: [disk |-> file bytes, key |-> xor.dat bytes]
    Lengths,     \* byte counts the client asks for
    Positions    \* positions the client moves to

ASSUME ImagesAssumption == Images \subseteq [disk: Seq(Byte), key: Keys]
ASSUME LengthsAssumption == Lengths \subseteq Nat
ASSUME PositionsAssumption == Positions \subseteq Nat

VARIABLES
    reader,      \* the BitcoinReader object
    answer       \* what its last call returned

vars == <<reader, answer>>

Init ==
    /\ \E im \in Images : reader = NewReader(im.disk, im.key)
    /\ answer = [kind |-> "none"]

CallReadData(n) ==
    LET res == ReadData(reader, n) IN
    /\ reader' = res.reader
    /\ answer' = CASE res.status = "ok"     -> [kind |-> "bytes", asked |-> n, data |-> res.data]
                   [] res.status = "thrown" -> [kind |-> "thrown", asked |-> n]
                   [] OTHER                 -> [kind |-> "refused", asked |-> n]

CallReadDataArray32 ==
    LET res == ReadArray32(reader) IN
    /\ reader' = res.reader
    /\ answer' = IF res.status = "ok" THEN [kind |-> "hash", data |-> res.data]
                                      ELSE [kind |-> "refused", asked |-> 32]

CallReadDataCompactSize ==
    LET res == ReadCompactSize(reader) IN
    /\ reader' = res.reader
    /\ answer' = IF res.status = "ok" THEN [kind |-> "size", value |-> res.data]
                                      ELSE [kind |-> "no size"]

CallSetReadPosition(p) ==
    LET res == SetReadPosition(reader, p) IN
    /\ reader' = res.reader
    /\ answer' = [kind |-> "moved", to |-> p, done |-> res.status = "ok"]

CallIsEof ==
    /\ reader' = AfterIsEof(reader)
    /\ answer' = [kind |-> "end", value |-> AtEof(reader)]

Read ==
    \/ \E n \in Lengths : CallReadData(n)
    \/ CallReadDataArray32
    \/ CallReadDataCompactSize

Next ==
    \/ Read
    \/ \E p \in Positions : CallSetReadPosition(p)
    \/ ~reader.eof /\ CallIsEof

Spec == Init /\ [][Next]_vars

NextAnyClient == Next \/ CallIsEof

SpecAnyClient == Init /\ [][NextAnyClient]_vars
-----------------------------------------------------------------------------
AnswerKinds ==
    {"none", "bytes", "refused", "thrown", "hash", "size", "no size", "moved", "end"}

(* Each variable holds a value of its C++ type.                            *)
TypeOK ==
    /\ reader \in ReaderType
    /\ answer.kind \in AnswerKinds

(* The cached position the parsers compute with (getReadPosition) is the   *)
(* position the stream will read from, as long as no call has failed.      *)
CacheCoherent == ~reader.fail => reader.mpos = reader.pos

(* The stream breaks only at the end of the file: whenever failbit is set  *)
(* no byte is left, so isEof() answering TRUE there is the truth.          *)
FailedOnlyAtEnd == reader.fail \/ reader.eof => reader.pos >= Len(reader.disk)

(* A failure is for ever: no call makes a failed stream readable again, so *)
(* no parser can resume in the middle of a record after an error.          *)
FailureIsSticky == [][reader.fail => reader'.fail]_vars

(* The reader implements the plain byte source: any sequence of calls      *)
(* returns what the same calls on the plain bytes return.                  *)
Source == INSTANCE ByteSource WITH
    Contents   <- {Plain(NewReader(im.disk, im.key)) : im \in Images},
    MaxRequest <- AllocLimit,
    content    <- Plain(reader),
    cursor     <- reader.mpos,
    broken     <- reader.fail

ImplementsByteSource == Source!Spec
=============================================================================
