------------------------- MODULE ReaderCalls_proofs -------------------------
(***************************************************************************)
(* What holds of BitcoinReader for every file, every key and every         *)
(* sequence of calls: types, the coherence of the cached position, failure *)
(* only at the end of the file and for ever, and the implementation of the *)
(* plain byte source.                                                      *)
(***************************************************************************)
EXTENDS ReaderCalls, BitcoinReader_proofs

IInv == TypeOK /\ CacheCoherent /\ FailedOnlyAtEnd

(* The invariant in the form the lemmas about single calls use.            *)
LEMMA IInvIsSound == IInv => Sound(reader)
BY DEF IInv, TypeOK, CacheCoherent, FailedOnlyAtEnd, Sound

LEMMA SoundIsIInv == Sound(reader)' /\ (answer.kind \in AnswerKinds)' => IInv'
BY DEF IInv, TypeOK, CacheCoherent, FailedOnlyAtEnd, Sound

LEMMA InitIsSound == Init => IInv
<1> SUFFICES ASSUME Init PROVE IInv
  OBVIOUS
<1>1. PICK im \in Images : reader = NewReader(im.disk, im.key)
  BY DEF Init
<1>2. im.disk \in Seq(Byte) /\ im.key \in Keys
  BY <1>1, ImagesAssumption
<1>3. Sound(reader)
  BY <1>1, <1>2, NewReaderSound
<1> QED BY <1>3 DEF IInv, TypeOK, CacheCoherent, FailedOnlyAtEnd, Sound, Init, AnswerKinds

(* readDataArray32 is a read of 32 bytes, delivered in reverse order.      *)
LEMMA ReadArray32Gives ==
    ASSUME Sound(reader)
    PROVE  LET res == ReadArray32(reader)
               fwd == ReadData(reader, 32)
           IN  /\ ReadDataGives(reader, 32, fwd)
               /\ res.reader = fwd.reader /\ res.status = fwd.status
               /\ res.data = Reversed(fwd.data)
<1>1. ReadDataGives(reader, 32, ReadData(reader, 32))
  BY ReadDataSound
<1>2. ReadArray32(reader) = [ReadData(reader, 32) EXCEPT !.data = Reversed(ReadData(reader, 32).data)]
  BY DEF ReadArray32
<1> QED BY <1>1, <1>2 DEF ReadDataGives, Result

-----------------------------------------------------------------------------
(* What one call keeps, whatever it is: the file is never changed, the     *)
(* reader stays sound, and a failure stays.                                *)
Kept == /\ Sound(reader') /\ (answer.kind \in AnswerKinds)'
        /\ reader'.disk = reader.disk /\ reader'.key = reader.key
        /\ reader.fail => reader'.fail

LEMMA CallKeeps == IInv /\ NextAnyClient => Kept
<1> SUFFICES ASSUME IInv, NextAnyClient PROVE Kept
  OBVIOUS
<1>0. Sound(reader)
  BY IInvIsSound
<1>1. ASSUME NEW n \in Lengths, CallReadData(n) PROVE Kept
  <2>1. ReadDataGives(reader, n, ReadData(reader, n))
    BY <1>0, <1>1, LengthsAssumption, ReadDataSound
  <2>2. reader' = ReadData(reader, n).reader
    BY <1>1 DEF CallReadData
  <2>3. (answer.kind \in AnswerKinds)'
    BY <1>1 DEF CallReadData, AnswerKinds
  <2> QED BY <2>1, <2>2, <2>3 DEF Kept, ReadDataGives
<1>2. ASSUME CallReadDataArray32 PROVE Kept
  <2>1. /\ ReadDataGives(reader, 32, ReadData(reader, 32))
        /\ reader' = ReadData(reader, 32).reader
    BY <1>0, <1>2, ReadArray32Gives DEF CallReadDataArray32
  <2>2. (answer.kind \in AnswerKinds)'
    BY <1>2 DEF CallReadDataArray32, AnswerKinds
  <2> QED BY <2>1, <2>2 DEF Kept, ReadDataGives
<1>3. ASSUME CallReadDataCompactSize PROVE Kept
  <2>1. reader' = ReadCompactSize(reader).reader
    BY <1>3 DEF CallReadDataCompactSize
  <2>2. (answer.kind \in AnswerKinds)'
    BY <1>3 DEF CallReadDataCompactSize, AnswerKinds
  <2> QED BY <1>0, <2>1, <2>2, ReadCompactSizeSound DEF Kept
<1>4. ASSUME NEW p \in Positions, CallSetReadPosition(p) PROVE Kept
  <2>1. reader' = SetReadPosition(reader, p).reader
    BY <1>4 DEF CallSetReadPosition
  <2>2. (answer.kind \in AnswerKinds)'
    BY <1>4 DEF CallSetReadPosition, AnswerKinds
  <2> QED BY <1>0, <2>1, <2>2, PositionsAssumption, SetReadPositionSound DEF Kept
<1>5. ASSUME CallIsEof PROVE Kept
  <2>1. reader' = AfterIsEof(reader)
    BY <1>5 DEF CallIsEof
  <2>2. (answer.kind \in AnswerKinds)'
    BY <1>5 DEF CallIsEof, AnswerKinds
  <2> QED BY <1>0, <2>1, <2>2, IsEofSound DEF Kept
<1> QED BY <1>1, <1>2, <1>3, <1>4, <1>5 DEF NextAnyClient, Next, Read

LEMMA StepKeeps == IInv /\ [NextAnyClient]_vars => IInv'
<1>1. IInv /\ NextAnyClient => IInv'
  BY CallKeeps, SoundIsIInv DEF Kept
<1>2. IInv /\ UNCHANGED vars => IInv'
  BY DEF IInv, TypeOK, CacheCoherent, FailedOnlyAtEnd, vars
<1> QED BY <1>1, <1>2

LEMMA SpecIsAnyClient == Spec => SpecAnyClient
<1>1. [Next]_vars => [NextAnyClient]_vars
  BY DEF NextAnyClient
<1> QED BY <1>1, PTL DEF Spec, SpecAnyClient

(* Even a client that goes on asking isEof() at the end keeps the          *)
(* invariant.                                                              *)
THEOREM Invariance == SpecAnyClient => []IInv
BY InitIsSound, StepKeeps, PTL DEF SpecAnyClient

(* Each variable holds a value of its C++ type, whatever the calls.        *)
THEOREM TypeCorrect == Spec => []TypeOK
<1>1. IInv => TypeOK
  BY DEF IInv
<1> QED BY <1>1, Invariance, SpecIsAnyClient, PTL

(* As long as no call has failed, getReadPosition() is the position the    *)
(* stream reads from.                                                      *)
THEOREM CacheIsCoherent == Spec => []CacheCoherent
<1>1. IInv => CacheCoherent
  BY DEF IInv
<1> QED BY <1>1, Invariance, SpecIsAnyClient, PTL

(* The stream breaks only where the file ends.                             *)
THEOREM FailsOnlyAtTheEnd == Spec => []FailedOnlyAtEnd
<1>1. IInv => FailedOnlyAtEnd
  BY DEF IInv
<1> QED BY <1>1, Invariance, SpecIsAnyClient, PTL

(* No call makes a failed reader readable again.                           *)
THEOREM FailuresStay == Spec => FailureIsSticky
<1>1. IInv /\ [NextAnyClient]_vars => [reader.fail => reader'.fail]_vars
  BY CallKeeps DEF Kept
<1> QED BY <1>1, Invariance, SpecIsAnyClient, PTL DEF FailureIsSticky, SpecAnyClient
-----------------------------------------------------------------------------
(* The refinement.  Plain bytes at the cursor, seen from both sides: the   *)
(* program's PlainAt and the source's segments of its content.             *)
LEMMA SameBytes ==
    ASSUME Sound(reader), NEW n \in Nat, ~reader.fail, reader.mpos + n <= Len(reader.disk)
    PROVE  /\ Source!Available(n)
           /\ PlainAt(reader, reader.mpos, n) = Source!Bytes(n)
<1>1. reader \in ReaderType /\ reader.mpos \in Nat /\ Len(Plain(reader)) = Len(reader.disk)
  BY ReaderFields, DeobfuscateIsBytes DEF Sound, Plain
<1> QED BY <1>1, PlainAtIsSubSeq DEF Source!Available, Source!Bytes

LEMMA SameLength == Sound(reader) => Len(Plain(reader)) = Len(reader.disk)
BY ReaderFields, DeobfuscateIsBytes DEF Sound, Plain

LEMMA SameFirst ==
    ASSUME Sound(reader), reader.mpos + 1 <= Len(reader.disk)
    PROVE  /\ FirstAt(reader, reader.mpos) = Plain(reader)[reader.mpos + 1]
           /\ FirstAt(reader, reader.mpos) \in Byte
BY ReaderFields, FirstByte, CompactAtNat DEF Sound

LEMMA SameWidth ==
    ASSUME Sound(reader), reader.mpos + 1 <= Len(reader.disk)
    PROVE  Source!SizeWidth = WidthAt(reader, reader.mpos)
<1> DEFINE first == FirstAt(reader, reader.mpos)
<1>1. first \in Byte
  BY SameFirst
<1>2. Source!SizeWidth = CASE first < 253 -> 1 [] first = 253 -> 3
                           [] first = 254 -> 5 [] OTHER -> 9
  BY SameFirst DEF Source!SizeWidth
<1>3. WidthAt(reader, reader.mpos) = 1 + CompactTail(first)
  BY DEF WidthAt
<1> HIDE DEF first
<1>4. CASE first < 253
  <2>1. first # 253 /\ first # 254 /\ ~(first > 254)
    BY <1>1, <1>4 DEF Byte
  <2>2. Source!SizeWidth = 1
    BY <1>2, <1>4, <2>1
  <2>3. CompactTail(first) = 0
    BY <1>4, <2>1 DEF CompactTail
  <2> QED BY <1>3, <2>2, <2>3
<1>5. CASE first = 253
  BY <1>2, <1>3, <1>5 DEF CompactTail
<1>6. CASE first = 254
  BY <1>2, <1>3, <1>6 DEF CompactTail
<1>7. CASE first = 255
  BY <1>2, <1>3, <1>7 DEF CompactTail
<1> QED BY <1>1, <1>4, <1>5, <1>6, <1>7 DEF Byte

LEMMA SameValue ==
    ASSUME Sound(reader), reader.mpos + 1 <= Len(reader.disk),
           reader.mpos + WidthAt(reader, reader.mpos) <= Len(reader.disk)
    PROVE  Source!SizeValue = ValueAt(reader, reader.mpos)
<1> DEFINE p     == reader.mpos
           first == FirstAt(reader, p)
           k     == CompactTail(first)
<1>1. reader \in ReaderType /\ p \in Nat /\ Len(reader.disk) \in Nat
  BY ReaderFields DEF Sound
<1>2. /\ first = Plain(reader)[p + 1] /\ first \in Byte
      /\ k \in {0, 2, 4, 8}
      /\ WidthAt(reader, p) = 1 + k /\ Source!SizeWidth = 1 + k
  BY <1>1, SameFirst, SameWidth, CompactNat DEF WidthAt
<1>3. PlainAt(reader, p + 1, k) = SubSeq(Plain(reader), (p + 1) + 1, (p + 1) + k)
  <2>1. p + 1 \in Nat /\ k \in Nat /\ (p + 1) + k <= Len(reader.disk)
    BY <1>1, <1>2
  <2> HIDE DEF p, k
  <2> QED BY <1>1, <2>1, PlainAtIsSubSeq
<1>4. (p + 1) + 1 = p + 2 /\ (p + 1) + k = p + (1 + k)
  BY <1>1, <1>2
<1> DEFINE tail == SubSeq(Plain(reader), p + 2, p + Source!SizeWidth)
<1>5. PlainAt(reader, p + 1, k) = tail
  BY <1>2, <1>3, <1>4
<1>6. Source!SizeValue = CASE Source!SizeWidth = 1 -> first
                           [] Source!SizeWidth = 3 -> Le16(tail)
                           [] Source!SizeWidth = 5 -> Le32(tail)
                           [] Source!SizeWidth = 9 -> Le64(tail)
  BY <1>2 DEF Source!SizeValue
<1>7. ValueAt(reader, p) = CompactValue(first, tail)
  BY <1>5 DEF ValueAt
<1>8. CompactTail(first) = Source!SizeWidth - 1
  BY <1>2
<1>9. first \in Byte
  BY <1>2
<1> HIDE DEF tail, first, k
<1>10. CASE first < 253
  <2>1. first # 253 /\ first # 254 /\ ~(first > 254)
    BY <1>9, <1>10 DEF Byte
  <2>2. CompactValue(first, tail) = first
    BY <1>10, <2>1 DEF CompactValue
  <2>3. CompactTail(first) = 0
    BY <1>10, <2>1 DEF CompactTail
  <2>4. Source!SizeWidth = 1
    BY <1>2, <1>8, <2>3
  <2>5. Source!SizeValue = first
    BY <1>6, <2>4
  <2> QED BY <1>7, <2>2, <2>5
<1>11. CASE first = 253
  BY <1>6, <1>7, <1>8, <1>11 DEF CompactTail, CompactValue
<1>12. CASE first = 254
  BY <1>6, <1>7, <1>8, <1>12 DEF CompactTail, CompactValue
<1>13. CASE first = 255
  BY <1>6, <1>7, <1>8, <1>13 DEF CompactTail, CompactValue
<1> QED BY <1>9, <1>10, <1>11, <1>12, <1>13 DEF Byte

(* The initial states map to initial states.                               *)
LEMMA InitRefines == Init => Source!Init
<1> SUFFICES ASSUME Init PROVE Source!Init
  OBVIOUS
<1>1. PICK im \in Images : reader = NewReader(im.disk, im.key)
  BY DEF Init
<1>2. Plain(reader) = Plain(NewReader(im.disk, im.key))
  BY <1>1
<1>3. reader.mpos = 0 /\ reader.fail = FALSE /\ answer = [kind |-> "none"]
  BY <1>1 DEF NewReader, Init
<1> QED BY <1>1, <1>2, <1>3 DEF Source!Init

LEMMA ContentKept ==
    ASSUME reader'.disk = reader.disk, reader'.key = reader.key
    PROVE  Plain(reader)' = Plain(reader)
BY DEF Plain

(* Every call maps to a step of the source.                                *)
LEMMA ReadRefines ==
    ASSUME IInv, NEW n \in Lengths, CallReadData(n)
    PROVE  Source!Read(n) \/ Source!Refuse(n) \/ Source!Throw(n)
<1> DEFINE res == ReadData(reader, n)
<1>1. /\ Sound(reader) /\ n \in Nat /\ ReadDataGives(reader, n, res)
      /\ reader \in ReaderType /\ reader.mpos \in Nat /\ Len(reader.disk) \in Nat
      /\ Len(Plain(reader)) = Len(reader.disk) /\ reader.fail \in BOOLEAN
  BY IInvIsSound, LengthsAssumption, ReadDataSound, SameLength, ReaderFields DEF Sound
<1>2. /\ reader' = res.reader
      /\ answer' = CASE res.status = "ok"     -> [kind |-> "bytes", asked |-> n, data |-> res.data]
                     [] res.status = "thrown" -> [kind |-> "thrown", asked |-> n]
                     [] OTHER                 -> [kind |-> "refused", asked |-> n]
  BY DEF CallReadData
<1>3. Plain(reader)' = Plain(reader)
  BY <1>1, <1>2, ContentKept DEF ReadDataGives
<1> HIDE DEF res
<1>4. CASE res.status = "ok"
  <2>1. /\ n = 0 \/ (~reader.fail /\ reader.mpos + n <= Len(reader.disk))
        /\ reader'.fail = reader.fail /\ reader'.mpos = reader.mpos + n
        /\ res.data = IF n = 0 THEN <<>> ELSE PlainAt(reader, reader.mpos, n)
    BY <1>1, <1>2, <1>4 DEF ReadDataGives
  <2>2. answer' = [kind |-> "bytes", asked |-> n, data |-> res.data]
    BY <1>2, <1>4
  <2>3. n # 0 => Source!Available(n) /\ PlainAt(reader, reader.mpos, n) = Source!Bytes(n)
    BY <1>1, <2>1, SameBytes
  <2> QED BY <1>3, <2>1, <2>2, <2>3 DEF Source!Read
<1>5. CASE res.status = "thrown"
  <2>1. n > AllocLimit /\ reader'.mpos = reader.mpos
    BY <1>1, <1>2, <1>5 DEF ReadDataGives
  <2>2. answer' = [kind |-> "thrown", asked |-> n]
    BY <1>2, <1>5
  <2>3. /\ reader'.fail \in {reader.fail, reader.mpos >= Len(Plain(reader))}
        /\ reader.fail => reader'.fail
    <3>1. reader' = [reader EXCEPT !.fail = reader.fail \/ reader.eof]
      BY <1>1, <1>2, <2>1, AllocLimitAssumption DEF ReadData, Result, res
    <3>2. reader'.fail = (reader.fail \/ reader.eof)
      BY <1>1, <3>1 DEF ReaderType
    <3>3. ~reader.fail /\ reader.eof => reader.mpos >= Len(Plain(reader))
      BY <1>1 DEF Sound
    <3> QED BY <1>1, <3>2, <3>3
  <2> QED BY <1>3, <2>1, <2>2, <2>3 DEF Source!Throw
<1>6. CASE res.status = "FileReadingFailure"
  <2>1. /\ n # 0 /\ (reader.fail \/ reader.mpos + n > Len(reader.disk))
        /\ n # 0 /\ reader'.fail /\ reader'.mpos = reader.mpos
    BY <1>1, <1>2, <1>6 DEF ReadDataGives
  <2>2. answer' = [kind |-> "refused", asked |-> n]
    BY <1>2, <1>6
  <2>3. ~Source!Available(n)
    BY <1>1, <2>1 DEF Source!Available
  <2>4. reader'.fail = TRUE
    BY <1>1, <1>2, <2>1 DEF ReadDataGives, Sound, ReaderType
  <2> QED BY <1>3, <2>1, <2>2, <2>3, <2>4 DEF Source!Refuse
<1> QED BY <1>1, <1>4, <1>5, <1>6 DEF ReadDataGives
LEMMA HashRefines ==
    ASSUME IInv, CallReadDataArray32
    PROVE  Source!ReadHash \/ Source!Refuse(32)
<1> DEFINE fwd == ReadData(reader, 32)
           res == ReadArray32(reader)
<1>1. /\ Sound(reader) /\ ReadDataGives(reader, 32, fwd)
      /\ res.reader = fwd.reader /\ res.status = fwd.status /\ res.data = Reversed(fwd.data)
      /\ reader \in ReaderType /\ reader.mpos \in Nat /\ Len(reader.disk) \in Nat
      /\ Len(Plain(reader)) = Len(reader.disk) /\ reader.fail \in BOOLEAN
  BY IInvIsSound, ReadArray32Gives, SameLength, ReaderFields DEF Sound
<1>2. /\ reader' = fwd.reader
      /\ answer' = IF fwd.status = "ok" THEN [kind |-> "hash", data |-> Reversed(fwd.data)]
                                        ELSE [kind |-> "refused", asked |-> 32]
  BY <1>1 DEF CallReadDataArray32
<1> HIDE DEF fwd, res
<1>3. Plain(reader)' = Plain(reader)
  BY <1>1, <1>2, ContentKept DEF ReadDataGives
<1>4. CASE fwd.status = "ok"
  <2>1. /\ ~reader.fail /\ reader.mpos + 32 <= Len(reader.disk)
        /\ reader'.fail = reader.fail /\ reader'.mpos = reader.mpos + 32
        /\ fwd.data = PlainAt(reader, reader.mpos, 32)
    BY <1>1, <1>2, <1>4 DEF ReadDataGives
  <2>2. answer' = [kind |-> "hash", data |-> Reversed(fwd.data)]
    BY <1>2, <1>4
  <2>3. Source!Available(32) /\ fwd.data = Source!Bytes(32)
    BY <1>1, <2>1, SameBytes
  <2>4. Source!Reversed(fwd.data) = Reversed(fwd.data)
    BY DEF Source!Reversed, Reversed
  <2> QED BY <1>3, <2>1, <2>2, <2>3, <2>4 DEF Source!ReadHash
<1>5. CASE fwd.status # "ok"
  <2>1. fwd.status = "FileReadingFailure"
    <3>1. ~(32 > AllocLimit)
      BY <1>1, ReaderFields, AllocLimitAssumption
    <3> QED BY <1>1, <1>5, <3>1 DEF ReadDataGives
  <2>2. /\ reader.fail \/ reader.mpos + 32 > Len(reader.disk)
        /\ reader'.fail = TRUE /\ reader'.mpos = reader.mpos
    BY <1>1, <1>2, <2>1 DEF ReadDataGives, Sound, ReaderType
  <2>3. answer' = [kind |-> "refused", asked |-> 32] /\ ~Source!Available(32)
    BY <1>1, <1>2, <1>5, <2>2 DEF Source!Available
  <2> QED BY <1>3, <2>2, <2>3 DEF Source!Refuse
<1> QED BY <1>4, <1>5

LEMMA SizeRefines ==
    ASSUME IInv, CallReadDataCompactSize
    PROVE  Source!ReadSize \/ Source!RefuseSize
<1> DEFINE res == ReadCompactSize(reader)
<1>1. /\ Sound(reader)
      /\ reader \in ReaderType /\ reader.mpos \in Nat /\ Len(reader.disk) \in Nat
      /\ Len(Plain(reader)) = Len(reader.disk) /\ reader.fail \in BOOLEAN
  BY IInvIsSound, SameLength, ReaderFields DEF Sound
<1>2. /\ Sound(res.reader)
      /\ res.reader.disk = reader.disk /\ res.reader.key = reader.key
      /\ res.status \in {"ok", "FileReadingFailure"}
      /\ res.status = "FileReadingFailure" =>
            /\ res.reader.fail
            /\ \/ /\ reader.fail \/ reader.mpos + 1 > Len(reader.disk)
                  /\ res.reader.mpos = reader.mpos
               \/ /\ ~reader.fail /\ reader.mpos + 1 <= Len(reader.disk)
                  /\ reader.mpos + WidthAt(reader, reader.mpos) > Len(reader.disk)
                  /\ res.reader.mpos = reader.mpos + 1
      /\ res.status = "ok" =>
            /\ ~reader.fail /\ ~res.reader.fail
            /\ reader.mpos + 1 <= Len(reader.disk)
            /\ reader.mpos + WidthAt(reader, reader.mpos) <= Len(reader.disk)
            /\ res.reader.mpos = reader.mpos + WidthAt(reader, reader.mpos)
            /\ res.data = ValueAt(reader, reader.mpos)
  BY <1>1, ReadCompactSizeSound
<1>3. /\ reader' = res.reader
      /\ answer' = IF res.status = "ok" THEN [kind |-> "size", value |-> res.data]
                                        ELSE [kind |-> "no size"]
  BY DEF CallReadDataCompactSize
<1>4. Plain(reader)' = Plain(reader)
  BY <1>2, <1>3, ContentKept
<1> HIDE DEF res
<1>5. CASE res.status = "ok"
  <2> DEFINE w == WidthAt(reader, reader.mpos)
  <2>1. w \in {1, 3, 5, 9} /\ reader.mpos + 1 <= Len(reader.disk)
    BY <1>1, <1>2, <1>5, CompactAtNat
  <2>2. Source!SizeWidth = w /\ Source!SizeValue = ValueAt(reader, reader.mpos)
    BY <1>1, <1>2, <1>5, <2>1, SameWidth, SameValue
  <2>3. Source!SizeAvailable
    BY <1>1, <1>2, <1>5, <2>1, <2>2 DEF Source!SizeAvailable, Source!Available
  <2>4. answer' = [kind |-> "size", value |-> Source!SizeValue]
    BY <1>2, <1>3, <1>5, <2>2
  <2>5. reader'.mpos = reader.mpos + Source!SizeWidth
    BY <1>2, <1>3, <1>5, <2>2
  <2>6. reader'.fail = reader.fail
    BY <1>1, <1>2, <1>3, <1>5 DEF Sound, ReaderType
  <2> QED BY <1>4, <2>3, <2>4, <2>5, <2>6 DEF Source!ReadSize
<1>6. CASE res.status = "FileReadingFailure"
  <2>1. answer' = [kind |-> "no size"] /\ reader'.fail = TRUE
    BY <1>2, <1>3, <1>6 DEF Sound, ReaderType
  <2>2. CASE /\ reader.fail \/ reader.mpos + 1 > Len(reader.disk)
             /\ res.reader.mpos = reader.mpos
    <3>1. ~Source!Available(1)
      BY <1>1, <2>2 DEF Source!Available
    <3> QED BY <1>3, <1>4, <2>1, <2>2, <3>1 DEF Source!RefuseSize, Source!SizeAvailable
  <2>3. CASE /\ ~reader.fail /\ reader.mpos + 1 <= Len(reader.disk)
             /\ reader.mpos + WidthAt(reader, reader.mpos) > Len(reader.disk)
             /\ res.reader.mpos = reader.mpos + 1
    <3>1. Source!Available(1)
      BY <1>1, <2>3 DEF Source!Available
    <3>2. ~Source!Available(Source!SizeWidth)
      <4>1. WidthAt(reader, reader.mpos) \in {1, 3, 5, 9}
        BY <1>1, <2>3, CompactAtNat
      <4>2. Source!SizeWidth = WidthAt(reader, reader.mpos)
        BY <1>1, <2>3, SameWidth
      <4> QED BY <1>1, <2>3, <4>1, <4>2 DEF Source!Available
    <3> QED BY <1>3, <1>4, <2>1, <2>3, <3>1, <3>2 DEF Source!RefuseSize, Source!SizeAvailable
  <2> QED BY <1>2, <1>6, <2>2, <2>3
<1> QED BY <1>2, <1>5, <1>6

LEMMA MoveRefines ==
    ASSUME IInv, NEW p \in Positions, CallSetReadPosition(p)
    PROVE  Source!MoveTo(p)
<1> DEFINE res == SetReadPosition(reader, p)
<1>1. /\ Sound(reader) /\ p \in Nat /\ reader.fail \in BOOLEAN
      /\ reader' = res.reader
      /\ answer' = [kind |-> "moved", to |-> p, done |-> res.status = "ok"]
  BY IInvIsSound, PositionsAssumption DEF CallSetReadPosition, Sound, ReaderType
<1>2. /\ Sound(res.reader)
      /\ res.reader.disk = reader.disk /\ res.reader.key = reader.key
      /\ res.reader.fail = reader.fail
      /\ res.status = IF reader.fail THEN "FileError" ELSE "ok"
      /\ res.reader.mpos = IF reader.fail THEN reader.mpos ELSE p
  BY <1>1, SetReadPositionSound
<1>3. Plain(reader)' = Plain(reader)
  BY <1>1, <1>2, ContentKept
<1> HIDE DEF res
<1>4. (res.status = "ok") = ~reader.fail
  BY <1>1, <1>2
<1> QED BY <1>1, <1>2, <1>3, <1>4 DEF Source!MoveTo

LEMMA IsEofRefines ==
    ASSUME IInv, ~reader.eof, CallIsEof
    PROVE  Source!AskEnd
<1>1. /\ Sound(reader) /\ reader' = AfterIsEof(reader)
      /\ answer' = [kind |-> "end", value |-> AtEof(reader)]
      /\ Len(Plain(reader)) = Len(reader.disk)
  BY IInvIsSound, SameLength DEF CallIsEof
<1>2. /\ reader'.disk = reader.disk /\ reader'.key = reader.key
      /\ reader'.mpos = reader.mpos /\ reader'.fail = reader.fail
      /\ AtEof(reader) = (reader.fail \/ reader.mpos >= Len(Plain(reader)))
  BY <1>1, IsEofSound
<1>3. Plain(reader)' = Plain(reader)
  BY <1>2, ContentKept
<1> QED BY <1>1, <1>2, <1>3 DEF Source!AskEnd

(* Any sequence of calls of a client that stops at the first TRUE of       *)
(* isEof() returns what the same calls on the plain bytes return.          *)
THEOREM ReaderImplementsByteSource == Spec => ImplementsByteSource
<1>1. IInv /\ Next => Source!Next
  BY ReadRefines, HashRefines, SizeRefines, MoveRefines, IsEofRefines
     DEF Next, Read, Source!Next
<1>2. IInv /\ UNCHANGED vars => UNCHANGED Source!vars
  BY DEF vars, Source!vars, Plain
<1>3. IInv /\ [Next]_vars => [Source!Next]_(Source!vars)
  BY <1>1, <1>2
<1>4. Spec => []IInv
  BY Invariance, SpecIsAnyClient, PTL
<1> QED BY InitRefines, <1>3, <1>4, PTL DEF Spec, ImplementsByteSource, Source!Spec
=============================================================================
