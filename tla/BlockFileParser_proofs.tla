----------------------- MODULE BlockFileParser_proofs -----------------------
(***************************************************************************)
(* What holds of the block-file parser for every file, every key and every *)
(* memory limit: types, the coherence of the reader while parsing runs,    *)
(* that no step ends before the place it began, that the blocks returned   *)
(* follow one another with the sizes they declare, which bytes of the file *)
(* end up in which of their fields, that the blocks returned are those the *)
(* file has by the grammar of its format, and that the JSON document of a  *)
(* block loses none of its bytes.                                          *)
(***************************************************************************)
EXTENDS BlockJson, BitcoinReader_proofs, WellFoundedInduction

(* The reader between two steps of a running parse.                        *)
Usable(r) == Sound(r) /\ Good(r) /\ r.mpos <= Len(r.disk)

(* What a chain of reads begun at r has come to, wherever it stopped.      *)
Chain(r, res) ==
    /\ res = Result(res.reader, res.status, res.data)
    /\ Sound(res.reader)
    /\ res.reader.disk = r.disk /\ res.reader.key = r.key
    /\ res.status \in {"ok", "thrown", "FileReadingFailure", "FileError"}
    /\ res.reader.mpos >= r.mpos
    /\ res.status = "ok" => Usable(res.reader)

LEMMA UsableFields ==
    ASSUME NEW r, Usable(r)
    PROVE  /\ r \in ReaderType /\ r.mpos \in Nat /\ r.pos = r.mpos /\ Len(r.disk) \in Nat
           /\ r.fail = FALSE /\ r.eof = FALSE
BY ReaderFields DEF Usable, Sound, Good

LEMMA ChainRead ==
    ASSUME NEW r, Usable(r), NEW n \in Nat
    PROVE  /\ Chain(r, ReadData(r, n))
           /\ ReadData(r, n).status = "ok" =>
                 /\ ReadData(r, n).reader.mpos = r.mpos + n
                 /\ r.mpos + n <= Len(r.disk)
                 /\ ReadData(r, n).data = IF n = 0 THEN <<>> ELSE PlainAt(r, r.mpos, n)
<1> DEFINE res == ReadData(r, n)
<1>1. ReadDataGives(r, n, res)
  BY ReadDataSound DEF Usable
<1>2. r.mpos \in Nat /\ Len(r.disk) \in Nat /\ r.fail = FALSE /\ r.eof = FALSE
      /\ r.mpos <= Len(r.disk)
  BY UsableFields DEF Usable
<1> HIDE DEF res
<1>3. CASE res.status = "ok"
  <2>1. /\ res.reader.mpos = r.mpos + n /\ r.mpos + n <= Len(r.disk)
        /\ res.reader.fail = FALSE /\ res.reader.eof = FALSE
        /\ res.data = IF n = 0 THEN <<>> ELSE PlainAt(r, r.mpos, n)
        /\ Sound(res.reader) /\ res.reader.disk = r.disk
    BY <1>1, <1>2, <1>3 DEF ReadDataGives
  <2>2. Usable(res.reader)
    BY <2>1 DEF Usable, Good
  <2> QED BY <1>1, <1>2, <1>3, <2>1, <2>2 DEF Chain, ReadDataGives, res
<1>4. CASE res.status # "ok"
  <2>1. res.reader.mpos = r.mpos
    BY <1>1, <1>4 DEF ReadDataGives
  <2> QED BY <1>1, <1>2, <1>4, <2>1 DEF Chain, ReadDataGives, res
<1> QED BY <1>3, <1>4

LEMMA ChainReadArray32 ==
    ASSUME NEW r, Usable(r)
    PROVE  Chain(r, ReadArray32(r))
<1> DEFINE fwd == ReadData(r, 32)
<1>1. Chain(r, fwd)
  BY ChainRead
<1>2. ReadArray32(r) = [fwd EXCEPT !.data = Reversed(fwd.data)]
  BY DEF ReadArray32
<1> HIDE DEF fwd
<1>3. ReadArray32(r) = Result(fwd.reader, fwd.status, Reversed(fwd.data))
  BY <1>1, <1>2 DEF Chain, Result
<1> QED BY <1>1, <1>3 DEF Chain, Result

LEMMA ChainCompactSize ==
    ASSUME NEW r, Usable(r)
    PROVE  /\ Chain(r, ReadCompactSize(r))
           /\ ReadCompactSize(r).status = "ok" => ReadCompactSize(r).data \in Nat
<1> DEFINE res == ReadCompactSize(r)
<1>1. /\ Sound(res.reader)
      /\ res.reader.disk = r.disk /\ res.reader.key = r.key
      /\ res.status \in {"ok", "FileReadingFailure"}
      /\ res.status = "FileReadingFailure" =>
            \/ res.reader.mpos = r.mpos
            \/ res.reader.mpos = r.mpos + 1
      /\ res.status = "ok" =>
            /\ ~res.reader.fail /\ ~res.reader.eof
            /\ r.mpos + 1 <= Len(r.disk)
            /\ r.mpos + WidthAt(r, r.mpos) <= Len(r.disk)
            /\ res.reader.mpos = r.mpos + WidthAt(r, r.mpos)
            /\ res.data \in Nat
      /\ res = Result(res.reader, res.status, res.data)
  BY ReadCompactSizeSound DEF Usable
<1>2. r \in ReaderType /\ r.mpos \in Nat /\ Len(r.disk) \in Nat
  BY UsableFields
<1> HIDE DEF res
<1>3. CASE res.status = "ok"
  <2>1. WidthAt(r, r.mpos) \in {1, 3, 5, 9}
    BY <1>1, <1>2, <1>3, CompactAtNat
  <2>2. Usable(res.reader)
    BY <1>1, <1>3 DEF Usable, Good
  <2> QED BY <1>1, <1>2, <1>3, <2>1, <2>2 DEF Chain, res
<1>4. CASE res.status = "FileReadingFailure"
  BY <1>1, <1>2, <1>4 DEF Chain, res
<1> QED BY <1>1, <1>3, <1>4

(* Chains may be joined: what goes on from the end of one belongs to it.   *)
LEMMA ChainJoin ==
    ASSUME NEW r, Usable(r), NEW one, Chain(r, one), one.status = "ok",
           NEW two, Chain(one.reader, two)
    PROVE  Chain(r, two)
<1>1. r.mpos \in Nat /\ one.reader.mpos \in Nat /\ two.reader.mpos \in Nat
  BY UsableFields, ReaderFields DEF Chain, Sound
<1> QED BY <1>1 DEF Chain

LEMMA ChainThen ==
    ASSUME NEW r, Usable(r), NEW one, Chain(r, one),
           NEW n, one.status = "ok" => n \in Nat
    PROVE  /\ Chain(r, Then(one, n))
           /\ Then(one, n).status = "ok" =>
                 /\ one.status = "ok"
                 /\ Then(one, n).reader.mpos = one.reader.mpos + n
<1>1. CASE one.status = "ok"
  <2>1. Then(one, n) = ReadData(one.reader, n) /\ Usable(one.reader)
    BY <1>1 DEF Then, Chain
  <2> QED BY <1>1, <2>1, ChainRead, ChainJoin
<1>2. CASE one.status # "ok"
  BY <1>2 DEF Then
<1> QED BY <1>1, <1>2

LEMMA ChainThenCompactSize ==
    ASSUME NEW r, Usable(r), NEW one, Chain(r, one)
    PROVE  /\ Chain(r, ThenCompactSize(one))
           /\ ThenCompactSize(one).status = "ok" => ThenCompactSize(one).data \in Nat
<1>1. CASE one.status = "ok"
  <2>1. ThenCompactSize(one) = ReadCompactSize(one.reader) /\ Usable(one.reader)
    BY <1>1 DEF ThenCompactSize, Chain
  <2> QED BY <1>1, <2>1, ChainCompactSize, ChainJoin
<1>2. CASE one.status # "ok"
  BY <1>2 DEF ThenCompactSize
<1> QED BY <1>1, <1>2

(* A chain that ends by going back to where it began.                      *)
LEMMA ChainRewind ==
    ASSUME NEW r, Usable(r), NEW one, Chain(r, one)
    PROVE  LET res == ThenSetReadPosition(one, r.mpos) IN
           /\ Chain(r, res)
           /\ res.status = "ok" =>
                 /\ one.status = "ok"
                 /\ res.reader.mpos = r.mpos /\ res.data = one.data
<1> DEFINE res == ThenSetReadPosition(one, r.mpos)
<1>1. CASE one.status # "ok"
  <2>1. res = one
    BY <1>1 DEF ThenSetReadPosition
  <2> QED BY <1>1, <2>1
<1>2. CASE one.status = "ok"
  <2> DEFINE moved == SetReadPosition(one.reader, r.mpos)
  <2>1. /\ Usable(one.reader) /\ r.mpos \in Nat /\ one.reader.fail = FALSE
        /\ r.mpos <= Len(r.disk) /\ one.reader.disk = r.disk /\ one.reader.key = r.key
    BY <1>2, UsableFields DEF Chain, Usable
  <2>2. /\ Sound(moved.reader)
        /\ moved.reader.disk = one.reader.disk /\ moved.reader.key = one.reader.key
        /\ moved.reader.fail = one.reader.fail /\ ~moved.reader.eof
        /\ moved.status = IF one.reader.fail THEN "FileError" ELSE "ok"
        /\ moved.reader.mpos = IF one.reader.fail THEN one.reader.mpos ELSE r.mpos
        /\ moved = Result(moved.reader, moved.status, <<>>)
    BY <2>1, SetReadPositionSound DEF Usable
  <2> HIDE DEF moved
  <2>3. res = [moved EXCEPT !.data = one.data]
    BY <1>2 DEF ThenSetReadPosition, moved
  <2>4. res = Result(moved.reader, "ok", one.data)
    BY <2>1, <2>2, <2>3 DEF Result
  <2>5. res.reader = moved.reader /\ res.status = "ok" /\ res.data = one.data
    BY <2>4 DEF Result
  <2>6. Usable(moved.reader)
    BY <2>1, <2>2 DEF Usable, Good
  <2>7. moved.reader.disk = r.disk /\ moved.reader.key = r.key /\ moved.reader.mpos = r.mpos
    BY <2>1, <2>2
  <2> HIDE DEF res
  <2>8. Chain(r, res)
    BY <2>1, <2>2, <2>4, <2>5, <2>6, <2>7 DEF Chain
  <2> QED BY <1>2, <2>5, <2>7, <2>8 DEF res
<1> QED BY <1>1, <1>2
-----------------------------------------------------------------------------
(* The inductive invariant.  Labels of one transaction's functions, and of *)
(* everything that runs once the size of a block is known.                 *)
TxBody == {"flag", "inCount", "txIn", "outCount", "txOut", "witCount", "witItem", "lockTime",
           "txHash"}

BlockBody == TxBody \cup {"hash", "header", "txCount", "version", "blockEnd"}

(* A running parse has a usable reader.                                    *)
ReaderUsable ==
    /\ Sound(reader)
    /\ pc # "end" => Usable(reader) /\ outcome = "running"

(* The transaction being parsed began no further than where it has come to *)
(* and a witness item has a stack to go to.                                *)
TxUnderway ==
    /\ pc \in TxBody => tx.from <= reader.mpos
    /\ pc = "witItem" => tx.witnesses # <<>>

(* How the block being parsed is framed: the same that BlocksTile says of  *)
(* the blocks returned, as far as it has been read.                        *)
BlockUnderway ==
    /\ pc = "magic" => reader.mpos = block.from
    /\ pc = "size" => reader.mpos = block.from + 4
    /\ pc \in BlockBody \cup {"size"} => PlainAt(reader, block.from, 4) = MagicBytes
    /\ pc \in BlockBody => block.size = Le32(PlainAt(reader, block.from + 4, 4))

IInv ==
    /\ TypeOK
    /\ ReaderUsable
    /\ TxUnderway
    /\ BlockUnderway
    /\ BlocksTile

LEMMA PlainAtKept ==
    ASSUME NEW r, NEW q, q.disk = r.disk, q.key = r.key, NEW p, NEW n
    PROVE  PlainAt(q, p, n) = PlainAt(r, p, n)
BY DEF PlainAt

(* Adding the next segment.                                                *)
LEMMA TilesAppend ==
    ASSUME NEW S, NEW segs \in Seq(S), NEW seg \in S, NEW p, Tiles(segs, p, seg.from)
    PROVE  Tiles(Append(segs, seg), p, seg.to)
<1> DEFINE more == Append(segs, seg)
<1>1. /\ Len(segs) \in Nat /\ Len(more) = Len(segs) + 1 /\ more # <<>>
      /\ more[Len(segs) + 1] = seg
      /\ \A i \in 1 .. Len(segs) : more[i] = segs[i]
  OBVIOUS
<1> HIDE DEF more
<1>2. ASSUME NEW i \in 1 .. Len(more)
      PROVE  more[i].from = IF i = 1 THEN p ELSE more[i - 1].to
  <2>1. CASE i \in 1 .. Len(segs)
    <3>1. i # 1 => i - 1 \in 1 .. Len(segs)
      BY <1>1, <2>1
    <3> QED BY <1>1, <2>1, <3>1 DEF Tiles
  <2>2. CASE i = Len(segs) + 1
    <3>1. CASE segs = <<>>
      <4>1. i = 1
        BY <2>2, <3>1
      <4> QED BY <1>1, <2>2, <3>1, <4>1 DEF Tiles
    <3>2. CASE segs # <<>>
      <4>1. i # 1 /\ i - 1 = Len(segs) /\ Len(segs) \in 1 .. Len(segs)
        BY <1>1, <2>2, <3>2, EmptySeq
      <4> QED BY <1>1, <2>2, <3>2, <4>1 DEF Tiles
    <3> QED BY <3>1, <3>2
  <2> QED BY <1>1, <1>2, <2>1, <2>2
<1>3. seg.to = IF more = <<>> THEN p ELSE more[Len(more)].to
  BY <1>1
<1> QED BY <1>2, <1>3 DEF Tiles, more

LEMMA InitKeeps == Init => IInv
<1> SUFFICES ASSUME Init PROVE IInv
  OBVIOUS
<1>1. PICK im \in Images : reader = NewReader(im.disk, im.key)
  BY DEF Init
<1>2. im.disk \in Seq(Byte) /\ im.key \in Keys
  BY <1>1, ImagesAssumption
<1>3. Sound(reader) /\ Good(reader) /\ reader.mpos = 0
  BY <1>1, <1>2, NewReaderSound
<1>4. reader \in ReaderType /\ Len(reader.disk) \in Nat
  BY <1>3, ReaderFields DEF Sound
<1>5. TypeOK
  <2>1. NewBlock(0) \in BlockType
    BY DEF NewBlock, BlockType, Extent, ExtentType
  <2>2. NewTx(0) \in TxType
    BY DEF NewTx, TxType, Extent, ExtentType
  <2> QED BY <1>4, <2>1, <2>2 DEF Init, TypeOK, Labels
<1>6. ReaderUsable /\ TxUnderway /\ BlockUnderway
  BY <1>3, <1>4 DEF Init, ReaderUsable, Usable, TxUnderway, BlockUnderway, TxBody, BlockBody
<1>7. BlocksTile
  BY <1>3 DEF Init, BlocksTile, Tiles
<1> QED BY <1>5, <1>6, <1>7 DEF IInv
-----------------------------------------------------------------------------
(* Every error exit keeps the invariant.                                   *)
Exits == {"thrown"} \cup ErrorCodes

LEMMA LeaveKeeps ==
    ASSUME IInv, pc \notin {"end", "block"}, NEW r, NEW result \in Exits, Leave(r, result),
           Sound(r), r.disk = reader.disk, r.key = reader.key
    PROVE  IInv'
<1>1. /\ reader' = r /\ pc' = "end" /\ outcome' = result
      /\ blocks' = blocks /\ block' = block /\ tx' = tx
  BY DEF Leave
<1>2. TypeOK'
  BY <1>1 DEF IInv, TypeOK, Labels, Exits, Sound
<1>3. ReaderUsable' /\ TxUnderway' /\ BlockUnderway'
  BY <1>1 DEF ReaderUsable, TxUnderway, BlockUnderway, TxBody, BlockBody
<1>4. BlocksTile'
  <2>1. /\ outcome # "done" /\ outcome' # "done" /\ pc' # "block" /\ pc # "block"
    BY <1>1 DEF IInv, ReaderUsable, Exits, ErrorCodes
  <2>2. \A p, n : PlainAt(reader', p, n) = PlainAt(reader, p, n)
    BY <1>1, PlainAtKept
  <2> QED BY <1>1, <2>1, <2>2 DEF IInv, BlocksTile
<1> QED BY <1>2, <1>3, <1>4 DEF IInv

LEMMA StopKeeps ==
    ASSUME IInv, pc \notin {"end", "block"}, NEW res, Chain(reader, res), Stop(res)
    PROVE  IInv' /\ reader'.mpos >= reader.mpos
<1>1. /\ res.status \in Exits /\ Leave(res.reader, res.status)
      /\ Sound(res.reader) /\ res.reader.disk = reader.disk /\ res.reader.key = reader.key
      /\ res.reader.mpos >= reader.mpos
  BY DEF Chain, Stop, Exits, ErrorCodes
<1>2. IInv'
  BY <1>1, LeaveKeeps
<1>3. reader' = res.reader
  BY <1>1 DEF Leave
<1> QED BY <1>1, <1>2, <1>3

LEMMA StopCountKeeps ==
    ASSUME IInv, pc \notin {"end", "block"}, NEW res, Chain(reader, res), StopCount(res)
    PROVE  IInv' /\ reader'.mpos >= reader.mpos
<1>1. CASE Stop(res)
  BY <1>1, StopKeeps
<1>2. CASE Leave(res.reader, "thrown")
  <2>1. /\ "thrown" \in Exits
        /\ Sound(res.reader) /\ res.reader.disk = reader.disk /\ res.reader.key = reader.key
        /\ res.reader.mpos >= reader.mpos
    BY DEF Chain, Exits
  <2>2. IInv'
    BY <1>2, <2>1, LeaveKeeps
  <2>3. reader' = res.reader
    BY <1>2 DEF Leave
  <2> QED BY <2>1, <2>2, <2>3
<1> QED BY <1>1, <1>2 DEF StopCount

(* A step from one function inside a block to the next keeps what is known *)
(* of the blocks; it is left to show that its locals are.                  *)
LEMMA InsideKeeps ==
    ASSUME IInv, pc \in BlockBody, pc' \in BlockBody, outcome' = outcome,
           Usable(reader'), reader'.disk = reader.disk, reader'.key = reader.key,
           blocks' = blocks, block' \in BlockType, block'.from = block.from,
           block'.size = block.size, tx' \in TxType, TxUnderway'
    PROVE  IInv'
<1>1. TypeOK'
  BY DEF IInv, TypeOK, Labels, BlockBody, TxBody, Usable, Sound
<1>2. ReaderUsable'
  BY DEF IInv, ReaderUsable, BlockBody, TxBody, Usable
<1>3. \A p, n : PlainAt(reader', p, n) = PlainAt(reader, p, n)
  BY PlainAtKept
<1>4. BlockUnderway'
  BY <1>3 DEF IInv, BlockUnderway, BlockBody, TxBody
<1>5. BlocksTile'
  <2>1. pc # "block" /\ pc' # "block" /\ outcome = "running"
    BY DEF IInv, ReaderUsable, BlockBody, TxBody
  <2> QED BY <1>3, <2>1 DEF IInv, BlocksTile
<1> QED BY <1>1, <1>2, <1>4, <1>5 DEF IInv

(* What the invariant says while parsing runs.                             *)
LEMMA Running ==
    ASSUME IInv, pc # "end"
    PROVE  /\ Usable(reader) /\ outcome = "running"
           /\ reader.mpos \in Nat /\ Len(reader.disk) \in Nat /\ reader.mpos <= Len(reader.disk)
           /\ block \in BlockType /\ tx \in TxType /\ blocks \in Seq(BlockType)
BY UsableFields DEF IInv, ReaderUsable, TypeOK, Usable
-----------------------------------------------------------------------------
(* One lemma for each action: it keeps the invariant, and it ends no       *)
(* further back than it began unless it throws.                            *)
Onward == IInv' /\ (outcome' = "thrown" \/ reader'.mpos >= reader.mpos)

LEMMA StartBlockKeeps ==
    ASSUME IInv, StartBlock
    PROVE  Onward
<1>1. /\ pc = "block" /\ Usable(reader) /\ outcome = "running"
      /\ reader.mpos \in Nat /\ Len(reader.disk) \in Nat /\ reader.mpos <= Len(reader.disk)
      /\ reader.fail = FALSE
  BY Running, UsableFields DEF StartBlock
<1>2. /\ Sound(AfterIsEof(reader)) /\ AfterIsEof(reader).mpos = reader.mpos
      /\ AfterIsEof(reader).disk = reader.disk /\ AfterIsEof(reader).key = reader.key
      /\ AtEof(reader) = (reader.fail \/ reader.mpos >= Len(reader.disk))
      /\ ~AtEof(reader) => ~AfterIsEof(reader).eof /\ ~AfterIsEof(reader).fail
  BY <1>1, IsEofSound DEF Usable
<1>3. reader' = AfterIsEof(reader) /\ blocks' = blocks /\ tx' = tx
  BY DEF StartBlock
<1>4. \A p, n : PlainAt(reader', p, n) = PlainAt(reader, p, n)
  BY <1>2, <1>3, PlainAtKept
<1>5. CASE AtEof(reader)
  <2>1. pc' = "end" /\ outcome' = "done" /\ block' = block
    BY <1>5 DEF StartBlock
  <2>2. TypeOK'
    BY <1>2, <1>3, <2>1 DEF IInv, TypeOK, Labels, Sound
  <2>3. ReaderUsable' /\ TxUnderway' /\ BlockUnderway'
    BY <1>2, <1>3, <2>1 DEF ReaderUsable, TxUnderway, BlockUnderway, TxBody, BlockBody
  <2>4. reader'.mpos = Len(reader'.disk)
    <3>1. reader.fail \/ reader.mpos >= Len(reader.disk)
      BY <1>2, <1>5, Zenon
    <3>2. reader.mpos = Len(reader.disk)
      BY <1>1, <3>1
    <3> QED BY <1>2, <1>3, <3>2
  <2>5. BlocksTile'
    BY <1>1, <1>2, <1>3, <1>4, <2>1, <2>4 DEF IInv, BlocksTile
  <2> QED BY <1>1, <1>2, <1>3, <2>2, <2>3, <2>5 DEF IInv, Onward
<1>6. CASE ~AtEof(reader)
  <2>1. pc' = "magic" /\ outcome' = outcome /\ block' = NewBlock(reader.mpos)
    BY <1>6 DEF StartBlock
  <2>2. block' \in BlockType /\ block'.from = reader.mpos
    BY <1>1, <2>1 DEF NewBlock, BlockType, Extent, ExtentType
  <2>3. TypeOK'
    BY <1>2, <1>3, <2>1, <2>2 DEF IInv, TypeOK, Labels, Sound
  <2>4. ReaderUsable' /\ TxUnderway' /\ BlockUnderway'
    BY <1>1, <1>2, <1>3, <1>6, <2>1, <2>2
       DEF ReaderUsable, Usable, Good, TxUnderway, BlockUnderway, TxBody, BlockBody
  <2>5. BlocksTile'
    BY <1>1, <1>2, <1>3, <1>4, <2>1, <2>2 DEF IInv, BlocksTile
  <2> QED BY <1>1, <1>2, <1>3, <2>3, <2>4, <2>5 DEF IInv, Onward
<1> QED BY <1>5, <1>6

LEMMA ParseMagicNumberKeeps ==
    ASSUME IInv, ParseMagicNumber
    PROVE  Onward
<1> DEFINE res == ReadData(reader, 4)
<1>1. pc = "magic"
  BY DEF ParseMagicNumber
<1>2. /\ Usable(reader) /\ outcome = "running" /\ reader.mpos = block.from
      /\ reader.mpos \in Nat
  BY <1>1, Running DEF IInv, BlockUnderway
<1>3. /\ Chain(reader, res)
      /\ res.status = "ok" => /\ res.reader.mpos = reader.mpos + 4
                              /\ res.data = PlainAt(reader, reader.mpos, 4)
  BY <1>2, ChainRead
<1>4. \/ /\ res.status = "ok" /\ res.data = MagicBytes
         /\ Goto(res, "size")
         /\ UNCHANGED <<blocks, block, tx>>
      \/ Leave(res.reader, "BlockWrongMagic")
      \/ Stop(res)
  BY DEF ParseMagicNumber
<1> HIDE DEF res
<1>5. CASE /\ res.status = "ok" /\ res.data = MagicBytes
           /\ Goto(res, "size")
           /\ UNCHANGED <<blocks, block, tx>>
  <2>1. reader' = res.reader /\ pc' = "size" /\ outcome' = outcome
    BY <1>5 DEF Goto
  <2>2. Usable(reader') /\ reader'.disk = reader.disk /\ reader'.key = reader.key
    BY <1>3, <1>5, <2>1 DEF Chain
  <2>3. \A p, n : PlainAt(reader', p, n) = PlainAt(reader, p, n)
    BY <2>2, PlainAtKept
  <2>4. TypeOK'
    BY <1>5, <2>1, <2>2 DEF IInv, TypeOK, Labels, Usable, Sound
  <2>5. ReaderUsable' /\ TxUnderway'
    BY <1>2, <2>1, <2>2 DEF ReaderUsable, Usable, TxUnderway, TxBody
  <2>6. BlockUnderway'
    BY <1>2, <1>3, <1>5, <2>1, <2>3 DEF BlockUnderway, BlockBody, TxBody
  <2>7. BlocksTile'
    BY <1>1, <1>2, <1>5, <2>1, <2>2, <2>3 DEF IInv, BlocksTile
  <2> QED BY <1>2, <1>3, <1>5, <2>1, <2>4, <2>5, <2>6, <2>7 DEF IInv, Onward
<1>6. CASE Leave(res.reader, "BlockWrongMagic")
  <2>1. IInv' /\ reader' = res.reader
    BY <1>1, <1>3, <1>6, LeaveKeeps DEF Chain, Exits, ErrorCodes, Leave
  <2> QED BY <1>3, <2>1 DEF Onward, Chain
<1>7. CASE Stop(res)
  BY <1>1, <1>3, <1>7, StopKeeps DEF Onward
<1> QED BY <1>4, <1>5, <1>6, <1>7

LEMMA ParseBlockSizeKeeps ==
    ASSUME IInv, ParseBlockSize
    PROVE  Onward
<1> DEFINE res == ReadData(reader, 4)
           size == Le32(res.data)
<1>1. pc = "size"
  BY DEF ParseBlockSize
<1>2. /\ Usable(reader) /\ outcome = "running" /\ reader.mpos = block.from + 4
      /\ reader.mpos \in Nat /\ block \in BlockType
      /\ PlainAt(reader, block.from, 4) = MagicBytes
  BY <1>1, Running DEF IInv, BlockUnderway
<1>3. /\ Chain(reader, res)
      /\ res.status = "ok" => res.data = PlainAt(reader, reader.mpos, 4)
  BY <1>2, ChainRead
<1>4. \/ /\ res.status = "ok" /\ size \in 1 .. MaxBlockSize
         /\ block' = [block EXCEPT !.size = size]
         /\ Goto(res, "hash")
         /\ UNCHANGED <<blocks, tx>>
      \/ Leave(res.reader, "EmptyBlockSize")
      \/ Leave(res.reader, "TooLargeBlockSize")
      \/ Stop(res)
  BY DEF ParseBlockSize
<1> HIDE DEF res
<1>5. CASE /\ res.status = "ok" /\ size \in 1 .. MaxBlockSize
           /\ block' = [block EXCEPT !.size = size]
           /\ Goto(res, "hash")
           /\ UNCHANGED <<blocks, tx>>
  <2>1. reader' = res.reader /\ pc' = "hash" /\ outcome' = outcome
    BY <1>5 DEF Goto
  <2>2. Usable(reader') /\ reader'.disk = reader.disk /\ reader'.key = reader.key
    BY <1>3, <1>5, <2>1 DEF Chain
  <2>3. \A p, n : PlainAt(reader', p, n) = PlainAt(reader, p, n)
    BY <2>2, PlainAtKept
  <2>4. size = Le32(PlainAt(reader, block.from + 4, 4))
    BY <1>2, <1>3, <1>5
  <2>5. size \in Nat
    BY <1>5
  <2> HIDE DEF size
  <2>6. block' \in BlockType /\ block'.from = block.from /\ block'.size = size
    BY <1>2, <1>5, <2>5 DEF BlockType
  <2>7. TypeOK'
    BY <1>5, <2>1, <2>2, <2>6 DEF IInv, TypeOK, Labels, Usable, Sound
  <2>8. ReaderUsable' /\ TxUnderway'
    BY <1>2, <2>1, <2>2 DEF ReaderUsable, Usable, TxUnderway, TxBody
  <2>9. BlockUnderway'
    BY <1>2, <2>1, <2>3, <2>4, <2>6 DEF BlockUnderway, BlockBody, TxBody
  <2>10. BlocksTile'
    BY <1>1, <1>2, <1>5, <2>1, <2>2, <2>3, <2>6 DEF IInv, BlocksTile
  <2> QED BY <1>3, <2>1, <2>7, <2>8, <2>9, <2>10 DEF IInv, Onward, Chain
<1>6. ASSUME NEW e \in {"EmptyBlockSize", "TooLargeBlockSize"}, Leave(res.reader, e)
      PROVE  Onward
  <2>1. IInv' /\ reader' = res.reader
    BY <1>1, <1>3, <1>6, LeaveKeeps DEF Chain, Exits, ErrorCodes, Leave
  <2> QED BY <1>3, <2>1 DEF Onward, Chain
<1>7. CASE Stop(res)
  BY <1>1, <1>3, <1>7, StopKeeps DEF Onward
<1> QED BY <1>4, <1>5, <1>6, <1>7
(* From here on the reader is inside a block.                              *)
LEMMA GetBlockHashKeeps ==
    ASSUME IInv, GetBlockHash
    PROVE  Onward
<1> DEFINE res == ThenSetReadPosition(ReadData(reader, HeaderSize), reader.mpos)
<1>1. pc = "hash" /\ HeaderSize \in Nat
  BY DEF GetBlockHash, HeaderSize
<1>2. Usable(reader) /\ outcome = "running" /\ reader.mpos \in Nat /\ block \in BlockType /\ tx \in TxType
  BY <1>1, Running
<1>3. /\ Chain(reader, res)
      /\ res.status = "ok" => res.reader.mpos = reader.mpos
  BY <1>1, <1>2, ChainRead, ChainRewind
<1>4. \/ /\ res.status = "ok"
         /\ block' = [block EXCEPT !.hashed = Extent(reader.mpos, HeaderSize)]
         /\ Goto(res, "header")
         /\ UNCHANGED <<blocks, tx>>
      \/ Stop(res)
  BY DEF GetBlockHash
<1> HIDE DEF res
<1>5. CASE /\ res.status = "ok"
           /\ block' = [block EXCEPT !.hashed = Extent(reader.mpos, HeaderSize)]
           /\ Goto(res, "header")
           /\ UNCHANGED <<blocks, tx>>
  <2>1. reader' = res.reader /\ pc' = "header" /\ outcome' = outcome
    BY <1>5 DEF Goto
  <2>2. Extent(reader.mpos, HeaderSize) \in ExtentType
    BY <1>1, <1>2 DEF Extent, ExtentType
  <2>3. block' \in BlockType /\ block'.from = block.from /\ block'.size = block.size
    BY <1>2, <1>5, <2>2 DEF BlockType
  <2>4. TxUnderway'
    BY <2>1 DEF TxUnderway, TxBody
  <2>5. Usable(reader') /\ reader'.disk = reader.disk /\ reader'.key = reader.key
        /\ reader'.mpos >= reader.mpos
    BY <1>3, <1>5, <2>1 DEF Chain
  <2>6. pc \in BlockBody /\ pc' \in BlockBody
    BY <1>1, <2>1 DEF BlockBody
  <2> QED BY <1>2, <1>5, <2>1, <2>3, <2>4, <2>5, <2>6, InsideKeeps DEF Onward
<1>6. CASE Stop(res)
  BY <1>1, <1>3, <1>6, StopKeeps DEF Onward
<1> QED BY <1>4, <1>5, <1>6

LEMMA ParseBlockHeaderKeeps ==
    ASSUME IInv, ParseBlockHeader
    PROVE  Onward
<1> DEFINE hashes == Then(Then(ReadData(reader, 4), 32), 32)
           res    == Then(Then(Then(hashes, 4), 4), 4)
<1>1. pc = "header"
  BY DEF ParseBlockHeader
<1>2. Usable(reader) /\ outcome = "running" /\ reader.mpos \in Nat /\ block \in BlockType /\ tx \in TxType
  BY <1>1, Running
<1>3. Chain(reader, res)
  <2>1. Chain(reader, hashes)
    BY <1>2, ChainRead, ChainThen
  <2> HIDE DEF hashes
  <2> QED BY <1>2, <2>1, ChainThen
<1>4. \/ /\ res.status = "ok"
         /\ block' = [block EXCEPT !.header = [from |-> reader.mpos, to |-> res.reader.mpos]]
         /\ Goto(res, "txCount")
         /\ UNCHANGED <<blocks, tx>>
      \/ Stop(res)
  BY DEF ParseBlockHeader
<1> HIDE DEF res
<1>5. CASE /\ res.status = "ok"
           /\ block' = [block EXCEPT !.header = [from |-> reader.mpos, to |-> res.reader.mpos]]
           /\ Goto(res, "txCount")
           /\ UNCHANGED <<blocks, tx>>
  <2>1. reader' = res.reader /\ pc' = "txCount" /\ outcome' = outcome
    BY <1>5 DEF Goto
  <2>2. Usable(reader') /\ reader'.disk = reader.disk /\ reader'.key = reader.key
        /\ reader'.mpos >= reader.mpos /\ reader'.mpos \in Nat
    BY <1>3, <1>5, <2>1, UsableFields DEF Chain
  <2>3. [from |-> reader.mpos, to |-> res.reader.mpos] \in ExtentType
    BY <1>2, <2>1, <2>2 DEF ExtentType
  <2>4. block' \in BlockType /\ block'.from = block.from /\ block'.size = block.size
    BY <1>2, <1>5, <2>3 DEF BlockType
  <2>5. TxUnderway'
    BY <2>1 DEF TxUnderway, TxBody
  <2>6. pc \in BlockBody /\ pc' \in BlockBody
    BY <1>1, <2>1 DEF BlockBody
  <2> QED BY <1>2, <1>5, <2>1, <2>2, <2>4, <2>5, <2>6, InsideKeeps DEF Onward
<1>6. CASE Stop(res)
  BY <1>1, <1>3, <1>6, StopKeeps DEF Onward
<1> QED BY <1>4, <1>5, <1>6

LEMMA ParseTransactionCounterKeeps ==
    ASSUME IInv, ParseTransactionCounter
    PROVE  Onward
<1> DEFINE res == ReadCompactSize(reader)
<1>1. pc = "txCount"
  BY DEF ParseTransactionCounter
<1>2. Usable(reader) /\ outcome = "running" /\ reader.mpos \in Nat /\ block \in BlockType /\ tx \in TxType
  BY <1>1, Running
<1>3. Chain(reader, res) /\ (res.status = "ok" => res.data \in Nat)
  BY <1>2, ChainCompactSize
<1>4. \/ /\ Counted(res)
         /\ block' = [block EXCEPT !.txCount = res.data]
         /\ Goto(res, NextTransaction(block'))
         /\ UNCHANGED <<blocks, tx>>
      \/ StopCount(res)
  BY DEF ParseTransactionCounter
<1> HIDE DEF res
<1>5. CASE /\ Counted(res)
           /\ block' = [block EXCEPT !.txCount = res.data]
           /\ Goto(res, NextTransaction(block'))
           /\ UNCHANGED <<blocks, tx>>
  <2>1. /\ reader' = res.reader /\ pc' \in {"version", "blockEnd"} /\ outcome' = outcome
        /\ res.status = "ok"
    BY <1>5 DEF Goto, NextTransaction, Counted
  <2>2. Usable(reader') /\ reader'.disk = reader.disk /\ reader'.key = reader.key
        /\ reader'.mpos >= reader.mpos
    BY <1>3, <2>1 DEF Chain
  <2>3. block' \in BlockType /\ block'.from = block.from /\ block'.size = block.size
    BY <1>2, <1>3, <1>5, <2>1 DEF BlockType
  <2>4. TxUnderway'
    BY <2>1 DEF TxUnderway, TxBody
  <2>5. pc \in BlockBody /\ pc' \in BlockBody
    BY <1>1, <2>1 DEF BlockBody
  <2> QED BY <1>2, <1>5, <2>1, <2>2, <2>3, <2>4, <2>5, InsideKeeps DEF Onward
<1>6. CASE StopCount(res)
  BY <1>1, <1>3, <1>6, StopCountKeeps DEF Onward
<1> QED BY <1>4, <1>5, <1>6

(* The functions that parse one transaction change only tx.                *)
LEMMA TxStepKeeps ==
    ASSUME IInv, pc \in TxBody \cup {"version"}, NEW res, Chain(reader, res), res.status = "ok",
           NEW label \in TxBody, Goto(res, label), UNCHANGED <<blocks, block>>, tx' \in TxType,
           tx'.from = IF pc = "version" THEN reader.mpos ELSE tx.from,
           label = "witItem" => tx'.witnesses # <<>>
    PROVE  Onward
<1>1. reader' = res.reader /\ pc' = label /\ outcome' = outcome
  BY DEF Goto
<1>2. Usable(reader') /\ reader'.disk = reader.disk /\ reader'.key = reader.key
      /\ reader'.mpos >= reader.mpos /\ reader'.mpos \in Nat
  BY <1>1, UsableFields DEF Chain
<1>3. pc \in BlockBody /\ pc' \in BlockBody /\ pc # "end"
  BY <1>1 DEF BlockBody, TxBody
<1>4. block \in BlockType /\ reader.mpos \in Nat /\ tx \in TxType
  BY <1>3, Running
<1>5. tx'.from \in Nat /\ tx.from \in Nat
  BY <1>4 DEF TxType
<1>6. TxUnderway'
  BY <1>1, <1>2, <1>4, <1>5 DEF IInv, TxUnderway
<1> QED BY <1>1, <1>2, <1>3, <1>4, <1>6, InsideKeeps DEF Onward
LEMMA ParseVersionKeeps ==
    ASSUME IInv, ParseVersion
    PROVE  Onward
<1> DEFINE res == ReadData(reader, 4)
<1>1. pc = "version"
  BY DEF ParseVersion
<1>2. Usable(reader) /\ reader.mpos \in Nat
  BY <1>1, Running
<1>3. Chain(reader, res)
  BY <1>2, ChainRead
<1>4. \/ /\ res.status = "ok"
         /\ tx' = NewTx(reader.mpos)
         /\ Goto(res, "flag")
         /\ UNCHANGED <<blocks, block>>
      \/ Stop(res)
  BY DEF ParseVersion
<1> HIDE DEF res
<1>5. CASE /\ res.status = "ok"
           /\ tx' = NewTx(reader.mpos)
           /\ Goto(res, "flag")
           /\ UNCHANGED <<blocks, block>>
  <2>1. tx' \in TxType /\ tx'.from = reader.mpos
    BY <1>2, <1>5 DEF NewTx, TxType, Extent, ExtentType
  <2>2. "flag" \in TxBody /\ pc \in TxBody \cup {"version"}
    BY <1>1 DEF TxBody
  <2> QED BY <1>1, <1>3, <1>5, <2>1, <2>2, TxStepKeeps
<1>6. CASE Stop(res)
  BY <1>1, <1>3, <1>6, StopKeeps DEF Onward
<1> QED BY <1>4, <1>5, <1>6

LEMMA ParseTransactionFlagKeeps ==
    ASSUME IInv, ParseTransactionFlag
    PROVE  Onward
<1> DEFINE two == ReadData(reader, 2)
           res == IF FlagFound(two.data) THEN two ELSE ThenSetReadPosition(two, reader.mpos)
<1>1. pc = "flag"
  BY DEF ParseTransactionFlag
<1>2. Usable(reader) /\ reader.mpos \in Nat /\ tx \in TxType
  BY <1>1, Running
<1>3. Chain(reader, two)
  BY <1>2, ChainRead
<1>4. \/ /\ res.status = "ok"
         /\ tx' = [tx EXCEPT !.segwit = FlagFound(two.data)]
         /\ Goto(res, "inCount")
         /\ UNCHANGED <<blocks, block>>
      \/ Stop(res)
  BY DEF ParseTransactionFlag
<1> HIDE DEF two
<1>5. Chain(reader, res)
  BY <1>2, <1>3, ChainRewind
<1> HIDE DEF res
<1>6. CASE /\ res.status = "ok"
           /\ tx' = [tx EXCEPT !.segwit = FlagFound(two.data)]
           /\ Goto(res, "inCount")
           /\ UNCHANGED <<blocks, block>>
  <2>1. FlagFound(two.data) \in BOOLEAN
    BY DEF FlagFound
  <2>2. tx' \in TxType /\ tx'.from = tx.from
    BY <1>2, <1>6, <2>1 DEF TxType
  <2>3. "inCount" \in TxBody /\ pc \in TxBody \cup {"version"}
    BY <1>1 DEF TxBody
  <2> QED BY <1>1, <1>5, <1>6, <2>2, <2>3, TxStepKeeps
<1>7. CASE Stop(res)
  BY <1>1, <1>5, <1>7, StopKeeps DEF Onward
<1> QED BY <1>4, <1>6, <1>7

LEMMA ParseInCounterKeeps ==
    ASSUME IInv, ParseInCounter
    PROVE  Onward
<1> DEFINE res == ReadCompactSize(reader)
<1>1. pc = "inCount"
  BY DEF ParseInCounter
<1>2. Usable(reader) /\ reader.mpos \in Nat /\ tx \in TxType
  BY <1>1, Running
<1>3. Chain(reader, res) /\ (res.status = "ok" => res.data \in Nat)
  BY <1>2, ChainCompactSize
<1>4. \/ /\ Counted(res)
         /\ tx' = [tx EXCEPT !.inCount = res.data]
         /\ Goto(res, NextInput(tx'))
         /\ UNCHANGED <<blocks, block>>
      \/ StopCount(res)
  BY DEF ParseInCounter
<1> HIDE DEF res
<1>5. CASE /\ Counted(res)
           /\ tx' = [tx EXCEPT !.inCount = res.data]
           /\ Goto(res, NextInput(tx'))
           /\ UNCHANGED <<blocks, block>>
  <2>1. res.status = "ok" /\ NextInput(tx') \in {"txIn", "outCount"}
    BY <1>5 DEF Counted, NextInput
  <2>2. tx' \in TxType /\ tx'.from = tx.from
    BY <1>2, <1>3, <1>5, <2>1 DEF TxType
  <2>3. NextInput(tx') \in TxBody /\ pc \in TxBody \cup {"version"}
    BY <1>1, <2>1 DEF TxBody
  <2> QED BY <1>1, <1>3, <1>5, <2>1, <2>2, <2>3, TxStepKeeps
<1>6. CASE StopCount(res)
  BY <1>1, <1>3, <1>6, StopCountKeeps DEF Onward
<1> QED BY <1>4, <1>5, <1>6

LEMMA NextLabels ==
    ASSUME NEW t
    PROVE  /\ NextWitness(t) \in {"witCount", "lockTime"}
           /\ NextOutput(t) \in {"txOut", "witCount", "lockTime"}
           /\ NextItem(t) \in {"witItem", "witCount", "lockTime"}
<1>1. NextWitness(t) \in {"witCount", "lockTime"}
  BY DEF NextWitness
<1> QED BY <1>1 DEF NextOutput, NextItem

LEMMA ParseOutCounterKeeps ==
    ASSUME IInv, ParseOutCounter
    PROVE  Onward
<1> DEFINE res == ReadCompactSize(reader)
<1>1. pc = "outCount"
  BY DEF ParseOutCounter
<1>2. Usable(reader) /\ reader.mpos \in Nat /\ tx \in TxType
  BY <1>1, Running
<1>3. Chain(reader, res) /\ (res.status = "ok" => res.data \in Nat)
  BY <1>2, ChainCompactSize
<1>4. \/ /\ Counted(res)
         /\ tx' = [tx EXCEPT !.outCount = res.data]
         /\ Goto(res, NextOutput(tx'))
         /\ UNCHANGED <<blocks, block>>
      \/ StopCount(res)
  BY DEF ParseOutCounter
<1> HIDE DEF res
<1>5. CASE /\ Counted(res)
           /\ tx' = [tx EXCEPT !.outCount = res.data]
           /\ Goto(res, NextOutput(tx'))
           /\ UNCHANGED <<blocks, block>>
  <2>1. res.status = "ok" /\ NextOutput(tx') \in {"txOut", "witCount", "lockTime"}
    BY <1>5, NextLabels DEF Counted
  <2>2. tx' \in TxType /\ tx'.from = tx.from
    BY <1>2, <1>3, <1>5, <2>1 DEF TxType
  <2>3. NextOutput(tx') \in TxBody /\ NextOutput(tx') # "witItem" /\ pc \in TxBody \cup {"version"}
    BY <1>1, <2>1 DEF TxBody
  <2> QED BY <1>1, <1>3, <1>5, <2>1, <2>2, <2>3, TxStepKeeps
<1>6. CASE StopCount(res)
  BY <1>1, <1>3, <1>6, StopCountKeeps DEF Onward
<1> QED BY <1>4, <1>5, <1>6
LEMMA ParseTxInKeeps ==
    ASSUME IInv, ParseTxIn
    PROVE  Onward
<1>1. pc = "txIn"
  BY DEF ParseTxIn
<1>2. Usable(reader) /\ reader.mpos \in Nat /\ tx \in TxType
  BY <1>1, Running
<1> DEFINE index  == Then(ReadArray32(reader), 4)
           length == ThenCompactSize(index)
           res    == Then(Then(length, length.data), 4)
           in     == [from |-> reader.mpos, to |-> res.reader.mpos,
                      script |-> Extent(length.reader.mpos, length.data)]
<1>3. Chain(reader, index)
  <2>1. Chain(reader, ReadArray32(reader))
    BY <1>2, ChainReadArray32
  <2> QED BY <1>2, <2>1, ChainThen
<1>4. Chain(reader, length) /\ (length.status = "ok" => length.data \in Nat)
  <2> HIDE DEF index
  <2> QED BY <1>2, <1>3, ChainThenCompactSize
<1>5. Chain(reader, res) /\ (res.status = "ok" => length.status = "ok")
  <2> DEFINE script == Then(length, length.data)
  <2> HIDE DEF length
  <2>1. Chain(reader, script) /\ (script.status = "ok" => length.status = "ok")
    BY <1>2, <1>4, ChainThen
  <2> HIDE DEF script
  <2>2. Chain(reader, Then(script, 4)) /\ (Then(script, 4).status = "ok" => script.status = "ok")
    BY <1>2, <2>1, ChainThen
  <2> QED BY <2>1, <2>2 DEF script
<1>6. \/ /\ res.status = "ok"
         /\ tx' = [tx EXCEPT !.vin = Append(@, in)]
         /\ Goto(res, NextInput(tx'))
         /\ UNCHANGED <<blocks, block>>
      \/ Stop(res)
  BY DEF ParseTxIn
<1>7. CASE /\ res.status = "ok"
           /\ tx' = [tx EXCEPT !.vin = Append(@, in)]
           /\ Goto(res, NextInput(tx'))
           /\ UNCHANGED <<blocks, block>>
  <2> HIDE DEF index, length, res
  <2>1. length.reader.mpos \in Nat /\ length.data \in Nat /\ res.reader.mpos \in Nat
    BY <1>4, <1>5, <1>7, UsableFields DEF Chain
  <2>2. in \in TxInType
    BY <1>2, <2>1 DEF TxInType, Extent, ExtentType
  <2> DEFINE vin == Append(tx.vin, in)
  <2>3. tx' \in TxType /\ tx'.from = tx.from
    <3>1. vin \in Seq(TxInType) /\ tx' = [tx EXCEPT !.vin = vin]
      BY <1>2, <1>7, <2>2 DEF TxType
    <3> HIDE DEF in, vin
    <3> QED BY <1>2, <3>1 DEF TxType
  <2>4. NextInput(tx') \in {"txIn", "outCount"}
    BY DEF NextInput
  <2>5. NextInput(tx') \in TxBody /\ pc \in TxBody \cup {"version"}
    BY <1>1, <2>4 DEF TxBody
  <2> QED BY <1>1, <1>5, <1>7, <2>3, <2>4, <2>5, TxStepKeeps
<1>8. CASE Stop(res)
  <2> HIDE DEF res
  <2> QED BY <1>1, <1>5, <1>8, StopKeeps DEF Onward
<1> QED BY <1>6, <1>7, <1>8

LEMMA ParseTxOutKeeps ==
    ASSUME IInv, ParseTxOut
    PROVE  Onward
<1>1. pc = "txOut"
  BY DEF ParseTxOut
<1>2. Usable(reader) /\ reader.mpos \in Nat /\ tx \in TxType
  BY <1>1, Running
<1> DEFINE value  == ReadData(reader, 8)
           length == ThenCompactSize(value)
           res    == Then(length, length.data)
           out    == [from |-> reader.mpos, to |-> res.reader.mpos,
                      script |-> Extent(length.reader.mpos, length.data)]
<1>3. Chain(reader, value)
  BY <1>2, ChainRead
<1>4. Chain(reader, length) /\ (length.status = "ok" => length.data \in Nat)
  <2> HIDE DEF value
  <2> QED BY <1>2, <1>3, ChainThenCompactSize
<1>5. Chain(reader, res) /\ (res.status = "ok" => length.status = "ok")
  <2> HIDE DEF length
  <2> QED BY <1>2, <1>4, ChainThen
<1>6. \/ /\ res.status = "ok"
         /\ tx' = [tx EXCEPT !.vout = Append(@, out)]
         /\ Goto(res, NextOutput(tx'))
         /\ UNCHANGED <<blocks, block>>
      \/ Stop(res)
  BY DEF ParseTxOut
<1>7. CASE /\ res.status = "ok"
           /\ tx' = [tx EXCEPT !.vout = Append(@, out)]
           /\ Goto(res, NextOutput(tx'))
           /\ UNCHANGED <<blocks, block>>
  <2> HIDE DEF value, length, res
  <2>1. length.reader.mpos \in Nat /\ length.data \in Nat /\ res.reader.mpos \in Nat
    BY <1>4, <1>5, <1>7, UsableFields DEF Chain
  <2>2. out \in TxInType
    BY <1>2, <2>1 DEF TxInType, Extent, ExtentType
  <2> DEFINE vout == Append(tx.vout, out)
  <2>3. tx' \in TxType /\ tx'.from = tx.from
    <3>1. vout \in Seq(TxInType) /\ tx' = [tx EXCEPT !.vout = vout]
      BY <1>2, <1>7, <2>2 DEF TxType
    <3> HIDE DEF out, vout
    <3> QED BY <1>2, <3>1 DEF TxType
  <2>4. NextOutput(tx') \in {"txOut", "witCount", "lockTime"}
    BY NextLabels
  <2>5. NextOutput(tx') \in TxBody /\ pc \in TxBody \cup {"version"}
    BY <1>1, <2>4 DEF TxBody
  <2> QED BY <1>1, <1>5, <1>7, <2>3, <2>4, <2>5, TxStepKeeps
<1>8. CASE Stop(res)
  <2> HIDE DEF res
  <2> QED BY <1>1, <1>5, <1>8, StopKeeps DEF Onward
<1> QED BY <1>6, <1>7, <1>8

LEMMA ParseWitnessKeeps ==
    ASSUME IInv, ParseWitness
    PROVE  Onward
<1> DEFINE res == ReadCompactSize(reader)
           w   == [from |-> reader.mpos, to |-> res.reader.mpos, count |-> res.data, items |-> <<>>]
<1>1. pc = "witCount"
  BY DEF ParseWitness
<1>2. Usable(reader) /\ reader.mpos \in Nat /\ tx \in TxType
  BY <1>1, Running
<1>3. Chain(reader, res) /\ (res.status = "ok" => res.data \in Nat)
  BY <1>2, ChainCompactSize
<1>4. \/ /\ Counted(res)
         /\ tx' = [tx EXCEPT !.witnesses = Append(@, w)]
         /\ Goto(res, NextItem(tx'))
         /\ UNCHANGED <<blocks, block>>
      \/ StopCount(res)
  BY DEF ParseWitness
<1> HIDE DEF res
<1>5. CASE /\ Counted(res)
           /\ tx' = [tx EXCEPT !.witnesses = Append(@, w)]
           /\ Goto(res, NextItem(tx'))
           /\ UNCHANGED <<blocks, block>>
  <2>1. res.status = "ok" /\ NextItem(tx') \in {"witItem", "witCount", "lockTime"}
    BY <1>5, NextLabels DEF Counted
  <2>2. res.reader.mpos \in Nat /\ res.data \in Nat
    BY <1>3, <2>1, UsableFields DEF Chain
  <2>3. w \in WitnessType
    BY <1>2, <2>2 DEF WitnessType
  <2> DEFINE stacks == Append(tx.witnesses, w)
  <2>4. /\ stacks \in Seq(WitnessType) /\ stacks # <<>>
        /\ tx' = [tx EXCEPT !.witnesses = stacks]
    <3>1. tx.witnesses \in Seq(WitnessType)
      BY <1>2 DEF TxType
    <3> HIDE DEF w
    <3> QED BY <1>5, <2>3, <3>1
  <2> HIDE DEF w, stacks
  <2>5. tx' \in TxType /\ tx'.from = tx.from /\ tx'.witnesses # <<>>
    BY <1>2, <2>4 DEF TxType
  <2>6. NextItem(tx') \in TxBody /\ pc \in TxBody \cup {"version"}
    BY <1>1, <2>1 DEF TxBody
  <2> QED BY <1>1, <1>3, <1>5, <2>1, <2>5, <2>6, TxStepKeeps
<1>6. CASE StopCount(res)
  BY <1>1, <1>3, <1>6, StopCountKeeps DEF Onward
<1> QED BY <1>4, <1>5, <1>6

LEMMA AddItemKeeps ==
    ASSUME NEW stacks \in Seq(WitnessType), stacks # <<>>, NEW item \in ExtentType, NEW end \in Nat
    PROVE  /\ AddItem(stacks, item, end) \in Seq(WitnessType)
           /\ AddItem(stacks, item, end) # <<>>
<1> DEFINE last  == Len(stacks)
           w     == stacks[last]
           items == Append(w.items, item)
           new   == [w EXCEPT !.items = items, !.to = end]
<1>1. last \in 1 .. Len(stacks) /\ last \in Nat \ {0}
  BY EmptySeq
<1>2. w \in WitnessType
  BY <1>1, ElementOfSeq
<1>3. items \in Seq(ExtentType)
  BY <1>2 DEF WitnessType
<1>4. new \in WitnessType
  <2> HIDE DEF items, w
  <2> QED BY <1>2, <1>3 DEF WitnessType
<1>5. AddItem(stacks, item, end) = [stacks EXCEPT ![last] = new]
  BY DEF AddItem
<1> HIDE DEF new, last
<1>6. /\ AddItem(stacks, item, end) \in Seq(WitnessType)
      /\ Len(AddItem(stacks, item, end)) = Len(stacks)
  BY <1>1, <1>4, <1>5, ExceptSeq
<1> QED BY <1>1, <1>6, EmptySeq DEF last

LEMMA ParseWitnessItemKeeps ==
    ASSUME IInv, ParseWitnessItem
    PROVE  Onward
<1>1. pc = "witItem"
  BY DEF ParseWitnessItem
<1>2. Usable(reader) /\ reader.mpos \in Nat /\ tx \in TxType
  BY <1>1, Running
<1> DEFINE length == ReadCompactSize(reader)
           res    == Then(length, length.data)
           item   == Extent(length.reader.mpos, length.data)
           stacks == AddItem(tx.witnesses, item, res.reader.mpos)
<1>3. Chain(reader, length) /\ (length.status = "ok" => length.data \in Nat)
  BY <1>2, ChainCompactSize
<1>4. Chain(reader, res) /\ (res.status = "ok" => length.status = "ok")
  <2> HIDE DEF length
  <2> QED BY <1>2, <1>3, ChainThen
<1>5. \/ /\ res.status = "ok"
         /\ tx' = [tx EXCEPT !.witnesses = stacks]
         /\ Goto(res, NextItem(tx'))
         /\ UNCHANGED <<blocks, block>>
      \/ Stop(res)
  BY DEF ParseWitnessItem
<1>6. CASE /\ res.status = "ok"
           /\ tx' = [tx EXCEPT !.witnesses = stacks]
           /\ Goto(res, NextItem(tx'))
           /\ UNCHANGED <<blocks, block>>
  <2> HIDE DEF length, res
  <2>1. length.reader.mpos \in Nat /\ length.data \in Nat /\ res.reader.mpos \in Nat
    BY <1>3, <1>4, <1>6, UsableFields DEF Chain
  <2>2. item \in ExtentType
    BY <2>1 DEF Extent, ExtentType
  <2>3. tx.witnesses \in Seq(WitnessType) /\ tx.witnesses # <<>>
    BY <1>1, <1>2 DEF IInv, TxUnderway, TxType
  <2>4. stacks \in Seq(WitnessType) /\ stacks # <<>>
    <3> HIDE DEF item
    <3> QED BY <2>1, <2>2, <2>3, AddItemKeeps
  <2> HIDE DEF stacks
  <2>5. tx' \in TxType /\ tx'.from = tx.from /\ tx'.witnesses # <<>>
    BY <1>2, <1>6, <2>4 DEF TxType
  <2>6. NextItem(tx') \in TxBody /\ pc \in TxBody \cup {"version"}
    BY <1>1, NextLabels DEF TxBody
  <2> QED BY <1>1, <1>4, <1>6, <2>5, <2>6, TxStepKeeps
<1>7. CASE Stop(res)
  <2> HIDE DEF res
  <2> QED BY <1>1, <1>4, <1>7, StopKeeps DEF Onward
<1> QED BY <1>5, <1>6, <1>7

LEMMA ParseLockTimeKeeps ==
    ASSUME IInv, ParseLockTime
    PROVE  Onward
<1> DEFINE res == ReadData(reader, 4)
<1>1. pc = "lockTime"
  BY DEF ParseLockTime
<1>2. Usable(reader) /\ reader.mpos \in Nat /\ tx \in TxType
  BY <1>1, Running
<1>3. Chain(reader, res)
  BY <1>2, ChainRead
<1>4. \/ /\ res.status = "ok"
         /\ tx' = [tx EXCEPT !.to = res.reader.mpos]
         /\ Goto(res, "txHash")
         /\ UNCHANGED <<blocks, block>>
      \/ Stop(res)
  BY DEF ParseLockTime
<1> HIDE DEF res
<1>5. CASE /\ res.status = "ok"
           /\ tx' = [tx EXCEPT !.to = res.reader.mpos]
           /\ Goto(res, "txHash")
           /\ UNCHANGED <<blocks, block>>
  <2>1. res.reader.mpos \in Nat
    BY <1>3, <1>5, UsableFields DEF Chain
  <2>2. tx' \in TxType /\ tx'.from = tx.from
    BY <1>2, <1>5, <2>1 DEF TxType
  <2>3. "txHash" \in TxBody /\ pc \in TxBody \cup {"version"}
    BY <1>1 DEF TxBody
  <2> QED BY <1>1, <1>3, <1>5, <2>2, <2>3, TxStepKeeps
<1>6. CASE Stop(res)
  BY <1>1, <1>3, <1>6, StopKeeps DEF Onward
<1> QED BY <1>4, <1>5, <1>6
(* Reading the transaction again ends where it was, for the bytes are      *)
(* still there; only its length in memory can make it throw.               *)
LEMMA GetCurrentTransactionHashKeeps ==
    ASSUME IInv, GetCurrentTransactionHash
    PROVE  Onward
<1>1. pc = "txHash"
  BY DEF GetCurrentTransactionHash
<1>2. /\ Usable(reader) /\ reader.mpos \in Nat /\ tx \in TxType /\ block \in BlockType
      /\ Len(reader.disk) \in Nat /\ reader.mpos <= Len(reader.disk)
  BY <1>1, Running
<1>3. tx.from \in Nat /\ tx.from <= reader.mpos
  BY <1>1, <1>2 DEF IInv, TxUnderway, TxBody, TxType
<1> DEFINE back  == SetReadPosition(reader, tx.from)
           n     == reader.mpos - tx.from
           again == Then(back, n)
           res   == Reread(again)
<1>4. /\ n \in Nat /\ tx.from + n = reader.mpos
  BY <1>2, <1>3
<1>5. /\ back.status = "ok" /\ Usable(back.reader) /\ back.reader.mpos = tx.from
      /\ back.reader.disk = reader.disk /\ back.reader.key = reader.key
  <2>1. reader.fail = FALSE /\ Sound(reader)
    BY <1>2, UsableFields DEF Usable
  <2>2. /\ Sound(back.reader)
        /\ back.reader.disk = reader.disk /\ back.reader.key = reader.key
        /\ back.reader.fail = reader.fail /\ ~back.reader.eof
        /\ back.status = IF reader.fail THEN "FileError" ELSE "ok"
        /\ back.reader.mpos = IF reader.fail THEN reader.mpos ELSE tx.from
    BY <1>3, <2>1, SetReadPositionSound
  <2> HIDE DEF back
  <2> QED BY <1>2, <1>3, <2>1, <2>2 DEF Usable, Good
<1>6. /\ again.status \in {"ok", "thrown"}
      /\ Sound(again.reader)
      /\ again.reader.disk = reader.disk /\ again.reader.key = reader.key
      /\ again.status = "ok" => Usable(again.reader) /\ again.reader.mpos = reader.mpos
  <2>1. again = ReadData(back.reader, n)
    BY <1>5 DEF Then
  <2> HIDE DEF back, n, again
  <2>2. ReadDataGives(back.reader, n, again) /\ Chain(back.reader, again)
    BY <1>4, <1>5, <2>1, ReadDataSound, ChainRead DEF Usable
  <2>3. again.status # "FileReadingFailure"
    BY <1>2, <1>4, <1>5, <2>2 DEF ReadDataGives, Usable, Good
  <2>4. again.status = "ok" => again.reader.mpos = reader.mpos
    BY <1>4, <1>5, <2>2 DEF ReadDataGives
  <2> QED BY <1>5, <2>2, <2>3, <2>4 DEF ReadDataGives, Chain
<1> HIDE DEF again
<1>7. res = again
  BY <1>6 DEF Reread
<1>8. \/ /\ again.status = "ok"
         /\ block' = [block EXCEPT !.txs = Append(@, [tx EXCEPT !.hashed = Extent(tx.from, n)])]
         /\ Goto(again, NextTransaction(block'))
         /\ UNCHANGED <<blocks, tx>>
      \/ Stop(again)
  BY <1>7 DEF GetCurrentTransactionHash, again, res
<1> HIDE DEF res
<1>9. CASE /\ again.status = "ok"
           /\ block' = [block EXCEPT !.txs = Append(@, [tx EXCEPT !.hashed = Extent(tx.from, n)])]
           /\ Goto(again, NextTransaction(block'))
           /\ UNCHANGED <<blocks, tx>>
  <2> HIDE DEF n
  <2> DEFINE done == [tx EXCEPT !.hashed = Extent(tx.from, n)]
             txs  == Append(block.txs, done)
  <2>1. done \in TxType
    <3>1. Extent(tx.from, n) \in ExtentType
      BY <1>3, <1>4 DEF Extent, ExtentType
    <3> QED BY <1>2, <3>1 DEF TxType
  <2>2. txs \in Seq(TxType) /\ block' = [block EXCEPT !.txs = txs]
    <3>1. block.txs \in Seq(TxType)
      BY <1>2 DEF BlockType
    <3> HIDE DEF done
    <3> QED BY <1>9, <2>1, <3>1 DEF done
  <2> HIDE DEF done, txs
  <2>3. block' \in BlockType /\ block'.from = block.from /\ block'.size = block.size
    BY <1>2, <2>2 DEF BlockType
  <2>4. /\ reader' = again.reader /\ outcome' = outcome /\ pc' \in {"version", "blockEnd"}
        /\ blocks' = blocks /\ tx' = tx
    BY <1>9 DEF Goto, NextTransaction
  <2>5. TxUnderway'
    BY <2>4 DEF TxUnderway, TxBody
  <2>6. pc \in BlockBody /\ pc' \in BlockBody
    BY <1>1, <2>4 DEF BlockBody, TxBody
  <2>7. Usable(reader') /\ reader'.disk = reader.disk /\ reader'.key = reader.key
        /\ reader'.mpos >= reader.mpos
    BY <1>2, <1>6, <1>9, <2>4
  <2> QED BY <1>2, <2>3, <2>4, <2>5, <2>6, <2>7, InsideKeeps DEF Onward
<1>10. CASE Stop(again)
  <2>1. Leave(again.reader, "thrown") /\ "thrown" \in Exits
    BY <1>6, <1>10 DEF Stop, Exits
  <2>2. IInv'
    BY <1>1, <1>6, <2>1, LeaveKeeps
  <2> QED BY <2>1, <2>2 DEF Onward, Leave
<1> QED BY <1>8, <1>9, <1>10

LEMMA CheckBlockEndKeeps ==
    ASSUME IInv, CheckBlockEnd
    PROVE  Onward
<1>1. pc = "blockEnd"
  BY DEF CheckBlockEnd
<1>2. /\ Usable(reader) /\ reader.mpos \in Nat /\ block \in BlockType /\ blocks \in Seq(BlockType)
      /\ outcome = "running"
  BY <1>1, Running
<1>3. CASE reader.mpos # DeclaredEnd /\ Leave(reader, "BlockParsingFailure")
  <2>1. IInv'
    BY <1>1, <1>2, <1>3, LeaveKeeps DEF Exits, ErrorCodes, Usable
  <2> QED BY <1>2, <1>3, <2>1 DEF Onward, Leave
<1>4. CASE /\ reader.mpos = DeclaredEnd
           /\ blocks' = Append(blocks, [block EXCEPT !.to = reader.mpos])
           /\ pc' = "block"
           /\ UNCHANGED <<reader, block, tx, outcome>>
  <2> DEFINE b == [block EXCEPT !.to = reader.mpos]
  <2>1. /\ b \in BlockType /\ b.from = block.from /\ b.size = block.size /\ b.to = reader.mpos
    BY <1>2 DEF BlockType
  <2>2. /\ PlainAt(reader, b.from, 4) = MagicBytes
        /\ b.size = Le32(PlainAt(reader, b.from + 4, 4))
        /\ b.to = b.from + 8 + b.size
    <3>1. /\ PlainAt(reader, block.from, 4) = MagicBytes
          /\ block.size = Le32(PlainAt(reader, block.from + 4, 4))
      BY <1>1 DEF IInv, BlockUnderway, BlockBody
    <3>2. block.from \in Nat /\ block.size \in Nat /\ reader.mpos = block.from + block.size + 8
      BY <1>2, <1>4 DEF DeclaredEnd, BlockType
    <3> HIDE DEF b
    <3> QED BY <2>1, <3>1, <3>2
  <2>3. Tiles(blocks, 0, b.from)
    BY <1>1, <1>2, <2>1 DEF IInv, BlocksTile
  <2> HIDE DEF b
  <2>4. blocks' = Append(blocks, b)
    BY <1>4 DEF b
  <2>5. Tiles(blocks', 0, reader.mpos)
    BY <1>2, <2>1, <2>3, <2>4, TilesAppend
  <2>6. TypeOK'
    BY <1>2, <1>4, <2>1, <2>4 DEF IInv, TypeOK, Labels
  <2>7. ReaderUsable' /\ TxUnderway' /\ BlockUnderway'
    BY <1>1, <1>2, <1>4
       DEF IInv, ReaderUsable, Usable, Good, TxUnderway, BlockUnderway, BlockBody, TxBody
  <2>8. BlocksTile'
    <3>1. ASSUME NEW i \in 1 .. Len(blocks')
          PROVE  /\ PlainAt(reader, blocks'[i].from, 4) = MagicBytes
                 /\ blocks'[i].size = Le32(PlainAt(reader, blocks'[i].from + 4, 4))
                 /\ blocks'[i].to = blocks'[i].from + 8 + blocks'[i].size
      <4>1. CASE i \in 1 .. Len(blocks)
        <5>1. blocks'[i] = blocks[i]
          BY <1>2, <2>1, <2>4, <4>1
        <5> QED BY <4>1, <5>1 DEF IInv, BlocksTile
      <4>2. CASE i = Len(blocks) + 1
        <5>1. blocks'[i] = b
          BY <1>2, <2>1, <2>4, <4>2
        <5> QED BY <2>2, <5>1
      <4> QED BY <1>2, <2>1, <2>4, <3>1, <4>1, <4>2
    <3> QED BY <1>2, <1>4, <2>5, <3>1 DEF BlocksTile
  <2> QED BY <1>2, <1>4, <2>6, <2>7, <2>8 DEF IInv, Onward
<1> QED BY <1>3, <1>4 DEF CheckBlockEnd

-----------------------------------------------------------------------------
(* The theorems.                                                           *)
LEMMA StepKeeps == IInv /\ [Next]_vars => IInv' /\ (Onward \/ UNCHANGED vars)
<1>1. ASSUME IInv, Next PROVE Onward
  BY <1>1, StartBlockKeeps, ParseMagicNumberKeeps, ParseBlockSizeKeeps, GetBlockHashKeeps,
     ParseBlockHeaderKeeps, ParseTransactionCounterKeeps, ParseVersionKeeps,
     ParseTransactionFlagKeeps, ParseInCounterKeeps, ParseTxInKeeps, ParseOutCounterKeeps,
     ParseTxOutKeeps, ParseWitnessKeeps, ParseWitnessItemKeeps, ParseLockTimeKeeps,
     GetCurrentTransactionHashKeeps, CheckBlockEndKeeps DEF Next
<1>2. ASSUME IInv, UNCHANGED vars PROVE IInv'
  BY <1>2 DEF IInv, TypeOK, ReaderUsable, TxUnderway, BlockUnderway, BlocksTile, vars
<1> QED BY <1>1, <1>2 DEF Onward

THEOREM Invariance == Spec => []IInv
<1>1. IInv /\ [Next]_vars => IInv'
  BY StepKeeps
<1> QED BY InitKeeps, <1>1, PTL DEF Spec

(* Every local of the parsing functions holds a value of its type, for     *)
(* every file, key and memory limit.                                       *)
THEOREM TypeCorrect == Spec => []TypeOK
<1>1. IInv => TypeOK
  BY DEF IInv
<1> QED BY <1>1, Invariance, PTL

(* While parsing runs, the cached position every rewind and every length   *)
(* is computed from is the stream's own, and the stream is usable.         *)
THEOREM ReaderStaysCoherent == Spec => []RunningReaderCoherent
<1>1. IInv => RunningReaderCoherent
  BY UsableFields DEF IInv, ReaderUsable, Usable, RunningReaderCoherent
<1> QED BY <1>1, Invariance, PTL

(* The blocks returned follow one another from the start of the file, each *)
(* with its magic number and its declared size; success means that the     *)
(* whole file has been consumed.                                           *)
THEOREM BlocksFollowOneAnother == Spec => []BlocksTile
<1>1. IInv => BlocksTile
  BY DEF IInv
<1> QED BY <1>1, Invariance, PTL

(* No step ends before the place it began, unless it throws.               *)
THEOREM ParserNeverGoesBack == Spec => NeverBack
<1>1. IInv /\ [Next]_vars => [outcome' = "thrown" \/ reader'.mpos >= reader.mpos]_vars
  BY StepKeeps DEF Onward
<1> QED BY <1>1, Invariance, PTL DEF Spec, NeverBack

-----------------------------------------------------------------------------
(* Layout: TransactionsTile, FieldsTile and PayloadsExact say something of *)
(* finished blocks only. The invariant that carries them says of the block *)
(* and the transaction under way, at every function, how far they have     *)
(* been read and that this is where the reader stands; a finished part is  *)
(* kept as it was.                                                         *)

(* What decides how a file reads.                                          *)
FileOf(r) == [disk |-> r.disk, key |-> r.key]

File == FileOf(reader)

(* The count or length at p is v; where it ends.                           *)
CountIs(f, p, v) == v = ValueAt(f, p) /\ FirstAt(f, p) \in Byte /\ v \in Nat

After(f, p) == p + WidthAt(f, p)

EndOf(segs, p) == IF segs = <<>> THEN p ELSE segs[Len(segs)].to

Chained(segs, p) == Tiles(segs, p, EndOf(segs, p))

PayloadAt(f, e, p) ==
    CountIs(f, p, ValueAt(f, p)) /\ e = Extent(After(f, p), ValueAt(f,p))

-----------------------------------------------------------------------------
(* One transaction, as far as it has been read.                            *)
InputExact(f, in) == PayloadAt(f, in.script, in.from + 36) /\ in.to = in.script.to + 4

OutputExact(f, out) == PayloadAt(f, out.script, out.from + 8) /\ out.to = out.script.to

ItemsFrom(f, w, n) == IF n = 1 THEN After(f, w.from) ELSE w.items[n - 1].to

ItemsExact(f, w) ==
    /\ CountIs(f, w.from, w.count)
    /\ \A n \in 1 .. Len(w.items) : PayloadAt(f, w.items[n], ItemsFrom(f, w, n))
    /\ w.to = EndOf(w.items, After(f, w.from))

InputsEnd(f, t)  == EndOf(t.vin, After(f, InputsFrom(t)))
OutputsEnd(f, t) == EndOf(t.vout, After(f, InputsEnd(f, t)))
StacksEnd(f, t)  == EndOf(t.witnesses, OutputsEnd(f, t))

FlagRead(f, t) == t.segwit = (PlainAt(f, t.from + 4, 2) = SegwitFlag)

InputsRead(f, t) ==
    /\ FlagRead(f, t)
    /\ CountIs(f, InputsFrom(t), t.inCount)
    /\ Chained(t.vin, After(f, InputsFrom(t)))
    /\ \A k \in 1 .. Len(t.vin) : InputExact(f, t.vin[k])

OutputsRead(f, t) ==
    /\ InputsRead(f, t)
    /\ Len(t.vin) = t.inCount
    /\ CountIs(f, InputsEnd(f, t), t.outCount)
    /\ Chained(t.vout, After(f, InputsEnd(f, t)))
    /\ \A k \in 1 .. Len(t.vout) : OutputExact(f, t.vout[k])

StacksRead(f, t) ==
    /\ OutputsRead(f, t)
    /\ Len(t.vout) = t.outCount
    /\ Chained(t.witnesses, OutputsEnd(f, t))
    /\ \A k \in 1 .. Len(t.witnesses) : ItemsExact(f, t.witnesses[k])

(* The first n stacks have all their items.                                *)
Filled(t, n) == \A k \in 1 .. n : Len(t.witnesses[k].items) = t.witnesses[k].count

AllRead(f, t) ==
    /\ StacksRead(f, t)
    /\ Filled(t, Len(t.witnesses))
    /\ Len(t.witnesses) = IF t.segwit THEN Len(t.vin) ELSE 0

(* The transaction under way when the function `label` is about to read at *)
(* p.                                                                      *)
TxLayout(f, t, p, label) ==
    /\ label = "flag" =>
          p = t.from + 4 /\ t.vin = <<>> /\ t.vout = <<>> /\ t.witnesses = <<>>
    /\ label = "inCount" =>
          FlagRead(f, t) /\ p = InputsFrom(t) /\ t.vin = <<>> /\ t.vout = <<>> /\ t.witnesses = <<>>
    /\ label \in {"txIn", "outCount"} =>
          InputsRead(f, t) /\ p = InputsEnd(f, t) /\ t.vout = <<>> /\ t.witnesses = <<>>
    /\ label = "txIn" => Len(t.vin) < t.inCount
    /\ label = "outCount" => Len(t.vin) = t.inCount
    /\ label = "txOut" =>
          /\ OutputsRead(f, t) /\ p = OutputsEnd(f, t) /\ t.witnesses = <<>>
          /\ Len(t.vout) < t.outCount
    /\ label \in {"witCount", "witItem"} => StacksRead(f, t) /\ p = StacksEnd(f, t) /\ t.segwit
    /\ label = "witCount" =>
          Filled(t, Len(t.witnesses)) /\ Len(t.witnesses) < Len(t.vin)
    /\ label = "witItem" =>
          /\ Filled(t, Len(t.witnesses) - 1) /\ Len(t.witnesses) \in 1 .. Len(t.vin)
          /\ Len(t.witnesses[Len(t.witnesses)].items) < t.witnesses[Len(t.witnesses)].count
    /\ label = "lockTime" => AllRead(f, t) /\ p = StacksEnd(f, t)
    /\ label = "txHash" => AllRead(f, t) /\ p = StacksEnd(f, t) + 4 /\ t.to = p

-----------------------------------------------------------------------------
(* One block, as far as it has been read.                                  *)
HashedWhole(t) == t.hashed = Extent(t.from, t.to - t.from)

TxDone(f, t) == AllRead(f, t) /\ t.to = StacksEnd(f, t) + 4 /\ HashedWhole(t)

HeaderRead(b) == b.header = Extent(b.from + 8, HeaderSize) /\ b.hashed = b.header

TxsFrom(f, b) == After(f, b.from + 88)

TxsEnd(f, b) == EndOf(b.txs, TxsFrom(f, b))

TxsRead(f, b) ==
    /\ HeaderRead(b)
    /\ CountIs(f, b.from + 88, b.txCount)
    /\ Chained(b.txs, TxsFrom(f, b))
    /\ \A j \in 1 .. Len(b.txs) : TxDone(f, b.txs[j])

BlockLayout(f, b, t, p, label) ==
    /\ label \in {"magic", "size", "hash", "header", "txCount"} => b.txs = <<>>
    /\ label = "size" => p = b.from + 4
    /\ label \in {"hash", "header"} => p = b.from + 8
    /\ label = "header" => b.hashed = Extent(b.from + 8, HeaderSize)
    /\ label = "txCount" => HeaderRead(b) /\ p = b.from + 88
    /\ label \in TxBody \cup {"version", "blockEnd"} => TxsRead(f, b)
    /\ label \in TxBody \cup {"version"} => Len(b.txs) < b.txCount
    /\ label \in TxBody => t.from = TxsEnd(f, b)
    /\ label \in {"version", "blockEnd"} => p = TxsEnd(f, b)
    /\ label = "blockEnd" => Len(b.txs) = b.txCount

BlockDone(f, b) == TxsRead(f, b) /\ Len(b.txs) = b.txCount /\ b.to = TxsEnd(f, b)

Layout ==
    /\ BlockLayout(File, block, tx, reader.mpos, pc)
    /\ TxLayout(File, tx, reader.mpos, pc)
    /\ \A i \in 1 .. Len(blocks) : BlockDone(File, blocks[i])
-----------------------------------------------------------------------------
(* A file reads the same through every reader of it.                       *)
LEMMA ReadAtFile ==
    ASSUME NEW r
    PROVE  /\ \A p, n : PlainAt(FileOf(r), p, n) = PlainAt(r, p, n)
           /\ \A p : /\ FirstAt(FileOf(r), p) = FirstAt(r, p)
                     /\ WidthAt(FileOf(r), p) = WidthAt(r, p)
                     /\ ValueAt(FileOf(r), p) = ValueAt(r, p)
<1>1. \A p, n : PlainAt(FileOf(r), p, n) = PlainAt(r, p, n)
  BY DEF PlainAt, FileOf
<1>2. \A p : FirstAt(FileOf(r), p) = FirstAt(r, p)
  BY <1>1, Zenon DEF FirstAt
<1>3. \A p : WidthAt(FileOf(r), p) = WidthAt(r, p)
  BY <1>2, Zenon DEF WidthAt
<1>4. \A p : ValueAt(FileOf(r), p) = ValueAt(r, p)
  BY <1>1, <1>2, Zenon DEF ValueAt
<1> QED BY <1>1, <1>2, <1>3, <1>4

(* A count that has been read, and where the reader stands behind it.      *)
LEMMA CountRead ==
    ASSUME NEW r, Usable(r), ReadCompactSize(r).status = "ok"
    PROVE  LET res == ReadCompactSize(r) IN
           /\ CountIs(FileOf(r), r.mpos, res.data)
           /\ res.reader.mpos = After(FileOf(r), r.mpos)
           /\ res.data \in Nat /\ res.reader.mpos \in Nat
           /\ Usable(res.reader) /\ FileOf(res.reader) = FileOf(r)
<1> DEFINE res == ReadCompactSize(r)
<1>1. /\ r.mpos + 1 <= Len(r.disk)
      /\ res.reader.mpos = r.mpos + WidthAt(r, r.mpos)
      /\ res.data = ValueAt(r, r.mpos)
      /\ res.data \in Nat
  BY ReadCompactSizeSound DEF Usable
<1>2. Chain(r, res)
  BY ChainCompactSize
<1> HIDE DEF res
<1>3. FirstAt(r, r.mpos) \in Byte
  BY <1>1, UsableFields, CompactAtNat
<1>4. Usable(res.reader) /\ res.reader.disk = r.disk /\ res.reader.key = r.key
  BY <1>2 DEF Chain, res
<1>5. res.reader.mpos \in Nat
  BY <1>4, UsableFields
<1>6. FileOf(res.reader) = FileOf(r)
  BY <1>4 DEF FileOf
<1>7. CountIs(FileOf(r), r.mpos, res.data) /\ res.reader.mpos = After(FileOf(r), r.mpos)
  BY <1>1, <1>3, ReadAtFile DEF CountIs, After
<1> QED BY <1>1, <1>4, <1>5, <1>6, <1>7 DEF res

(* A length and the bytes it announces.                                    *)
LEMMA PayloadRead ==
    ASSUME NEW r, Usable(r), NEW length, length = ReadCompactSize(r),
           NEW res, res = Then(length, length.data), res.status = "ok"
    PROVE  LET e == Extent(length.reader.mpos, length.data) IN
           /\ PayloadAt(FileOf(r), e, r.mpos)
           /\ e.from \in Nat /\ e.to \in Nat
           /\ res.reader.mpos = e.to
           /\ Usable(res.reader) /\ FileOf(res.reader) = FileOf(r)
<1>1. length.status = "ok"
  BY DEF Then
<1>2. /\ CountIs(FileOf(r), r.mpos, length.data)
      /\ length.reader.mpos = After(FileOf(r), r.mpos)
      /\ length.data \in Nat /\ length.reader.mpos \in Nat
      /\ Usable(length.reader) /\ FileOf(length.reader) = FileOf(r)
  BY <1>1, CountRead
<1>3. res = ReadData(length.reader, length.data)
  BY <1>1 DEF Then
<1>4. /\ Chain(length.reader, res)
      /\ res.reader.mpos = length.reader.mpos + length.data
  BY <1>2, <1>3, ChainRead
<1>5. Usable(res.reader) /\ FileOf(res.reader) = FileOf(r)
  BY <1>2, <1>4 DEF Chain, FileOf
<1> DEFINE e == Extent(length.reader.mpos, length.data)
<1>6. e.from = length.reader.mpos /\ e.to = length.reader.mpos + length.data
  BY DEF Extent
<1>7. PayloadAt(FileOf(r), e, r.mpos)
  BY <1>2 DEF PayloadAt, CountIs
<1> HIDE DEF e
<1>8. e.from \in Nat /\ e.to \in Nat
  BY <1>2, <1>6
<1> QED BY <1>4, <1>5, <1>6, <1>7, <1>8 DEF e

(* The bytes of fixed length before it.                                    *)
LEMMA FixedRead ==
    ASSUME NEW r, Usable(r), NEW n \in Nat, ReadData(r, n).status = "ok"
    PROVE  LET res == ReadData(r, n) IN
           /\ res.reader.mpos = r.mpos + n /\ res.reader.mpos \in Nat
           /\ Usable(res.reader) /\ FileOf(res.reader) = FileOf(r)
<1>1. /\ Chain(r, ReadData(r, n)) /\ ReadData(r, n).reader.mpos = r.mpos + n
      /\ r.mpos \in Nat
  BY ChainRead, UsableFields
<1> QED BY <1>1 DEF Chain, FileOf

LEMMA HashRead ==
    ASSUME NEW r, Usable(r), ReadArray32(r).status = "ok"
    PROVE  LET res == ReadArray32(r) IN
           /\ res.reader.mpos = r.mpos + 32 /\ res.reader.mpos \in Nat
           /\ Usable(res.reader) /\ FileOf(res.reader) = FileOf(r)
<1>1. Chain(r, ReadData(r, 32))
  BY ChainRead
<1>2. ReadArray32(r) = [ReadData(r, 32) EXCEPT !.data = Reversed(ReadData(r, 32).data)]
  BY DEF ReadArray32
<1>3. ReadArray32(r).reader = ReadData(r, 32).reader /\ ReadData(r, 32).status = "ok"
  BY <1>1, <1>2 DEF Chain, Result
<1> QED BY <1>3, FixedRead
-----------------------------------------------------------------------------
(* Sequences of parts.                                                     *)
LEMMA ChainedAppend ==
    ASSUME NEW S, NEW segs \in Seq(S), NEW seg \in S, NEW p, Chained(segs, p),
           seg.from = EndOf(segs, p)
    PROVE  LET more == Append(segs, seg) IN
           /\ more \in Seq(S) /\ more # <<>> /\ Len(more) = Len(segs) + 1
           /\ Chained(more, p) /\ EndOf(more, p) = seg.to
           /\ more[Len(more)] = seg
           /\ \A k \in 1 .. Len(segs) : more[k] = segs[k]
<1> DEFINE more == Append(segs, seg)
<1>1. /\ more \in Seq(S) /\ more # <<>> /\ Len(more) = Len(segs) + 1 /\ more[Len(more)] = seg
      /\ \A k \in 1 .. Len(segs) : more[k] = segs[k]
  OBVIOUS
<1>2. Tiles(more, p, seg.to)
  BY TilesAppend DEF Chained
<1> HIDE DEF more
<1>3. EndOf(more, p) = seg.to
  BY <1>1 DEF EndOf
<1> QED BY <1>1, <1>2, <1>3 DEF Chained, more

LEMMA ChainedNone ==
    ASSUME NEW p
    PROVE  Chained(<<>>, p) /\ EndOf(<<>>, p) = p
BY DEF Chained, Tiles, EndOf

-----------------------------------------------------------------------------
(* Which function goes on with a transaction, and what it finds.           *)
LEMMA StacksNext ==
    ASSUME NEW f, NEW t \in TxType, NEW p, StacksRead(f, t), p = StacksEnd(f, t),
           Filled(t, Len(t.witnesses)),
           Len(t.witnesses) <= IF t.segwit THEN Len(t.vin) ELSE 0
    PROVE  TxLayout(f, t, p, NextWitness(t)) /\ NextWitness(t) \in TxBody
<1>1. /\ Len(t.witnesses) \in Nat /\ Len(t.vin) \in Nat /\ t.segwit \in BOOLEAN
  BY DEF TxType
<1>2. CASE t.segwit /\ Len(t.witnesses) < Len(t.vin)
  <2>1. NextWitness(t) = "witCount"
    BY <1>2 DEF NextWitness
  <2> QED BY <1>2, <2>1 DEF TxLayout, TxBody
<1>3. CASE ~(t.segwit /\ Len(t.witnesses) < Len(t.vin))
  <2>1. NextWitness(t) = "lockTime"
    BY <1>3 DEF NextWitness
  <2>2. Len(t.witnesses) = IF t.segwit THEN Len(t.vin) ELSE 0
    BY <1>1, <1>3
  <2>3. AllRead(f, t)
    BY <2>2 DEF AllRead
  <2> QED BY <2>1, <2>3 DEF TxLayout, TxBody
<1> QED BY <1>2, <1>3

LEMMA ItemsNext ==
    ASSUME NEW f, NEW t \in TxType, NEW p, StacksRead(f, t), p = StacksEnd(f, t), t.segwit,
           NEW last, last = Len(t.witnesses), Filled(t, last - 1), last \in 1 .. Len(t.vin),
           Len(t.witnesses[last].items) <= t.witnesses[last].count
    PROVE  TxLayout(f, t, p, NextItem(t)) /\ NextItem(t) \in TxBody
<1> DEFINE w == t.witnesses[last]
<1>1. /\ last \in Nat /\ last \in 1 .. Len(t.witnesses) /\ t.witnesses \in Seq(WitnessType)
  BY DEF TxType
<1>2. w \in WitnessType
  BY <1>1, ElementOfSeq
<1>3. Len(w.items) \in Nat /\ w.count \in Nat
  BY <1>2 DEF WitnessType
<1>4. CASE Len(w.items) < w.count
  <2>1. NextItem(t) = "witItem"
    BY <1>4 DEF NextItem
  <2> QED BY <1>4, <2>1 DEF TxLayout, TxBody
<1>5. CASE ~(Len(w.items) < w.count)
  <2>1. NextItem(t) = NextWitness(t)
    BY <1>5 DEF NextItem
  <2>2. Len(w.items) = w.count
    BY <1>3, <1>5
  <2>3. Filled(t, last)
    <3> SUFFICES ASSUME NEW k \in 1 .. last
                 PROVE  Len(t.witnesses[k].items) = t.witnesses[k].count
      BY DEF Filled
    <3>1. k \in 1 .. last - 1 \/ k = last
      BY <1>1
    <3> QED BY <2>2, <3>1 DEF Filled
  <2> QED BY <2>1, <2>3, StacksNext
<1> QED BY <1>4, <1>5

LEMMA OutputsNext ==
    ASSUME NEW f, NEW t \in TxType, NEW p, OutputsRead(f, t), p = OutputsEnd(f, t),
           t.witnesses = <<>>, Len(t.vout) <= t.outCount
    PROVE  TxLayout(f, t, p, NextOutput(t)) /\ NextOutput(t) \in TxBody
<1>1. /\ Len(t.vout) \in Nat /\ t.outCount \in Nat /\ Len(t.vin) \in Nat
  BY DEF TxType
<1>2. CASE Len(t.vout) < t.outCount
  <2>1. NextOutput(t) = "txOut"
    BY <1>2 DEF NextOutput
  <2> QED BY <1>2, <2>1 DEF TxLayout, TxBody
<1>3. CASE ~(Len(t.vout) < t.outCount)
  <2>1. NextOutput(t) = NextWitness(t)
    BY <1>3 DEF NextOutput
  <2>2. Len(t.vout) = t.outCount
    BY <1>1, <1>3
  <2>3. Len(t.witnesses) = 0
    OBVIOUS
  <2>4. Chained(t.witnesses, OutputsEnd(f, t)) /\ StacksEnd(f, t) = OutputsEnd(f, t)
    BY ChainedNone DEF StacksEnd
  <2>5. StacksRead(f, t)
    BY <2>2, <2>3, <2>4 DEF StacksRead
  <2>6. Filled(t, Len(t.witnesses))
    BY <2>3 DEF Filled
  <2> QED BY <1>1, <2>1, <2>3, <2>4, <2>5, <2>6, StacksNext
<1> QED BY <1>2, <1>3

LEMMA InputsNext ==
    ASSUME NEW f, NEW t \in TxType, NEW p, InputsRead(f, t), p = InputsEnd(f, t),
           t.vout = <<>>, t.witnesses = <<>>, Len(t.vin) <= t.inCount
    PROVE  TxLayout(f, t, p, NextInput(t)) /\ NextInput(t) \in TxBody
<1>1. Len(t.vin) \in Nat /\ t.inCount \in Nat
  BY DEF TxType
<1>2. CASE Len(t.vin) < t.inCount
  <2>1. NextInput(t) = "txIn"
    BY <1>2 DEF NextInput
  <2> QED BY <1>2, <2>1 DEF TxLayout, TxBody
<1>3. CASE ~(Len(t.vin) < t.inCount)
  <2>1. NextInput(t) = "outCount" /\ Len(t.vin) = t.inCount
    BY <1>1, <1>3 DEF NextInput
  <2> QED BY <2>1 DEF TxLayout, TxBody
<1> QED BY <1>2, <1>3
-----------------------------------------------------------------------------
(* Steps of one kind.  An error exit leaves the finished blocks.           *)
LEMMA StoppedKeeps ==
    ASSUME Layout, pc' = "end", blocks' = blocks, FileOf(reader') = FileOf(reader)
    PROVE  Layout'
<1>1. File' = File
  BY DEF File
<1>2. \A i \in 1 .. Len(blocks') : BlockDone(File', blocks'[i])
  BY <1>1 DEF Layout
<1>3. BlockLayout(File', block', tx', reader'.mpos, pc') /\ TxLayout(File', tx', reader'.mpos, pc')
  BY DEF BlockLayout, TxLayout, TxBody
<1> QED BY <1>2, <1>3 DEF Layout

LEMMA StopLayout ==
    ASSUME Layout, NEW res, Chain(reader, res), Stop(res) \/ StopCount(res)
    PROVE  Layout'
<1>1. pc' = "end" /\ blocks' = blocks /\ reader' = res.reader
  BY DEF Stop, StopCount, Leave
<1>2. FileOf(reader') = FileOf(reader)
  BY <1>1 DEF Chain, FileOf
<1> QED BY <1>1, <1>2, StoppedKeeps

(* A step inside a transaction says something new of the transaction only. *)
LEMMA TxStepLayout ==
    ASSUME Layout, pc \in TxBody, pc' \in TxBody, block' = block, blocks' = blocks,
           tx'.from = tx.from, FileOf(reader') = FileOf(reader),
           TxLayout(File, tx', reader'.mpos, pc')
    PROVE  Layout'
<1>1. File' = File
  BY DEF File
<1>2. \A i \in 1 .. Len(blocks') : BlockDone(File', blocks'[i])
  BY <1>1 DEF Layout
<1>3. TxsRead(File, block) /\ Len(block.txs) < block.txCount /\ tx.from = TxsEnd(File, block)
  BY DEF Layout, BlockLayout
<1>4. BlockLayout(File', block', tx', reader'.mpos, pc')
  BY <1>1, <1>3 DEF BlockLayout, TxBody
<1> QED BY <1>1, <1>2, <1>4 DEF Layout
-----------------------------------------------------------------------------
(* One lemma for each action.                                              *)
LEMMA ParseTransactionFlagLayout ==
    ASSUME IInv, IInv', Layout, ParseTransactionFlag
    PROVE  Layout'
<1> DEFINE two == ReadData(reader, 2)
           res == IF FlagFound(two.data) THEN two ELSE ThenSetReadPosition(two, reader.mpos)
<1>1. pc = "flag"
  BY DEF ParseTransactionFlag
<1>2. Usable(reader) /\ reader.mpos \in Nat /\ tx \in TxType
  BY <1>1, Running
<1>3. /\ Chain(reader, two)
      /\ two.status = "ok" => two.reader.mpos = reader.mpos + 2
                              /\ two.data = PlainAt(reader, reader.mpos, 2)
  BY <1>2, ChainRead
<1> HIDE DEF two
<1>4. /\ Chain(reader, res)
      /\ res.status = "ok" =>
            /\ two.status = "ok"
            /\ res.reader.mpos = IF FlagFound(two.data) THEN reader.mpos + 2 ELSE reader.mpos
  BY <1>2, <1>3, ChainRewind
<1>5. \/ /\ res.status = "ok"
         /\ tx' = [tx EXCEPT !.segwit = FlagFound(two.data)]
         /\ Goto(res, "inCount")
         /\ UNCHANGED <<blocks, block>>
      \/ Stop(res)
  BY DEF ParseTransactionFlag, two
<1> HIDE DEF res
<1>6. CASE /\ res.status = "ok"
           /\ tx' = [tx EXCEPT !.segwit = FlagFound(two.data)]
           /\ Goto(res, "inCount")
           /\ UNCHANGED <<blocks, block>>
  <2>1. /\ tx'.from = tx.from /\ tx'.vin = tx.vin /\ tx'.vout = tx.vout
        /\ tx'.witnesses = tx.witnesses /\ tx'.segwit = FlagFound(two.data)
    BY <1>2, <1>6 DEF TxType
  <2>2. /\ reader.mpos = tx.from + 4 /\ tx.vin = <<>> /\ tx.vout = <<>> /\ tx.witnesses = <<>>
    BY <1>1 DEF Layout, TxLayout
  <2>3. pc' = "inCount" /\ reader' = res.reader /\ FileOf(reader') = FileOf(reader)
    BY <1>4, <1>6 DEF Goto, Chain, FileOf
  <2>4. two.data = PlainAt(File, tx.from + 4, 2)
    BY <1>3, <1>4, <1>6, <2>2, ReadAtFile DEF File
  <2>5. FlagRead(File, tx')
    BY <2>1, <2>4 DEF FlagRead, FlagFound
  <2>6. reader'.mpos = InputsFrom(tx')
    <3>1. tx.from \in Nat
      BY <1>2 DEF TxType
    <3> QED BY <1>4, <1>6, <2>1, <2>2, <2>3, <3>1 DEF InputsFrom
  <2>7. TxLayout(File, tx', reader'.mpos, pc')
    BY <2>1, <2>2, <2>3, <2>5, <2>6 DEF TxLayout
  <2> QED BY <1>1, <1>6, <2>1, <2>3, <2>7, TxStepLayout DEF TxBody
<1>7. CASE Stop(res)
  BY <1>4, <1>7, StopLayout
<1> QED BY <1>5, <1>6, <1>7

LEMMA ParseInCounterLayout ==
    ASSUME IInv, IInv', Layout, ParseInCounter
    PROVE  Layout'
<1> DEFINE res == ReadCompactSize(reader)
<1>1. pc = "inCount"
  BY DEF ParseInCounter
<1>2. Usable(reader) /\ reader.mpos \in Nat /\ tx \in TxType /\ tx' \in TxType
  BY <1>1, Running DEF IInv, TypeOK
<1>3. Chain(reader, res)
  BY <1>2, ChainCompactSize
<1>4. res.status = "ok" =>
        /\ CountIs(File, reader.mpos, res.data)
        /\ res.reader.mpos = After(File, reader.mpos)
        /\ res.data \in Nat /\ FileOf(res.reader) = File
  BY <1>2, CountRead DEF File
<1>5. \/ /\ Counted(res)
         /\ tx' = [tx EXCEPT !.inCount = res.data]
         /\ Goto(res, NextInput(tx'))
         /\ UNCHANGED <<blocks, block>>
      \/ StopCount(res)
  BY DEF ParseInCounter
<1> HIDE DEF res
<1>6. CASE /\ Counted(res)
           /\ tx' = [tx EXCEPT !.inCount = res.data]
           /\ Goto(res, NextInput(tx'))
           /\ UNCHANGED <<blocks, block>>
  <2>1. /\ tx'.from = tx.from /\ tx'.vin = tx.vin /\ tx'.vout = tx.vout
        /\ tx'.witnesses = tx.witnesses /\ tx'.segwit = tx.segwit /\ tx'.inCount = res.data
    BY <1>2, <1>6 DEF TxType
  <2>2. /\ FlagRead(File, tx) /\ reader.mpos = InputsFrom(tx)
        /\ tx.vin = <<>> /\ tx.vout = <<>> /\ tx.witnesses = <<>>
    BY <1>1 DEF Layout, TxLayout
  <2>3. pc' = NextInput(tx') /\ reader' = res.reader /\ res.status = "ok"
    BY <1>6 DEF Goto, Counted
  <2>4. InputsFrom(tx') = InputsFrom(tx) /\ FlagRead(File, tx')
    BY <2>1, <2>2 DEF InputsFrom, FlagRead
  <2>5. InputsRead(File, tx') /\ reader'.mpos = InputsEnd(File, tx')
    BY <1>4, <2>1, <2>2, <2>3, <2>4, ChainedNone DEF InputsRead, InputsEnd
  <2>6. Len(tx'.vin) <= tx'.inCount
    BY <1>4, <2>1, <2>2, <2>3
  <2>7. TxLayout(File, tx', reader'.mpos, pc') /\ pc' \in TxBody
    BY <1>2, <2>1, <2>2, <2>3, <2>5, <2>6, InputsNext
  <2> QED BY <1>1, <1>4, <1>6, <2>1, <2>3, <2>7, TxStepLayout DEF TxBody, File
<1>7. CASE StopCount(res)
  BY <1>3, <1>7, StopLayout
<1> QED BY <1>5, <1>6, <1>7

(* What parseTxIn and parseTxOut read.                                     *)
LEMMA InputRead ==
    ASSUME NEW r, Usable(r),
           NEW index, index = Then(ReadArray32(r), 4),
           NEW length, length = ThenCompactSize(index),
           NEW res, res = Then(Then(length, length.data), 4), res.status = "ok"
    PROVE  LET in == [from |-> r.mpos, to |-> res.reader.mpos,
                      script |-> Extent(length.reader.mpos, length.data)] IN
           /\ in \in TxInType /\ InputExact(FileOf(r), in) /\ FileOf(res.reader) = FileOf(r)
<1> DEFINE hash   == ReadArray32(r)
           script == Then(length, length.data)
           e      == Extent(length.reader.mpos, length.data)
<1>1. script.status = "ok" /\ res = ReadData(script.reader, 4)
  BY DEF Then
<1>2. length.status = "ok"
  BY <1>1 DEF Then
<1>3. index.status = "ok" /\ length = ReadCompactSize(index.reader)
  BY <1>2 DEF ThenCompactSize
<1>4. hash.status = "ok" /\ index = ReadData(hash.reader, 4)
  BY <1>3 DEF Then
<1>5. /\ hash.reader.mpos = r.mpos + 32 /\ hash.reader.mpos \in Nat
      /\ Usable(hash.reader) /\ FileOf(hash.reader) = FileOf(r)
  BY <1>4, HashRead
<1>6. /\ index.reader.mpos = hash.reader.mpos + 4
      /\ Usable(index.reader) /\ FileOf(index.reader) = FileOf(hash.reader)
  BY <1>3, <1>4, <1>5, FixedRead
<1> HIDE DEF hash
<1>7. /\ PayloadAt(FileOf(index.reader), e, index.reader.mpos)
      /\ e.from \in Nat /\ e.to \in Nat
      /\ script.reader.mpos = e.to
      /\ Usable(script.reader) /\ FileOf(script.reader) = FileOf(index.reader)
  BY <1>1, <1>3, <1>6, PayloadRead
<1> HIDE DEF script
<1>8. /\ res.reader.mpos = script.reader.mpos + 4 /\ res.reader.mpos \in Nat
      /\ FileOf(res.reader) = FileOf(script.reader)
  BY <1>1, <1>7, FixedRead
<1> DEFINE in == [from |-> r.mpos, to |-> res.reader.mpos, script |-> e]
<1>9. r.mpos \in Nat
  BY UsableFields
<1>10. index.reader.mpos = r.mpos + 36
  BY <1>5, <1>6, <1>9
<1>11. e \in ExtentType
  BY <1>7 DEF Extent, ExtentType
<1> HIDE DEF e
<1>12. in \in TxInType
  BY <1>8, <1>9, <1>11 DEF TxInType
<1>13. InputExact(FileOf(r), in)
  BY <1>5, <1>6, <1>7, <1>8, <1>10 DEF InputExact
<1> QED BY <1>5, <1>6, <1>7, <1>8, <1>12, <1>13 DEF e

LEMMA OutputRead ==
    ASSUME NEW r, Usable(r),
           NEW value, value = ReadData(r, 8),
           NEW length, length = ThenCompactSize(value),
           NEW res, res = Then(length, length.data), res.status = "ok"
    PROVE  LET out == [from |-> r.mpos, to |-> res.reader.mpos,
                       script |-> Extent(length.reader.mpos, length.data)] IN
           /\ out \in TxInType /\ OutputExact(FileOf(r), out) /\ FileOf(res.reader) = FileOf(r)
<1> DEFINE e == Extent(length.reader.mpos, length.data)
<1>1. length.status = "ok"
  BY DEF Then
<1>2. value.status = "ok" /\ length = ReadCompactSize(value.reader)
  BY <1>1 DEF ThenCompactSize
<1>3. /\ value.reader.mpos = r.mpos + 8
      /\ Usable(value.reader) /\ FileOf(value.reader) = FileOf(r)
  BY <1>2, FixedRead
<1>4. /\ PayloadAt(FileOf(value.reader), e, value.reader.mpos)
      /\ e.from \in Nat /\ e.to \in Nat
      /\ res.reader.mpos = e.to /\ FileOf(res.reader) = FileOf(value.reader)
  BY <1>2, <1>3, PayloadRead
<1> DEFINE out == [from |-> r.mpos, to |-> res.reader.mpos, script |-> e]
<1>5. r.mpos \in Nat
  BY UsableFields
<1>6. e \in ExtentType
  BY <1>4 DEF Extent, ExtentType
<1> HIDE DEF e
<1>7. out \in TxInType
  BY <1>4, <1>5, <1>6 DEF TxInType
<1>8. OutputExact(FileOf(r), out)
  BY <1>3, <1>4 DEF OutputExact
<1> QED BY <1>3, <1>4, <1>7, <1>8 DEF e

LEMMA ParseTxInLayout ==
    ASSUME IInv, IInv', Layout, ParseTxIn
    PROVE  Layout'
<1>1. pc = "txIn"
  BY DEF ParseTxIn
<1>2. Usable(reader) /\ reader.mpos \in Nat /\ tx \in TxType /\ tx' \in TxType
  BY <1>1, Running DEF IInv, TypeOK
<1> DEFINE index  == Then(ReadArray32(reader), 4)
           length == ThenCompactSize(index)
           res    == Then(Then(length, length.data), 4)
           in     == [from |-> reader.mpos, to |-> res.reader.mpos,
                      script |-> Extent(length.reader.mpos, length.data)]
           vin    == Append(tx.vin, in)
<1>3. Chain(reader, res)
  <2>1. Chain(reader, index)
    BY <1>2, ChainReadArray32, ChainThen
  <2>2. Chain(reader, length) /\ (length.status = "ok" => length.data \in Nat)
    <3> HIDE DEF index
    <3> QED BY <1>2, <2>1, ChainThenCompactSize
  <2>3. Chain(reader, Then(length, length.data))
    <3> HIDE DEF length
    <3> QED BY <1>2, <2>2, ChainThen
  <2> HIDE DEF length
  <2> QED BY <1>2, <2>3, ChainThen
<1>4. res.status = "ok" =>
        in \in TxInType /\ InputExact(File, in) /\ FileOf(res.reader) = File
  BY <1>2, InputRead DEF File
<1>5. \/ /\ res.status = "ok"
         /\ tx' = [tx EXCEPT !.vin = vin]
         /\ Goto(res, NextInput(tx'))
         /\ UNCHANGED <<blocks, block>>
      \/ Stop(res)
  BY DEF ParseTxIn
<1>6. in.from = reader.mpos /\ in.to = res.reader.mpos
  OBVIOUS
<1> HIDE DEF index, length, res, in
<1>7. CASE /\ res.status = "ok"
           /\ tx' = [tx EXCEPT !.vin = vin]
           /\ Goto(res, NextInput(tx'))
           /\ UNCHANGED <<blocks, block>>
  <2> DEFINE p == After(File, InputsFrom(tx))
  <2>1. /\ tx'.from = tx.from /\ tx'.vin = vin /\ tx'.vout = tx.vout
        /\ tx'.witnesses = tx.witnesses /\ tx'.segwit = tx.segwit /\ tx'.inCount = tx.inCount
    <3> HIDE DEF vin
    <3> QED BY <1>2, <1>7 DEF TxType
  <2>2. /\ InputsRead(File, tx) /\ reader.mpos = InputsEnd(File, tx)
        /\ tx.vout = <<>> /\ tx.witnesses = <<>> /\ Len(tx.vin) < tx.inCount
    BY <1>1 DEF Layout, TxLayout
  <2>3. pc' = NextInput(tx') /\ reader' = res.reader
    BY <1>7 DEF Goto
  <2>4. tx.vin \in Seq(TxInType) /\ Len(tx.vin) \in Nat /\ tx.inCount \in Nat
    BY <1>2 DEF TxType
  <2>5. /\ Len(vin) = Len(tx.vin) + 1 /\ Chained(vin, p) /\ EndOf(vin, p) = in.to
        /\ vin[Len(vin)] = in /\ \A k \in 1 .. Len(tx.vin) : vin[k] = tx.vin[k]
    <3>1. Chained(tx.vin, p) /\ in.from = EndOf(tx.vin, p)
      BY <1>6, <2>2 DEF InputsRead, InputsEnd
    <3> HIDE DEF p
    <3> QED BY <1>4, <1>7, <2>4, <3>1, ChainedAppend
  <2> HIDE DEF vin
  <2>6. InputsFrom(tx') = InputsFrom(tx) /\ FlagRead(File, tx')
    BY <2>1, <2>2 DEF InputsFrom, FlagRead, InputsRead
  <2>7. \A k \in 1 .. Len(vin) : InputExact(File, vin[k])
    <3> SUFFICES ASSUME NEW k \in 1 .. Len(vin) PROVE InputExact(File, vin[k])
      OBVIOUS
    <3>1. k \in 1 .. Len(tx.vin) \/ k = Len(vin)
      BY <2>4, <2>5
    <3> QED BY <1>4, <1>7, <2>2, <2>5, <3>1 DEF InputsRead
  <2>8. InputsRead(File, tx') /\ reader'.mpos = InputsEnd(File, tx')
    BY <1>6, <2>1, <2>2, <2>3, <2>5, <2>6, <2>7 DEF InputsRead, InputsEnd
  <2>9. Len(tx'.vin) <= tx'.inCount
    BY <2>1, <2>2, <2>4, <2>5
  <2>10. TxLayout(File, tx', reader'.mpos, pc') /\ pc' \in TxBody
    BY <1>2, <2>1, <2>2, <2>3, <2>8, <2>9, InputsNext
  <2> QED BY <1>1, <1>4, <1>7, <2>1, <2>3, <2>10, TxStepLayout DEF TxBody, File
<1>8. CASE Stop(res)
  BY <1>3, <1>8, StopLayout
<1> QED BY <1>5, <1>7, <1>8

LEMMA ParseOutCounterLayout ==
    ASSUME IInv, IInv', Layout, ParseOutCounter
    PROVE  Layout'
<1> DEFINE res == ReadCompactSize(reader)
<1>1. pc = "outCount"
  BY DEF ParseOutCounter
<1>2. Usable(reader) /\ reader.mpos \in Nat /\ tx \in TxType /\ tx' \in TxType
  BY <1>1, Running DEF IInv, TypeOK
<1>3. Chain(reader, res)
  BY <1>2, ChainCompactSize
<1>4. res.status = "ok" =>
        /\ CountIs(File, reader.mpos, res.data)
        /\ res.reader.mpos = After(File, reader.mpos)
        /\ res.data \in Nat /\ FileOf(res.reader) = File
  BY <1>2, CountRead DEF File
<1>5. \/ /\ Counted(res)
         /\ tx' = [tx EXCEPT !.outCount = res.data]
         /\ Goto(res, NextOutput(tx'))
         /\ UNCHANGED <<blocks, block>>
      \/ StopCount(res)
  BY DEF ParseOutCounter
<1> HIDE DEF res
<1>6. CASE /\ Counted(res)
           /\ tx' = [tx EXCEPT !.outCount = res.data]
           /\ Goto(res, NextOutput(tx'))
           /\ UNCHANGED <<blocks, block>>
  <2>1. /\ tx'.from = tx.from /\ tx'.vin = tx.vin /\ tx'.vout = tx.vout
        /\ tx'.witnesses = tx.witnesses /\ tx'.segwit = tx.segwit
        /\ tx'.inCount = tx.inCount /\ tx'.outCount = res.data
    BY <1>2, <1>6 DEF TxType
  <2>2. /\ InputsRead(File, tx) /\ reader.mpos = InputsEnd(File, tx)
        /\ tx.vout = <<>> /\ tx.witnesses = <<>> /\ Len(tx.vin) = tx.inCount
    BY <1>1 DEF Layout, TxLayout
  <2>3. pc' = NextOutput(tx') /\ reader' = res.reader /\ res.status = "ok"
    BY <1>6 DEF Goto, Counted
  <2>4. InputsRead(File, tx') /\ InputsEnd(File, tx') = InputsEnd(File, tx)
    BY <2>1, <2>2 DEF InputsRead, InputsEnd, InputsFrom, FlagRead
  <2>5. OutputsRead(File, tx') /\ reader'.mpos = OutputsEnd(File, tx')
    <3>1. Len(tx'.vout) = 0
      BY <2>1, <2>2
    <3> QED BY <1>4, <2>1, <2>2, <2>3, <2>4, <3>1, ChainedNone DEF OutputsRead, OutputsEnd
  <2>6. Len(tx'.vout) <= tx'.outCount
    BY <1>4, <2>1, <2>2, <2>3
  <2>7. TxLayout(File, tx', reader'.mpos, pc') /\ pc' \in TxBody
    BY <1>2, <2>1, <2>2, <2>3, <2>5, <2>6, OutputsNext
  <2> QED BY <1>1, <1>4, <1>6, <2>1, <2>3, <2>7, TxStepLayout DEF TxBody, File
<1>7. CASE StopCount(res)
  BY <1>3, <1>7, StopLayout
<1> QED BY <1>5, <1>6, <1>7

LEMMA ParseTxOutLayout ==
    ASSUME IInv, IInv', Layout, ParseTxOut
    PROVE  Layout'
<1>1. pc = "txOut"
  BY DEF ParseTxOut
<1>2. Usable(reader) /\ reader.mpos \in Nat /\ tx \in TxType /\ tx' \in TxType
  BY <1>1, Running DEF IInv, TypeOK
<1> DEFINE value  == ReadData(reader, 8)
           length == ThenCompactSize(value)
           res    == Then(length, length.data)
           out    == [from |-> reader.mpos, to |-> res.reader.mpos,
                      script |-> Extent(length.reader.mpos, length.data)]
           vout   == Append(tx.vout, out)
<1>3. Chain(reader, res)
  <2>1. Chain(reader, value)
    BY <1>2, ChainRead
  <2>2. Chain(reader, length) /\ (length.status = "ok" => length.data \in Nat)
    <3> HIDE DEF value
    <3> QED BY <1>2, <2>1, ChainThenCompactSize
  <2> HIDE DEF length
  <2> QED BY <1>2, <2>2, ChainThen
<1>4. res.status = "ok" =>
        out \in TxInType /\ OutputExact(File, out) /\ FileOf(res.reader) = File
  BY <1>2, OutputRead DEF File
<1>5. \/ /\ res.status = "ok"
         /\ tx' = [tx EXCEPT !.vout = vout]
         /\ Goto(res, NextOutput(tx'))
         /\ UNCHANGED <<blocks, block>>
      \/ Stop(res)
  BY DEF ParseTxOut
<1>6. out.from = reader.mpos /\ out.to = res.reader.mpos
  OBVIOUS
<1> HIDE DEF value, length, res, out
<1>7. CASE /\ res.status = "ok"
           /\ tx' = [tx EXCEPT !.vout = vout]
           /\ Goto(res, NextOutput(tx'))
           /\ UNCHANGED <<blocks, block>>
  <2> DEFINE p == After(File, InputsEnd(File, tx))
  <2>1. /\ tx'.from = tx.from /\ tx'.vin = tx.vin /\ tx'.vout = vout
        /\ tx'.witnesses = tx.witnesses /\ tx'.segwit = tx.segwit
        /\ tx'.inCount = tx.inCount /\ tx'.outCount = tx.outCount
    <3> HIDE DEF vout
    <3> QED BY <1>2, <1>7 DEF TxType
  <2>2. /\ OutputsRead(File, tx) /\ reader.mpos = OutputsEnd(File, tx)
        /\ tx.witnesses = <<>> /\ Len(tx.vout) < tx.outCount
    BY <1>1 DEF Layout, TxLayout
  <2>3. pc' = NextOutput(tx') /\ reader' = res.reader
    BY <1>7 DEF Goto
  <2>4. tx.vout \in Seq(TxInType) /\ Len(tx.vout) \in Nat /\ tx.outCount \in Nat
    BY <1>2 DEF TxType
  <2>5. /\ Len(vout) = Len(tx.vout) + 1 /\ Chained(vout, p) /\ EndOf(vout, p) = out.to
        /\ vout[Len(vout)] = out /\ \A k \in 1 .. Len(tx.vout) : vout[k] = tx.vout[k]
    <3>1. Chained(tx.vout, p) /\ out.from = EndOf(tx.vout, p)
      BY <1>6, <2>2 DEF OutputsRead, OutputsEnd
    <3> HIDE DEF p
    <3> QED BY <1>4, <1>7, <2>4, <3>1, ChainedAppend
  <2> HIDE DEF vout
  <2>6. InputsRead(File, tx') /\ InputsEnd(File, tx') = InputsEnd(File, tx)
    BY <2>1, <2>2 DEF OutputsRead, InputsRead, InputsEnd, InputsFrom, FlagRead
  <2>7. \A k \in 1 .. Len(vout) : OutputExact(File, vout[k])
    <3> SUFFICES ASSUME NEW k \in 1 .. Len(vout) PROVE OutputExact(File, vout[k])
      OBVIOUS
    <3>1. k \in 1 .. Len(tx.vout) \/ k = Len(vout)
      BY <2>4, <2>5
    <3> QED BY <1>4, <1>7, <2>2, <2>5, <3>1 DEF OutputsRead
  <2>8. OutputsRead(File, tx') /\ reader'.mpos = OutputsEnd(File, tx')
    BY <1>6, <2>1, <2>2, <2>3, <2>5, <2>6, <2>7 DEF OutputsRead, OutputsEnd
  <2>9. Len(tx'.vout) <= tx'.outCount
    BY <2>1, <2>2, <2>4, <2>5
  <2>10. TxLayout(File, tx', reader'.mpos, pc') /\ pc' \in TxBody
    BY <1>2, <2>1, <2>2, <2>3, <2>8, <2>9, OutputsNext
  <2> QED BY <1>1, <1>4, <1>7, <2>1, <2>3, <2>10, TxStepLayout DEF TxBody, File
<1>8. CASE Stop(res)
  BY <1>3, <1>8, StopLayout
<1> QED BY <1>5, <1>7, <1>8

LEMMA ParseWitnessLayout ==
    ASSUME IInv, IInv', Layout, ParseWitness
    PROVE  Layout'
<1> DEFINE res    == ReadCompactSize(reader)
           w      == [from |-> reader.mpos, to |-> res.reader.mpos, count |-> res.data,
                      items |-> <<>>]
           stacks == Append(tx.witnesses, w)
<1>1. pc = "witCount"
  BY DEF ParseWitness
<1>2. Usable(reader) /\ reader.mpos \in Nat /\ tx \in TxType /\ tx' \in TxType
  BY <1>1, Running DEF IInv, TypeOK
<1>3. Chain(reader, res)
  BY <1>2, ChainCompactSize
<1>4. res.status = "ok" =>
        /\ CountIs(File, reader.mpos, res.data)
        /\ res.reader.mpos = After(File, reader.mpos) /\ res.reader.mpos \in Nat
        /\ res.data \in Nat /\ FileOf(res.reader) = File
  BY <1>2, CountRead DEF File
<1>5. \/ /\ Counted(res)
         /\ tx' = [tx EXCEPT !.witnesses = stacks]
         /\ Goto(res, NextItem(tx'))
         /\ UNCHANGED <<blocks, block>>
      \/ StopCount(res)
  BY DEF ParseWitness
<1>6. w.from = reader.mpos /\ w.to = res.reader.mpos /\ w.count = res.data /\ w.items = <<>>
  OBVIOUS
<1> HIDE DEF res
<1>7. CASE /\ Counted(res)
           /\ tx' = [tx EXCEPT !.witnesses = stacks]
           /\ Goto(res, NextItem(tx'))
           /\ UNCHANGED <<blocks, block>>
  <2> DEFINE p == OutputsEnd(File, tx)
  <2>1. pc' = NextItem(tx') /\ reader' = res.reader /\ res.status = "ok"
    BY <1>7 DEF Goto, Counted
  <2>2. w \in WitnessType
    BY <1>2, <1>4, <2>1 DEF WitnessType
  <2> HIDE DEF w
  <2>3. /\ tx'.from = tx.from /\ tx'.vin = tx.vin /\ tx'.vout = tx.vout
        /\ tx'.witnesses = stacks /\ tx'.segwit = tx.segwit
        /\ tx'.inCount = tx.inCount /\ tx'.outCount = tx.outCount
    <3> HIDE DEF stacks
    <3> QED BY <1>2, <1>7 DEF TxType
  <2>4. /\ StacksRead(File, tx) /\ reader.mpos = StacksEnd(File, tx) /\ tx.segwit
        /\ Filled(tx, Len(tx.witnesses)) /\ Len(tx.witnesses) < Len(tx.vin)
    BY <1>1 DEF Layout, TxLayout
  <2>5. tx.witnesses \in Seq(WitnessType) /\ Len(tx.witnesses) \in Nat /\ Len(tx.vin) \in Nat
    BY <1>2 DEF TxType
  <2>6. /\ Len(stacks) = Len(tx.witnesses) + 1 /\ Chained(stacks, p) /\ EndOf(stacks, p) = w.to
        /\ stacks[Len(stacks)] = w /\ \A k \in 1 .. Len(tx.witnesses) : stacks[k] = tx.witnesses[k]
    <3>1. Chained(tx.witnesses, p) /\ w.from = EndOf(tx.witnesses, p)
      BY <1>6, <2>4 DEF StacksRead, StacksEnd, w
    <3> HIDE DEF p
    <3> QED BY <2>2, <2>5, <3>1, ChainedAppend
  <2> HIDE DEF stacks
  <2>7. /\ OutputsRead(File, tx') /\ OutputsEnd(File, tx') = OutputsEnd(File, tx)
        /\ Len(tx'.vout) = tx'.outCount
    BY <2>3, <2>4 DEF StacksRead, OutputsRead, InputsRead, OutputsEnd, InputsEnd, InputsFrom,
                      FlagRead
  <2>8. ItemsExact(File, w)
    <3>1. w.to = EndOf(w.items, After(File, w.from)) /\ Len(w.items) = 0
      BY <1>4, <1>6, <2>1, ChainedNone DEF w
    <3>2. CountIs(File, w.from, w.count)
      BY <1>4, <1>6, <2>1 DEF w
    <3> QED BY <3>1, <3>2 DEF ItemsExact
  <2>9. \A k \in 1 .. Len(stacks) : ItemsExact(File, stacks[k])
    <3> SUFFICES ASSUME NEW k \in 1 .. Len(stacks) PROVE ItemsExact(File, stacks[k])
      OBVIOUS
    <3>1. k \in 1 .. Len(tx.witnesses) \/ k = Len(stacks)
      BY <2>5, <2>6
    <3> QED BY <2>4, <2>6, <2>8, <3>1 DEF StacksRead
  <2>10. StacksRead(File, tx') /\ reader'.mpos = StacksEnd(File, tx')
    BY <1>6, <2>1, <2>3, <2>6, <2>7, <2>9 DEF StacksRead, StacksEnd, w
  <2>11. /\ Filled(tx', Len(stacks) - 1) /\ Len(stacks) \in 1 .. Len(tx'.vin)
         /\ Len(tx'.witnesses[Len(stacks)].items) <= tx'.witnesses[Len(stacks)].count
    <3>1. Len(w.items) = 0 /\ w.count \in Nat
      BY <1>4, <2>1 DEF w
    <3>2. Len(stacks) - 1 = Len(tx.witnesses)
      BY <2>5, <2>6
    <3>3. Filled(tx', Len(stacks) - 1)
      BY <2>3, <2>4, <2>6, <3>2 DEF Filled
    <3> QED BY <2>3, <2>4, <2>5, <2>6, <3>1, <3>3
  <2>12. TxLayout(File, tx', reader'.mpos, pc') /\ pc' \in TxBody
    BY <1>2, <2>1, <2>3, <2>4, <2>10, <2>11, ItemsNext
  <2> QED BY <1>1, <1>4, <1>7, <2>1, <2>3, <2>12, TxStepLayout DEF TxBody, File
<1>8. CASE StopCount(res)
  BY <1>3, <1>8, StopLayout
<1> QED BY <1>5, <1>7, <1>8

(* One more item in the last stack.                                        *)
LEMMA StackGrows ==
    ASSUME NEW f, NEW w \in WitnessType, ItemsExact(f, w),
           NEW item \in ExtentType, PayloadAt(f, item, w.to)
    PROVE  ItemsExact(f, [w EXCEPT !.items = Append(w.items, item), !.to = item.to])
<1> DEFINE items == Append(w.items, item)
           new   == [w EXCEPT !.items = items, !.to = item.to]
<1>1. w.items \in Seq(ExtentType) /\ Len(w.items) \in Nat
  BY DEF WitnessType
<1>2. /\ items \in Seq(ExtentType) /\ items # <<>>
      /\ Len(items) = Len(w.items) + 1 /\ items[Len(items)] = item
      /\ \A n \in 1 .. Len(w.items) : items[n] = w.items[n]
  BY <1>1
<1> HIDE DEF items
<1>3. new.from = w.from /\ new.count = w.count /\ new.items = items /\ new.to = item.to
  BY DEF WitnessType
<1> HIDE DEF new
<1>4. new.to = EndOf(new.items, After(f, new.from))
  BY <1>2, <1>3 DEF EndOf
<1>5. ASSUME NEW n \in 1 .. Len(items)
      PROVE  PayloadAt(f, items[n], ItemsFrom(f, new, n))
  <2>1. CASE n \in 1 .. Len(w.items)
    <3>1. n # 1 => n - 1 \in 1 .. Len(w.items)
      BY <1>1, <2>1
    <3>2. n # 1 => items[n - 1] = w.items[n - 1]
      BY <1>2, <3>1
    <3>3. ItemsFrom(f, new, n) = ItemsFrom(f, w, n)
      BY <1>3, <3>2 DEF ItemsFrom
    <3> QED BY <1>2, <2>1, <3>3 DEF ItemsExact
  <2>2. CASE n = Len(items)
    <3>1. ItemsFrom(f, new, n) = w.to
      <4>1. CASE w.items = <<>>
        <5>1. n = 1
          BY <1>2, <2>2, <4>1
        <5>2. w.to = After(f, w.from)
          BY <4>1, ChainedNone DEF ItemsExact
        <5> QED BY <1>3, <5>1, <5>2 DEF ItemsFrom
      <4>2. CASE w.items # <<>>
        <5>1. n # 1 /\ n - 1 = Len(w.items) /\ Len(w.items) \in 1 .. Len(w.items)
          BY <1>1, <1>2, <2>2, <4>2, EmptySeq
        <5>2. w.to = w.items[Len(w.items)].to
          BY <4>2 DEF ItemsExact, EndOf
        <5> QED BY <1>2, <1>3, <5>1, <5>2 DEF ItemsFrom
      <4> QED BY <4>1, <4>2
    <3> QED BY <1>2, <2>2, <3>1
  <2> QED BY <1>1, <1>2, <2>1, <2>2
<1>6. CountIs(f, new.from, new.count)
  BY <1>3 DEF ItemsExact
<1> QED BY <1>3, <1>4, <1>5, <1>6 DEF ItemsExact, new, items

LEMMA AddItemExact ==
    ASSUME NEW f, NEW p, NEW stacks \in Seq(WitnessType), stacks # <<>>, Chained(stacks, p),
           \A k \in 1 .. Len(stacks) : ItemsExact(f, stacks[k]),
           NEW item \in ExtentType, PayloadAt(f, item, EndOf(stacks, p))
    PROVE  LET more == AddItem(stacks, item, item.to)
               last == Len(stacks) IN
           /\ Len(more) = last /\ more # <<>>
           /\ Chained(more, p) /\ EndOf(more, p) = item.to
           /\ \A k \in 1 .. last : ItemsExact(f, more[k])
           /\ \A k \in 1 .. last - 1 : more[k] = stacks[k]
           /\ Len(more[last].items) = Len(stacks[last].items) + 1
           /\ more[last].count = stacks[last].count
<1> DEFINE last == Len(stacks)
           w    == stacks[last]
           new  == [w EXCEPT !.items = Append(w.items, item), !.to = item.to]
           more == AddItem(stacks, item, item.to)
<1>1. last \in 1 .. last /\ last \in Nat \ {0}
  BY EmptySeq
<1>2. w \in WitnessType /\ item.to \in Nat
  BY <1>1, ElementOfSeq DEF ExtentType
<1>3. EndOf(stacks, p) = w.to
  BY DEF EndOf
<1>4. ItemsExact(f, new)
  BY <1>1, <1>2, <1>3, StackGrows
<1>5. /\ new.from = w.from /\ new.to = item.to /\ new.count = w.count
      /\ Len(new.items) = Len(w.items) + 1
  BY <1>2 DEF WitnessType
<1>6. more = [stacks EXCEPT ![last] = new]
  BY DEF AddItem
<1>7. more \in Seq(WitnessType) /\ more # <<>>
  BY <1>2, AddItemKeeps
<1> HIDE DEF new, w, more
<1>8. /\ Len(more) = last
      /\ \A k \in 1 .. last : more[k] = IF k = last THEN new ELSE stacks[k]
  BY <1>1, <1>6
<1> HIDE DEF last
<1>9. EndOf(more, p) = item.to
  BY <1>1, <1>5, <1>7, <1>8 DEF EndOf
<1>10. \A k \in 1 .. last : more[k].from = stacks[k].from
  BY <1>5, <1>8 DEF w
<1>11. \A k \in 1 .. last - 1 : more[k] = stacks[k]
  BY <1>1, <1>8
<1>12. Tiles(more, p, item.to)
  <2>1. ASSUME NEW i \in 1 .. last
        PROVE  more[i].from = IF i = 1 THEN p ELSE more[i - 1].to
    <3>1. stacks[i].from = IF i = 1 THEN p ELSE stacks[i - 1].to
      BY DEF Chained, Tiles, last
    <3>2. i # 1 => i - 1 \in 1 .. last - 1
      BY <1>1
    <3>3. i # 1 => more[i - 1] = stacks[i - 1]
      BY <1>11, <3>2
    <3> QED BY <1>10, <3>1, <3>3
  <2> QED BY <1>7, <1>8, <1>9, <2>1 DEF Tiles, EndOf
<1>13. Chained(more, p)
  BY <1>9, <1>12 DEF Chained
<1>14. \A k \in 1 .. last : ItemsExact(f, more[k])
  BY <1>4, <1>8 DEF last
<1> QED BY <1>1, <1>5, <1>7, <1>8, <1>9, <1>11, <1>13, <1>14 DEF last, w, more

LEMMA ParseWitnessItemLayout ==
    ASSUME IInv, IInv', Layout, ParseWitnessItem
    PROVE  Layout'
<1>1. pc = "witItem"
  BY DEF ParseWitnessItem
<1>2. Usable(reader) /\ reader.mpos \in Nat /\ tx \in TxType /\ tx' \in TxType
  BY <1>1, Running DEF IInv, TypeOK
<1> DEFINE length == ReadCompactSize(reader)
           res    == Then(length, length.data)
           item   == Extent(length.reader.mpos, length.data)
           stacks == AddItem(tx.witnesses, item, res.reader.mpos)
<1>3. Chain(reader, res)
  <2>1. Chain(reader, length) /\ (length.status = "ok" => length.data \in Nat)
    BY <1>2, ChainCompactSize
  <2> HIDE DEF length
  <2> QED BY <1>2, <2>1, ChainThen
<1>4. res.status = "ok" =>
        /\ PayloadAt(File, item, reader.mpos) /\ item.from \in Nat /\ item.to \in Nat
        /\ res.reader.mpos = item.to /\ FileOf(res.reader) = File
  BY <1>2, PayloadRead DEF File
<1>5. \/ /\ res.status = "ok"
         /\ tx' = [tx EXCEPT !.witnesses = stacks]
         /\ Goto(res, NextItem(tx'))
         /\ UNCHANGED <<blocks, block>>
      \/ Stop(res)
  BY DEF ParseWitnessItem
<1>6. item.from \in Nat /\ item.to \in Nat => item \in ExtentType
  BY DEF Extent, ExtentType
<1> HIDE DEF length, res, item
<1>7. CASE /\ res.status = "ok"
           /\ tx' = [tx EXCEPT !.witnesses = stacks]
           /\ Goto(res, NextItem(tx'))
           /\ UNCHANGED <<blocks, block>>
  <2> DEFINE p    == OutputsEnd(File, tx)
             last == Len(tx.witnesses)
  <2>1. pc' = NextItem(tx') /\ reader' = res.reader
    BY <1>7 DEF Goto
  <2>2. item \in ExtentType /\ PayloadAt(File, item, reader.mpos) /\ res.reader.mpos = item.to
    BY <1>4, <1>6, <1>7
  <2>3. /\ tx'.from = tx.from /\ tx'.vin = tx.vin /\ tx'.vout = tx.vout
        /\ tx'.witnesses = stacks /\ tx'.segwit = tx.segwit
        /\ tx'.inCount = tx.inCount /\ tx'.outCount = tx.outCount
    <3> HIDE DEF stacks
    <3> QED BY <1>2, <1>7 DEF TxType
  <2>4. /\ StacksRead(File, tx) /\ reader.mpos = StacksEnd(File, tx) /\ tx.segwit
        /\ Filled(tx, last - 1) /\ last \in 1 .. Len(tx.vin)
        /\ Len(tx.witnesses[last].items) < tx.witnesses[last].count
    BY <1>1 DEF Layout, TxLayout
  <2>5. /\ tx.witnesses \in Seq(WitnessType) /\ last \in Nat /\ Len(tx.vin) \in Nat
        /\ tx.witnesses # <<>>
    BY <1>2, <2>4 DEF TxType
  <2>6. /\ Len(stacks) = last /\ Chained(stacks, p) /\ EndOf(stacks, p) = item.to
        /\ \A k \in 1 .. last : ItemsExact(File, stacks[k])
        /\ \A k \in 1 .. last - 1 : stacks[k] = tx.witnesses[k]
        /\ Len(stacks[last].items) = Len(tx.witnesses[last].items) + 1
        /\ stacks[last].count = tx.witnesses[last].count
    <3>1. /\ Chained(tx.witnesses, p) /\ reader.mpos = EndOf(tx.witnesses, p)
          /\ \A k \in 1 .. Len(tx.witnesses) : ItemsExact(File, tx.witnesses[k])
      BY <2>4 DEF StacksRead, StacksEnd
    <3>2. stacks = AddItem(tx.witnesses, item, item.to)
      BY <2>2
    <3> HIDE DEF p, stacks
    <3> QED BY <2>2, <2>5, <3>1, <3>2, AddItemExact
  <2>7. tx.witnesses[last] \in WitnessType
    BY <2>4, <2>5, ElementOfSeq
  <2> HIDE DEF stacks, last
  <2>8. /\ OutputsRead(File, tx') /\ OutputsEnd(File, tx') = OutputsEnd(File, tx)
        /\ Len(tx'.vout) = tx'.outCount
    BY <2>3, <2>4 DEF StacksRead, OutputsRead, InputsRead, OutputsEnd, InputsEnd, InputsFrom,
                      FlagRead
  <2>9. StacksRead(File, tx') /\ reader'.mpos = StacksEnd(File, tx')
    BY <2>1, <2>2, <2>3, <2>6, <2>8 DEF StacksRead, StacksEnd
  <2>10. Filled(tx', last - 1)
    BY <2>3, <2>4, <2>6 DEF Filled
  <2>11. Len(stacks[last].items) <= stacks[last].count
    <3>1. Len(tx.witnesses[last].items) \in Nat /\ tx.witnesses[last].count \in Nat
      BY <2>7 DEF WitnessType
    <3> QED BY <2>4, <2>6, <3>1
  <2>12. TxLayout(File, tx', reader'.mpos, pc') /\ pc' \in TxBody
    BY <1>2, <2>1, <2>3, <2>4, <2>6, <2>9, <2>10, <2>11, ItemsNext
  <2> QED BY <1>1, <1>4, <1>7, <2>1, <2>3, <2>12, TxStepLayout DEF TxBody, File
<1>8. CASE Stop(res)
  BY <1>3, <1>8, StopLayout
<1> QED BY <1>5, <1>7, <1>8

LEMMA ParseLockTimeLayout ==
    ASSUME IInv, IInv', Layout, ParseLockTime
    PROVE  Layout'
<1> DEFINE res == ReadData(reader, 4)
<1>1. pc = "lockTime"
  BY DEF ParseLockTime
<1>2. Usable(reader) /\ reader.mpos \in Nat /\ tx \in TxType
  BY <1>1, Running
<1>3. Chain(reader, res)
  BY <1>2, ChainRead
<1>4. res.status = "ok" => res.reader.mpos = reader.mpos + 4 /\ FileOf(res.reader) = File
  BY <1>2, FixedRead DEF File
<1>5. \/ /\ res.status = "ok"
         /\ tx' = [tx EXCEPT !.to = res.reader.mpos]
         /\ Goto(res, "txHash")
         /\ UNCHANGED <<blocks, block>>
      \/ Stop(res)
  BY DEF ParseLockTime
<1> HIDE DEF res
<1>6. CASE /\ res.status = "ok"
           /\ tx' = [tx EXCEPT !.to = res.reader.mpos]
           /\ Goto(res, "txHash")
           /\ UNCHANGED <<blocks, block>>
  <2>1. /\ tx'.from = tx.from /\ tx'.vin = tx.vin /\ tx'.vout = tx.vout
        /\ tx'.witnesses = tx.witnesses /\ tx'.segwit = tx.segwit
        /\ tx'.inCount = tx.inCount /\ tx'.outCount = tx.outCount /\ tx'.to = res.reader.mpos
    BY <1>2, <1>6 DEF TxType
  <2>2. AllRead(File, tx) /\ reader.mpos = StacksEnd(File, tx)
    BY <1>1 DEF Layout, TxLayout
  <2>3. pc' = "txHash" /\ reader' = res.reader
    BY <1>6 DEF Goto
  <2>4. AllRead(File, tx') /\ StacksEnd(File, tx') = StacksEnd(File, tx)
    BY <2>1, <2>2 DEF AllRead, Filled, StacksRead, OutputsRead, InputsRead, StacksEnd, OutputsEnd,
                      InputsEnd, InputsFrom, FlagRead
  <2>5. TxLayout(File, tx', reader'.mpos, pc')
    BY <1>4, <1>6, <2>1, <2>2, <2>3, <2>4 DEF TxLayout
  <2> QED BY <1>1, <1>4, <1>6, <2>1, <2>3, <2>5, TxStepLayout DEF TxBody, File
<1>7. CASE Stop(res)
  BY <1>3, <1>7, StopLayout
<1> QED BY <1>5, <1>6, <1>7
-----------------------------------------------------------------------------
(* The functions around the transactions.                                  *)
LEMMA BlockStepLayout ==
    ASSUME Layout, pc' \notin TxBody, blocks' = blocks, FileOf(reader') = FileOf(reader),
           BlockLayout(File, block', tx', reader'.mpos, pc')
    PROVE  Layout'
<1>1. File' = File
  BY DEF File
<1>2. \A i \in 1 .. Len(blocks') : BlockDone(File', blocks'[i])
  BY <1>1 DEF Layout
<1>3. TxLayout(File', tx', reader'.mpos, pc')
  BY DEF TxLayout, TxBody
<1> QED BY <1>1, <1>2, <1>3 DEF Layout

LEMMA TransactionsNext ==
    ASSUME NEW f, NEW b \in BlockType, NEW t, NEW p, TxsRead(f, b), p = TxsEnd(f, b),
           Len(b.txs) <= b.txCount
    PROVE  BlockLayout(f, b, t, p, NextTransaction(b)) /\ NextTransaction(b) \notin TxBody
<1>1. Len(b.txs) \in Nat /\ b.txCount \in Nat
  BY DEF BlockType
<1>2. CASE Len(b.txs) < b.txCount
  <2>1. NextTransaction(b) = "version"
    BY <1>2 DEF NextTransaction
  <2> QED BY <1>2, <2>1 DEF BlockLayout, TxBody
<1>3. CASE ~(Len(b.txs) < b.txCount)
  <2>1. NextTransaction(b) = "blockEnd" /\ Len(b.txs) = b.txCount
    BY <1>1, <1>3 DEF NextTransaction
  <2> QED BY <2>1 DEF BlockLayout, TxBody
<1> QED BY <1>2, <1>3

LEMMA StartBlockLayout ==
    ASSUME IInv, IInv', Layout, StartBlock
    PROVE  Layout'
<1>1. Usable(reader)
  BY Running DEF StartBlock
<1>2. reader' = AfterIsEof(reader) /\ blocks' = blocks
  BY DEF StartBlock
<1>3. FileOf(reader') = FileOf(reader)
  BY <1>1, <1>2, IsEofSound DEF Usable, FileOf
<1>4. CASE pc' = "end"
  BY <1>2, <1>3, <1>4, StoppedKeeps
<1>5. CASE pc' = "magic" /\ block' = NewBlock(reader.mpos)
  <2>1. block'.txs = <<>>
    BY <1>5 DEF NewBlock
  <2>2. BlockLayout(File, block', tx', reader'.mpos, pc') /\ pc' \notin TxBody
    BY <1>5, <2>1 DEF BlockLayout, TxBody
  <2> QED BY <1>2, <1>3, <2>2, BlockStepLayout
<1> QED BY <1>4, <1>5 DEF StartBlock

LEMMA ParseMagicNumberLayout ==
    ASSUME IInv, IInv', Layout, ParseMagicNumber
    PROVE  Layout'
<1> DEFINE res == ReadData(reader, 4)
<1>1. pc = "magic"
  BY DEF ParseMagicNumber
<1>2. Usable(reader) /\ reader.mpos = block.from
  BY <1>1, Running DEF IInv, BlockUnderway
<1>3. Chain(reader, res)
  BY <1>2, ChainRead
<1>4. res.status = "ok" => res.reader.mpos = reader.mpos + 4 /\ FileOf(res.reader) = FileOf(reader)
  BY <1>2, FixedRead
<1>5. \/ /\ res.status = "ok" /\ Goto(res, "size")
         /\ UNCHANGED <<blocks, block, tx>>
      \/ res.status = "ok" /\ Leave(res.reader, "BlockWrongMagic")
      \/ Stop(res)
  BY DEF ParseMagicNumber
<1> HIDE DEF res
<1>6. CASE /\ res.status = "ok" /\ Goto(res, "size")
           /\ UNCHANGED <<blocks, block, tx>>
  <2>1. block.txs = <<>>
    BY <1>1 DEF Layout, BlockLayout
  <2>2. pc' = "size" /\ reader' = res.reader /\ block' = block
    BY <1>6 DEF Goto
  <2>3. BlockLayout(File, block', tx', reader'.mpos, pc') /\ pc' \notin TxBody
    BY <1>2, <1>4, <1>6, <2>1, <2>2 DEF BlockLayout, TxBody
  <2> QED BY <1>4, <1>6, <2>2, <2>3, BlockStepLayout
<1>7. CASE res.status = "ok" /\ Leave(res.reader, "BlockWrongMagic")
  BY <1>4, <1>7, StoppedKeeps DEF Leave
<1>8. CASE Stop(res)
  BY <1>3, <1>8, StopLayout
<1> QED BY <1>5, <1>6, <1>7, <1>8

LEMMA ParseBlockSizeLayout ==
    ASSUME IInv, IInv', Layout, ParseBlockSize
    PROVE  Layout'
<1> DEFINE res == ReadData(reader, 4)
<1>1. pc = "size"
  BY DEF ParseBlockSize
<1>2. Usable(reader) /\ block \in BlockType
  BY <1>1, Running
<1>3. Chain(reader, res)
  BY <1>2, ChainRead
<1>4. res.status = "ok" => res.reader.mpos = reader.mpos + 4 /\ FileOf(res.reader) = FileOf(reader)
  BY <1>2, FixedRead
<1>5. \/ /\ res.status = "ok"
         /\ block' = [block EXCEPT !.size = Le32(res.data)]
         /\ Goto(res, "hash")
         /\ UNCHANGED <<blocks, tx>>
      \/ res.status = "ok" /\ \E code \in ErrorCodes : Leave(res.reader, code)
      \/ Stop(res)
  BY DEF ParseBlockSize, ErrorCodes
<1> HIDE DEF res
<1>6. CASE /\ res.status = "ok"
           /\ block' = [block EXCEPT !.size = Le32(res.data)]
           /\ Goto(res, "hash")
           /\ UNCHANGED <<blocks, tx>>
  <2>1. block.txs = <<>> /\ reader.mpos = block.from + 4 /\ block.from \in Nat
    BY <1>1, <1>2 DEF Layout, BlockLayout, BlockType
  <2>2. pc' = "hash" /\ reader' = res.reader
    BY <1>6 DEF Goto
  <2>3. block'.from = block.from /\ block'.txs = block.txs
    BY <1>2, <1>6 DEF BlockType
  <2>4. reader'.mpos = block'.from + 8
    BY <1>4, <1>6, <2>1, <2>2, <2>3
  <2>5. BlockLayout(File, block', tx', reader'.mpos, pc') /\ pc' \notin TxBody
    BY <2>1, <2>2, <2>3, <2>4 DEF BlockLayout, TxBody
  <2> QED BY <1>4, <1>6, <2>2, <2>5, BlockStepLayout
<1>7. CASE res.status = "ok" /\ \E code \in ErrorCodes : Leave(res.reader, code)
  BY <1>4, <1>7, StoppedKeeps DEF Leave
<1>8. CASE Stop(res)
  BY <1>3, <1>8, StopLayout
<1> QED BY <1>5, <1>6, <1>7, <1>8

LEMMA GetBlockHashLayout ==
    ASSUME IInv, IInv', Layout, GetBlockHash
    PROVE  Layout'
<1> DEFINE ahead == ReadData(reader, HeaderSize)
           res   == ThenSetReadPosition(ahead, reader.mpos)
<1>1. pc = "hash"
  BY DEF GetBlockHash
<1>2. Usable(reader) /\ block \in BlockType
  BY <1>1, Running
<1>3. /\ Chain(reader, res)
      /\ res.status = "ok" => res.reader.mpos = reader.mpos
  <2>1. Chain(reader, ahead)
    BY <1>2, ChainRead DEF HeaderSize
  <2> HIDE DEF ahead
  <2> QED BY <1>2, <2>1, ChainRewind
<1>4. \/ /\ res.status = "ok"
         /\ block' = [block EXCEPT !.hashed = Extent(reader.mpos, HeaderSize)]
         /\ Goto(res, "header")
         /\ UNCHANGED <<blocks, tx>>
      \/ Stop(res)
  BY DEF GetBlockHash
<1> HIDE DEF res
<1>5. CASE /\ res.status = "ok"
           /\ block' = [block EXCEPT !.hashed = Extent(reader.mpos, HeaderSize)]
           /\ Goto(res, "header")
           /\ UNCHANGED <<blocks, tx>>
  <2>1. block.txs = <<>> /\ reader.mpos = block.from + 8
    BY <1>1 DEF Layout, BlockLayout
  <2>2. pc' = "header" /\ reader' = res.reader
    BY <1>5 DEF Goto
  <2>3. /\ block'.from = block.from /\ block'.txs = block.txs
        /\ block'.hashed = Extent(reader.mpos, HeaderSize)
    BY <1>2, <1>5 DEF BlockType
  <2>4. BlockLayout(File, block', tx', reader'.mpos, pc') /\ pc' \notin TxBody
    BY <1>3, <1>5, <2>1, <2>2, <2>3 DEF BlockLayout, TxBody
  <2>5. FileOf(reader') = FileOf(reader)
    BY <1>3, <2>2 DEF Chain, FileOf
  <2> QED BY <1>5, <2>4, <2>5, BlockStepLayout
<1>6. CASE Stop(res)
  BY <1>3, <1>6, StopLayout
<1> QED BY <1>4, <1>5, <1>6

LEMMA ParseBlockHeaderLayout ==
    ASSUME IInv, IInv', Layout, ParseBlockHeader
    PROVE  Layout'
<1> DEFINE one    == ReadData(reader, 4)
           two    == Then(one, 32)
           hashes == Then(two, 32)
           five   == Then(hashes, 4)
           six    == Then(five, 4)
           res    == Then(six, 4)
           header == [from |-> reader.mpos, to |-> res.reader.mpos]
<1>1. pc = "header"
  BY DEF ParseBlockHeader
<1>2. Usable(reader) /\ block \in BlockType /\ reader.mpos \in Nat
  BY <1>1, Running
<1>3. Chain(reader, one) /\ (one.status = "ok" => one.reader.mpos = reader.mpos + 4)
  BY <1>2, ChainRead
<1> HIDE DEF one
<1>4. Chain(reader, two) /\ (two.status = "ok" => two.reader.mpos = reader.mpos + 36)
  BY <1>2, <1>3, ChainThen
<1> HIDE DEF two
<1>5. Chain(reader, hashes) /\ (hashes.status = "ok" => hashes.reader.mpos = reader.mpos + 68)
  BY <1>2, <1>4, ChainThen
<1> HIDE DEF hashes
<1>6. Chain(reader, five) /\ (five.status = "ok" => five.reader.mpos = reader.mpos + 72)
  BY <1>2, <1>5, ChainThen
<1> HIDE DEF five
<1>7. Chain(reader, six) /\ (six.status = "ok" => six.reader.mpos = reader.mpos + 76)
  BY <1>2, <1>6, ChainThen
<1> HIDE DEF six
<1>8. Chain(reader, res) /\ (res.status = "ok" => res.reader.mpos = reader.mpos + 80)
  BY <1>2, <1>7, ChainThen
<1>9. \/ /\ res.status = "ok"
         /\ block' = [block EXCEPT !.header = header]
         /\ Goto(res, "txCount")
         /\ UNCHANGED <<blocks, tx>>
      \/ Stop(res)
  BY DEF ParseBlockHeader, one, two, hashes, five, six
<1> HIDE DEF res
<1>10. CASE /\ res.status = "ok"
            /\ block' = [block EXCEPT !.header = header]
            /\ Goto(res, "txCount")
            /\ UNCHANGED <<blocks, tx>>
  <2>1. /\ block.txs = <<>> /\ reader.mpos = block.from + 8
        /\ block.hashed = Extent(block.from + 8, HeaderSize)
    BY <1>1 DEF Layout, BlockLayout
  <2>2. pc' = "txCount" /\ reader' = res.reader
    BY <1>10 DEF Goto
  <2>3. header = Extent(block.from + 8, HeaderSize)
    BY <1>8, <1>10, <2>1 DEF Extent, HeaderSize
  <2> HIDE DEF header
  <2>4. /\ block'.from = block.from /\ block'.txs = block.txs
        /\ block'.hashed = block.hashed /\ block'.header = header
    BY <1>2, <1>10 DEF BlockType
  <2>5. HeaderRead(block')
    BY <2>1, <2>3, <2>4 DEF HeaderRead
  <2>6. reader'.mpos = block'.from + 88
    <3>1. block.from \in Nat
      BY <1>2 DEF BlockType
    <3> QED BY <1>8, <1>10, <2>1, <2>2, <2>4, <3>1
  <2>7. BlockLayout(File, block', tx', reader'.mpos, pc') /\ pc' \notin TxBody
    BY <2>1, <2>2, <2>4, <2>5, <2>6 DEF BlockLayout, TxBody
  <2>8. FileOf(reader') = FileOf(reader)
    BY <1>8, <2>2 DEF Chain, FileOf
  <2> QED BY <1>10, <2>7, <2>8, BlockStepLayout
<1>11. CASE Stop(res)
  BY <1>8, <1>11, StopLayout
<1> QED BY <1>9, <1>10, <1>11

LEMMA ParseTransactionCounterLayout ==
    ASSUME IInv, IInv', Layout, ParseTransactionCounter
    PROVE  Layout'
<1> DEFINE res == ReadCompactSize(reader)
<1>1. pc = "txCount"
  BY DEF ParseTransactionCounter
<1>2. Usable(reader) /\ block \in BlockType /\ block' \in BlockType
  BY <1>1, Running DEF IInv, TypeOK
<1>3. Chain(reader, res)
  BY <1>2, ChainCompactSize
<1>4. res.status = "ok" =>
        /\ CountIs(File, reader.mpos, res.data)
        /\ res.reader.mpos = After(File, reader.mpos)
        /\ res.data \in Nat /\ FileOf(res.reader) = FileOf(reader)
  BY <1>2, CountRead DEF File
<1>5. \/ /\ Counted(res)
         /\ block' = [block EXCEPT !.txCount = res.data]
         /\ Goto(res, NextTransaction(block'))
         /\ UNCHANGED <<blocks, tx>>
      \/ StopCount(res)
  BY DEF ParseTransactionCounter
<1> HIDE DEF res
<1>6. CASE /\ Counted(res)
           /\ block' = [block EXCEPT !.txCount = res.data]
           /\ Goto(res, NextTransaction(block'))
           /\ UNCHANGED <<blocks, tx>>
  <2>1. block.txs = <<>> /\ HeaderRead(block) /\ reader.mpos = block.from + 88
    BY <1>1 DEF Layout, BlockLayout
  <2>2. pc' = NextTransaction(block') /\ reader' = res.reader /\ res.status = "ok"
    BY <1>6 DEF Goto, Counted
  <2>3. /\ block'.from = block.from /\ block'.txs = block.txs /\ block'.txCount = res.data
        /\ block'.header = block.header /\ block'.hashed = block.hashed
    BY <1>2, <1>6 DEF BlockType
  <2>4. Len(block'.txs) = 0
    BY <2>1, <2>3
  <2>5. TxsRead(File, block') /\ reader'.mpos = TxsEnd(File, block')
    BY <1>4, <2>1, <2>2, <2>3, <2>4, ChainedNone DEF TxsRead, TxsEnd, TxsFrom, HeaderRead
  <2>6. Len(block'.txs) <= block'.txCount
    BY <1>4, <2>2, <2>3, <2>4
  <2>7. BlockLayout(File, block', tx', reader'.mpos, pc') /\ pc' \notin TxBody
    BY <1>2, <2>2, <2>5, <2>6, TransactionsNext
  <2> QED BY <1>4, <1>6, <2>2, <2>7, BlockStepLayout
<1>7. CASE StopCount(res)
  BY <1>3, <1>7, StopLayout
<1> QED BY <1>5, <1>6, <1>7

LEMMA ParseVersionLayout ==
    ASSUME IInv, IInv', Layout, ParseVersion
    PROVE  Layout'
<1> DEFINE res == ReadData(reader, 4)
<1>1. pc = "version"
  BY DEF ParseVersion
<1>2. Usable(reader)
  BY <1>1, Running
<1>3. Chain(reader, res)
  BY <1>2, ChainRead
<1>4. res.status = "ok" => res.reader.mpos = reader.mpos + 4 /\ FileOf(res.reader) = FileOf(reader)
  BY <1>2, FixedRead
<1>5. \/ /\ res.status = "ok"
         /\ tx' = NewTx(reader.mpos)
         /\ Goto(res, "flag")
         /\ UNCHANGED <<blocks, block>>
      \/ Stop(res)
  BY DEF ParseVersion
<1> HIDE DEF res
<1>6. CASE /\ res.status = "ok"
           /\ tx' = NewTx(reader.mpos)
           /\ Goto(res, "flag")
           /\ UNCHANGED <<blocks, block>>
  <2>1. /\ TxsRead(File, block) /\ Len(block.txs) < block.txCount
        /\ reader.mpos = TxsEnd(File, block)
    BY <1>1 DEF Layout, BlockLayout
  <2>2. pc' = "flag" /\ reader' = res.reader
    BY <1>6 DEF Goto
  <2>3. tx'.from = reader.mpos /\ tx'.vin = <<>> /\ tx'.vout = <<>> /\ tx'.witnesses = <<>>
    BY <1>6 DEF NewTx
  <2>4. BlockLayout(File, block', tx', reader'.mpos, pc')
    BY <1>6, <2>1, <2>2, <2>3 DEF BlockLayout, TxBody
  <2>5. TxLayout(File, tx', reader'.mpos, pc')
    BY <1>4, <1>6, <2>2, <2>3 DEF TxLayout
  <2>6. File' = File
    BY <1>4, <1>6, <2>2 DEF File
  <2>7. \A i \in 1 .. Len(blocks') : BlockDone(File', blocks'[i])
    BY <1>6, <2>6 DEF Layout
  <2> QED BY <2>4, <2>5, <2>6, <2>7 DEF Layout
<1>7. CASE Stop(res)
  BY <1>3, <1>7, StopLayout
<1> QED BY <1>5, <1>6, <1>7

LEMMA GetCurrentTransactionHashLayout ==
    ASSUME IInv, IInv', Layout, GetCurrentTransactionHash
    PROVE  Layout'
<1> DEFINE back  == SetReadPosition(reader, tx.from)
           n     == reader.mpos - tx.from
           again == Then(back, n)
           res   == Reread(again)
           done  == [tx EXCEPT !.hashed = Extent(tx.from, n)]
           txs   == Append(block.txs, done)
<1>1. pc = "txHash"
  BY DEF GetCurrentTransactionHash
<1>2. /\ Usable(reader) /\ reader.mpos \in Nat /\ tx \in TxType /\ block \in BlockType
      /\ block' \in BlockType
  BY <1>1, Running DEF IInv, TypeOK
<1>3. tx.from \in Nat /\ n \in Nat
  <2>1. tx.from \in Nat /\ tx.from <= reader.mpos
    BY <1>1, <1>2 DEF IInv, TxUnderway, TxBody, TxType
  <2> QED BY <1>2, <2>1
<1>4. again = Result(again.reader, again.status, again.data) /\ FileOf(again.reader) = FileOf(reader)
  <2>1. /\ Sound(back.reader) /\ back = Result(back.reader, back.status, <<>>)
        /\ back.reader.disk = reader.disk /\ back.reader.key = reader.key
    BY <1>2, <1>3, SetReadPositionSound DEF Usable
  <2> HIDE DEF back, n
  <2>2. CASE back.status = "ok"
    <3>1. again = ReadData(back.reader, n)
      BY <2>2 DEF Then
    <3>2. ReadDataGives(back.reader, n, again)
      BY <1>3, <2>1, <3>1, ReadDataSound
    <3> QED BY <2>1, <3>2 DEF ReadDataGives, FileOf
  <2>3. CASE back.status # "ok"
    <3>1. again = back
      BY <2>3 DEF Then
    <3> HIDE DEF again
    <3> QED BY <2>1, <3>1 DEF FileOf, Result
  <2> QED BY <2>2, <2>3
<1> HIDE DEF again
<1>5. /\ FileOf(res.reader) = FileOf(reader)
      /\ res.status = "ok" => res.reader.mpos = reader.mpos
  <2>1. CASE again.status = "ok" /\ again.reader.mpos # reader.mpos
    <3>1. res = [again EXCEPT !.status = "FileReadingFailure"]
      BY <2>1 DEF Reread
    <3>2. res.reader = again.reader /\ res.status = "FileReadingFailure"
      BY <1>4, <3>1 DEF Result
    <3> QED BY <1>4, <3>2
  <2>2. CASE ~(again.status = "ok" /\ again.reader.mpos # reader.mpos)
    <3>1. res = again
      BY <2>2 DEF Reread
    <3> HIDE DEF res
    <3> QED BY <1>4, <2>2, <3>1
  <2> QED BY <2>1, <2>2
<1>6. \/ /\ res.status = "ok"
         /\ block' = [block EXCEPT !.txs = txs]
         /\ Goto(res, NextTransaction(block'))
         /\ UNCHANGED <<blocks, tx>>
      \/ Stop(res)
  BY DEF GetCurrentTransactionHash, again
<1> HIDE DEF res
<1>7. CASE /\ res.status = "ok"
           /\ block' = [block EXCEPT !.txs = txs]
           /\ Goto(res, NextTransaction(block'))
           /\ UNCHANGED <<blocks, tx>>
  <2>1. /\ TxsRead(File, block) /\ Len(block.txs) < block.txCount
        /\ tx.from = TxsEnd(File, block)
    BY <1>1 DEF Layout, BlockLayout, TxBody
  <2>2. AllRead(File, tx) /\ reader.mpos = StacksEnd(File, tx) + 4 /\ tx.to = reader.mpos
    BY <1>1 DEF Layout, TxLayout
  <2>3. pc' = NextTransaction(block') /\ reader' = res.reader
    BY <1>7 DEF Goto
  <2>4. done \in TxType
    <3>1. Extent(tx.from, n) \in ExtentType
      BY <1>3 DEF Extent, ExtentType
    <3> HIDE DEF n
    <3> QED BY <1>2, <3>1 DEF TxType
  <2>5. /\ done.from = tx.from /\ done.vin = tx.vin /\ done.vout = tx.vout
        /\ done.witnesses = tx.witnesses /\ done.segwit = tx.segwit
        /\ done.inCount = tx.inCount /\ done.outCount = tx.outCount /\ done.to = tx.to
        /\ done.hashed = Extent(tx.from, n)
    BY <1>2 DEF TxType
  <2> HIDE DEF done
  <2>6. TxDone(File, done)
    BY <2>2, <2>5 DEF HashedWhole, TxDone, AllRead, Filled, StacksRead, OutputsRead, InputsRead, StacksEnd,
                      OutputsEnd, InputsEnd, InputsFrom, FlagRead
  <2>7. /\ block.txs \in Seq(TxType) /\ Len(block.txs) \in Nat /\ block.txCount \in Nat
    BY <1>2 DEF BlockType
  <2> DEFINE p == TxsFrom(File, block)
  <2>8. /\ Len(txs) = Len(block.txs) + 1 /\ Chained(txs, p) /\ EndOf(txs, p) = done.to
        /\ txs[Len(txs)] = done /\ \A k \in 1 .. Len(block.txs) : txs[k] = block.txs[k]
    <3>1. Chained(block.txs, p) /\ done.from = EndOf(block.txs, p)
      BY <2>1, <2>5 DEF TxsRead, TxsEnd
    <3> HIDE DEF p
    <3> QED BY <2>4, <2>7, <3>1, ChainedAppend
  <2> HIDE DEF txs
  <2>9. /\ block'.from = block.from /\ block'.txs = txs /\ block'.txCount = block.txCount
        /\ block'.header = block.header /\ block'.hashed = block.hashed
    BY <1>2, <1>7 DEF BlockType
  <2>10. \A k \in 1 .. Len(txs) : TxDone(File, txs[k])
    <3> SUFFICES ASSUME NEW k \in 1 .. Len(txs) PROVE TxDone(File, txs[k])
      OBVIOUS
    <3>1. k \in 1 .. Len(block.txs) \/ k = Len(txs)
      BY <2>7, <2>8
    <3> QED BY <2>1, <2>6, <2>8, <3>1 DEF TxsRead
  <2>11. TxsRead(File, block') /\ reader'.mpos = TxsEnd(File, block')
    BY <1>5, <1>7, <2>1, <2>2, <2>3, <2>5, <2>8, <2>9, <2>10
       DEF TxsRead, TxsEnd, TxsFrom, HeaderRead
  <2>12. Len(block'.txs) <= block'.txCount
    BY <2>1, <2>7, <2>8, <2>9
  <2>13. BlockLayout(File, block', tx', reader'.mpos, pc') /\ pc' \notin TxBody
    BY <1>2, <2>3, <2>11, <2>12, TransactionsNext
  <2> QED BY <1>5, <1>7, <2>3, <2>13, BlockStepLayout
<1>8. CASE Stop(res)
  BY <1>5, <1>8, StoppedKeeps DEF Stop, Leave
<1> QED BY <1>6, <1>7, <1>8

LEMMA CheckBlockEndLayout ==
    ASSUME IInv, IInv', Layout, CheckBlockEnd
    PROVE  Layout'
<1>1. pc = "blockEnd"
  BY DEF CheckBlockEnd
<1>2. block \in BlockType /\ blocks \in Seq(BlockType) /\ reader.mpos \in Nat
  BY <1>1, Running
<1>3. CASE reader.mpos # DeclaredEnd /\ Leave(reader, "BlockParsingFailure")
  BY <1>3, StoppedKeeps DEF Leave
<1>4. CASE /\ reader.mpos = DeclaredEnd
           /\ blocks' = Append(blocks, [block EXCEPT !.to = reader.mpos])
           /\ pc' = "block"
           /\ UNCHANGED <<reader, block, tx, outcome>>
  <2> DEFINE b == [block EXCEPT !.to = reader.mpos]
  <2>1. /\ b \in BlockType /\ b.from = block.from /\ b.txs = block.txs /\ b.txCount = block.txCount
        /\ b.header = block.header /\ b.hashed = block.hashed /\ b.to = reader.mpos
    BY <1>2 DEF BlockType
  <2> HIDE DEF b
  <2>2. /\ TxsRead(File, block) /\ Len(block.txs) = block.txCount
        /\ reader.mpos = TxsEnd(File, block)
    BY <1>1 DEF Layout, BlockLayout
  <2>3. BlockDone(File, b)
    BY <2>1, <2>2 DEF BlockDone, TxsRead, TxsEnd, TxsFrom, HeaderRead
  <2>4. File' = File
    BY <1>4 DEF File
  <2>5. ASSUME NEW i \in 1 .. Len(blocks') PROVE BlockDone(File', blocks'[i])
    <3>1. /\ Len(blocks') = Len(blocks) + 1 /\ Len(blocks) \in Nat
          /\ blocks'[Len(blocks) + 1] = b
          /\ \A k \in 1 .. Len(blocks) : blocks'[k] = blocks[k]
      BY <1>2, <1>4, <2>1 DEF b
    <3>2. i \in 1 .. Len(blocks) \/ i = Len(blocks) + 1
      BY <3>1
    <3> QED BY <2>3, <2>4, <3>1, <3>2 DEF Layout
  <2>6. /\ BlockLayout(File', block', tx', reader'.mpos, pc')
        /\ TxLayout(File', tx', reader'.mpos, pc')
    BY <1>4 DEF BlockLayout, TxLayout, TxBody
  <2> QED BY <2>5, <2>6 DEF Layout
<1> QED BY <1>3, <1>4 DEF CheckBlockEnd
-----------------------------------------------------------------------------
(* The theorems.                                                           *)
LEMMA InitLayout == Init => Layout
<1> SUFFICES ASSUME Init PROVE Layout
  OBVIOUS
<1>1. pc = "block" /\ blocks = <<>> /\ Len(blocks) = 0
  BY DEF Init
<1> QED BY <1>1 DEF Layout, BlockLayout, TxLayout, TxBody

LEMMA StepLayout == IInv /\ IInv' /\ Layout /\ [Next]_vars => Layout'
<1>1. ASSUME IInv, IInv', Layout, Next PROVE Layout'
  BY <1>1, StartBlockLayout, ParseMagicNumberLayout, ParseBlockSizeLayout, GetBlockHashLayout,
     ParseBlockHeaderLayout, ParseTransactionCounterLayout, ParseVersionLayout,
     ParseTransactionFlagLayout, ParseInCounterLayout, ParseTxInLayout, ParseOutCounterLayout,
     ParseTxOutLayout, ParseWitnessLayout, ParseWitnessItemLayout, ParseLockTimeLayout,
     GetCurrentTransactionHashLayout, CheckBlockEndLayout DEF Next
<1>2. ASSUME Layout, UNCHANGED vars PROVE Layout'
  <2>1. /\ reader' = reader /\ pc' = pc /\ blocks' = blocks /\ block' = block /\ tx' = tx
    BY <1>2 DEF vars
  <2>2. File' = File
    BY <2>1 DEF File
  <2>3. /\ BlockLayout(File', block', tx', reader'.mpos, pc')
        /\ TxLayout(File', tx', reader'.mpos, pc')
        /\ \A i \in 1 .. Len(blocks') : BlockDone(File', blocks'[i])
    BY <1>2, <2>1, <2>2 DEF Layout
  <2> QED BY <2>3 DEF Layout
<1> QED BY <1>1, <1>2

(* At every function the block and the transaction under way lie as far as *)
(* they have been read, and the reader stands behind them.                 *)
THEOREM LayoutInvariance == Spec => []Layout
<1>1. IInv /\ IInv' /\ Layout /\ [Next]_vars => Layout'
  BY StepLayout
<1> QED BY InitLayout, <1>1, Invariance, PTL DEF Spec

(* Widths and values as the properties write them.                         *)
LEMMA CountsOfFile ==
    ASSUME NEW p, FirstAt(File, p) \in Byte
    PROVE  /\ CompactWidth(p) = WidthAt(File, p)
           /\ CompactAt(p) = ValueAt(File, p)
           /\ p + CompactWidth(p) = After(File, p)
<1>1. FirstAt(File, p) = PlainAt(reader, p, 1)[1]
  BY ReadAtFile DEF File, FirstAt
<1>2. CompactTail(FirstAt(File, p)) \in {0, 2, 4, 8}
  BY CompactNat
<1>3. CompactWidth(p) = WidthAt(File, p)
  BY <1>1 DEF CompactWidth, WidthAt
<1> DEFINE first == FirstAt(File, p)
           tail  == CompactTail(first)
<1>4. CompactWidth(p) - 1 = tail
  <2>1. CompactWidth(p) = 1 + tail
    BY <1>3 DEF WidthAt
  <2> HIDE DEF tail
  <2> QED BY <1>2, <2>1 DEF tail
<1>5. ValueAt(File, p) = CompactValue(first, PlainAt(reader, p + 1, tail))
  BY ReadAtFile, Zenon DEF File, ValueAt
<1>6. CompactAt(p) = ValueAt(File, p)
  BY <1>1, <1>4, <1>5 DEF CompactAt
<1> QED BY <1>3, <1>6 DEF After

LEMMA PayloadIsPrefixed ==
    ASSUME NEW e, NEW p, PayloadAt(File, e, p)
    PROVE  Prefixed(e, p)
<1>1. FirstAt(File, p) \in Byte /\ e = Extent(After(File, p), ValueAt(File, p))
  BY DEF PayloadAt, CountIs
<1> QED BY <1>1, CountsOfFile DEF Prefixed

(* In every returned block the header and the hashed bytes are the same 80 *)
(* bytes, and as many transactions as announced tile the rest of it.       *)
THEOREM BlocksAreTiledByTransactions == Spec => []TransactionsTile
<1>1. Layout => TransactionsTile
  <2> SUFFICES ASSUME Layout, NEW i \in 1 .. Len(blocks)
               PROVE  LET b == blocks[i] IN
                      /\ b.header = Extent(b.from + 8, HeaderSize)
                      /\ b.hashed = b.header
                      /\ Len(b.txs) = CompactAt(b.from + 88)
                      /\ Tiles(b.txs, b.from + 88 + CompactWidth(b.from + 88), b.to)
    BY DEF TransactionsTile
  <2> DEFINE b == blocks[i]
             p == b.from + 88
  <2>1. BlockDone(File, b)
    BY DEF Layout
  <2> HIDE DEF b
  <2>2. CountIs(File, p, b.txCount) /\ Chained(b.txs, After(File, p)) /\ HeaderRead(b)
        /\ Len(b.txs) = b.txCount /\ b.to = EndOf(b.txs, After(File, p))
    BY <2>1 DEF BlockDone, TxsRead, TxsFrom, TxsEnd
  <2> HIDE DEF p
  <2>3. CompactAt(p) = b.txCount /\ p + CompactWidth(p) = After(File, p)
    BY <2>2, CountsOfFile DEF CountIs
  <2>4. Len(b.txs) = CompactAt(p) /\ Tiles(b.txs, p + CompactWidth(p), b.to)
    BY <2>2, <2>3 DEF Chained
  <2> QED BY <2>2, <2>4 DEF HeaderRead, b, p
<1> QED BY <1>1, LayoutInvariance, PTL

LEMMA PartsOfTransaction ==
    ASSUME NEW t, AllRead(File, t)
    PROVE  /\ OutputsFrom(t) = InputsEnd(File, t)
           /\ WitnessFrom(t) = OutputsEnd(File, t)
           /\ InputsFrom(t) + CompactWidth(InputsFrom(t)) = After(File, InputsFrom(t))
           /\ OutputsFrom(t) + CompactWidth(OutputsFrom(t)) = After(File, OutputsFrom(t))
           /\ CompactAt(InputsFrom(t)) = t.inCount
           /\ CompactAt(OutputsFrom(t)) = t.outCount
<1>1. CountIs(File, InputsFrom(t), t.inCount) /\ CountIs(File, InputsEnd(File, t), t.outCount)
  BY DEF AllRead, StacksRead, OutputsRead, InputsRead
<1>2. /\ InputsFrom(t) + CompactWidth(InputsFrom(t)) = After(File, InputsFrom(t))
      /\ CompactAt(InputsFrom(t)) = t.inCount
  BY <1>1, CountsOfFile DEF CountIs
<1>3. OutputsFrom(t) = InputsEnd(File, t)
  BY <1>2 DEF OutputsFrom, InputsEnd, EndOf
<1>4. /\ OutputsFrom(t) + CompactWidth(OutputsFrom(t)) = After(File, OutputsFrom(t))
      /\ CompactAt(OutputsFrom(t)) = t.outCount
  BY <1>1, <1>3, CountsOfFile DEF CountIs
<1>5. WitnessFrom(t) = OutputsEnd(File, t)
  BY <1>3, <1>4 DEF WitnessFrom, OutputsEnd, EndOf
<1> QED BY <1>2, <1>3, <1>4, <1>5

(* Every part of a transaction ends somewhere.                             *)
LEMMA AfterIsInteger ==
    ASSUME NEW f, NEW p \in Int, NEW v, CountIs(f, p, v)
    PROVE  After(f, p) \in Int
<1>1. WidthAt(f, p) \in {1, 3, 5, 9}
  BY CompactNat DEF CountIs, WidthAt
<1> QED BY <1>1 DEF After

LEMMA EndsAreIntegers ==
    ASSUME NEW f, NEW t \in TxType, AllRead(f, t)
    PROVE  StacksEnd(f, t) \in Int
<1>1. /\ t.vin \in Seq(TxInType) /\ t.vout \in Seq(TxInType) /\ t.witnesses \in Seq(WitnessType)
      /\ InputsFrom(t) \in Int
  BY DEF TxType, InputsFrom
<1>2. \A segs, p : segs \in Seq(TxInType) /\ p \in Int => EndOf(segs, p) \in Int
  <2> SUFFICES ASSUME NEW segs \in Seq(TxInType), NEW p \in Int, segs # <<>>
               PROVE  segs[Len(segs)].to \in Int
    BY DEF EndOf
  <2>1. segs[Len(segs)] \in TxInType
    BY EmptySeq, ElementOfSeq
  <2> QED BY <2>1 DEF TxInType
<1>3. \A segs, p : segs \in Seq(WitnessType) /\ p \in Int => EndOf(segs, p) \in Int
  <2> SUFFICES ASSUME NEW segs \in Seq(WitnessType), NEW p \in Int, segs # <<>>
               PROVE  segs[Len(segs)].to \in Int
    BY DEF EndOf
  <2>1. segs[Len(segs)] \in WitnessType
    BY EmptySeq, ElementOfSeq
  <2> QED BY <2>1 DEF WitnessType
<1>4. CountIs(f, InputsFrom(t), t.inCount) /\ CountIs(f, InputsEnd(f, t), t.outCount)
  BY DEF AllRead, StacksRead, OutputsRead, InputsRead
<1>5. InputsEnd(f, t) \in Int
  BY <1>1, <1>2, <1>4, AfterIsInteger DEF InputsEnd
<1>6. OutputsEnd(f, t) \in Int
  BY <1>1, <1>2, <1>4, <1>5, AfterIsInteger DEF OutputsEnd
<1> QED BY <1>1, <1>3, <1>6 DEF StacksEnd

(* The transactions of the returned blocks, typed and read whole.          *)
LEMMA ReturnedTransaction ==
    ASSUME IInv, Layout, NEW i \in 1 .. Len(blocks), NEW j \in 1 .. Len(blocks[i].txs)
    PROVE  blocks[i].txs[j] \in TxType /\ TxDone(File, blocks[i].txs[j])
<1>1. blocks \in Seq(BlockType)
  BY DEF IInv, TypeOK
<1>2. blocks[i] \in BlockType
  BY <1>1, ElementOfSeq
<1>3. blocks[i].txs \in Seq(TxType)
  BY <1>2 DEF BlockType
<1>4. blocks[i].txs[j] \in TxType
  BY <1>3, ElementOfSeq
<1>5. BlockDone(File, blocks[i])
  BY DEF Layout
<1> QED BY <1>4, <1>5 DEF BlockDone, TxsRead

(* The counts, inputs, outputs, witness stacks and lock time of every      *)
(* transaction of a returned block tile it: neither the search for the     *)
(* segwit flag nor the second reading for the hash loses or repeats a byte *)
(* of it.                                                                  *)
THEOREM TransactionsAreTiledByFields == Spec => []FieldsTile
<1>1. IInv /\ Layout => FieldsTile
  <2> SUFFICES ASSUME IInv, Layout, NEW i \in 1 .. Len(blocks),
                      NEW j \in 1 .. Len(blocks[i].txs)
               PROVE  LET t == blocks[i].txs[j] IN
                      /\ t.segwit = (PlainAt(reader, t.from + 4, 2) = SegwitFlag)
                      /\ Len(t.vin) = CompactAt(InputsFrom(t))
                      /\ Tiles(t.vin, InputsFrom(t) + CompactWidth(InputsFrom(t)), OutputsFrom(t))
                      /\ Len(t.vout) = CompactAt(OutputsFrom(t))
                      /\ Tiles(t.vout, OutputsFrom(t) + CompactWidth(OutputsFrom(t)), WitnessFrom(t))
                      /\ Len(t.witnesses) = IF t.segwit THEN Len(t.vin) ELSE 0
                      /\ Tiles(t.witnesses, WitnessFrom(t), t.to - 4)
    BY DEF FieldsTile
  <2> DEFINE t == blocks[i].txs[j]
  <2>1. t \in TxType /\ TxDone(File, t)
    BY ReturnedTransaction
  <2> HIDE DEF t
  <2>2. /\ OutputsFrom(t) = InputsEnd(File, t)
        /\ WitnessFrom(t) = OutputsEnd(File, t)
        /\ InputsFrom(t) + CompactWidth(InputsFrom(t)) = After(File, InputsFrom(t))
        /\ OutputsFrom(t) + CompactWidth(OutputsFrom(t)) = After(File, OutputsFrom(t))
        /\ CompactAt(InputsFrom(t)) = t.inCount
        /\ CompactAt(OutputsFrom(t)) = t.outCount
    BY <2>1, PartsOfTransaction DEF TxDone
  <2>3. /\ FlagRead(File, t)
        /\ Len(t.vin) = t.inCount /\ Chained(t.vin, After(File, InputsFrom(t)))
        /\ Len(t.vout) = t.outCount /\ Chained(t.vout, After(File, InputsEnd(File, t)))
        /\ Len(t.witnesses) = IF t.segwit THEN Len(t.vin) ELSE 0
        /\ Chained(t.witnesses, OutputsEnd(File, t))
        /\ t.to = StacksEnd(File, t) + 4
    BY <2>1 DEF TxDone, AllRead, StacksRead, OutputsRead, InputsRead
  <2>4. t.segwit = (PlainAt(reader, t.from + 4, 2) = SegwitFlag)
    BY <2>3, ReadAtFile DEF FlagRead, File
  <2>5. Tiles(t.vin, InputsFrom(t) + CompactWidth(InputsFrom(t)), OutputsFrom(t))
    BY <2>2, <2>3 DEF Chained, InputsEnd
  <2>6. Tiles(t.vout, OutputsFrom(t) + CompactWidth(OutputsFrom(t)), WitnessFrom(t))
    BY <2>2, <2>3 DEF Chained, OutputsEnd
  <2>7. StacksEnd(File, t) = t.to - 4
    BY <2>1, <2>3, EndsAreIntegers DEF TxDone
  <2>8. Tiles(t.witnesses, WitnessFrom(t), t.to - 4)
    BY <2>2, <2>3, <2>7 DEF Chained, StacksEnd
  <2> QED BY <2>2, <2>3, <2>4, <2>5, <2>6, <2>8 DEF t
<1> QED BY <1>1, Invariance, LayoutInvariance, PTL

(* Every script and every witness item is exactly as long as the           *)
(* CompactSize in front of it says, and lies where the layout of its       *)
(* record puts it.                                                         *)
THEOREM PayloadsHaveTheirLengths == Spec => []PayloadsExact
<1>1. IInv /\ Layout => PayloadsExact
  <2> SUFFICES ASSUME IInv, Layout, NEW i \in 1 .. Len(blocks),
                      NEW j \in 1 .. Len(blocks[i].txs)
               PROVE  LET t == blocks[i].txs[j] IN
                      /\ \A k \in 1 .. Len(t.vin) : LET in == t.vin[k] IN
                            Prefixed(in.script, in.from + 36) /\ in.to = in.script.to + 4
                      /\ \A k \in 1 .. Len(t.vout) : LET out == t.vout[k] IN
                            Prefixed(out.script, out.from + 8) /\ out.to = out.script.to
                      /\ \A k \in 1 .. Len(t.witnesses) : LET w == t.witnesses[k] IN
                            /\ Len(w.items) = CompactAt(w.from)
                            /\ \A n \in 1 .. Len(w.items) :
                                  Prefixed(w.items[n], IF n = 1 THEN w.from + CompactWidth(w.from)
                                                       ELSE w.items[n - 1].to)
                            /\ w.to = IF w.items = <<>> THEN w.from + CompactWidth(w.from)
                                      ELSE w.items[Len(w.items)].to
    BY DEF PayloadsExact
  <2> DEFINE t == blocks[i].txs[j]
  <2>1. AllRead(File, t)
    BY ReturnedTransaction DEF TxDone
  <2> HIDE DEF t
  <2>2. ASSUME NEW k \in 1 .. Len(t.vin)
        PROVE  /\ Prefixed(t.vin[k].script, t.vin[k].from + 36)
               /\ t.vin[k].to = t.vin[k].script.to + 4
    <3>1. InputExact(File, t.vin[k])
      BY <2>1 DEF AllRead, StacksRead, OutputsRead, InputsRead
    <3> QED BY <3>1, PayloadIsPrefixed DEF InputExact
  <2>3. ASSUME NEW k \in 1 .. Len(t.vout)
        PROVE  /\ Prefixed(t.vout[k].script, t.vout[k].from + 8)
               /\ t.vout[k].to = t.vout[k].script.to
    <3>1. OutputExact(File, t.vout[k])
      BY <2>1 DEF AllRead, StacksRead, OutputsRead
    <3> QED BY <3>1, PayloadIsPrefixed DEF OutputExact
  <2>4. ASSUME NEW k \in 1 .. Len(t.witnesses)
        PROVE  LET w == t.witnesses[k] IN
               /\ Len(w.items) = CompactAt(w.from)
               /\ \A n \in 1 .. Len(w.items) :
                     Prefixed(w.items[n], IF n = 1 THEN w.from + CompactWidth(w.from)
                                          ELSE w.items[n - 1].to)
               /\ w.to = IF w.items = <<>> THEN w.from + CompactWidth(w.from)
                         ELSE w.items[Len(w.items)].to
    <3> DEFINE w == t.witnesses[k]
    <3>1. ItemsExact(File, w) /\ Len(w.items) = w.count
      BY <2>1 DEF AllRead, Filled, StacksRead
    <3> HIDE DEF w
    <3>2. CompactAt(w.from) = w.count /\ w.from + CompactWidth(w.from) = After(File, w.from)
      BY <3>1, CountsOfFile DEF ItemsExact, CountIs
    <3>3. ASSUME NEW n \in 1 .. Len(w.items)
          PROVE  Prefixed(w.items[n], IF n = 1 THEN w.from + CompactWidth(w.from)
                                      ELSE w.items[n - 1].to)
      <4>1. PayloadAt(File, w.items[n], ItemsFrom(File, w, n))
        BY <3>1 DEF ItemsExact
      <4>2. Prefixed(w.items[n], ItemsFrom(File, w, n))
        BY <4>1, PayloadIsPrefixed
      <4> QED BY <3>2, <4>2 DEF ItemsFrom
    <3>4. w.to = IF w.items = <<>> THEN w.from + CompactWidth(w.from)
                 ELSE w.items[Len(w.items)].to
      BY <3>1, <3>2 DEF ItemsExact, EndOf
    <3> QED BY <3>1, <3>2, <3>3, <3>4 DEF w
  <2> QED BY <2>2, <2>3, <2>4 DEF t
<1> QED BY <1>1, Invariance, LayoutInvariance, PTL

-----------------------------------------------------------------------------
(* The parser and the grammar of its files: ReturnsTheBlocks, for every    *)
(* file, key and memory limit.                                             *)
(*                                                                         *)
(* The parser reads a file forward and knows how much it has read.  The    *)
(* grammar says where a part ends, from the place where it begins.  The    *)
(* invariant that joins them, ToCome, says at every function that what the *)
(* grammar has still to find of the part under way begins where the reader *)
(* stands: so each read takes from the grammar's part what it takes from   *)
(* the file, and a read that fails leaves the grammar without an end.      *)

-----------------------------------------------------------------------------
(* Repeating a part: the ends of the repetitions are one sequence. Numbers *)
(* are counted up by AllNaturals, which needs no operator.                 *)

LEMMA LeastOfSet ==
    ASSUME NEW T \in SUBSET Nat, T # {}
    PROVE  \E m \in T : \A k \in T : m <= k
<1> DEFINE R == {ss \in Nat \X Nat : ss[1] < ss[2]}
<1>1. IsWellFoundedOn(R, Nat)
  BY NatLessThanWellFounded DEF OpToRel
<1>2. PICK m \in T : \A k \in T : ~ (<<k, m>> \in R)
  <2> HIDE DEF R
  <2> QED BY <1>1, WFMin
<1>3. \A k \in T : k < m => <<k, m>> \in R
  OBVIOUS
<1> HIDE DEF R
<1>4. \A k \in T : ~ (k < m)
  BY <1>2, <1>3
<1> QED BY <1>4

(* A set of naturals that has 0 and with each number the next has all.     *)
LEMMA AllNaturals ==
    ASSUME NEW S, 0 \in S, \A n \in Nat : n \in S => n + 1 \in S
    PROVE  \A n \in Nat : n \in S
<1> SUFFICES ASSUME NEW n \in Nat, n \notin S PROVE FALSE
  OBVIOUS
<1> DEFINE T == {m \in Nat : m \notin S}
<1>1. T \in SUBSET Nat /\ T # {}
  OBVIOUS
<1>2. PICK m \in T : \A k \in T : m <= k
  <2> HIDE DEF T
  <2> QED BY <1>1, LeastOfSet
<1>3. m \in Nat /\ m \notin S /\ m # 0
  BY <1>2
<1>4. m - 1 \in Nat /\ (m - 1) + 1 = m
  BY <1>3
<1>5. m - 1 \in S
  <2>1. m - 1 \notin T
    <3> HIDE DEF T
    <3> QED BY <1>2, <1>4
  <2> QED BY <1>4, <2>1
<1> QED BY <1>3, <1>4, <1>5

(* Repeating a part n times: the function that Repeat is read off.         *)
IsRun(part, n, p, run) == run = [k \in 0 .. n |-> IF k = 0 THEN p ELSE part[run[k - 1]]]

LEMMA RunExists ==
    ASSUME NEW part, NEW p
    PROVE  \A n \in Nat : \E run : IsRun(part, n, p, run)
<1> DEFINE S == {n \in Nat : \E run : IsRun(part, n, p, run)}
<1>1. 0 \in S
  <2> DEFINE run == [k \in 0 .. 0 |-> p]
  <2>1. run = [k \in 0 .. 0 |-> IF k = 0 THEN p ELSE part[run[k - 1]]]
    OBVIOUS
  <2> QED BY <2>1 DEF IsRun
<1>2. ASSUME NEW n \in Nat, n \in S
      PROVE  n + 1 \in S
  <2>1. PICK run : IsRun(part, n, p, run)
    BY <1>2
  <2> DEFINE more == [k \in 0 .. n + 1 |-> IF k = n + 1 THEN part[run[n]] ELSE run[k]]
  <2>2. \A k \in 0 .. n : run[k] = IF k = 0 THEN p ELSE part[run[k - 1]]
    BY <2>1 DEF IsRun
  <2>3. ASSUME NEW k \in 0 .. n + 1
        PROVE  more[k] = IF k = 0 THEN p ELSE part[more[k - 1]]
    <3>1. CASE k = n + 1
      <4>1. k # 0 /\ k - 1 \in 0 .. n + 1 /\ k - 1 # n + 1 /\ k - 1 = n
        BY <3>1
      <4> QED BY <3>1, <4>1
    <3>2. CASE k # n + 1 /\ k # 0
      <4>1. k \in 0 .. n /\ k - 1 \in 0 .. n + 1 /\ k - 1 # n + 1
        BY <3>2
      <4> QED BY <2>2, <3>2, <4>1
    <3>3. CASE k = 0
      <4>1. k \in 0 .. n /\ k # n + 1
        BY <3>3
      <4> QED BY <2>2, <3>3, <4>1
    <3> QED BY <3>1, <3>2, <3>3
  <2>4. more = [k \in 0 .. n + 1 |-> more[k]]
    OBVIOUS
  <2> HIDE DEF more
  <2>5. more = [k \in 0 .. n + 1 |-> IF k = 0 THEN p ELSE part[more[k - 1]]]
    BY <2>3, <2>4, Zenon
  <2>6. \E r : IsRun(part, n + 1, p, r)
    BY <2>5 DEF IsRun
  <2>7. n + 1 \in Nat
    OBVIOUS
  <2> QED BY <2>6, <2>7
<1>3. \A n \in Nat : n \in S
  <2> HIDE DEF S
  <2> QED BY <1>1, <1>2, AllNaturals
<1> QED BY <1>3

LEMMA RunOfRepeat ==
    ASSUME NEW part, NEW p, NEW n \in Nat
    PROVE  \E run : IsRun(part, n, p, run) /\ Format!Repeat(part, n, p) = run[n]
<1> DEFINE run == CHOOSE r : IsRun(part, n, p, r)
<1>1. IsRun(part, n, p, run)
  <2>1. \E r : IsRun(part, n, p, r)
    BY RunExists
  <2> QED BY <2>1, Zenon
<1>2. Format!Repeat(part, n, p) = run[n]
  BY Zenon DEF Format!Repeat, IsRun
<1> QED BY <1>1, <1>2

(* Two runs from one place agree as far as both go.                        *)
LEMMA RunsAgree ==
    ASSUME NEW part, NEW p, NEW n \in Nat, NEW m \in Nat, NEW r, NEW q,
           IsRun(part, n, p, r), IsRun(part, m, p, q), m <= n
    PROVE  \A k \in 0 .. m : r[k] = q[k]
<1> DEFINE S == {k \in Nat : k <= m => r[k] = q[k]}
<1>1. /\ \A k \in 0 .. n : r[k] = IF k = 0 THEN p ELSE part[r[k - 1]]
      /\ \A k \in 0 .. m : q[k] = IF k = 0 THEN p ELSE part[q[k - 1]]
  BY DEF IsRun
<1>2. 0 \in S
  BY <1>1
<1>3. ASSUME NEW k \in Nat, k \in S
      PROVE  k + 1 \in S
  <2>1. k + 1 \in Nat /\ k + 1 # 0 /\ (k + 1) - 1 = k
    OBVIOUS
  <2>2. CASE k + 1 <= m
    <3>1. k + 1 \in 0 .. n /\ k + 1 \in 0 .. m /\ k <= m
      BY <2>2
    <3>2. r[k] = q[k]
      BY <1>3, <3>1
    <3> QED BY <1>1, <2>1, <3>1, <3>2
  <2>3. CASE ~(k + 1 <= m)
    BY <2>1, <2>3
  <2> QED BY <2>2, <2>3
<1>4. \A k \in Nat : k \in S
  <2> HIDE DEF S
  <2> QED BY <1>2, <1>3, AllNaturals
<1>5. \A k \in 0 .. m : k \in Nat /\ k <= m
  OBVIOUS
<1> QED BY <1>4, <1>5

(* None, and one more at the end.                                          *)
LEMMA RepeatBack ==
    ASSUME NEW part, NEW p
    PROVE  /\ Format!Repeat(part, 0, p) = p
           /\ \A n \in Nat :
                 Format!Repeat(part, n + 1, p) = part[Format!Repeat(part, n, p)]
<1>1. Format!Repeat(part, 0, p) = p
  <2>1. PICK run : IsRun(part, 0, p, run) /\ Format!Repeat(part, 0, p) = run[0]
    BY RunOfRepeat
  <2> QED BY <2>1 DEF IsRun
<1>2. ASSUME NEW n \in Nat
      PROVE  Format!Repeat(part, n + 1, p) = part[Format!Repeat(part, n, p)]
  <2>1. PICK q : IsRun(part, n, p, q) /\ Format!Repeat(part, n, p) = q[n]
    BY RunOfRepeat
  <2>2. n + 1 \in Nat /\ n <= n + 1 /\ n \in 0 .. n /\ n + 1 \in 0 .. n + 1
        /\ n + 1 # 0 /\ (n + 1) - 1 = n
    OBVIOUS
  <2>3. PICK r : IsRun(part, n + 1, p, r) /\ Format!Repeat(part, n + 1, p) = r[n + 1]
    BY <2>2, RunOfRepeat
  <2>4. r[n] = q[n]
    BY <2>1, <2>2, <2>3, RunsAgree
  <2>5. r[n + 1] = part[r[n]]
    BY <2>2, <2>3 DEF IsRun
  <2> QED BY <2>1, <2>3, <2>4, <2>5
<1> QED BY <1>1, <1>2

(* One more in front.                                                      *)
LEMMA RepeatFront ==
    ASSUME NEW part, NEW p
    PROVE  \A n \in Nat :
              Format!Repeat(part, n + 1, p) = Format!Repeat(part, n, part[p])
<1> DEFINE S == {n \in Nat : Format!Repeat(part, n + 1, p) = Format!Repeat(part, n, part[p])}
<1>1. 0 \in S
  <2>1. Format!Repeat(part, 0 + 1, p) = part[Format!Repeat(part, 0, p)]
    BY RepeatBack
  <2>2. Format!Repeat(part, 0, p) = p /\ Format!Repeat(part, 0, part[p]) = part[p]
    BY RepeatBack
  <2> QED BY <2>1, <2>2
<1>2. ASSUME NEW n \in Nat, n \in S
      PROVE  n + 1 \in S
  <2>1. n + 1 \in Nat
    OBVIOUS
  <2>2. Format!Repeat(part, (n + 1) + 1, p) = part[Format!Repeat(part, n + 1, p)]
    BY <2>1, RepeatBack
  <2>3. Format!Repeat(part, n + 1, part[p]) = part[Format!Repeat(part, n, part[p])]
    BY RepeatBack
  <2>4. Format!Repeat(part, n + 1, p) = Format!Repeat(part, n, part[p])
    BY <1>2
  <2> QED BY <2>1, <2>2, <2>3, <2>4
<1>3. \A n \in Nat : n \in S
  <2> HIDE DEF S
  <2> QED BY <1>1, <1>2, AllNaturals
<1> QED BY <1>3

(* What each part keeps, the repetition keeps.                             *)
LEMMA RepeatKeeps ==
    ASSUME NEW part, NEW D, \A x \in D : part[x] \in D, NEW p \in D
    PROVE  \A n \in Nat : Format!Repeat(part, n, p) \in D
<1> DEFINE S == {n \in Nat : Format!Repeat(part, n, p) \in D}
<1>1. 0 \in S
  BY RepeatBack
<1>2. ASSUME NEW n \in Nat, n \in S
      PROVE  n + 1 \in S
  <2>1. Format!Repeat(part, n + 1, p) = part[Format!Repeat(part, n, p)]
    BY RepeatBack
  <2>2. n + 1 \in Nat /\ Format!Repeat(part, n, p) \in D
    BY <1>2
  <2> QED BY <2>1, <2>2
<1>3. \A n \in Nat : n \in S
  <2> HIDE DEF S
  <2> QED BY <1>1, <1>2, AllNaturals
<1> QED BY <1>3

-----------------------------------------------------------------------------
(* Reading and the grammar: what the reader delivers at a place is what    *)
(* the grammar finds there, and where the grammar finds nothing, the read  *)
(* does not succeed.                                                       *)

(* How the grammar decodes an integer, and how the parser does.            *)
LEMMA NumbersAgree ==
    ASSUME NEW s \in Seq(Byte)
    PROVE  /\ Len(s) = 2 => Format!Number(s) = Le16(s)
           /\ Len(s) = 4 => Format!Number(s) = Le32(s)
           /\ Len(s) = 8 => Format!Number(s) = Le64(s)
<1>1. \A i \in 1 .. Len(s) : s[i] \in Byte
  BY ElementOfSeq
<1>2. Len(s) \in Nat
  OBVIOUS
<1>3. CASE Len(s) = 2
  <2>1. /\ Format!Digit(s, 1) = s[1] /\ Format!Digit(s, 2) = s[2]
        /\ Format!Digit(s, 3) = 0 /\ Format!Digit(s, 4) = 0
        /\ \A i \in 5 .. 8 : Format!Digit(s, i) = 0
    BY <1>3 DEF Format!Digit
  <2>2. s[1] \in Byte /\ s[2] \in Byte
    BY <1>1, <1>3
  <2>3. ~ (Format!Digit(s, 4) >= 64 \/ \E i \in 5 .. 8 : Format!Digit(s, i) # 0)
    BY <2>1
  <2>4. Format!Number(s) = Format!Digit(s, 1) + 256 * Format!Digit(s, 2)
                              + 65536 * Format!Digit(s, 3) + 16777216 * Format!Digit(s, 4)
    BY <2>3 DEF Format!Number
  <2>5. s[1] \in Int /\ s[2] \in Int
    <3>1. \A b \in Byte : b \in Int
      BY DEF Byte
    <3> QED BY <2>2, <3>1
  <2> QED BY <1>3, <2>1, <2>4, <2>5 DEF Le16
<1>4. CASE Len(s) = 4
  <2>1. /\ Format!Digit(s, 1) = s[1] /\ Format!Digit(s, 2) = s[2]
        /\ Format!Digit(s, 3) = s[3] /\ Format!Digit(s, 4) = s[4]
        /\ \A i \in 5 .. 8 : Format!Digit(s, i) = 0
    BY <1>4 DEF Format!Digit
  <2>2. s[1] \in Byte /\ s[2] \in Byte /\ s[3] \in Byte /\ s[4] \in Byte
    BY <1>1, <1>4
  <2> QED BY <1>4, <2>1, <2>2 DEF Format!Number, Format!Beyond, Huge, Le32, Le16, Byte
<1>5. CASE Len(s) = 8
  <2>1. \A i \in 1 .. 8 : Format!Digit(s, i) = s[i]
    BY <1>5 DEF Format!Digit
  <2>2. s[1] \in Byte /\ s[2] \in Byte /\ s[3] \in Byte /\ s[4] \in Byte
    BY <1>1, <1>5
  <2>3. CASE \E i \in 5 .. 8 : s[i] # 0
    BY <1>5, <2>1, <2>3 DEF Format!Number, Format!Beyond, Huge, Le64
  <2>4. CASE ~ \E i \in 5 .. 8 : s[i] # 0
    <3>1. \A i \in 5 .. 8 : Format!Digit(s, i) = 0
      BY <2>1, <2>4
    <3> QED BY <1>5, <2>1, <2>2, <2>4, <3>1
            DEF Format!Number, Format!Beyond, Huge, Le64, Le32, Le16, Byte
  <2> QED BY <2>3, <2>4
<1> QED BY <1>3, <1>4, <1>5

(* The plain bytes of a reader's file.                                     *)
LEMMA PlainBytes ==
    ASSUME NEW r \in ReaderType
    PROVE  Plain(r) \in Seq(Byte) /\ Len(Plain(r)) = Len(r.disk) /\ Len(r.disk) \in Nat
BY ReaderFields, DeobfuscateIsBytes DEF Plain

LEMMA PlainOfFile ==
    ASSUME NEW r, NEW q, q.disk = r.disk, q.key = r.key
    PROVE  Plain(q) = Plain(r)
BY DEF Plain

LEMMA WideIsTail ==
    ASSUME NEW b \in Byte
    PROVE  /\ Format!Wide(b) = CompactTail(b)
           /\ Format!Wide(b) \in {0, 2, 4, 8}
           /\ Format!Wide(b) = 0 <=> b < 253
<1>1. CASE b < 253
  BY <1>1 DEF Format!Wide, CompactTail, Byte
<1>2. CASE b = 253
  BY <1>2 DEF Format!Wide, CompactTail, Byte
<1>3. CASE b = 254
  BY <1>3 DEF Format!Wide, CompactTail, Byte
<1>4. CASE b = 255
  BY <1>4 DEF Format!Wide, CompactTail, Byte
<1> QED BY <1>1, <1>2, <1>3, <1>4 DEF Byte

LEMMA TailTells ==
    ASSUME NEW b \in Byte
    PROVE  /\ CompactTail(b) = 2 => b = 253
           /\ CompactTail(b) = 4 => b = 254
           /\ CompactTail(b) = 8 => b = 255
           /\ b < 253 => \A t : CompactValue(b, t) = b
<1>1. CASE b < 253
  BY <1>1 DEF CompactTail, CompactValue, Byte
<1>2. CASE b = 253
  BY <1>2 DEF CompactTail, Byte
<1>3. CASE b = 254
  BY <1>3 DEF CompactTail, Byte
<1>4. CASE b = 255
  BY <1>4 DEF CompactTail, Byte
<1> QED BY <1>1, <1>2, <1>3, <1>4 DEF Byte

LEMMA CountsAgree ==
    ASSUME NEW r \in ReaderType, NEW p \in Nat, p + WidthAt(r, p) <= Len(r.disk),
           p + 1 <= Len(r.disk)
    PROVE  Format!Count(Plain(r), p) = ValueAt(r, p)
<1> DEFINE b == FirstAt(r, p)
           k == CompactTail(b)
           s == PlainAt(r, p + 1, k)
<1>1. b \in Byte /\ b = Plain(r)[p + 1]
  BY CompactAtNat, FirstByte
<1>2. Format!Wide(b) = k /\ k \in {0, 2, 4, 8} /\ (k = 0 <=> b < 253)
  BY <1>1, WideIsTail
<1>3. ValueAt(r, p) = CompactValue(b, s)
  BY DEF ValueAt
<1>4. p + 1 + k <= Len(r.disk)
  BY <1>2 DEF WidthAt
<1> HIDE DEF b
<1>5. CASE k = 0
  <2>1. b < 253
    BY <1>2, <1>5
  <2> HIDE DEF s
  <2>2. CompactValue(b, s) = b
    BY <1>1, <2>1, TailTells
  <2>3. Format!Count(Plain(r), p) = b
    BY <1>1, <1>2, <1>5 DEF Format!Count
  <2> QED BY <1>3, <2>2, <2>3
<1>6. CASE k # 0
  <2>1. p + 1 \in Nat /\ k \in Nat /\ (p + 1) + 1 = p + 2 /\ (p + 1) + k = p + 1 + k
    BY <1>2
  <2> HIDE DEF k, s
  <2>2. s = SubSeq(Plain(r), p + 2, p + 1 + k) /\ s \in Seq(Byte) /\ Len(s) = k
    BY <1>4, <2>1, PlainAtIsSubSeq DEF s
  <2>3. Format!Count(Plain(r), p) = Format!Number(s)
    BY <1>1, <1>2, <1>6, <2>2 DEF Format!Count
  <2>4. CASE k = 2
    <3>1. b = 253
      BY <1>1, <2>4, TailTells DEF k
    <3>2. CompactValue(b, s) = Le16(s)
      BY <3>1 DEF CompactValue
    <3> QED BY <1>3, <2>2, <2>3, <2>4, <3>2, NumbersAgree
  <2>5. CASE k = 4
    <3>1. b = 254
      BY <1>1, <2>5, TailTells DEF k
    <3>2. CompactValue(b, s) = Le32(s)
      BY <3>1 DEF CompactValue
    <3> QED BY <1>3, <2>2, <2>3, <2>5, <3>2, NumbersAgree
  <2>6. CASE k = 8
    <3>1. b = 255
      BY <1>1, <2>6, TailTells DEF k
    <3>2. CompactValue(b, s) = Le64(s)
      BY <3>1 DEF CompactValue
    <3> QED BY <1>3, <2>2, <2>3, <2>6, <3>2, NumbersAgree
  <2> QED BY <1>2, <1>6, <2>4, <2>5, <2>6
<1> QED BY <1>5, <1>6
-----------------------------------------------------------------------------
(* Where a chain of reads has come to, in the words of the grammar.        *)
Place(res) == IF res.status = "ok" THEN res.reader.mpos ELSE Format!Nowhere

LEMMA PlaceRead ==
    ASSUME NEW r, Usable(r), NEW n \in Nat
    PROVE  Place(ReadData(r, n)) =
              IF n <= AllocLimit THEN Format!Skip(Plain(r), r.mpos, n) ELSE Format!Nowhere
<1> DEFINE res == ReadData(r, n)
<1>1. ReadDataGives(r, n, res)
  BY ReadDataSound DEF Usable
<1>2. /\ r \in ReaderType /\ r.mpos \in Nat /\ Len(r.disk) \in Nat /\ r.fail = FALSE
      /\ Len(Plain(r)) = Len(r.disk) /\ AllocLimit \in Nat /\ AllocLimit >= 80
      /\ r.mpos <= Len(r.disk)
  <2>1. /\ r \in ReaderType /\ r.mpos \in Nat /\ Len(r.disk) \in Nat /\ r.fail = FALSE
        /\ r.mpos <= Len(r.disk)
    BY UsableFields DEF Usable
  <2> QED BY <2>1, PlainBytes, AllocLimitAssumption
<1>3. CASE n > AllocLimit
  <2>1. res.status = "thrown"
    BY <1>2, <1>3 DEF ReadData, Result
  <2> QED BY <1>2, <1>3, <2>1 DEF Place
<1>4. CASE n <= AllocLimit
  <2> HIDE DEF res
  <2>1. CASE res.status = "ok"
    <3>1. res.reader.mpos = r.mpos + n /\ r.mpos + n <= Len(r.disk)
      BY <1>1, <1>2, <2>1 DEF ReadDataGives
    <3>2. Format!Skip(Plain(r), r.mpos, n) = r.mpos + n
      BY <1>2, <3>1 DEF Format!Skip, Format!Nowhere
    <3> QED BY <1>4, <2>1, <3>1, <3>2 DEF Place, res
  <2>2. CASE res.status # "ok"
    <3>1. r.mpos + n > Len(r.disk)
      BY <1>1, <1>2, <1>4, <2>2 DEF ReadDataGives
    <3>2. Format!Skip(Plain(r), r.mpos, n) = Format!Nowhere
      BY <1>2, <3>1 DEF Format!Skip
    <3> QED BY <1>4, <2>2, <3>2 DEF Place, res
  <2> QED BY <2>1, <2>2
<1> QED BY <1>2, <1>3, <1>4

LEMMA PlaceThen ==
    ASSUME NEW r, NEW one, Chain(r, one), NEW n \in 1 .. 80
    PROVE  Place(Then(one, n)) = Format!Skip(Plain(r), Place(one), n)
<1>1. CASE one.status = "ok"
  <2>1. Usable(one.reader) /\ one.reader.disk = r.disk /\ one.reader.key = r.key
    BY <1>1 DEF Chain
  <2>2. Then(one, n) = ReadData(one.reader, n) /\ Place(one) = one.reader.mpos
    BY <1>1 DEF Then, Place
  <2>3. Plain(one.reader) = Plain(r)
    BY <2>1, PlainOfFile
  <2>4. n \in Nat /\ n <= AllocLimit
    BY AllocLimitAssumption
  <2> QED BY <2>1, <2>2, <2>3, <2>4, PlaceRead
<1>2. CASE one.status # "ok"
  <2>1. Place(Then(one, n)) = Format!Nowhere /\ Place(one) = Format!Nowhere
    BY <1>2 DEF Then, Place
  <2> QED BY <2>1 DEF Format!Skip
<1> QED BY <1>1, <1>2

LEMMA PlaceArray32 ==
    ASSUME NEW r, Usable(r)
    PROVE  Place(ReadArray32(r)) = Format!Skip(Plain(r), r.mpos, 32)
<1>1. Chain(r, ReadData(r, 32))
  BY ChainRead
<1>2. ReadArray32(r) = [ReadData(r, 32) EXCEPT !.data = Reversed(ReadData(r, 32).data)]
  BY DEF ReadArray32
<1>3. Place(ReadArray32(r)) = Place(ReadData(r, 32))
  BY <1>1, <1>2 DEF Chain, Result, Place
<1>4. 32 <= AllocLimit
  BY AllocLimitAssumption
<1> QED BY <1>3, <1>4, PlaceRead

LEMMA PlaceCount ==
    ASSUME NEW r, Usable(r)
    PROVE  LET res == ReadCompactSize(r) IN
           /\ Place(res) = Format!CountEnd(Plain(r), r.mpos)
           /\ res.status = "ok" => res.data = Format!Count(Plain(r), r.mpos)
<1> DEFINE res == ReadCompactSize(r)
<1>1. /\ res.status \in {"ok", "FileReadingFailure"}
      /\ res.status = "FileReadingFailure" =>
            \/ r.fail \/ r.mpos + 1 > Len(r.disk)
            \/ /\ r.mpos + 1 <= Len(r.disk)
               /\ r.mpos + WidthAt(r, r.mpos) > Len(r.disk)
      /\ res.status = "ok" =>
            /\ r.mpos + 1 <= Len(r.disk)
            /\ r.mpos + WidthAt(r, r.mpos) <= Len(r.disk)
            /\ res.reader.mpos = r.mpos + WidthAt(r, r.mpos)
            /\ res.data = ValueAt(r, r.mpos)
  BY ReadCompactSizeSound DEF Usable
<1>2. /\ r \in ReaderType /\ r.mpos \in Nat /\ Len(r.disk) \in Nat /\ r.fail = FALSE
      /\ Len(Plain(r)) = Len(r.disk) /\ r.mpos # Format!Nowhere
  <2>1. r \in ReaderType /\ r.mpos \in Nat /\ Len(r.disk) \in Nat /\ r.fail = FALSE
    BY UsableFields
  <2> QED BY <2>1, PlainBytes DEF Format!Nowhere
<1> HIDE DEF res
<1>3. ASSUME r.mpos + 1 <= Len(r.disk)
      PROVE  /\ Format!CountEnd(Plain(r), r.mpos) =
                   Format!Skip(Plain(r), r.mpos, WidthAt(r, r.mpos))
             /\ WidthAt(r, r.mpos) \in Nat
  <2>1. Format!Skip(Plain(r), r.mpos, 1) = r.mpos + 1 /\ r.mpos + 1 # Format!Nowhere
    BY <1>2, <1>3 DEF Format!Skip, Format!Nowhere
  <2>2. FirstAt(r, r.mpos) \in Byte /\ FirstAt(r, r.mpos) = Plain(r)[r.mpos + 1]
    BY <1>2, <1>3, CompactAtNat, FirstByte
  <2>3. 1 + Format!Wide(Plain(r)[r.mpos + 1]) = WidthAt(r, r.mpos)
    BY <2>2, WideIsTail DEF WidthAt
  <2>4. WidthAt(r, r.mpos) \in Nat
    BY <1>2, <1>3, CompactAtNat
  <2> QED BY <2>1, <2>3, <2>4 DEF Format!CountEnd
<1>4. CASE res.status = "ok"
  <2>1. Format!CountEnd(Plain(r), r.mpos) = r.mpos + WidthAt(r, r.mpos)
    BY <1>1, <1>2, <1>3, <1>4 DEF Format!Skip
  <2>2. Place(res) = r.mpos + WidthAt(r, r.mpos)
    BY <1>1, <1>4 DEF Place
  <2>3. res.data = Format!Count(Plain(r), r.mpos)
    BY <1>1, <1>2, <1>4, CountsAgree
  <2> QED BY <2>1, <2>2, <2>3 DEF res
<1>5. CASE res.status = "FileReadingFailure"
  <2>1. Place(res) = Format!Nowhere
    BY <1>5 DEF Place
  <2>2. CASE r.mpos + 1 > Len(r.disk)
    <3>1. Format!Skip(Plain(r), r.mpos, 1) = Format!Nowhere
      BY <1>2, <2>2 DEF Format!Skip
    <3> QED BY <1>5, <2>1, <3>1 DEF Format!CountEnd, res
  <2>3. CASE r.mpos + 1 <= Len(r.disk) /\ r.mpos + WidthAt(r, r.mpos) > Len(r.disk)
    <3>1. Format!Skip(Plain(r), r.mpos, WidthAt(r, r.mpos)) = Format!Nowhere
      BY <1>2, <1>3, <2>3 DEF Format!Skip
    <3> QED BY <1>3, <1>5, <2>1, <2>3, <3>1 DEF res
  <2> QED BY <1>1, <1>2, <1>5, <2>2, <2>3
<1> QED BY <1>1, <1>4, <1>5

(* A length and the bytes it announces, behind a chain of reads.           *)
LEMMA PlaceText ==
    ASSUME NEW r, NEW one, Chain(r, one), NEW length, length = ThenCompactSize(one)
    PROVE  Place(Then(length, length.data)) = Format!Text(Plain(r), Place(one))
<1>1. CASE one.status # "ok"
  <2>1. length = one /\ Then(length, length.data) = one
    BY <1>1 DEF ThenCompactSize, Then
  <2>2. Place(one) = Format!Nowhere
    BY <1>1 DEF Place
  <2>3. Format!CountEnd(Plain(r), Format!Nowhere) = Format!Nowhere
    BY DEF Format!CountEnd, Format!Skip
  <2> QED BY <2>1, <2>2, <2>3 DEF Format!Text, Format!Counted
<1>2. CASE one.status = "ok"
  <2> DEFINE q == one.reader
  <2>1. Usable(q) /\ q.disk = r.disk /\ q.key = r.key /\ Place(one) = q.mpos
    BY <1>2 DEF Chain, Place
  <2>2. Plain(q) = Plain(r)
    BY <2>1, PlainOfFile
  <2>3. length = ReadCompactSize(q)
    BY <1>2 DEF ThenCompactSize
  <2> HIDE DEF q
  <2>4. /\ Place(length) = Format!CountEnd(Plain(r), q.mpos)
        /\ length.status = "ok" => length.data = Format!Count(Plain(r), q.mpos)
    BY <2>1, <2>2, <2>3, PlaceCount
  <2>5. /\ Chain(q, length)
        /\ length.status = "ok" => length.data \in Nat
    BY <2>1, <2>3, ChainCompactSize
  <2>6. CASE length.status # "ok"
    <3>1. Then(length, length.data) = length /\ Place(length) = Format!Nowhere
      BY <2>6 DEF Then, Place
    <3> QED BY <2>1, <2>4, <3>1 DEF Format!Text, Format!Counted
  <2>7. CASE length.status = "ok"
    <3>1. /\ Usable(length.reader) /\ length.data \in Nat /\ Plain(length.reader) = Plain(r)
          /\ Place(length) = length.reader.mpos /\ length.reader.mpos \in Nat
      BY <2>1, <2>5, <2>7, PlainOfFile, UsableFields DEF Chain, Place
    <3>2. Then(length, length.data) = ReadData(length.reader, length.data)
      BY <2>7 DEF Then
    <3>3. Place(Then(length, length.data)) =
             IF length.data <= AllocLimit
             THEN Format!Skip(Plain(r), length.reader.mpos, length.data) ELSE Format!Nowhere
      BY <3>1, <3>2, PlaceRead
    <3>4. Format!CountEnd(Plain(r), q.mpos) # Format!Nowhere
      BY <2>4, <3>1 DEF Format!Nowhere
    <3> QED BY <2>1, <2>4, <2>7, <3>1, <3>3, <3>4 DEF Format!Text, Format!Counted
  <2> QED BY <2>6, <2>7
<1> QED BY <1>1, <1>2

(* Where there is nothing there is nothing behind it.                      *)
LEMMA NothingFollows ==
    ASSUME NEW f
    PROVE  /\ \A n : Format!Skip(f, Format!Nowhere, n) = Format!Nowhere
           /\ Format!CountEnd(f, Format!Nowhere) = Format!Nowhere
           /\ Format!Text(f, Format!Nowhere) = Format!Nowhere
           /\ \A part : Format!List(f, part, Format!Nowhere) = Format!Nowhere
<1>1. \A n : Format!Skip(f, Format!Nowhere, n) = Format!Nowhere
  BY DEF Format!Skip
<1>2. Format!CountEnd(f, Format!Nowhere) = Format!Nowhere
  BY <1>1, Zenon DEF Format!CountEnd
<1>3. ~ Format!Counted(f, Format!Nowhere)
  BY <1>2, Zenon DEF Format!Counted
<1> QED BY <1>1, <1>2, <1>3, Zenon DEF Format!Text, Format!List

(* The parts as functions.                                                 *)
LEMMA PartsAt ==
    ASSUME NEW f, NEW p \in Format!Places(f)
    PROVE  /\ Format!Input(f)[p] = Format!Skip(f, Format!Text(f, Format!Skip(f, p, 36)), 4)
           /\ Format!Output(f)[p] = Format!Text(f, Format!Skip(f, p, 8))
           /\ Format!Item(f)[p] = Format!Text(f, p)
           /\ Format!Stack(f)[p] = Format!List(f, Format!Item(f), p)
           /\ Format!Transaction(f)[p] =
                 LET end == Format!Skip(f, Format!Stacks(f, p), 4)
                 IN  IF end - p <= AllocLimit THEN end ELSE Format!Nowhere
<1>1. Format!Input(f)[p] = Format!Skip(f, Format!Text(f, Format!Skip(f, p, 36)), 4)
  BY Zenon DEF Format!Input
<1>2. Format!Output(f)[p] = Format!Text(f, Format!Skip(f, p, 8))
  BY Zenon DEF Format!Output
<1>3. Format!Item(f)[p] = Format!Text(f, p)
  BY Zenon DEF Format!Item
<1>4. Format!Stack(f)[p] = Format!List(f, Format!Item(f), p)
  BY Zenon DEF Format!Stack
<1>5. Format!Transaction(f)[p] =
         LET end == Format!Skip(f, Format!Stacks(f, p), 4)
         IN  IF end - p <= AllocLimit THEN end ELSE Format!Nowhere
  BY Zenon DEF Format!Transaction
<1> QED BY <1>1, <1>2, <1>3, <1>4, <1>5

LEMMA SkipTwice ==
    ASSUME NEW f, NEW p, p \in Nat \/ p = Format!Nowhere, NEW a \in Nat, NEW b \in Nat,
           Len(f) \in Nat
    PROVE  Format!Skip(f, Format!Skip(f, p, a), b) = Format!Skip(f, p, a + b)
<1>1. CASE p = Format!Nowhere
  BY <1>1, NothingFollows
<1>2. CASE p \in Nat /\ p + a <= Len(f)
  <2>1. Format!Skip(f, p, a) = p + a /\ p + a \in Nat /\ p # Format!Nowhere
        /\ p + a # Format!Nowhere
    BY <1>2 DEF Format!Skip, Format!Nowhere
  <2>2. (p + a) + b = p + (a + b)
    BY <1>2
  <2> QED BY <2>1, <2>2 DEF Format!Skip
<1>3. CASE p \in Nat /\ ~(p + a <= Len(f))
  <2>1. Format!Skip(f, p, a) = Format!Nowhere
    BY <1>3 DEF Format!Skip
  <2>2. ~(p + (a + b) <= Len(f))
    BY <1>3
  <2>3. Format!Skip(f, p, a + b) = Format!Nowhere
    BY <2>2 DEF Format!Skip
  <2> QED BY <2>1, <2>3, NothingFollows
<1> QED BY <1>1, <1>2, <1>3

(* No end of parts is found behind Nowhere.                                *)
LEMMA NowherePart ==
    ASSUME NEW f
    PROVE  /\ Format!Input(f)[Format!Nowhere] = Format!Nowhere
           /\ Format!Output(f)[Format!Nowhere] = Format!Nowhere
           /\ Format!Item(f)[Format!Nowhere] = Format!Nowhere
           /\ Format!Stack(f)[Format!Nowhere] = Format!Nowhere
           /\ Format!Transaction(f)[Format!Nowhere] = Format!Nowhere
<1> DEFINE p == Format!Nowhere
<1>0. p \in Format!Places(f)
  BY Zenon DEF Format!Places
<1>1. Format!Begin(f, p) = p
  BY NothingFollows DEF Format!Begin
<1>2. Format!Inputs(f, p) = p
  BY <1>1, NothingFollows DEF Format!Inputs
<1>3. Format!Outputs(f, p) = p
  BY <1>2, NothingFollows DEF Format!Outputs
<1>4. Format!Stacks(f, p) = p
  BY <1>3 DEF Format!Stacks
<1>5. /\ Format!Skip(f, Format!Text(f, Format!Skip(f, p, 36)), 4) = p
      /\ Format!Text(f, Format!Skip(f, p, 8)) = p /\ Format!Text(f, p) = p
      /\ Format!List(f, Format!Item(f), p) = p
      /\ Format!Skip(f, Format!Stacks(f, p), 4) = p
  <2>1. \A n : Format!Skip(f, p, n) = p
    BY NothingFollows
  <2>2. Format!Text(f, p) = p /\ \A part : Format!List(f, part, p) = p
    BY NothingFollows
  <2> HIDE DEF p
  <2> QED BY <1>4, <2>1, <2>2
<1>6. /\ Format!Input(f)[p] = Format!Skip(f, Format!Text(f, Format!Skip(f, p, 36)), 4)
      /\ Format!Output(f)[p] = Format!Text(f, Format!Skip(f, p, 8))
      /\ Format!Item(f)[p] = Format!Text(f, p)
      /\ Format!Stack(f)[p] = Format!List(f, Format!Item(f), p)
      /\ Format!Transaction(f)[p] =
            LET end == Format!Skip(f, Format!Stacks(f, p), 4)
            IN  IF end - p <= AllocLimit THEN end ELSE p
  BY <1>0, PartsAt
<1> HIDE DEF p
<1>7. /\ Format!Input(f)[p] = p /\ Format!Output(f)[p] = p /\ Format!Item(f)[p] = p
      /\ Format!Stack(f)[p] = p /\ Format!Transaction(f)[p] = p
  BY <1>5, <1>6
<1> QED BY <1>7 DEF p

LEMMA RepeatNowhere ==
    ASSUME NEW part, part[Format!Nowhere] = Format!Nowhere, NEW n \in Nat
    PROVE  Format!Repeat(part, n, Format!Nowhere) = Format!Nowhere
<1> DEFINE D == {Format!Nowhere}
<1>1. (\A x \in D : part[x] \in D) /\ Format!Nowhere \in D
  OBVIOUS
<1>2. Format!Repeat(part, n, Format!Nowhere) \in D
  <2> HIDE DEF D
  <2> QED BY <1>1, RepeatKeeps
<1> QED BY <1>2

(* One of the parts that are still to come is read.                        *)
LEMMA OneRead ==
    ASSUME NEW part, NEW n \in Nat, NEW m \in Nat, m < n, NEW p
    PROVE  Format!Repeat(part, n - m, p) = Format!Repeat(part, n - (m + 1), part[p])
<1> DEFINE k == n - (m + 1)
<1>1. k \in Nat /\ k + 1 = n - m
  OBVIOUS
<1> HIDE DEF k
<1>2. Format!Repeat(part, k + 1, p) = Format!Repeat(part, k, part[p])
  BY <1>1, RepeatFront
<1> QED BY <1>1, <1>2 DEF k

LEMMA NoneToCome ==
    ASSUME NEW part, NEW n \in Nat, NEW p
    PROVE  Format!Repeat(part, n - n, p) = p
<1>1. n - n = 0
  OBVIOUS
<1> QED BY <1>1, RepeatBack

(* When one of them is missing, the whole list is.                         *)
LEMMA OneMissing ==
    ASSUME NEW part, part[Format!Nowhere] = Format!Nowhere,
           NEW n \in Nat, NEW m \in Nat, m < n, NEW p, part[p] = Format!Nowhere
    PROVE  Format!Repeat(part, n - m, p) = Format!Nowhere
<1>1. Format!Repeat(part, n - m, p) = Format!Repeat(part, n - (m + 1), part[p])
  BY OneRead
<1>2. n - (m + 1) \in Nat
  OBVIOUS
<1> QED BY <1>1, <1>2, RepeatNowhere

(* A list behind its count.                                                *)
LEMMA ListCounted ==
    ASSUME NEW f, NEW part, NEW p, NEW n \in Nat, NEW q, q # Format!Nowhere,
           Format!CountEnd(f, p) = q, Format!Count(f, p) = n, n <= AllocLimit
    PROVE  Format!List(f, part, p) = Format!Repeat(part, n, q)
BY DEF Format!List, Format!Counted

LEMMA ListUncounted ==
    ASSUME NEW f, NEW part, NEW p,
           Format!CountEnd(f, p) = Format!Nowhere \/ ~(Format!Count(f, p) <= AllocLimit)
    PROVE  Format!List(f, part, p) = Format!Nowhere
BY DEF Format!List, Format!Counted

LEMMA UsablePlace ==
    ASSUME NEW r, Usable(r)
    PROVE  /\ r.mpos \in Format!Places(Plain(r)) /\ r.mpos \in Nat /\ r.mpos # Format!Nowhere
           /\ Len(Plain(r)) = Len(r.disk) /\ Len(r.disk) \in Nat /\ r.mpos <= Len(Plain(r))
           /\ Plain(r) \in Seq(Byte)
<1>1. r \in ReaderType /\ r.mpos \in Nat /\ r.mpos <= Len(r.disk)
  BY UsableFields DEF Usable
<1>2. Plain(r) \in Seq(Byte) /\ Len(Plain(r)) = Len(r.disk) /\ Len(r.disk) \in Nat
  BY <1>1, PlainBytes
<1> QED BY <1>1, <1>2 DEF Format!Places, Format!Nowhere
-----------------------------------------------------------------------------
(* What the functions of a transaction read, in the words of the grammar.  *)
LEMMA PlaceInput ==
    ASSUME NEW r, Usable(r),
           NEW index, index = Then(ReadArray32(r), 4),
           NEW length, length = ThenCompactSize(index),
           NEW res, res = Then(Then(length, length.data), 4)
    PROVE  Place(res) = Format!Input(Plain(r))[r.mpos]
<1> DEFINE f == Plain(r)
           hash == ReadArray32(r)
           script == Then(length, length.data)
<1>1. /\ r.mpos \in Format!Places(f) /\ r.mpos \in Nat /\ Len(f) \in Nat
  BY UsablePlace
<1>2. Chain(r, hash) /\ Place(hash) = Format!Skip(f, r.mpos, 32)
  BY ChainReadArray32, PlaceArray32
<1>3. Chain(r, index) /\ Place(index) = Format!Skip(f, Place(hash), 4)
  <2>1. index = Then(hash, 4)
    OBVIOUS
  <2> HIDE DEF hash, f
  <2>2. 4 \in Nat /\ 4 \in 1 .. 80
    OBVIOUS
  <2>3. Chain(r, Then(hash, 4))
    BY <1>2, <2>2, ChainThen
  <2>4. Place(Then(hash, 4)) = Format!Skip(Plain(r), Place(hash), 4)
    BY <1>2, <2>2, PlaceThen
  <2> QED BY <2>1, <2>3, <2>4 DEF f
<1> HIDE DEF hash
<1>4. Place(index) = Format!Skip(f, r.mpos, 36)
  <2> HIDE DEF f
  <2>1. Format!Skip(f, Format!Skip(f, r.mpos, 32), 4) = Format!Skip(f, r.mpos, 32 + 4)
    BY <1>1, SkipTwice
  <2> QED BY <1>2, <1>3, <2>1
<1>5. Chain(r, length) /\ (length.status = "ok" => length.data \in Nat)
  BY <1>3, ChainThenCompactSize
<1>6. Chain(r, script) /\ Place(script) = Format!Text(f, Place(index))
  BY <1>3, <1>5, ChainThen, PlaceText
<1> HIDE DEF script
<1>7. Place(res) = Format!Skip(f, Place(script), 4)
  BY <1>6, PlaceThen DEF script
<1>8. Format!Input(f)[r.mpos] = Format!Skip(f, Format!Text(f, Format!Skip(f, r.mpos, 36)), 4)
  BY <1>1, PartsAt
<1> HIDE DEF f
<1>9. Place(res) = Format!Input(f)[r.mpos]
  BY <1>4, <1>6, <1>7, <1>8
<1> QED BY <1>9 DEF f

LEMMA PlaceOutput ==
    ASSUME NEW r, Usable(r),
           NEW value, value = ReadData(r, 8),
           NEW length, length = ThenCompactSize(value),
           NEW res, res = Then(length, length.data)
    PROVE  Place(res) = Format!Output(Plain(r))[r.mpos]
<1>1. Chain(r, value)
  BY ChainRead
<1>2. Place(value) = Format!Skip(Plain(r), r.mpos, 8)
  <2>1. 8 <= AllocLimit
    BY AllocLimitAssumption
  <2> QED BY <2>1, PlaceRead
<1>3. Place(res) = Format!Text(Plain(r), Place(value))
  BY <1>1, PlaceText
<1>4. Format!Output(Plain(r))[r.mpos] = Format!Text(Plain(r), Format!Skip(Plain(r), r.mpos, 8))
  BY UsablePlace, PartsAt
<1> QED BY <1>2, <1>3, <1>4

LEMMA PlaceItem ==
    ASSUME NEW r, Usable(r),
           NEW length, length = ReadCompactSize(r),
           NEW res, res = Then(length, length.data)
    PROVE  Place(res) = Format!Item(Plain(r))[r.mpos]
<1> DEFINE one == Result(r, "ok", <<>>)
<1>1. one.reader = r /\ one.status = "ok" /\ one = Result(one.reader, one.status, one.data)
  BY DEF Result
<1>2. r.mpos \in Nat
  BY UsableFields
<1> HIDE DEF one
<1>3. Chain(r, one)
  BY <1>1, <1>2 DEF Chain, Usable
<1>4. length = ThenCompactSize(one) /\ Place(one) = r.mpos
  BY <1>1 DEF ThenCompactSize, Place
<1>5. Place(res) = Format!Text(Plain(r), r.mpos)
  BY <1>3, <1>4, PlaceText
<1>6. Format!Item(Plain(r))[r.mpos] = Format!Text(Plain(r), r.mpos)
  BY UsablePlace, PartsAt
<1> QED BY <1>5, <1>6

-----------------------------------------------------------------------------
(* What is still to come of the parts under way.                           *)

(* The transaction under way when the function `label` is about to read at *)
(* p: what is still to come of the part it belongs to.                     *)
TxToCome(f, t, p, label) ==
    /\ label \in TxBody \ {"flag"} => t.segwit = Format!Segwit(f, t.from)
    /\ label = "inCount" => p = Format!Begin(f, t.from)
    /\ label \in {"txIn", "outCount"} =>
          /\ Format!Count(f, Format!Begin(f, t.from)) = t.inCount
          /\ Format!Inputs(f, t.from) =
                Format!Repeat(Format!Input(f), t.inCount - Len(t.vin), p)
    /\ label = "txOut" =>
          /\ Format!Count(f, Format!Begin(f, t.from)) = t.inCount
          /\ Format!Outputs(f, t.from) =
                Format!Repeat(Format!Output(f), t.outCount - Len(t.vout), p)
    /\ label = "witCount" =>
          Format!Stacks(f, t.from) =
             Format!Repeat(Format!Stack(f), t.inCount - Len(t.witnesses), p)
    /\ label = "witItem" =>
          LET w == t.witnesses[Len(t.witnesses)]
          IN  Format!Stacks(f, t.from) =
                 Format!Repeat(Format!Stack(f), t.inCount - Len(t.witnesses),
                               Format!Repeat(Format!Item(f), w.count - Len(w.items), p))
    /\ label = "lockTime" => Format!Stacks(f, t.from) = p
    /\ label = "txHash" => Format!Skip(f, Format!Stacks(f, t.from), 4) = p

(* The same for the block; its next transaction begins at p.               *)
BlockToCome(f, b, p) ==
    Format!Transactions(f, b.from) =
        Format!Repeat(Format!Transaction(f), b.txCount - Len(b.txs), p)

(* No block begins where the parser gave up.                               *)
Refused(f, b) == Format!Block(f, b.from) = Format!Nowhere

Parsed(f) ==
    /\ pc # "block" /\ outcome # "done" => block.from < Len(f)
    /\ pc \in BlockBody => block.size \in 1 .. MaxBlockSize
    /\ pc \in {"version", "blockEnd"} => BlockToCome(f, block, reader.mpos)
    /\ pc \in TxBody => BlockToCome(f, block, tx.from) /\ TxToCome(f, tx, reader.mpos, pc)
    /\ pc = "end" /\ outcome # "done" => Refused(f, block)
    /\ \A i \in 1 .. Len(blocks) : Format!Block(f, blocks[i].from) = blocks[i].to

ToCome == Parsed(Plain(reader))
-----------------------------------------------------------------------------
(* What is left of a list is what the next function is to read.            *)
LEMMA InputsToCome ==
    ASSUME NEW f, NEW t \in TxType, NEW p, Len(t.vin) <= t.inCount,
           t.segwit = Format!Segwit(f, t.from),
           Format!Count(f, Format!Begin(f, t.from)) = t.inCount,
           Format!Inputs(f, t.from) =
              Format!Repeat(Format!Input(f), t.inCount - Len(t.vin), p)
    PROVE  TxToCome(f, t, p, NextInput(t))
BY DEF TxToCome, NextInput

LEMMA StacksToCome ==
    ASSUME NEW f, NEW t \in TxType, NEW p, t.segwit,
           t.segwit = Format!Segwit(f, t.from),
           Len(t.vin) = t.inCount, Len(t.witnesses) <= t.inCount,
           Format!Stacks(f, t.from) =
              Format!Repeat(Format!Stack(f), t.inCount - Len(t.witnesses), p)
    PROVE  TxToCome(f, t, p, NextWitness(t))
<1>0. t.inCount \in Nat /\ Len(t.witnesses) \in Nat
  BY DEF TxType
<1>1. CASE Len(t.witnesses) < t.inCount
  <2>1. NextWitness(t) = "witCount"
    BY <1>1 DEF NextWitness
  <2> QED BY <2>1 DEF TxToCome
<1>2. CASE ~(Len(t.witnesses) < t.inCount)
  <2>1. NextWitness(t) = "lockTime"
    BY <1>2 DEF NextWitness
  <2>2. Len(t.witnesses) = t.inCount
    BY <1>0, <1>2
  <2>3. Format!Stacks(f, t.from) = p
    BY <1>0, <2>2, NoneToCome
  <2> QED BY <2>1, <2>3 DEF TxToCome
<1> QED BY <1>1, <1>2

LEMMA ItemsToCome ==
    ASSUME NEW f, NEW t \in TxType, NEW p, t.segwit,
           t.segwit = Format!Segwit(f, t.from),
           Len(t.vin) = t.inCount, Len(t.witnesses) <= t.inCount,
           NEW w \in WitnessType, w = t.witnesses[Len(t.witnesses)], Len(w.items) <= w.count,
           Format!Stacks(f, t.from) =
              Format!Repeat(Format!Stack(f), t.inCount - Len(t.witnesses),
                            Format!Repeat(Format!Item(f), w.count - Len(w.items), p))
    PROVE  TxToCome(f, t, p, NextItem(t))
<1>0. w.count \in Nat /\ Len(w.items) \in Nat
  BY DEF WitnessType
<1>1. CASE Len(w.items) < w.count
  <2>1. NextItem(t) = "witItem"
    BY <1>1 DEF NextItem
  <2> QED BY <2>1 DEF TxToCome
<1>2. CASE ~(Len(w.items) < w.count)
  <2>1. NextItem(t) = NextWitness(t)
    BY <1>2 DEF NextItem
  <2>2. Len(w.items) = w.count
    BY <1>0, <1>2
  <2>3. Format!Repeat(Format!Item(f), w.count - Len(w.items), p) = p
    BY <1>0, <2>2, NoneToCome
  <2>4. TxToCome(f, t, p, NextWitness(t))
    BY <2>3, StacksToCome
  <2> QED BY <2>1, <2>4
<1> QED BY <1>1, <1>2

LEMMA OutputsToCome ==
    ASSUME NEW f, NEW t \in TxType, NEW p, p # Format!Nowhere,
           t.segwit = Format!Segwit(f, t.from),
           Len(t.vin) = t.inCount, t.witnesses = <<>>, Len(t.vout) <= t.outCount,
           Format!Count(f, Format!Begin(f, t.from)) = t.inCount,
           Format!Outputs(f, t.from) =
              Format!Repeat(Format!Output(f), t.outCount - Len(t.vout), p)
    PROVE  TxToCome(f, t, p, NextOutput(t))
<1>0. t.inCount \in Nat /\ t.outCount \in Nat /\ Len(t.vout) \in Nat /\ t.segwit \in BOOLEAN
      /\ Len(t.witnesses) = 0
  BY DEF TxType
<1>1. CASE Len(t.vout) < t.outCount
  <2>1. NextOutput(t) = "txOut"
    BY <1>1 DEF NextOutput
  <2> QED BY <2>1 DEF TxToCome
<1>2. CASE ~(Len(t.vout) < t.outCount)
  <2>1. NextOutput(t) = NextWitness(t)
    BY <1>2 DEF NextOutput
  <2>2. Len(t.vout) = t.outCount
    BY <1>0, <1>2
  <2>3. Format!Outputs(f, t.from) = p
    BY <1>0, <2>2, NoneToCome
  <2>4. CASE t.segwit
    <3>1. Format!Stacks(f, t.from) = Format!Repeat(Format!Stack(f), t.inCount, p)
      BY <2>3, <2>4 DEF Format!Stacks
    <3>2. t.inCount - Len(t.witnesses) = t.inCount /\ Len(t.witnesses) <= t.inCount
      BY <1>0
    <3>3. TxToCome(f, t, p, NextWitness(t))
      BY <2>4, <3>1, <3>2, StacksToCome
    <3> QED BY <2>1, <3>3
  <2>5. CASE ~t.segwit
    <3>1. NextWitness(t) = "lockTime"
      BY <2>5 DEF NextWitness
    <3>2. Format!Stacks(f, t.from) = p
      BY <2>3, <2>5 DEF Format!Stacks
    <3> QED BY <2>1, <3>1, <3>2 DEF TxToCome
  <2> QED BY <2>4, <2>5
<1> QED BY <1>1, <1>2

-----------------------------------------------------------------------------
(* A part that is missing: the transaction is not one, nor is the block.   *)
LEMMA TxMissing ==
    ASSUME NEW f, NEW p \in Format!Places(f),
           \/ Format!Inputs(f, p) = Format!Nowhere
           \/ Format!Outputs(f, p) = Format!Nowhere
           \/ Format!Stacks(f, p) = Format!Nowhere
           \/ Format!Skip(f, Format!Stacks(f, p), 4) = Format!Nowhere
    PROVE  Format!Transaction(f)[p] = Format!Nowhere
<1>1. Format!Inputs(f, p) = Format!Nowhere => Format!Outputs(f, p) = Format!Nowhere
  BY NothingFollows DEF Format!Outputs
<1>2. Format!Outputs(f, p) = Format!Nowhere => Format!Stacks(f, p) = Format!Nowhere
  BY DEF Format!Stacks
<1>3. Format!Skip(f, Format!Stacks(f, p), 4) = Format!Nowhere
  BY <1>1, <1>2, NothingFollows
<1> QED BY <1>3, PartsAt

LEMMA ListMissing ==
    ASSUME NEW f, NEW b, Format!Transactions(f, b.from) = Format!Nowhere,
           b.from \in Nat
    PROVE  Refused(f, b)
<1> DEFINE size == Format!Number(SubSeq(f, b.from + 5, b.from + 8))
<1>1. size \in 1 .. MaxBlockSize => b.from + 8 + size # Format!Nowhere
  <2>1. MaxBlockSize \in Nat
    BY DEF MaxBlockSize
  <2> HIDE DEF size
  <2>2. ASSUME size \in 1 .. MaxBlockSize PROVE b.from + 8 + size # Format!Nowhere
    BY <2>1, <2>2 DEF Format!Nowhere
  <2> QED BY <2>2
<1>2. ~(size \in 1 .. MaxBlockSize /\ Format!Transactions(f, b.from) = b.from + 8 + size)
  BY <1>1
<1> QED BY <1>2, Zenon DEF Refused, Format!Block

LEMMA TxMissingRefused ==
    ASSUME NEW f, NEW b \in BlockType, NEW p, BlockToCome(f, b, p), Len(b.txs) < b.txCount,
           Format!Transaction(f)[p] = Format!Nowhere
    PROVE  Refused(f, b)
<1>1. b.txCount \in Nat /\ Len(b.txs) \in Nat /\ b.from \in Nat
  BY DEF BlockType
<1>2. Format!Transactions(f, b.from) = Format!Nowhere
  BY <1>1, OneMissing, NowherePart DEF BlockToCome
<1> QED BY <1>1, <1>2, ListMissing
-----------------------------------------------------------------------------
(* A step on to another function of the same transaction.                  *)
LEMMA TxStepToCome ==
    ASSUME ToCome, pc \in TxBody, pc' \in TxBody, block' = block, blocks' = blocks,
           outcome' = outcome, tx'.from = tx.from,
           reader'.disk = reader.disk, reader'.key = reader.key,
           TxToCome(Plain(reader), tx', reader'.mpos, pc')
    PROVE  ToCome'
<1>1. Plain(reader') = Plain(reader)
  BY PlainOfFile
<1>2. pc' \notin {"version", "blockEnd", "end", "block"} /\ pc' \in BlockBody
      /\ pc \in BlockBody /\ pc \notin {"version", "blockEnd", "end", "block"}
  BY DEF TxBody, BlockBody
<1> QED BY <1>1, <1>2 DEF ToCome, Parsed

(* A step that gives up.                                                   *)
LEMMA ExitToCome ==
    ASSUME ToCome, pc # "block", outcome # "done", pc' = "end", outcome' # "done",
           block' = block, blocks' = blocks,
           reader'.disk = reader.disk, reader'.key = reader.key,
           Refused(Plain(reader), block)
    PROVE  ToCome'
<1>1. Plain(reader') = Plain(reader)
  BY PlainOfFile
<1>2. "end" \notin BlockBody /\ "end" \notin TxBody
  BY DEF TxBody, BlockBody
<1> QED BY <1>1, <1>2 DEF ToCome, Parsed

LEMMA StopToCome ==
    ASSUME IInv, ToCome, pc \notin {"block", "end"}, NEW res, Chain(reader, res),
           Stop(res) \/ StopCount(res), Refused(Plain(reader), block)
    PROVE  ToCome'
<1>1. outcome = "running"
  BY Running
<1>2. /\ reader' = res.reader /\ pc' = "end" /\ block' = block /\ blocks' = blocks
      /\ outcome' # "done"
  BY DEF Stop, StopCount, Leave, Chain
<1>3. reader'.disk = reader.disk /\ reader'.key = reader.key
  BY <1>2 DEF Chain
<1> QED BY <1>1, <1>2, <1>3, ExitToCome

(* What is known inside a transaction.                                     *)
LEMMA InsideTx ==
    ASSUME IInv, Layout, ToCome, pc \in TxBody
    PROVE  /\ Usable(reader) /\ outcome = "running"
           /\ tx \in TxType /\ tx.from \in Format!Places(Plain(reader)) /\ tx.from \in Nat
           /\ TxToCome(Plain(reader), tx, reader.mpos, pc)
           /\ TxLayout(File, tx, reader.mpos, pc)
           /\ Format!Transaction(Plain(reader))[tx.from] = Format!Nowhere =>
                 Refused(Plain(reader), block)
<1>1. pc # "end" /\ pc \in BlockBody
  BY DEF TxBody, BlockBody
<1>2. /\ Usable(reader) /\ outcome = "running" /\ tx \in TxType /\ block \in BlockType
      /\ reader.mpos \in Nat /\ Len(reader.disk) \in Nat /\ reader.mpos <= Len(reader.disk)
  BY <1>1, Running
<1>3. tx.from \in Nat /\ tx.from <= reader.mpos
  BY <1>1, <1>2 DEF IInv, TxUnderway, TxType
<1>4. tx.from \in Format!Places(Plain(reader))
  BY <1>2, <1>3, UsablePlace DEF Format!Places
<1>5. BlockToCome(Plain(reader), block, tx.from) /\ TxToCome(Plain(reader), tx, reader.mpos, pc)
  BY DEF ToCome, Parsed
<1>6. Len(block.txs) < block.txCount /\ TxLayout(File, tx, reader.mpos, pc)
  BY DEF Layout, BlockLayout
<1>7. Format!Transaction(Plain(reader))[tx.from] = Format!Nowhere => Refused(Plain(reader), block)
  BY <1>2, <1>5, <1>6, TxMissingRefused
<1> QED BY <1>2, <1>3, <1>4, <1>5, <1>6, <1>7

-----------------------------------------------------------------------------
(* The steps of a transaction.                                             *)

LEMMA TxGoesOn ==
    ASSUME IInv, Layout, ToCome, pc \in TxBody, NEW res, Chain(reader, res),
           NEW label \in TxBody, Goto(res, label), UNCHANGED <<blocks, block>>,
           tx'.from = tx.from, TxToCome(Plain(reader), tx', res.reader.mpos, label)
    PROVE  ToCome'
<1>1. reader' = res.reader /\ pc' = label /\ outcome' = outcome
  BY DEF Goto
<1>2. reader'.disk = reader.disk /\ reader'.key = reader.key
  BY <1>1 DEF Chain
<1> QED BY <1>1, <1>2, TxStepToCome

LEMMA TxGivesUp ==
    ASSUME IInv, Layout, ToCome, pc \in TxBody, NEW res, Chain(reader, res),
           Stop(res) \/ StopCount(res),
           Format!Transaction(Plain(reader))[tx.from] = Format!Nowhere
    PROVE  ToCome'
<1>1. Refused(Plain(reader), block)
  BY InsideTx
<1>2. pc \notin {"block", "end"}
  BY DEF TxBody
<1> QED BY <1>1, <1>2, StopToCome

(* A place that is a result's.                                             *)
LEMMA PlaceOk ==
    ASSUME NEW r, NEW res, Chain(r, res)
    PROVE  /\ res.status = "ok" =>
                 Place(res) = res.reader.mpos /\ res.reader.mpos \in Nat
                 /\ res.reader.mpos # Format!Nowhere
           /\ res.status # "ok" => Place(res) = Format!Nowhere
<1>1. res.status = "ok" => res.reader.mpos \in Nat
  BY UsableFields DEF Chain
<1> QED BY <1>1 DEF Place, Format!Nowhere

(* A count and the list it announces.                                      *)
LEMMA ListRead ==
    ASSUME NEW r, Usable(r), NEW part, NEW res, res = ReadCompactSize(r)
    PROVE  /\ Counted(res) =>
                 /\ res.status = "ok" /\ res.data \in Nat
                 /\ Format!Count(Plain(r), r.mpos) = res.data
                 /\ Format!List(Plain(r), part, r.mpos) =
                       Format!Repeat(part, res.data, res.reader.mpos)
           /\ StopCount(res) =>
                 Format!List(Plain(r), part, r.mpos) = Format!Nowhere
<1>1. /\ Place(res) = Format!CountEnd(Plain(r), r.mpos)
      /\ res.status = "ok" => res.data = Format!Count(Plain(r), r.mpos)
  BY PlaceCount
<1>2. Chain(r, res) /\ (res.status = "ok" => res.data \in Nat)
  BY ChainCompactSize
<1>3. AllocLimit \in Nat
  BY AllocLimitAssumption
<1>4. CASE Counted(res)
  <2>1. res.status = "ok" /\ res.data <= AllocLimit
    BY <1>4 DEF Counted
  <2>2. ~ StopCount(res)
    BY <1>2, <1>3, <2>1 DEF StopCount, Stop
  <2>3. Format!CountEnd(Plain(r), r.mpos) = res.reader.mpos
        /\ res.reader.mpos # Format!Nowhere
    BY <1>1, <1>2, <2>1, PlaceOk
  <2> QED BY <1>1, <1>2, <2>1, <2>2, <2>3, ListCounted
<1>5. CASE ~Counted(res)
  <2>1. \/ Format!CountEnd(Plain(r), r.mpos) = Format!Nowhere
        \/ ~(Format!Count(Plain(r), r.mpos) <= AllocLimit)
    BY <1>1, <1>2, <1>5, PlaceOk DEF Counted
  <2> QED BY <1>5, <2>1, ListUncounted
<1> QED BY <1>4, <1>5
-----------------------------------------------------------------------------
LEMMA ParseInCounterToCome ==
    ASSUME IInv, IInv', Layout, ToCome, ParseInCounter
    PROVE  ToCome'
<1> DEFINE res == ReadCompactSize(reader)
           f   == Plain(reader)
<1>1. pc = "inCount" /\ pc \in TxBody
  BY DEF ParseInCounter, TxBody
<1>2. /\ Usable(reader) /\ tx \in TxType /\ tx.from \in Format!Places(f)
      /\ TxToCome(f, tx, reader.mpos, pc) /\ TxLayout(File, tx, reader.mpos, pc)
  BY <1>1, InsideTx
<1>3. tx' \in TxType
  BY DEF IInv, TypeOK
<1>4. Chain(reader, res)
  BY <1>2, ChainCompactSize
<1>5. tx.segwit = Format!Segwit(f, tx.from) /\ reader.mpos = Format!Begin(f, tx.from)
      /\ tx.vin = <<>>
  BY <1>1, <1>2 DEF TxToCome, TxLayout
<1>6. Format!Inputs(f, tx.from) = Format!List(f, Format!Input(f), reader.mpos)
  BY <1>5 DEF Format!Inputs
<1>7. /\ Counted(res) =>
           /\ res.data \in Nat /\ Format!Count(f, reader.mpos) = res.data
           /\ Format!Inputs(f, tx.from) = Format!Repeat(Format!Input(f), res.data, res.reader.mpos)
      /\ StopCount(res) => Format!Inputs(f, tx.from) = Format!Nowhere
  BY <1>2, <1>6, ListRead
<1>8. \/ /\ Counted(res)
         /\ tx' = [tx EXCEPT !.inCount = res.data]
         /\ Goto(res, NextInput(tx'))
         /\ UNCHANGED <<blocks, block>>
      \/ StopCount(res)
  BY DEF ParseInCounter
<1> HIDE DEF res, f
<1>9. CASE /\ Counted(res)
           /\ tx' = [tx EXCEPT !.inCount = res.data]
           /\ Goto(res, NextInput(tx'))
           /\ UNCHANGED <<blocks, block>>
  <2>1. /\ tx'.from = tx.from /\ tx'.vin = tx.vin /\ tx'.segwit = tx.segwit
        /\ tx'.inCount = res.data
    BY <1>2, <1>9 DEF TxType
  <2>2. Len(tx'.vin) = 0 /\ res.data - 0 = res.data /\ 0 <= res.data
    BY <1>5, <1>7, <1>9, <2>1
  <2>3. TxToCome(f, tx', res.reader.mpos, NextInput(tx'))
    BY <1>3, <1>5, <1>7, <1>9, <2>1, <2>2, InputsToCome
  <2>4. NextInput(tx') \in TxBody
    BY DEF NextInput, TxBody
  <2> QED BY <1>1, <1>4, <1>9, <2>1, <2>3, <2>4, TxGoesOn DEF f
<1>10. CASE StopCount(res)
  <2>1. Format!Transaction(f)[tx.from] = Format!Nowhere
    BY <1>2, <1>7, <1>10, TxMissing
  <2> QED BY <1>1, <1>4, <1>10, <2>1, TxGivesUp DEF f
<1> QED BY <1>8, <1>9, <1>10

LEMMA ParseOutCounterToCome ==
    ASSUME IInv, IInv', Layout, ToCome, ParseOutCounter
    PROVE  ToCome'
<1> DEFINE res == ReadCompactSize(reader)
           f   == Plain(reader)
<1>1. pc = "outCount" /\ pc \in TxBody
  BY DEF ParseOutCounter, TxBody
<1>2. /\ Usable(reader) /\ tx \in TxType /\ tx.from \in Format!Places(f)
      /\ TxToCome(f, tx, reader.mpos, pc) /\ TxLayout(File, tx, reader.mpos, pc)
  BY <1>1, InsideTx
<1>3. tx' \in TxType
  BY DEF IInv, TypeOK
<1>4. Chain(reader, res)
  BY <1>2, ChainCompactSize
<1>5. /\ tx.segwit = Format!Segwit(f, tx.from)
      /\ Format!Count(f, Format!Begin(f, tx.from)) = tx.inCount
      /\ Format!Inputs(f, tx.from) =
            Format!Repeat(Format!Input(f), tx.inCount - Len(tx.vin), reader.mpos)
      /\ Len(tx.vin) = tx.inCount /\ tx.vout = <<>> /\ tx.witnesses = <<>>
  BY <1>1, <1>2 DEF TxToCome, TxLayout
<1>6. Format!Outputs(f, tx.from) = Format!List(f, Format!Output(f), reader.mpos)
  <2>1. tx.inCount \in Nat
    BY <1>2 DEF TxType
  <2>2. Format!Inputs(f, tx.from) = reader.mpos
    BY <1>5, <2>1, NoneToCome
  <2> QED BY <2>2 DEF Format!Outputs
<1>7. /\ Counted(res) =>
           /\ res.status = "ok" /\ res.data \in Nat
           /\ Format!Outputs(f, tx.from) = Format!Repeat(Format!Output(f), res.data, res.reader.mpos)
      /\ StopCount(res) => Format!Outputs(f, tx.from) = Format!Nowhere
  BY <1>2, <1>6, ListRead
<1>8. \/ /\ Counted(res)
         /\ tx' = [tx EXCEPT !.outCount = res.data]
         /\ Goto(res, NextOutput(tx'))
         /\ UNCHANGED <<blocks, block>>
      \/ StopCount(res)
  BY DEF ParseOutCounter
<1> HIDE DEF res, f
<1>9. CASE /\ Counted(res)
           /\ tx' = [tx EXCEPT !.outCount = res.data]
           /\ Goto(res, NextOutput(tx'))
           /\ UNCHANGED <<blocks, block>>
  <2>1. /\ tx'.from = tx.from /\ tx'.vin = tx.vin /\ tx'.segwit = tx.segwit
        /\ tx'.inCount = tx.inCount /\ tx'.vout = tx.vout /\ tx'.witnesses = tx.witnesses
        /\ tx'.outCount = res.data
    BY <1>2, <1>9 DEF TxType
  <2>2. Len(tx'.vout) = 0 /\ res.data - 0 = res.data /\ 0 <= res.data
    BY <1>5, <1>7, <1>9, <2>1
  <2>3. res.reader.mpos # Format!Nowhere
    BY <1>4, <1>7, <1>9, PlaceOk
  <2>4. TxToCome(f, tx', res.reader.mpos, NextOutput(tx'))
    BY <1>3, <1>5, <1>7, <1>9, <2>1, <2>2, <2>3, OutputsToCome
  <2>5. NextOutput(tx') \in TxBody
    BY NextLabels DEF TxBody
  <2> QED BY <1>1, <1>4, <1>9, <2>1, <2>4, <2>5, TxGoesOn DEF f
<1>10. CASE StopCount(res)
  <2>1. Format!Transaction(f)[tx.from] = Format!Nowhere
    BY <1>2, <1>7, <1>10, TxMissing
  <2> QED BY <1>1, <1>4, <1>10, <2>1, TxGivesUp DEF f
<1> QED BY <1>8, <1>9, <1>10

(* One record of a list: read, or missing.                                 *)
LEMMA RecordRead ==
    ASSUME NEW r, NEW res, Chain(r, res), NEW part, part[Format!Nowhere] = Format!Nowhere,
           Place(res) = part[r.mpos], NEW n \in Nat, NEW m \in Nat, m < n
    PROVE  /\ res.status = "ok" =>
                 Format!Repeat(part, n - m, r.mpos) =
                    Format!Repeat(part, n - (m + 1), res.reader.mpos)
           /\ res.status # "ok" => Format!Repeat(part, n - m, r.mpos) = Format!Nowhere
<1>1. CASE res.status = "ok"
  <2>1. part[r.mpos] = res.reader.mpos
    BY <1>1, PlaceOk
  <2>2. Format!Repeat(part, n - m, r.mpos) = Format!Repeat(part, n - (m + 1), part[r.mpos])
    BY OneRead
  <2> QED BY <1>1, <2>1, <2>2
<1>2. CASE res.status # "ok"
  <2>1. part[r.mpos] = Format!Nowhere
    BY <1>2, PlaceOk
  <2>2. Format!Repeat(part, n - m, r.mpos) = Format!Nowhere
    BY <2>1, OneMissing
  <2> QED BY <1>2, <2>2
<1> QED BY <1>1, <1>2

LEMMA ParseTxInToCome ==
    ASSUME IInv, IInv', Layout, ToCome, ParseTxIn
    PROVE  ToCome'
<1> DEFINE index  == Then(ReadArray32(reader), 4)
           length == ThenCompactSize(index)
           res    == Then(Then(length, length.data), 4)
           in     == [from |-> reader.mpos, to |-> res.reader.mpos,
                      script |-> Extent(length.reader.mpos, length.data)]
           vin    == Append(tx.vin, in)
           f      == Plain(reader)
<1>1. pc = "txIn" /\ pc \in TxBody
  BY DEF ParseTxIn, TxBody
<1>2. /\ Usable(reader) /\ tx \in TxType /\ tx.from \in Format!Places(f)
      /\ TxToCome(f, tx, reader.mpos, pc) /\ TxLayout(File, tx, reader.mpos, pc)
  BY <1>1, InsideTx
<1>3. tx' \in TxType
  BY DEF IInv, TypeOK
<1>4. Chain(reader, res)
  <2>1. Chain(reader, index)
    BY <1>2, ChainReadArray32, ChainThen
  <2>2. Chain(reader, length) /\ (length.status = "ok" => length.data \in Nat)
    <3> HIDE DEF index
    <3> QED BY <1>2, <2>1, ChainThenCompactSize
  <2>3. Chain(reader, Then(length, length.data))
    <3> HIDE DEF length
    <3> QED BY <1>2, <2>2, ChainThen
  <2> HIDE DEF length
  <2> QED BY <1>2, <2>3, ChainThen
<1>5. Place(res) = Format!Input(f)[reader.mpos]
  BY <1>2, PlaceInput
<1>6. in \in TxInType \/ res.status # "ok"
  BY <1>2, InputRead
<1>7. \/ /\ res.status = "ok"
         /\ tx' = [tx EXCEPT !.vin = vin]
         /\ Goto(res, NextInput(tx'))
         /\ UNCHANGED <<blocks, block>>
      \/ Stop(res)
  BY DEF ParseTxIn
<1>8. /\ tx.segwit = Format!Segwit(f, tx.from)
      /\ Format!Count(f, Format!Begin(f, tx.from)) = tx.inCount
      /\ Format!Inputs(f, tx.from) =
            Format!Repeat(Format!Input(f), tx.inCount - Len(tx.vin), reader.mpos)
      /\ Len(tx.vin) < tx.inCount
  BY <1>1, <1>2 DEF TxToCome, TxLayout
<1>9. tx.vin \in Seq(TxInType) /\ Len(tx.vin) \in Nat /\ tx.inCount \in Nat
  BY <1>2 DEF TxType
<1> HIDE DEF index, length, res, in, f
<1>10. /\ res.status = "ok" =>
            Format!Inputs(f, tx.from) =
               Format!Repeat(Format!Input(f), tx.inCount - (Len(tx.vin) + 1), res.reader.mpos)
       /\ res.status # "ok" => Format!Inputs(f, tx.from) = Format!Nowhere
  BY <1>4, <1>5, <1>8, <1>9, NowherePart, RecordRead
<1>11. CASE /\ res.status = "ok"
            /\ tx' = [tx EXCEPT !.vin = vin]
            /\ Goto(res, NextInput(tx'))
            /\ UNCHANGED <<blocks, block>>
  <2>1. Len(vin) = Len(tx.vin) + 1
    BY <1>6, <1>9, <1>11
  <2> HIDE DEF vin
  <2>2. /\ tx'.from = tx.from /\ tx'.vin = vin /\ tx'.segwit = tx.segwit
        /\ tx'.inCount = tx.inCount
    BY <1>2, <1>11 DEF TxType
  <2>3. Len(tx'.vin) <= tx'.inCount
    BY <1>8, <1>9, <2>1, <2>2
  <2>4. TxToCome(f, tx', res.reader.mpos, NextInput(tx'))
    BY <1>3, <1>8, <1>10, <1>11, <2>1, <2>2, <2>3, InputsToCome
  <2>5. NextInput(tx') \in TxBody
    BY DEF NextInput, TxBody
  <2> QED BY <1>1, <1>4, <1>11, <2>2, <2>4, <2>5, TxGoesOn DEF f
<1>12. CASE Stop(res)
  <2>1. Format!Transaction(f)[tx.from] = Format!Nowhere
    BY <1>2, <1>10, <1>12, TxMissing DEF Stop
  <2> QED BY <1>1, <1>4, <1>12, <2>1, TxGivesUp DEF f
<1> QED BY <1>7, <1>11, <1>12

LEMMA ParseTxOutToCome ==
    ASSUME IInv, IInv', Layout, ToCome, ParseTxOut
    PROVE  ToCome'
<1> DEFINE value  == ReadData(reader, 8)
           length == ThenCompactSize(value)
           res    == Then(length, length.data)
           out    == [from |-> reader.mpos, to |-> res.reader.mpos,
                      script |-> Extent(length.reader.mpos, length.data)]
           vout   == Append(tx.vout, out)
           f      == Plain(reader)
<1>1. pc = "txOut" /\ pc \in TxBody
  BY DEF ParseTxOut, TxBody
<1>2. /\ Usable(reader) /\ tx \in TxType /\ tx.from \in Format!Places(f)
      /\ TxToCome(f, tx, reader.mpos, pc) /\ TxLayout(File, tx, reader.mpos, pc)
  BY <1>1, InsideTx
<1>3. tx' \in TxType
  BY DEF IInv, TypeOK
<1>4. Chain(reader, res)
  <2>1. Chain(reader, value)
    BY <1>2, ChainRead
  <2>2. Chain(reader, length) /\ (length.status = "ok" => length.data \in Nat)
    <3> HIDE DEF value
    <3> QED BY <1>2, <2>1, ChainThenCompactSize
  <2> HIDE DEF length
  <2> QED BY <1>2, <2>2, ChainThen
<1>5. Place(res) = Format!Output(f)[reader.mpos]
  BY <1>2, PlaceOutput
<1>6. out \in TxInType \/ res.status # "ok"
  BY <1>2, OutputRead
<1>7. \/ /\ res.status = "ok"
         /\ tx' = [tx EXCEPT !.vout = vout]
         /\ Goto(res, NextOutput(tx'))
         /\ UNCHANGED <<blocks, block>>
      \/ Stop(res)
  BY DEF ParseTxOut
<1>8. /\ tx.segwit = Format!Segwit(f, tx.from)
      /\ Format!Count(f, Format!Begin(f, tx.from)) = tx.inCount
      /\ Format!Outputs(f, tx.from) =
            Format!Repeat(Format!Output(f), tx.outCount - Len(tx.vout), reader.mpos)
      /\ Len(tx.vout) < tx.outCount /\ tx.witnesses = <<>> /\ Len(tx.vin) = tx.inCount
  BY <1>1, <1>2 DEF TxToCome, TxLayout, OutputsRead
<1>9. tx.vout \in Seq(TxInType) /\ Len(tx.vout) \in Nat /\ tx.outCount \in Nat
  BY <1>2 DEF TxType
<1> HIDE DEF value, length, res, out, f
<1>10. /\ res.status = "ok" =>
            Format!Outputs(f, tx.from) =
               Format!Repeat(Format!Output(f), tx.outCount - (Len(tx.vout) + 1), res.reader.mpos)
       /\ res.status # "ok" => Format!Outputs(f, tx.from) = Format!Nowhere
  BY <1>4, <1>5, <1>8, <1>9, NowherePart, RecordRead
<1>11. CASE /\ res.status = "ok"
            /\ tx' = [tx EXCEPT !.vout = vout]
            /\ Goto(res, NextOutput(tx'))
            /\ UNCHANGED <<blocks, block>>
  <2>1. Len(vout) = Len(tx.vout) + 1
    BY <1>6, <1>9, <1>11
  <2> HIDE DEF vout
  <2>2. /\ tx'.from = tx.from /\ tx'.vin = tx.vin /\ tx'.segwit = tx.segwit
        /\ tx'.inCount = tx.inCount /\ tx'.vout = vout /\ tx'.outCount = tx.outCount
        /\ tx'.witnesses = tx.witnesses
    BY <1>2, <1>11 DEF TxType
  <2>3. Len(tx'.vout) <= tx'.outCount
    BY <1>8, <1>9, <2>1, <2>2
  <2>4. res.reader.mpos # Format!Nowhere
    BY <1>4, <1>11, PlaceOk
  <2>5. TxToCome(f, tx', res.reader.mpos, NextOutput(tx'))
    BY <1>3, <1>8, <1>10, <1>11, <2>1, <2>2, <2>3, <2>4, OutputsToCome
  <2>6. NextOutput(tx') \in TxBody
    BY NextLabels DEF TxBody
  <2> QED BY <1>1, <1>4, <1>11, <2>2, <2>5, <2>6, TxGoesOn DEF f
<1>12. CASE Stop(res)
  <2>1. Format!Transaction(f)[tx.from] = Format!Nowhere
    BY <1>2, <1>10, <1>12, TxMissing DEF Stop
  <2> QED BY <1>1, <1>4, <1>12, <2>1, TxGivesUp DEF f
<1> QED BY <1>7, <1>11, <1>12

LEMMA ParseWitnessToCome ==
    ASSUME IInv, IInv', Layout, ToCome, ParseWitness
    PROVE  ToCome'
<1> DEFINE res    == ReadCompactSize(reader)
           w      == [from |-> reader.mpos, to |-> res.reader.mpos, count |-> res.data,
                      items |-> <<>>]
           stacks == Append(tx.witnesses, w)
           f      == Plain(reader)
<1>1. pc = "witCount" /\ pc \in TxBody
  BY DEF ParseWitness, TxBody
<1>2. /\ Usable(reader) /\ tx \in TxType /\ tx.from \in Format!Places(f)
      /\ TxToCome(f, tx, reader.mpos, pc) /\ TxLayout(File, tx, reader.mpos, pc)
      /\ reader.mpos \in Format!Places(f)
  BY <1>1, InsideTx, UsablePlace
<1>3. tx' \in TxType
  BY DEF IInv, TypeOK
<1>4. Chain(reader, res)
  BY <1>2, ChainCompactSize
<1>5. /\ tx.segwit = Format!Segwit(f, tx.from) /\ tx.segwit
      /\ Format!Stacks(f, tx.from) =
            Format!Repeat(Format!Stack(f), tx.inCount - Len(tx.witnesses), reader.mpos)
      /\ Len(tx.vin) = tx.inCount /\ Len(tx.witnesses) < tx.inCount
  BY <1>1, <1>2 DEF TxToCome, TxLayout, StacksRead, OutputsRead
<1>6. /\ tx.witnesses \in Seq(WitnessType) /\ Len(tx.witnesses) \in Nat /\ tx.inCount \in Nat
      /\ reader.mpos \in Nat
  <2>1. reader.mpos \in Nat
    BY <1>2, UsableFields
  <2> QED BY <1>2, <2>1 DEF TxType
<1>7. Format!Stack(f)[reader.mpos] = Format!List(f, Format!Item(f), reader.mpos)
  BY <1>2, PartsAt
<1>8. /\ Counted(res) =>
           /\ res.status = "ok" /\ res.data \in Nat
           /\ Format!Stack(f)[reader.mpos] =
                 Format!Repeat(Format!Item(f), res.data, res.reader.mpos)
      /\ StopCount(res) => Format!Stack(f)[reader.mpos] = Format!Nowhere
  BY <1>2, <1>7, ListRead
<1>9. \/ /\ Counted(res)
         /\ tx' = [tx EXCEPT !.witnesses = stacks]
         /\ Goto(res, NextItem(tx'))
         /\ UNCHANGED <<blocks, block>>
      \/ StopCount(res)
  BY DEF ParseWitness
<1>10. w.count = res.data /\ w.items = <<>> /\ Len(w.items) = 0
  OBVIOUS
<1>11. res.reader.mpos \in Nat /\ res.data \in Nat => w \in WitnessType
  BY <1>6 DEF WitnessType
<1> HIDE DEF res, w, f
<1>12. CASE /\ Counted(res)
            /\ tx' = [tx EXCEPT !.witnesses = stacks]
            /\ Goto(res, NextItem(tx'))
            /\ UNCHANGED <<blocks, block>>
  <2>1. w \in WitnessType
    BY <1>4, <1>8, <1>11, <1>12, PlaceOk
  <2>2. /\ Len(stacks) = Len(tx.witnesses) + 1 /\ stacks[Len(stacks)] = w
    BY <1>6, <2>1
  <2> HIDE DEF stacks
  <2>3. /\ tx'.from = tx.from /\ tx'.vin = tx.vin /\ tx'.segwit = tx.segwit
        /\ tx'.inCount = tx.inCount /\ tx'.witnesses = stacks
    BY <1>2, <1>12 DEF TxType
  <2>4. Len(tx'.witnesses) <= tx'.inCount
    BY <1>5, <1>6, <2>2, <2>3
  <2>5. Format!Stacks(f, tx.from) =
           Format!Repeat(Format!Stack(f), tx.inCount - (Len(tx.witnesses) + 1),
                         Format!Repeat(Format!Item(f), res.data, res.reader.mpos))
    <3>1. Format!Repeat(Format!Stack(f), tx.inCount - Len(tx.witnesses), reader.mpos) =
             Format!Repeat(Format!Stack(f), tx.inCount - (Len(tx.witnesses) + 1),
                           Format!Stack(f)[reader.mpos])
      <4> DEFINE m == Len(tx.witnesses)
      <4>1. m \in Nat /\ tx.inCount \in Nat /\ m < tx.inCount
        BY <1>5, <1>6
      <4> HIDE DEF m
      <4>2. Format!Repeat(Format!Stack(f), tx.inCount - m, reader.mpos) =
               Format!Repeat(Format!Stack(f), tx.inCount - (m + 1), Format!Stack(f)[reader.mpos])
        BY <4>1, OneRead
      <4> QED BY <4>2 DEF m
    <3> QED BY <1>5, <1>8, <1>12, <3>1
  <2>6. w.count - Len(w.items) = res.data /\ Len(w.items) <= w.count
    BY <1>8, <1>10, <1>12
  <2>7. TxToCome(f, tx', res.reader.mpos, NextItem(tx'))
    <3>1. w = tx'.witnesses[Len(tx'.witnesses)]
      BY <2>2, <2>3
    <3>2. Format!Stacks(f, tx'.from) =
             Format!Repeat(Format!Stack(f), tx'.inCount - Len(tx'.witnesses),
                Format!Repeat(Format!Item(f), w.count - Len(w.items), res.reader.mpos))
      BY <2>2, <2>3, <2>5, <2>6
    <3>3. tx'.segwit /\ tx'.segwit = Format!Segwit(f, tx'.from) /\ Len(tx'.vin) = tx'.inCount
      BY <1>5, <2>3
    <3> QED BY <1>3, <2>1, <2>4, <2>6, <3>1, <3>2, <3>3, ItemsToCome
  <2>8. NextItem(tx') \in TxBody
    BY NextLabels DEF TxBody
  <2> QED BY <1>1, <1>4, <1>12, <2>3, <2>7, <2>8, TxGoesOn DEF f
<1>13. CASE StopCount(res)
  <2>1. Format!Stacks(f, tx.from) = Format!Nowhere
    BY <1>5, <1>6, <1>8, <1>13, NowherePart, OneMissing
  <2>2. Format!Transaction(f)[tx.from] = Format!Nowhere
    BY <1>2, <2>1, TxMissing
  <2> QED BY <1>1, <1>4, <1>13, <2>2, TxGivesUp DEF f
<1> QED BY <1>9, <1>12, <1>13

LEMMA AddItemCounts ==
    ASSUME NEW stacks \in Seq(WitnessType), stacks # <<>>, NEW item \in ExtentType, NEW end \in Nat
    PROVE  LET more == AddItem(stacks, item, end)
               last == Len(stacks) IN
           /\ Len(more) = last /\ last \in 1 .. Len(stacks)
           /\ Len(more[last].items) = Len(stacks[last].items) + 1
           /\ more[last].count = stacks[last].count
           /\ more[last] \in WitnessType /\ stacks[last] \in WitnessType
<1> DEFINE last == Len(stacks)
           old  == stacks[last]
           w    == [old EXCEPT !.items = Append(old.items, item), !.to = end]
           more == AddItem(stacks, item, end)
<1>1. last \in 1 .. Len(stacks)
  OBVIOUS
<1>2. old \in WitnessType
  BY <1>1, ElementOfSeq
<1>3. more = [stacks EXCEPT ![last] = w]
  BY DEF AddItem
<1> HIDE DEF old
<1>4. w \in WitnessType /\ Len(w.items) = Len(old.items) + 1 /\ w.count = old.count
  <2> DEFINE items == Append(old.items, item)
  <2>1. old.items \in Seq(ExtentType)
    BY <1>2 DEF WitnessType
  <2>2. items \in Seq(ExtentType) /\ Len(items) = Len(old.items) + 1
    BY <2>1
  <2> HIDE DEF items
  <2> QED BY <1>2, <2>2 DEF WitnessType, items
<1> HIDE DEF w, more
<1>5. Len(more) = last /\ more[last] = w
  BY <1>1, <1>3
<1> HIDE DEF last
<1> QED BY <1>1, <1>2, <1>4, <1>5 DEF old, last, more

LEMMA ParseWitnessItemToCome ==
    ASSUME IInv, IInv', Layout, ToCome, ParseWitnessItem
    PROVE  ToCome'
<1> DEFINE length == ReadCompactSize(reader)
           res    == Then(length, length.data)
           item   == Extent(length.reader.mpos, length.data)
           stacks == AddItem(tx.witnesses, item, res.reader.mpos)
           last   == Len(tx.witnesses)
           old    == tx.witnesses[last]
           f      == Plain(reader)
<1>1. pc = "witItem" /\ pc \in TxBody
  BY DEF ParseWitnessItem, TxBody
<1>2. /\ Usable(reader) /\ tx \in TxType /\ tx.from \in Format!Places(f)
      /\ TxToCome(f, tx, reader.mpos, pc) /\ TxLayout(File, tx, reader.mpos, pc)
  BY <1>1, InsideTx
<1>3. tx' \in TxType
  BY DEF IInv, TypeOK
<1>4. Chain(reader, res)
  <2>1. Chain(reader, length) /\ (length.status = "ok" => length.data \in Nat)
    BY <1>2, ChainCompactSize
  <2> HIDE DEF length
  <2> QED BY <1>2, <2>1, ChainThen
<1>5. Place(res) = Format!Item(f)[reader.mpos]
  BY <1>2, PlaceItem
<1>6. res.status = "ok" => item \in ExtentType
  <2>1. res.status = "ok" => item.from \in Nat /\ item.to \in Nat
    BY <1>2, PayloadRead
  <2> QED BY <2>1 DEF Extent, ExtentType
<1>7. \/ /\ res.status = "ok"
         /\ tx' = [tx EXCEPT !.witnesses = stacks]
         /\ Goto(res, NextItem(tx'))
         /\ UNCHANGED <<blocks, block>>
      \/ Stop(res)
  BY DEF ParseWitnessItem
<1>8. /\ tx.segwit = Format!Segwit(f, tx.from) /\ tx.segwit
      /\ Format!Stacks(f, tx.from) =
            Format!Repeat(Format!Stack(f), tx.inCount - last,
                          Format!Repeat(Format!Item(f), old.count - Len(old.items), reader.mpos))
      /\ Len(tx.vin) = tx.inCount /\ last \in 1 .. tx.inCount /\ Len(old.items) < old.count
  BY <1>1, <1>2, Zenon DEF TxToCome, TxLayout, StacksRead, OutputsRead
<1>9. /\ tx.witnesses \in Seq(WitnessType) /\ last \in Nat /\ tx.inCount \in Nat
      /\ tx.witnesses # <<>>
  BY <1>2, <1>8 DEF TxType
<1>10. old \in WitnessType
  BY <1>8, <1>9, ElementOfSeq
<1> HIDE DEF length, res, item, f, old
<1>11. old.count \in Nat /\ Len(old.items) \in Nat
  BY <1>10 DEF WitnessType
<1>12. CASE /\ res.status = "ok"
            /\ tx' = [tx EXCEPT !.witnesses = stacks]
            /\ Goto(res, NextItem(tx'))
            /\ UNCHANGED <<blocks, block>>
  <2> DEFINE w == stacks[last]
  <2>1. /\ Len(stacks) = last /\ w \in WitnessType
        /\ Len(w.items) = Len(old.items) + 1 /\ w.count = old.count
    <3>1. res.reader.mpos \in Nat
      BY <1>4, <1>12, PlaceOk
    <3> QED BY <1>6, <1>9, <1>12, <3>1, AddItemCounts DEF old
  <2> HIDE DEF stacks, last, w
  <2>2. /\ tx'.from = tx.from /\ tx'.vin = tx.vin /\ tx'.segwit = tx.segwit
        /\ tx'.inCount = tx.inCount /\ tx'.witnesses = stacks
    BY <1>2, <1>12 DEF TxType
  <2>3. Len(tx'.witnesses) <= tx'.inCount
    BY <1>8, <1>9, <2>1, <2>2
  <2>4. Format!Repeat(Format!Item(f), old.count - Len(old.items), reader.mpos) =
           Format!Repeat(Format!Item(f), w.count - Len(w.items), res.reader.mpos)
    <3>1. Format!Repeat(Format!Item(f), old.count - Len(old.items), reader.mpos) =
             Format!Repeat(Format!Item(f), old.count - (Len(old.items) + 1), res.reader.mpos)
      BY <1>4, <1>5, <1>8, <1>11, <1>12, NowherePart, RecordRead
    <3> QED BY <2>1, <3>1
  <2>5. Len(w.items) <= w.count
    BY <1>8, <1>11, <2>1
  <2>6. TxToCome(f, tx', res.reader.mpos, NextItem(tx'))
    <3>1. w = tx'.witnesses[Len(tx'.witnesses)]
      BY <2>1, <2>2 DEF w
    <3>2. Format!Stacks(f, tx'.from) =
             Format!Repeat(Format!Stack(f), tx'.inCount - Len(tx'.witnesses),
                Format!Repeat(Format!Item(f), w.count - Len(w.items), res.reader.mpos))
      BY <1>8, <2>1, <2>2, <2>4
    <3>3. tx'.segwit /\ tx'.segwit = Format!Segwit(f, tx'.from) /\ Len(tx'.vin) = tx'.inCount
      BY <1>8, <2>2
    <3> QED BY <1>3, <2>1, <2>3, <2>5, <3>1, <3>2, <3>3, ItemsToCome
  <2>7. NextItem(tx') \in TxBody
    BY NextLabels DEF TxBody
  <2> QED BY <1>1, <1>4, <1>12, <2>2, <2>6, <2>7, TxGoesOn DEF f
<1>13. CASE Stop(res)
  <2>1. Format!Repeat(Format!Item(f), old.count - Len(old.items), reader.mpos) = Format!Nowhere
    BY <1>4, <1>5, <1>8, <1>11, <1>13, NowherePart, RecordRead DEF Stop
  <2>2. tx.inCount - last \in Nat
    BY <1>8, <1>9
  <2>3. Format!Stacks(f, tx.from) = Format!Nowhere
    BY <1>8, <2>1, <2>2, NowherePart, RepeatNowhere
  <2>4. Format!Transaction(f)[tx.from] = Format!Nowhere
    BY <1>2, <2>3, TxMissing
  <2> QED BY <1>1, <1>4, <1>13, <2>4, TxGivesUp DEF f
<1> QED BY <1>7, <1>12, <1>13

LEMMA ParseLockTimeToCome ==
    ASSUME IInv, IInv', Layout, ToCome, ParseLockTime
    PROVE  ToCome'
<1> DEFINE res == ReadData(reader, 4)
           f   == Plain(reader)
<1>1. pc = "lockTime" /\ pc \in TxBody
  BY DEF ParseLockTime, TxBody
<1>2. /\ Usable(reader) /\ tx \in TxType /\ tx.from \in Format!Places(f)
      /\ TxToCome(f, tx, reader.mpos, pc)
  BY <1>1, InsideTx
<1>3. Chain(reader, res)
  BY <1>2, ChainRead
<1>4. Place(res) = Format!Skip(f, reader.mpos, 4)
  <2>1. 4 <= AllocLimit
    BY AllocLimitAssumption
  <2> QED BY <1>2, <2>1, PlaceRead
<1>5. tx.segwit = Format!Segwit(f, tx.from) /\ Format!Stacks(f, tx.from) = reader.mpos
  BY <1>1, <1>2 DEF TxToCome
<1>6. \/ /\ res.status = "ok"
         /\ tx' = [tx EXCEPT !.to = res.reader.mpos]
         /\ Goto(res, "txHash")
         /\ UNCHANGED <<blocks, block>>
      \/ Stop(res)
  BY DEF ParseLockTime
<1> HIDE DEF res, f
<1>7. CASE /\ res.status = "ok"
           /\ tx' = [tx EXCEPT !.to = res.reader.mpos]
           /\ Goto(res, "txHash")
           /\ UNCHANGED <<blocks, block>>
  <2>1. tx'.from = tx.from /\ tx'.segwit = tx.segwit
    BY <1>2, <1>7 DEF TxType
  <2>2. Format!Skip(f, Format!Stacks(f, tx.from), 4) = res.reader.mpos
    BY <1>3, <1>4, <1>5, <1>7, PlaceOk
  <2>3. TxToCome(f, tx', res.reader.mpos, "txHash")
    BY <1>5, <2>1, <2>2 DEF TxToCome
  <2> QED BY <1>1, <1>3, <1>7, <2>1, <2>3, TxGoesOn DEF f, TxBody
<1>8. CASE Stop(res)
  <2>1. Format!Skip(f, Format!Stacks(f, tx.from), 4) = Format!Nowhere
    BY <1>3, <1>4, <1>5, <1>8, PlaceOk DEF Stop
  <2>2. Format!Transaction(f)[tx.from] = Format!Nowhere
    BY <1>2, <2>1, TxMissing
  <2> QED BY <1>1, <1>3, <1>8, <2>2, TxGivesUp DEF f
<1> QED BY <1>6, <1>7, <1>8

(* A running parse can always go back.                                     *)
LEMMA RewindOk ==
    ASSUME NEW r, NEW one, Chain(r, one), one.status = "ok", NEW p \in Nat
    PROVE  ThenSetReadPosition(one, p).status = "ok"
<1> DEFINE back == SetReadPosition(one.reader, p)
<1>1. Usable(one.reader)
  BY DEF Chain
<1>2. one.reader.fail = FALSE /\ Sound(one.reader)
  BY <1>1, UsableFields DEF Usable
<1>3. back.status = "ok" /\ back = Result(back.reader, back.status, <<>>)
  BY <1>2, SetReadPositionSound
<1>4. ThenSetReadPosition(one, p) = [back EXCEPT !.data = one.data]
  BY DEF ThenSetReadPosition
<1> HIDE DEF back
<1> QED BY <1>3, <1>4 DEF Result

(* A file that ends within the two bytes behind a version.                 *)
LEMMA FlagMissing ==
    ASSUME NEW f \in Seq(Byte), NEW p \in Nat, p + 4 <= Len(f), ~(p + 6 <= Len(f))
    PROVE  Format!Outputs(f, p) = Format!Nowhere
<1> DEFINE D == {Format!Nowhere, Len(f)}
           q == p + 4
<1>1. Len(f) \in Nat /\ q \in Nat /\ p # Format!Nowhere /\ q # Format!Nowhere
      /\ Len(f) # Format!Nowhere
  BY DEF Format!Nowhere
<1>2. \A n \in Nat : n >= 1 => Format!Skip(f, Len(f), n) = Format!Nowhere
  BY <1>1 DEF Format!Skip
<1>3. Format!Begin(f, p) = q
  <2>1. Format!Skip(f, p, 6) = Format!Nowhere /\ Format!Skip(f, p, 4) = q
    BY <1>1 DEF Format!Skip
  <2>2. ~ Format!Segwit(f, p)
    BY <2>1 DEF Format!Segwit
  <2> QED BY <2>1, <2>2 DEF Format!Begin
<1>4. Format!CountEnd(f, Len(f)) = Format!Nowhere
  BY <1>2 DEF Format!CountEnd
<1>5. Format!List(f, Format!Output(f), Len(f)) = Format!Nowhere
  BY <1>4, ListUncounted
<1>6. CASE ~Format!Counted(f, q)
  <2>1. Format!Inputs(f, p) = Format!Nowhere
    BY <1>3, <1>6, Zenon DEF Format!Inputs, Format!List
  <2> QED BY <2>1, NothingFollows DEF Format!Outputs
<1>7. CASE Format!Counted(f, q)
  <2> HIDE DEF q
  <2>1. Format!CountEnd(f, q) # Format!Nowhere
    BY <1>7, Zenon DEF Format!Counted
  <2>2. Format!Skip(f, q, 1) # Format!Nowhere
        /\ Format!CountEnd(f, q) = Format!Skip(f, q, 1 + Format!Wide(f[q + 1]))
    BY <2>1, Zenon DEF Format!CountEnd
  <2>3. q + 1 <= Len(f)
    BY <2>2 DEF Format!Skip
  <2>4. f[q + 1] \in Byte
    BY <1>1, <2>3, ElementOfSeq
  <2>5. Format!Wide(f[q + 1]) \in {0, 2, 4, 8} /\ \A b \in Byte : b \in Nat
    <3>1. \A b \in Byte : b \in Nat
      BY DEF Byte
    <3> QED BY <2>4, <3>1, WideIsTail
  <2>6. q + (1 + Format!Wide(f[q + 1])) <= Len(f)
        /\ Format!CountEnd(f, q) = q + (1 + Format!Wide(f[q + 1]))
    BY <2>1, <2>2 DEF Format!Skip
  <2>7. Format!Wide(f[q + 1]) = 0 /\ Format!CountEnd(f, q) = Len(f)
    <3> DEFINE k == Format!Wide(f[q + 1])
    <3>1. k \in {0, 2, 4, 8} /\ q + (1 + k) <= Len(f)
          /\ Format!CountEnd(f, q) = q + (1 + k)
      BY <2>5, <2>6
    <3>2. q + 2 > Len(f)
      BY <1>1 DEF q
    <3> HIDE DEF k
    <3>3. k = 0 /\ Format!CountEnd(f, q) = Len(f)
      BY <1>1, <2>3, <3>1, <3>2
    <3> QED BY <3>3 DEF k
  <2>8. Format!Count(f, q) \in Nat
    BY <2>4, <2>5, <2>7, Zenon DEF Format!Count
  <2>9. \A x \in D : Format!Input(f)[x] \in D
    <3>1. Format!Input(f)[Format!Nowhere] = Format!Nowhere
      BY NowherePart
    <3>2. Len(f) \in Format!Places(f)
      BY <1>1 DEF Format!Places
    <3>3. Format!Input(f)[Len(f)] =
             Format!Skip(f, Format!Text(f, Format!Skip(f, Len(f), 36)), 4)
      BY <3>2, PartsAt
    <3>4. Format!Skip(f, Len(f), 36) = Format!Nowhere
      BY <1>2
    <3>5. Format!Input(f)[Len(f)] = Format!Nowhere
      BY <3>3, <3>4, NothingFollows
    <3> QED BY <3>1, <3>5
  <2>10. Format!Repeat(Format!Input(f), Format!Count(f, q), Len(f)) \in D
    <3>1. Len(f) \in D
      OBVIOUS
    <3> HIDE DEF D
    <3> QED BY <2>8, <2>9, <3>1, RepeatKeeps
  <2>11. Format!Inputs(f, p) = Format!Repeat(Format!Input(f), Format!Count(f, q), Len(f))
    BY <1>3, <1>7, <2>7, Zenon DEF Format!Inputs, Format!List
  <2>12. Format!Inputs(f, p) = Format!Nowhere \/ Format!Inputs(f, p) = Len(f)
    BY <2>10, <2>11
  <2> QED BY <1>5, <2>12, NothingFollows DEF Format!Outputs
<1> QED BY <1>6, <1>7

LEMMA ParseTransactionFlagToCome ==
    ASSUME IInv, IInv', Layout, ToCome, ParseTransactionFlag
    PROVE  ToCome'
<1> DEFINE two == ReadData(reader, 2)
           res == IF FlagFound(two.data) THEN two ELSE ThenSetReadPosition(two, reader.mpos)
           f   == Plain(reader)
           p   == tx.from
<1>1. pc = "flag" /\ pc \in TxBody
  BY DEF ParseTransactionFlag, TxBody
<1>2. /\ Usable(reader) /\ tx \in TxType /\ p \in Format!Places(f) /\ p \in Nat
      /\ TxLayout(File, tx, reader.mpos, pc)
  BY <1>1, InsideTx
<1>3. /\ reader \in ReaderType /\ reader.mpos \in Nat /\ f \in Seq(Byte)
      /\ Len(f) = Len(reader.disk) /\ Len(f) \in Nat /\ reader.mpos <= Len(f)
  BY <1>2, UsableFields, UsablePlace
<1>4. reader.mpos = p + 4
  BY <1>1, <1>2 DEF TxLayout
<1>5. /\ Chain(reader, two)
      /\ two.status = "ok" => /\ two.reader.mpos = reader.mpos + 2
                              /\ reader.mpos + 2 <= Len(reader.disk)
                              /\ two.data = PlainAt(reader, reader.mpos, 2)
  BY <1>2, ChainRead
<1>6. Place(two) = Format!Skip(f, reader.mpos, 2)
  <2>1. 2 <= AllocLimit
    BY AllocLimitAssumption
  <2> QED BY <1>2, <2>1, PlaceRead
<1> HIDE DEF two
<1>7. /\ Chain(reader, res)
      /\ res.status = "ok" =>
            /\ two.status = "ok"
            /\ res.reader.mpos = IF FlagFound(two.data) THEN reader.mpos + 2 ELSE reader.mpos
  BY <1>2, <1>5, ChainRewind
<1>8. res.status # "ok" => two.status # "ok"
  BY <1>3, <1>5, RewindOk
<1>9. \/ /\ res.status = "ok"
         /\ tx' = [tx EXCEPT !.segwit = FlagFound(two.data)]
         /\ Goto(res, "inCount")
         /\ UNCHANGED <<blocks, block>>
      \/ Stop(res)
  BY DEF ParseTransactionFlag, two
<1> HIDE DEF res, f
<1>10. CASE /\ res.status = "ok"
            /\ tx' = [tx EXCEPT !.segwit = FlagFound(two.data)]
            /\ Goto(res, "inCount")
            /\ UNCHANGED <<blocks, block>>
  <2>1. tx'.from = p /\ tx'.segwit = FlagFound(two.data)
    BY <1>2, <1>10 DEF TxType
  <2>2. p + 6 <= Len(f) /\ p + 4 <= Len(f)
    BY <1>2, <1>3, <1>4, <1>5, <1>7, <1>10
  <2>3. Format!Skip(f, p, 6) = p + 6 /\ Format!Skip(f, p, 4) = p + 4
        /\ Format!Skip(f, p, 6) # Format!Nowhere
    BY <1>2, <2>2 DEF Format!Skip, Format!Nowhere
  <2>4. two.data = SubSeq(f, p + 5, p + 6)
    <3>1. PlainAt(reader, p + 4, 2) = SubSeq(f, (p + 4) + 1, (p + 4) + 2)
      <4>1. p + 4 \in Nat /\ 2 \in Nat /\ (p + 4) + 2 <= Len(reader.disk)
        BY <1>2, <1>3, <2>2
      <4> HIDE DEF p
      <4>2. PlainAt(reader, p + 4, 2) = SubSeq(Plain(reader), (p + 4) + 1, (p + 4) + 2)
        BY <1>3, <4>1, PlainAtIsSubSeq
      <4> QED BY <4>2 DEF f
    <3>2. (p + 4) + 1 = p + 5 /\ (p + 4) + 2 = p + 6
      BY <1>2
    <3> QED BY <1>4, <1>5, <1>7, <1>10, <3>1, <3>2
  <2>5. Format!Segwit(f, p) = FlagFound(two.data)
    BY <2>3, <2>4, Zenon DEF Format!Segwit, FlagFound, SegwitFlag
  <2>6. res.reader.mpos = Format!Begin(f, p)
    <3>1. CASE FlagFound(two.data)
      <4>1. Format!Begin(f, p) = p + 6
        BY <2>3, <2>5, <3>1 DEF Format!Begin
      <4> QED BY <1>2, <1>4, <1>7, <1>10, <3>1, <4>1
    <3>2. CASE ~FlagFound(two.data)
      <4>1. Format!Begin(f, p) = p + 4
        BY <2>3, <2>5, <3>2 DEF Format!Begin
      <4> QED BY <1>2, <1>4, <1>7, <1>10, <3>2, <4>1
    <3> QED BY <3>1, <3>2
  <2>7. TxToCome(f, tx', res.reader.mpos, "inCount")
    BY <2>1, <2>5, <2>6 DEF TxToCome
  <2> QED BY <1>1, <1>7, <1>10, <2>1, <2>7, TxGoesOn DEF f, TxBody
<1>11. CASE Stop(res)
  <2>1. Format!Skip(f, reader.mpos, 2) = Format!Nowhere
    BY <1>5, <1>6, <1>8, <1>11, PlaceOk DEF Stop
  <2>2. ~(p + 6 <= Len(f)) /\ p + 4 <= Len(f)
    <3>1. reader.mpos # Format!Nowhere /\ reader.mpos + 2 # Format!Nowhere
      BY <1>3 DEF Format!Nowhere
    <3>2. ~(reader.mpos + 2 <= Len(f))
      BY <2>1, <3>1 DEF Format!Skip
    <3> QED BY <1>2, <1>3, <1>4, <3>2
  <2>3. Format!Outputs(f, p) = Format!Nowhere
    BY <1>2, <1>3, <2>2, FlagMissing
  <2>4. Format!Transaction(f)[p] = Format!Nowhere
    BY <1>2, <2>3, TxMissing
  <2> QED BY <1>1, <1>7, <1>11, <2>4, TxGivesUp DEF f
<1> QED BY <1>9, <1>10, <1>11

-----------------------------------------------------------------------------
(* The steps of a block.                                                   *)

(* Where a block cannot be, for want of bytes or of the right ones.        *)
LEMMA ShortBlock ==
    ASSUME NEW f, NEW b, NEW n \in 0 .. 88, b.from \in Nat, Len(f) \in Nat,
           ~(b.from + n <= Len(f))
    PROVE  Refused(f, b)
<1>1. ~(b.from + 88 <= Len(f))
  OBVIOUS
<1>2. Format!Skip(f, b.from, 88) = Format!Nowhere
  BY <1>1 DEF Format!Skip
<1> QED BY <1>2, Zenon DEF Refused, Format!Block

LEMMA WrongBlock ==
    ASSUME NEW f, NEW b,
           \/ SubSeq(f, b.from + 1, b.from + 4) # MagicBytes
           \/ Format!Number(SubSeq(f, b.from + 5, b.from + 8)) \notin 1 .. MaxBlockSize
    PROVE  Refused(f, b)
BY Zenon DEF Refused, Format!Block, MagicBytes

(* Four bytes of a file.                                                   *)
LEMMA PlainBytesAt ==
    ASSUME NEW r \in ReaderType, NEW p \in Nat, p + 4 <= Len(r.disk)
    PROVE  /\ PlainAt(r, p, 4) = SubSeq(Plain(r), p + 1, p + 4)
           /\ PlainAt(r, p, 4) \in Seq(Byte) /\ Len(PlainAt(r, p, 4)) = 4
<1>1. 4 \in Nat
  OBVIOUS
<1> QED BY <1>1, PlainAtIsSubSeq

(* A step on to another function of the same block.                        *)
LEMMA BlockGoesOn ==
    ASSUME IInv, ToCome, pc \notin {"block", "end"}, NEW res, Chain(reader, res),
           NEW label \in BlockBody \cup {"size"}, Goto(res, label),
           blocks' = blocks, block'.from = block.from,
           block'.size = block.size \/ block'.size \in 1 .. MaxBlockSize,
           pc \in BlockBody \/ label = "size" \/ block'.size \in 1 .. MaxBlockSize,
           label \in {"version", "blockEnd"} =>
              BlockToCome(Plain(reader), block', res.reader.mpos),
           label \in TxBody =>
              /\ BlockToCome(Plain(reader), block', tx'.from)
              /\ TxToCome(Plain(reader), tx', res.reader.mpos, label)
    PROVE  ToCome'
<1>1. reader' = res.reader /\ pc' = label /\ outcome' = outcome
  BY DEF Goto
<1>2. Plain(reader') = Plain(reader)
  BY <1>1, PlainOfFile DEF Chain
<1>3. pc' \notin {"block", "end"} /\ outcome = "running" /\ "size" \notin BlockBody
  BY <1>1, Running DEF BlockBody, TxBody
<1>4. /\ block.from < Len(Plain(reader))
      /\ \A i \in 1 .. Len(blocks) : Format!Block(Plain(reader), blocks[i].from) = blocks[i].to
      /\ (pc \in BlockBody => block.size \in 1 .. MaxBlockSize)
  BY <1>3 DEF ToCome, Parsed
<1>5. pc' \in BlockBody => block'.size \in 1 .. MaxBlockSize
  <2> DEFINE R == 1 .. MaxBlockSize
  <2>1. /\ block'.size = block.size \/ block'.size \in R
        /\ pc \in BlockBody \/ label = "size" \/ block'.size \in R
        /\ pc \in BlockBody => block.size \in R
    <3>1. pc \in BlockBody => block.size \in R
      BY <1>4, Zenon
    <3>2. block'.size = block.size \/ block'.size \in R
      BY Zenon
    <3>3. pc \in BlockBody \/ label = "size" \/ block'.size \in R
      BY Zenon
    <3> QED BY <3>1, <3>2, <3>3, Zenon
  <2> HIDE DEF R
  <2>2. pc' \in BlockBody => block'.size \in R
    BY <1>1, <1>3, <2>1
  <2> QED BY <2>2 DEF R
<1> QED BY <1>1, <1>2, <1>3, <1>4, <1>5 DEF ToCome, Parsed

(* What is known inside a block.                                           *)
LEMMA InsideBlock ==
    ASSUME IInv, ToCome, pc \notin {"block", "end"}
    PROVE  /\ Usable(reader) /\ outcome = "running" /\ block \in BlockType /\ tx \in TxType
           /\ reader \in ReaderType /\ reader.mpos \in Nat /\ block.from \in Nat
           /\ Plain(reader) \in Seq(Byte) /\ Len(Plain(reader)) = Len(reader.disk)
           /\ Len(reader.disk) \in Nat /\ reader.mpos <= Len(reader.disk)
           /\ reader.mpos \in Format!Places(Plain(reader)) /\ block.from < Len(reader.disk)
<1>1. Usable(reader) /\ outcome = "running" /\ block \in BlockType /\ tx \in TxType
  BY Running
<1>2. reader \in ReaderType
  BY <1>1, UsableFields
<1>3. block.from < Len(Plain(reader))
  BY <1>1 DEF ToCome, Parsed
<1>4. block.from \in Nat
  BY <1>1 DEF BlockType
<1> QED BY <1>1, <1>2, <1>3, <1>4, UsablePlace

LEMMA StartBlockToCome ==
    ASSUME IInv, IInv', Layout, ToCome, StartBlock
    PROVE  ToCome'
<1>1. pc = "block" /\ reader' = AfterIsEof(reader) /\ blocks' = blocks
  BY DEF StartBlock
<1>2. /\ Usable(reader) /\ reader.mpos \in Nat /\ Len(Plain(reader)) = Len(reader.disk)
      /\ Len(reader.disk) \in Nat
  BY <1>1, Running, UsablePlace
<1>3. /\ reader'.disk = reader.disk /\ reader'.key = reader.key
      /\ AtEof(reader) = (reader.fail \/ reader.mpos >= Len(reader.disk))
  BY <1>1, <1>2, IsEofSound DEF Usable
<1>4. Plain(reader') = Plain(reader)
  BY <1>3, PlainOfFile
<1>5. \A i \in 1 .. Len(blocks) : Format!Block(Plain(reader), blocks[i].from) = blocks[i].to
  BY DEF ToCome, Parsed
<1>6. {"end", "magic"} \cap BlockBody = {} /\ {"end", "magic"} \cap TxBody = {}
  BY DEF BlockBody, TxBody
<1>7. CASE AtEof(reader)
  <2>1. pc' = "end" /\ outcome' = "done"
    BY <1>7 DEF StartBlock
  <2> QED BY <1>1, <1>4, <1>5, <1>6, <2>1 DEF ToCome, Parsed
<1>8. CASE ~AtEof(reader)
  <2>1. pc' = "magic" /\ block' = NewBlock(reader.mpos)
    BY <1>8 DEF StartBlock
  <2>2. block'.from < Len(Plain(reader))
    <3>1. block'.from = reader.mpos
      BY <2>1 DEF NewBlock
    <3>2. ~(reader.mpos >= Len(reader.disk))
      BY <1>3, <1>8, Zenon
    <3> QED BY <1>2, <3>1, <3>2
  <2> QED BY <1>1, <1>4, <1>5, <1>6, <2>1, <2>2 DEF ToCome, Parsed
<1> QED BY <1>7, <1>8

LEMMA ParseMagicNumberToCome ==
    ASSUME IInv, IInv', Layout, ToCome, ParseMagicNumber
    PROVE  ToCome'
<1> DEFINE res == ReadData(reader, 4)
           f   == Plain(reader)
<1>1. pc = "magic"
  BY DEF ParseMagicNumber
<1>2. /\ Usable(reader) /\ outcome = "running" /\ block.from \in Nat /\ reader \in ReaderType
      /\ Len(f) = Len(reader.disk) /\ Len(f) \in Nat
  BY <1>1, InsideBlock
<1>3. reader.mpos = block.from
  BY <1>1 DEF IInv, BlockUnderway
<1>4. /\ Chain(reader, res)
      /\ res.status = "ok" => /\ reader.mpos + 4 <= Len(reader.disk)
                              /\ res.data = PlainAt(reader, reader.mpos, 4)
  BY <1>2, ChainRead
<1>5. Place(res) = Format!Skip(f, reader.mpos, 4)
  <2>1. 4 <= AllocLimit
    BY AllocLimitAssumption
  <2> QED BY <1>2, <2>1, PlaceRead
<1>6. \/ /\ res.status = "ok" /\ Goto(res, "size")
         /\ UNCHANGED <<blocks, block, tx>>
      \/ res.status = "ok" /\ res.data # MagicBytes /\ Leave(res.reader, "BlockWrongMagic")
      \/ Stop(res)
  BY DEF ParseMagicNumber
<1> HIDE DEF res, f
<1>7. CASE /\ res.status = "ok" /\ Goto(res, "size")
           /\ UNCHANGED <<blocks, block, tx>>
  BY <1>1, <1>4, <1>7, BlockGoesOn DEF TxBody
<1>8. CASE res.status = "ok" /\ res.data # MagicBytes /\ Leave(res.reader, "BlockWrongMagic")
  <2>1. res.data = SubSeq(f, block.from + 1, block.from + 4)
    BY <1>2, <1>3, <1>4, <1>8, PlainBytesAt DEF f
  <2>2. Refused(f, block)
    BY <1>8, <2>1, WrongBlock
  <2>3. /\ reader' = res.reader /\ pc' = "end" /\ outcome' = "BlockWrongMagic"
        /\ block' = block /\ blocks' = blocks
    BY <1>8 DEF Leave
  <2>4. reader'.disk = reader.disk /\ reader'.key = reader.key
    BY <1>4, <2>3 DEF Chain
  <2> QED BY <1>1, <1>2, <2>2, <2>3, <2>4, ExitToCome DEF f
<1>9. CASE Stop(res)
  <2>1. Format!Skip(f, block.from, 4) = Format!Nowhere
    BY <1>3, <1>4, <1>5, <1>9, PlaceOk DEF Stop
  <2>2. ~(block.from + 4 <= Len(f))
    BY <1>2, <2>1 DEF Format!Skip, Format!Nowhere
  <2>3. Refused(f, block)
    BY <1>2, <2>2, ShortBlock
  <2> QED BY <1>1, <1>4, <1>9, <2>3, StopToCome DEF f
<1> QED BY <1>6, <1>7, <1>8, <1>9

LEMMA ParseBlockSizeToCome ==
    ASSUME IInv, IInv', Layout, ToCome, ParseBlockSize
    PROVE  ToCome'
<1> DEFINE res  == ReadData(reader, 4)
           size == Le32(res.data)
           f    == Plain(reader)
<1>1. pc = "size"
  BY DEF ParseBlockSize
<1>2. /\ Usable(reader) /\ outcome = "running" /\ block.from \in Nat /\ reader \in ReaderType
      /\ Len(f) = Len(reader.disk) /\ Len(f) \in Nat /\ block \in BlockType
  BY <1>1, InsideBlock
<1>3. reader.mpos = block.from + 4
  BY <1>1 DEF IInv, BlockUnderway
<1>4. /\ Chain(reader, res)
      /\ res.status = "ok" => /\ reader.mpos + 4 <= Len(reader.disk)
                              /\ res.data = PlainAt(reader, reader.mpos, 4)
  BY <1>2, ChainRead
<1>5. Place(res) = Format!Skip(f, reader.mpos, 4)
  <2>1. 4 <= AllocLimit
    BY AllocLimitAssumption
  <2> QED BY <1>2, <2>1, PlaceRead
<1>6. \/ /\ res.status = "ok" /\ size \in 1 .. MaxBlockSize
         /\ block' = [block EXCEPT !.size = size]
         /\ Goto(res, "hash")
         /\ UNCHANGED <<blocks, tx>>
      \/ res.status = "ok" /\ size = 0 /\ Leave(res.reader, "EmptyBlockSize")
      \/ res.status = "ok" /\ size > MaxBlockSize /\ Leave(res.reader, "TooLargeBlockSize")
      \/ Stop(res)
  BY DEF ParseBlockSize
<1>7. ASSUME res.status = "ok"
      PROVE  size = Format!Number(SubSeq(f, block.from + 5, block.from + 8)) /\ size \in Nat
  <2> HIDE DEF res
  <2>1. /\ res.data = SubSeq(f, reader.mpos + 1, reader.mpos + 4)
        /\ res.data \in Seq(Byte) /\ Len(res.data) = 4
    <3>1. reader.mpos \in Nat /\ reader.mpos + 4 <= Len(reader.disk)
      BY <1>2, <1>3, <1>4, <1>7
    <3>2. res.data = PlainAt(reader, reader.mpos, 4)
      BY <1>4, <1>7
    <3>3. /\ PlainAt(reader, reader.mpos, 4) = SubSeq(Plain(reader), reader.mpos + 1, reader.mpos + 4)
          /\ PlainAt(reader, reader.mpos, 4) \in Seq(Byte)
          /\ Len(PlainAt(reader, reader.mpos, 4)) = 4
      BY <1>2, <3>1, PlainBytesAt
    <3> QED BY <3>2, <3>3
  <2>2. reader.mpos + 1 = block.from + 5 /\ reader.mpos + 4 = block.from + 8
    BY <1>2, <1>3
  <2>3. Format!Number(res.data) = size /\ size \in Nat
    BY <2>1, NumbersAgree, LittleEndianNat
  <2> QED BY <2>1, <2>2, <2>3
<1> HIDE DEF res, f, size
<1>8. CASE /\ res.status = "ok" /\ size \in 1 .. MaxBlockSize
           /\ block' = [block EXCEPT !.size = size]
           /\ Goto(res, "hash")
           /\ UNCHANGED <<blocks, tx>>
  <2>1. block'.from = block.from /\ block'.size = size
    BY <1>2, <1>8 DEF BlockType
  <2>2. "hash" \in BlockBody /\ "hash" \notin TxBody
    BY DEF BlockBody, TxBody
  <2> QED BY <1>1, <1>4, <1>8, <2>1, <2>2, BlockGoesOn
<1>9. ASSUME res.status = "ok", size = 0 \/ size > MaxBlockSize,
             NEW code \in {"EmptyBlockSize", "TooLargeBlockSize"}, Leave(res.reader, code)
      PROVE  ToCome'
  <2>1. size \notin 1 .. MaxBlockSize
    <3>1. MaxBlockSize \in Nat
      BY DEF MaxBlockSize
    <3> QED BY <1>7, <1>9, <3>1
  <2>2. Refused(f, block)
    BY <1>7, <1>9, <2>1, WrongBlock
  <2>3. /\ reader' = res.reader /\ pc' = "end" /\ outcome' = code
        /\ block' = block /\ blocks' = blocks
    BY <1>9 DEF Leave
  <2>4. reader'.disk = reader.disk /\ reader'.key = reader.key
    BY <1>4, <2>3 DEF Chain
  <2> QED BY <1>1, <1>2, <2>2, <2>3, <2>4, ExitToCome DEF f
<1>10. CASE Stop(res)
  <2>1. Format!Skip(f, block.from + 4, 4) = Format!Nowhere
    BY <1>3, <1>4, <1>5, <1>10, PlaceOk DEF Stop
  <2>2. ~(block.from + 8 <= Len(f))
    BY <1>2, <2>1 DEF Format!Skip, Format!Nowhere
  <2>3. Refused(f, block)
    BY <1>2, <2>2, ShortBlock
  <2> QED BY <1>1, <1>4, <1>10, <2>3, StopToCome DEF f
<1> QED BY <1>6, <1>8, <1>9, <1>10

LEMMA GetBlockHashToCome ==
    ASSUME IInv, IInv', Layout, ToCome, GetBlockHash
    PROVE  ToCome'
<1> DEFINE one == ReadData(reader, HeaderSize)
           res == ThenSetReadPosition(one, reader.mpos)
           f   == Plain(reader)
<1>1. pc = "hash" /\ pc \in BlockBody /\ pc \notin {"block", "end"}
  BY DEF GetBlockHash, BlockBody
<1>2. /\ Usable(reader) /\ block.from \in Nat /\ block \in BlockType /\ reader.mpos \in Nat
      /\ Len(f) \in Nat
  BY <1>1, InsideBlock
<1>3. reader.mpos = block.from + 8
  BY <1>1 DEF Layout, BlockLayout
<1>4. Chain(reader, one) /\ Place(one) = Format!Skip(f, reader.mpos, 80)
  <2>1. HeaderSize = 80 /\ 80 <= AllocLimit
    BY AllocLimitAssumption DEF HeaderSize
  <2> QED BY <1>2, <2>1, ChainRead, PlaceRead
<1> HIDE DEF one
<1>5. Chain(reader, res) /\ (res.status # "ok" => one.status # "ok")
  BY <1>2, <1>4, ChainRewind, RewindOk
<1>6. \/ /\ res.status = "ok"
         /\ block' = [block EXCEPT !.hashed = Extent(reader.mpos, HeaderSize)]
         /\ Goto(res, "header")
         /\ UNCHANGED <<blocks, tx>>
      \/ Stop(res)
  BY DEF GetBlockHash, one
<1> HIDE DEF res, f
<1>7. CASE /\ res.status = "ok"
           /\ block' = [block EXCEPT !.hashed = Extent(reader.mpos, HeaderSize)]
           /\ Goto(res, "header")
           /\ UNCHANGED <<blocks, tx>>
  <2>1. block'.from = block.from /\ block'.size = block.size
    BY <1>2, <1>7 DEF BlockType
  <2>2. "header" \in BlockBody /\ "header" \notin TxBody
    BY DEF BlockBody, TxBody
  <2> QED BY <1>1, <1>5, <1>7, <2>1, <2>2, BlockGoesOn
<1>8. CASE Stop(res)
  <2>1. Format!Skip(f, block.from + 8, 80) = Format!Nowhere
    BY <1>3, <1>4, <1>5, <1>8, PlaceOk DEF Stop
  <2>2. ~(block.from + 88 <= Len(f))
    BY <1>2, <2>1 DEF Format!Skip, Format!Nowhere
  <2>3. Refused(f, block)
    BY <1>2, <2>2, ShortBlock
  <2> QED BY <1>1, <1>5, <1>8, <2>3, StopToCome DEF f
<1> QED BY <1>6, <1>7, <1>8

(* The fields of a header are its 80 bytes.                                *)
LEMMA PlaceHeader ==
    ASSUME NEW r, Usable(r),
           NEW hashes, hashes = Then(Then(ReadData(r, 4), 32), 32),
           NEW res, res = Then(Then(Then(hashes, 4), 4), 4)
    PROVE  Chain(r, res) /\ Place(res) = Format!Skip(Plain(r), r.mpos, 80)
<1> DEFINE f  == Plain(r)
           r1 == ReadData(r, 4)
           r2 == Then(r1, 32)
           r3 == Then(r2, 32)
           r4 == Then(r3, 4)
           r5 == Then(r4, 4)
           r6 == Then(r5, 4)
<1>1. r.mpos \in Nat /\ Len(f) \in Nat
  BY UsablePlace
<1>2. res = r6
  OBVIOUS
<1>3. Chain(r, r1) /\ Place(r1) = Format!Skip(f, r.mpos, 4)
  <2>1. 4 <= AllocLimit
    BY AllocLimitAssumption
  <2> QED BY <2>1, ChainRead, PlaceRead
<1> HIDE DEF f
<1>4. ASSUME NEW one, Chain(r, one), NEW k \in Nat, Place(one) = Format!Skip(f, r.mpos, k),
             NEW n \in 1 .. 80
      PROVE  Chain(r, Then(one, n)) /\ Place(Then(one, n)) = Format!Skip(f, r.mpos, k + n)
  <2>1. n \in Nat
    OBVIOUS
  <2>2. Chain(r, Then(one, n))
    BY <1>4, <2>1, ChainThen
  <2>3. Place(Then(one, n)) = Format!Skip(f, Place(one), n)
    BY <1>4, PlaceThen DEF f
  <2>4. Format!Skip(f, Format!Skip(f, r.mpos, k), n) = Format!Skip(f, r.mpos, k + n)
    BY <1>1, <2>1, SkipTwice
  <2> QED BY <1>4, <2>2, <2>3, <2>4
<1> HIDE DEF r1
<1>5. Chain(r, r2) /\ Place(r2) = Format!Skip(f, r.mpos, 36)
  <2>1. Chain(r, r2) /\ Place(r2) = Format!Skip(f, r.mpos, 4 + 32)
    BY <1>3, <1>4
  <2> QED BY <2>1
<1> HIDE DEF r2
<1>6. Chain(r, r3) /\ Place(r3) = Format!Skip(f, r.mpos, 68)
  <2>1. Chain(r, r3) /\ Place(r3) = Format!Skip(f, r.mpos, 36 + 32)
    BY <1>4, <1>5
  <2> QED BY <2>1
<1> HIDE DEF r3
<1>7. Chain(r, r4) /\ Place(r4) = Format!Skip(f, r.mpos, 72)
  <2>1. Chain(r, r4) /\ Place(r4) = Format!Skip(f, r.mpos, 68 + 4)
    BY <1>4, <1>6
  <2> QED BY <2>1
<1> HIDE DEF r4
<1>8. Chain(r, r5) /\ Place(r5) = Format!Skip(f, r.mpos, 76)
  <2>1. Chain(r, r5) /\ Place(r5) = Format!Skip(f, r.mpos, 72 + 4)
    BY <1>4, <1>7
  <2> QED BY <2>1
<1> HIDE DEF r5
<1>9. Chain(r, r6) /\ Place(r6) = Format!Skip(f, r.mpos, 80)
  <2>1. Chain(r, r6) /\ Place(r6) = Format!Skip(f, r.mpos, 76 + 4)
    BY <1>4, <1>8
  <2> QED BY <2>1
<1> HIDE DEF r6
<1> QED BY <1>2, <1>9 DEF f

LEMMA ParseBlockHeaderToCome ==
    ASSUME IInv, IInv', Layout, ToCome, ParseBlockHeader
    PROVE  ToCome'
<1> DEFINE hashes == Then(Then(ReadData(reader, 4), 32), 32)
           res    == Then(Then(Then(hashes, 4), 4), 4)
           f      == Plain(reader)
<1>1. pc = "header" /\ pc \in BlockBody /\ pc \notin {"block", "end"}
  BY DEF ParseBlockHeader, BlockBody
<1>2. /\ Usable(reader) /\ block.from \in Nat /\ block \in BlockType /\ reader.mpos \in Nat
      /\ Len(f) \in Nat
  BY <1>1, InsideBlock
<1>3. reader.mpos = block.from + 8
  BY <1>1 DEF Layout, BlockLayout
<1>4. Chain(reader, res) /\ Place(res) = Format!Skip(f, reader.mpos, 80)
  BY <1>2, PlaceHeader
<1>5. \/ /\ res.status = "ok"
         /\ block' = [block EXCEPT !.header = [from |-> reader.mpos, to |-> res.reader.mpos]]
         /\ Goto(res, "txCount")
         /\ UNCHANGED <<blocks, tx>>
      \/ Stop(res)
  BY DEF ParseBlockHeader
<1> HIDE DEF hashes, res, f
<1>6. CASE /\ res.status = "ok"
           /\ block' = [block EXCEPT !.header = [from |-> reader.mpos, to |-> res.reader.mpos]]
           /\ Goto(res, "txCount")
           /\ UNCHANGED <<blocks, tx>>
  <2>1. block'.from = block.from /\ block'.size = block.size
    BY <1>2, <1>6 DEF BlockType
  <2>2. "txCount" \in BlockBody /\ "txCount" \notin TxBody
    BY DEF BlockBody, TxBody
  <2> QED BY <1>1, <1>4, <1>6, <2>1, <2>2, BlockGoesOn
<1>7. CASE Stop(res)
  <2>1. Format!Skip(f, block.from + 8, 80) = Format!Nowhere
    BY <1>3, <1>4, <1>7, PlaceOk DEF Stop
  <2>2. ~(block.from + 88 <= Len(f))
    BY <1>2, <2>1 DEF Format!Skip, Format!Nowhere
  <2>3. Refused(f, block)
    BY <1>2, <2>2, ShortBlock
  <2> QED BY <1>1, <1>4, <1>7, <2>3, StopToCome DEF f
<1> QED BY <1>5, <1>6, <1>7

LEMMA ParseTransactionCounterToCome ==
    ASSUME IInv, IInv', Layout, ToCome, ParseTransactionCounter
    PROVE  ToCome'
<1> DEFINE res == ReadCompactSize(reader)
           f   == Plain(reader)
<1>1. pc = "txCount" /\ pc \in BlockBody /\ pc \notin {"block", "end"}
  BY DEF ParseTransactionCounter, BlockBody
<1>2. /\ Usable(reader) /\ block.from \in Nat /\ block \in BlockType /\ reader.mpos \in Nat
      /\ Len(f) \in Nat /\ reader.mpos <= Len(f)
  BY <1>1, InsideBlock
<1>3. reader.mpos = block.from + 88 /\ block.txs = <<>>
  BY <1>1 DEF Layout, BlockLayout
<1>4. Chain(reader, res)
  BY <1>2, ChainCompactSize
<1>5. Format!Transactions(f, block.from) = Format!List(f, Format!Transaction(f), reader.mpos)
  <2>1. Format!Skip(f, block.from, 88) = reader.mpos
    BY <1>2, <1>3 DEF Format!Skip, Format!Nowhere
  <2> QED BY <2>1 DEF Format!Transactions
<1>6. /\ Counted(res) =>
           /\ res.data \in Nat
           /\ Format!Transactions(f, block.from) =
                 Format!Repeat(Format!Transaction(f), res.data, res.reader.mpos)
      /\ StopCount(res) => Format!Transactions(f, block.from) = Format!Nowhere
  BY <1>2, <1>5, ListRead
<1>7. \/ /\ Counted(res)
         /\ block' = [block EXCEPT !.txCount = res.data]
         /\ Goto(res, NextTransaction(block'))
         /\ UNCHANGED <<blocks, tx>>
      \/ StopCount(res)
  BY DEF ParseTransactionCounter
<1> HIDE DEF res, f
<1>8. CASE /\ Counted(res)
           /\ block' = [block EXCEPT !.txCount = res.data]
           /\ Goto(res, NextTransaction(block'))
           /\ UNCHANGED <<blocks, tx>>
  <2>1. /\ block'.from = block.from /\ block'.size = block.size /\ block'.txs = block.txs
        /\ block'.txCount = res.data
    BY <1>2, <1>8 DEF BlockType
  <2>2. block'.txCount - Len(block'.txs) = res.data
    BY <1>3, <1>6, <1>8, <2>1
  <2>3. BlockToCome(f, block', res.reader.mpos)
    BY <1>6, <1>8, <2>1, <2>2 DEF BlockToCome
  <2>4. NextTransaction(block') \in BlockBody /\ NextTransaction(block') \notin TxBody
    BY DEF NextTransaction, BlockBody, TxBody
  <2> QED BY <1>1, <1>4, <1>8, <2>1, <2>3, <2>4, BlockGoesOn DEF f
<1>9. CASE StopCount(res)
  <2>1. Refused(f, block)
    BY <1>2, <1>6, <1>9, ListMissing
  <2> QED BY <1>1, <1>4, <1>9, <2>1, StopToCome DEF f
<1> QED BY <1>7, <1>8, <1>9

LEMMA ParseVersionToCome ==
    ASSUME IInv, IInv', Layout, ToCome, ParseVersion
    PROVE  ToCome'
<1> DEFINE res == ReadData(reader, 4)
           f   == Plain(reader)
           p   == reader.mpos
<1>1. pc = "version" /\ pc \in BlockBody /\ pc \notin {"block", "end"}
  BY DEF ParseVersion, BlockBody
<1>2. /\ Usable(reader) /\ block \in BlockType /\ p \in Nat
      /\ Len(f) \in Nat /\ p \in Format!Places(f)
  BY <1>1, InsideBlock
<1>3. BlockToCome(f, block, p) /\ Len(block.txs) < block.txCount
  BY <1>1 DEF ToCome, Parsed, Layout, BlockLayout
<1>4. Chain(reader, res)
  BY <1>2, ChainRead
<1>5. Place(res) = Format!Skip(f, p, 4)
  <2>1. 4 <= AllocLimit
    BY AllocLimitAssumption
  <2> QED BY <1>2, <2>1, PlaceRead
<1>6. \/ /\ res.status = "ok"
         /\ tx' = NewTx(p)
         /\ Goto(res, "flag")
         /\ UNCHANGED <<blocks, block>>
      \/ Stop(res)
  BY DEF ParseVersion
<1> HIDE DEF res, f, p
<1>7. CASE /\ res.status = "ok"
           /\ tx' = NewTx(p)
           /\ Goto(res, "flag")
           /\ UNCHANGED <<blocks, block>>
  <2>1. tx'.from = p
    BY <1>7 DEF NewTx
  <2>2. TxToCome(f, tx', res.reader.mpos, "flag")
    BY DEF TxToCome
  <2>3. "flag" \in BlockBody /\ "flag" \in TxBody
    BY DEF BlockBody, TxBody
  <2> QED BY <1>1, <1>3, <1>4, <1>7, <2>1, <2>2, <2>3, BlockGoesOn DEF f
<1>8. CASE Stop(res)
  <2>1. Format!Skip(f, p, 4) = Format!Nowhere
    BY <1>4, <1>5, <1>8, PlaceOk DEF Stop
  <2>2. Format!Skip(f, p, 6) = Format!Nowhere
    <3>1. ~(p + 4 <= Len(f))
      BY <1>2, <2>1 DEF Format!Skip, Format!Nowhere
    <3>2. ~(p + 6 <= Len(f))
      BY <1>2, <3>1
    <3> QED BY <3>2 DEF Format!Skip
  <2>3. Format!Begin(f, p) = Format!Nowhere
    BY <2>1, <2>2 DEF Format!Begin
  <2>4. Format!Inputs(f, p) = Format!Nowhere
    BY <2>3, NothingFollows DEF Format!Inputs
  <2>5. Refused(f, block)
    BY <1>2, <1>3, <2>4, TxMissing, TxMissingRefused
  <2> QED BY <1>1, <1>4, <1>8, <2>5, StopToCome DEF f
<1> QED BY <1>6, <1>7, <1>8

LEMMA GetCurrentTransactionHashToCome ==
    ASSUME IInv, IInv', Layout, ToCome, GetCurrentTransactionHash
    PROVE  ToCome'
<1> DEFINE f     == Plain(reader)
           back  == SetReadPosition(reader, tx.from)
           n     == reader.mpos - tx.from
           again == Then(back, n)
           res   == Reread(again)
           txs   == Append(block.txs, [tx EXCEPT !.hashed = Extent(tx.from, n)])
<1>1. pc = "txHash" /\ pc \in TxBody /\ pc \in BlockBody /\ pc \notin {"block", "end"}
  BY DEF GetCurrentTransactionHash, BlockBody, TxBody
<1>2. /\ Usable(reader) /\ reader.mpos \in Nat /\ tx \in TxType /\ block \in BlockType
      /\ Len(f) = Len(reader.disk) /\ Len(f) \in Nat /\ reader.mpos <= Len(f)
      /\ outcome = "running"
  BY <1>1, InsideBlock
<1>3. /\ tx.from \in Nat /\ tx.from \in Format!Places(f)
      /\ Format!Skip(f, Format!Stacks(f, tx.from), 4) = reader.mpos
  BY <1>1, InsideTx DEF TxToCome
<1>4. n \in Nat /\ tx.from + n = reader.mpos
  <2>1. tx.from <= reader.mpos
    BY <1>1 DEF IInv, TxUnderway
  <2> QED BY <1>2, <1>3, <2>1
<1>5. /\ back.status = "ok" /\ Usable(back.reader) /\ back.reader.mpos = tx.from
      /\ back.reader.disk = reader.disk /\ back.reader.key = reader.key
  <2>1. reader.fail = FALSE /\ Sound(reader)
    BY <1>2, UsableFields DEF Usable
  <2>2. /\ Sound(back.reader)
        /\ back.reader.disk = reader.disk /\ back.reader.key = reader.key
        /\ back.reader.fail = reader.fail /\ ~back.reader.eof
        /\ back.status = IF reader.fail THEN "FileError" ELSE "ok"
        /\ back.reader.mpos = IF reader.fail THEN reader.mpos ELSE tx.from
    BY <1>3, <2>1, SetReadPositionSound
  <2> HIDE DEF back
  <2> QED BY <1>2, <1>3, <1>4, <2>1, <2>2 DEF Usable, Good
<1>6. again = ReadData(back.reader, n)
  BY <1>5 DEF Then
<1> HIDE DEF back, n, again
<1>7. /\ Chain(back.reader, again)
      /\ again.status = "ok" => again.reader.mpos = reader.mpos
  BY <1>4, <1>5, <1>6, ChainRead
<1>8. Place(again) = Format!Transaction(f)[tx.from]
  <2>1. Plain(back.reader) = f
    BY <1>5, PlainOfFile
  <2>2. Place(again) = IF n <= AllocLimit THEN Format!Skip(f, tx.from, n) ELSE Format!Nowhere
    BY <1>4, <1>5, <1>6, <2>1, PlaceRead
  <2> HIDE DEF f
  <2>3. Format!Skip(f, tx.from, n) = reader.mpos
    BY <1>2, <1>3, <1>4 DEF Format!Skip, Format!Nowhere
  <2>4. Format!Transaction(f)[tx.from] =
           IF reader.mpos - tx.from <= AllocLimit THEN reader.mpos ELSE Format!Nowhere
    BY <1>3, PartsAt
  <2> QED BY <2>2, <2>3, <2>4 DEF n
<1>9. res = again
  BY <1>7 DEF Reread
<1>10. \/ /\ again.status = "ok"
          /\ block' = [block EXCEPT !.txs = txs]
          /\ Goto(again, NextTransaction(block'))
          /\ UNCHANGED <<blocks, tx>>
       \/ Stop(again)
  BY <1>9 DEF GetCurrentTransactionHash, again, back, n, res
<1> HIDE DEF res, f
<1>11. /\ again.reader.disk = reader.disk /\ again.reader.key = reader.key
       /\ again.status \in {"ok", "thrown", "FileReadingFailure", "FileError"}
  BY <1>5, <1>7 DEF Chain
<1>12. /\ BlockToCome(f, block, tx.from) /\ Len(block.txs) < block.txCount
       /\ block.txs \in Seq(TxType) /\ Len(block.txs) \in Nat /\ block.txCount \in Nat
  BY <1>1, <1>2 DEF ToCome, Parsed, Layout, BlockLayout, BlockType, f
<1>13. CASE /\ again.status = "ok"
            /\ block' = [block EXCEPT !.txs = txs]
            /\ Goto(again, NextTransaction(block'))
            /\ UNCHANGED <<blocks, tx>>
  <2>1. Len(txs) = Len(block.txs) + 1
    <3> DEFINE done == [tx EXCEPT !.hashed = Extent(tx.from, n)]
    <3>1. done \in TxType
      <4>1. Extent(tx.from, n) \in ExtentType
        BY <1>3, <1>4 DEF Extent, ExtentType
      <4> QED BY <1>2, <4>1 DEF TxType
    <3> HIDE DEF done
    <3>2. Len(Append(block.txs, done)) = Len(block.txs) + 1
      BY <1>12, <3>1
    <3> QED BY <3>2 DEF done
  <2> HIDE DEF txs
  <2>2. /\ block'.from = block.from /\ block'.size = block.size /\ block'.txs = txs
        /\ block'.txCount = block.txCount
    BY <1>2, <1>13 DEF BlockType
  <2>3. again.reader.mpos = reader.mpos /\ Chain(reader, again)
    BY <1>5, <1>7, <1>2, <1>13 DEF Chain
  <2>4. Format!Repeat(Format!Transaction(f), block.txCount - Len(block.txs), tx.from) =
           Format!Repeat(Format!Transaction(f), block.txCount - (Len(block.txs) + 1),
                         again.reader.mpos)
    BY <1>5, <1>7, <1>8, <1>12, <1>13, NowherePart, RecordRead
  <2>5. BlockToCome(f, block', again.reader.mpos)
    BY <1>12, <2>1, <2>2, <2>4 DEF BlockToCome
  <2>6. NextTransaction(block') \in BlockBody /\ NextTransaction(block') \notin TxBody
    BY DEF NextTransaction, BlockBody, TxBody
  <2> QED BY <1>1, <1>13, <2>2, <2>3, <2>5, <2>6, BlockGoesOn DEF f
<1>14. CASE Stop(again)
  <2>1. Format!Transaction(f)[tx.from] = Format!Nowhere
    BY <1>7, <1>8, <1>14, PlaceOk DEF Stop
  <2>2. Refused(f, block)
    BY <1>2, <1>12, <2>1, TxMissingRefused
  <2>3. /\ reader' = again.reader /\ pc' = "end" /\ outcome' # "done"
        /\ block' = block /\ blocks' = blocks
    BY <1>11, <1>14 DEF Stop, Leave
  <2>4. reader'.disk = reader.disk /\ reader'.key = reader.key
    BY <1>11, <2>3
  <2> QED BY <1>1, <1>2, <2>2, <2>3, <2>4, ExitToCome DEF f
<1> QED BY <1>10, <1>13, <1>14

LEMMA CheckBlockEndToCome ==
    ASSUME IInv, IInv', Layout, ToCome, CheckBlockEnd
    PROVE  ToCome'
<1> DEFINE f == Plain(reader)
           p == block.from
<1>1. pc = "blockEnd" /\ pc \in BlockBody /\ pc \notin {"block", "end"}
  BY DEF CheckBlockEnd, BlockBody
<1>2. /\ block \in BlockType /\ reader.mpos \in Nat /\ p \in Nat /\ outcome = "running"
      /\ reader \in ReaderType /\ Len(f) = Len(reader.disk) /\ Len(f) \in Nat
      /\ block.txCount \in Nat
  BY <1>1, InsideBlock DEF BlockType
<1>3. Format!Transactions(f, p) = reader.mpos
  <2>1. BlockToCome(f, block, reader.mpos) /\ Len(block.txs) = block.txCount
    BY <1>1 DEF ToCome, Parsed, Layout, BlockLayout
  <2> QED BY <1>2, <2>1, NoneToCome DEF BlockToCome
<1>4. Format!Skip(f, p, 88) # Format!Nowhere /\ p + 88 <= Len(f)
  <2>1. reader.mpos # Format!Nowhere
    BY <1>2 DEF Format!Nowhere
  <2>2. Format!Skip(f, p, 88) # Format!Nowhere
    BY <1>3, <2>1, NothingFollows DEF Format!Transactions
  <2> QED BY <2>2 DEF Format!Skip
<1>5. SubSeq(f, p + 1, p + 4) = MagicBytes
  <2>1. PlainAt(reader, p, 4) = MagicBytes
    BY <1>1 DEF IInv, BlockUnderway
  <2>2. p + 4 <= Len(reader.disk)
    BY <1>2, <1>4
  <2>3. PlainAt(reader, p, 4) = SubSeq(f, p + 1, p + 4)
    BY <1>2, <2>2, PlainBytesAt
  <2> QED BY <2>1, <2>3
<1>6. Format!Number(SubSeq(f, p + 5, p + 8)) = block.size
  <2>1. block.size = Le32(PlainAt(reader, p + 4, 4))
    BY <1>1 DEF IInv, BlockUnderway
  <2> DEFINE q == p + 4
  <2>2. q \in Nat /\ q + 4 <= Len(reader.disk) /\ q + 1 = p + 5 /\ q + 4 = p + 8
    BY <1>2, <1>4
  <2> HIDE DEF q
  <2>3. /\ PlainAt(reader, q, 4) = SubSeq(f, q + 1, q + 4)
        /\ PlainAt(reader, q, 4) \in Seq(Byte) /\ Len(PlainAt(reader, q, 4)) = 4
    BY <1>2, <2>2, PlainBytesAt
  <2>4. Format!Number(PlainAt(reader, q, 4)) = Le32(PlainAt(reader, q, 4))
    BY <2>3, NumbersAgree
  <2>5. PlainAt(reader, q, 4) = SubSeq(f, p + 5, p + 8)
    BY <2>2, <2>3
  <2> QED BY <2>1, <2>4, <2>5 DEF q
<1>7. block.size \in 1 .. MaxBlockSize
  BY <1>1 DEF ToCome, Parsed
<1> HIDE DEF f
<1>8. Format!Block(f, p) =
         IF reader.mpos = p + 8 + block.size THEN p + 8 + block.size ELSE Format!Nowhere
  BY <1>3, <1>4, <1>5, <1>6, <1>7, Zenon DEF Format!Block, MagicBytes
<1>9. DeclaredEnd = p + 8 + block.size
  <2>1. block.size \in Nat
    BY <1>2 DEF BlockType
  <2> QED BY <1>2, <2>1 DEF DeclaredEnd
<1>10. CASE /\ reader.mpos = DeclaredEnd
            /\ blocks' = Append(blocks, [block EXCEPT !.to = reader.mpos])
            /\ pc' = "block"
            /\ UNCHANGED <<reader, block, tx, outcome>>
  <2> DEFINE b == [block EXCEPT !.to = reader.mpos]
  <2>1. b \in BlockType /\ b.from = p /\ b.to = reader.mpos
    BY <1>2 DEF BlockType
  <2> HIDE DEF b
  <2>2. Format!Block(f, b.from) = b.to
    BY <1>8, <1>9, <1>10, <2>1
  <2>3. Plain(reader') = f
    BY <1>10 DEF f
  <2>4. ASSUME NEW i \in 1 .. Len(blocks')
        PROVE  Format!Block(f, blocks'[i].from) = blocks'[i].to
    <3>1. blocks \in Seq(BlockType)
      BY <1>1, Running
    <3>2. /\ Len(blocks') = Len(blocks) + 1 /\ Len(blocks) \in Nat
          /\ blocks'[Len(blocks) + 1] = b
          /\ \A k \in 1 .. Len(blocks) : blocks'[k] = blocks[k]
      BY <1>10, <2>1, <3>1 DEF b
    <3>3. i \in 1 .. Len(blocks) \/ i = Len(blocks) + 1
      BY <3>2
    <3>4. \A k \in 1 .. Len(blocks) : Format!Block(f, blocks[k].from) = blocks[k].to
      BY DEF ToCome, Parsed, f
    <3> QED BY <2>2, <3>2, <3>3, <3>4
  <2>5. "block" \notin BlockBody /\ "block" \notin TxBody
    BY DEF BlockBody, TxBody
  <2> QED BY <1>10, <2>3, <2>4, <2>5 DEF ToCome, Parsed
<1>11. CASE reader.mpos # DeclaredEnd /\ Leave(reader, "BlockParsingFailure")
  <2>1. Refused(f, block)
    BY <1>8, <1>9, <1>11 DEF Refused
  <2>2. /\ reader' = reader /\ pc' = "end" /\ outcome' = "BlockParsingFailure"
        /\ block' = block /\ blocks' = blocks
    BY <1>11 DEF Leave
  <2> QED BY <1>1, <1>2, <2>1, <2>2, ExitToCome DEF f
<1> QED BY <1>10, <1>11 DEF CheckBlockEnd

-----------------------------------------------------------------------------
(* The parser and the grammar.                                             *)

LEMMA InitToCome == Init => ToCome
<1> SUFFICES ASSUME Init PROVE ToCome
  OBVIOUS
<1>1. pc = "block" /\ blocks = <<>> /\ Len(blocks) = 0
  BY DEF Init
<1> QED BY <1>1 DEF ToCome, Parsed, BlockBody, TxBody

LEMMA StepToCome == IInv /\ IInv' /\ Layout /\ ToCome /\ [Next]_vars => ToCome'
<1>1. ASSUME IInv, IInv', Layout, ToCome, Next PROVE ToCome'
  BY <1>1, StartBlockToCome, ParseMagicNumberToCome, ParseBlockSizeToCome, GetBlockHashToCome,
     ParseBlockHeaderToCome, ParseTransactionCounterToCome, ParseVersionToCome,
     ParseTransactionFlagToCome, ParseInCounterToCome, ParseTxInToCome, ParseOutCounterToCome,
     ParseTxOutToCome, ParseWitnessToCome, ParseWitnessItemToCome, ParseLockTimeToCome,
     GetCurrentTransactionHashToCome, CheckBlockEndToCome DEF Next
<1>2. ASSUME ToCome, UNCHANGED vars PROVE ToCome'
  <2>1. /\ reader' = reader /\ pc' = pc /\ blocks' = blocks /\ block' = block /\ tx' = tx
        /\ outcome' = outcome
    BY <1>2 DEF vars
  <2> QED BY <1>2, <2>1 DEF ToCome, Parsed
<1> QED BY <1>1, <1>2

(* What is left of the part being read, by the grammar, begins where the   *)
(* reader stands; where the parser gave up the grammar has no block.       *)
THEOREM GrammarInvariance == Spec => []ToCome
<1>1. IInv /\ IInv' /\ Layout /\ ToCome /\ [Next]_vars => ToCome'
  BY StepToCome
<1> QED BY InitToCome, <1>1, Invariance, LayoutInvariance, PTL DEF Spec

LEMMA ReturnedByGrammar ==
    ASSUME IInv, ToCome
    PROVE  ReturnsTheBlocks
<1> SUFFICES ASSUME pc = "end" PROVE
      \E f \in {Plain(reader)} :
          LET n == Len(blocks)
              ends == [i \in 0 .. n |-> IF i = 0 THEN 0 ELSE blocks[i].to]
          IN  /\ \A i \in 1 .. n : Format!Block(f, ends[i - 1]) = ends[i]
              /\ outcome = "done" <=> ends[n] = Len(f)
              /\ outcome # "done" => Format!Block(f, ends[n]) = Format!Nowhere
  BY Zenon DEF ReturnsTheBlocks
<1> DEFINE f == Plain(reader)
           n == Len(blocks)
           ends == [i \in 0 .. n |-> IF i = 0 THEN 0 ELSE blocks[i].to]
           last == IF outcome = "done" THEN reader.mpos ELSE block.from
<1>1. /\ blocks \in Seq(BlockType) /\ n \in Nat /\ block.from \in Nat
      /\ Len(f) = Len(reader.disk) /\ Len(f) \in Nat
  <2>1. reader \in ReaderType /\ blocks \in Seq(BlockType) /\ block \in BlockType
    BY DEF IInv, TypeOK
  <2> QED BY <2>1, PlainBytes DEF BlockType
<1>2. Tiles(blocks, 0, last) /\ (outcome = "done" => reader.mpos = Len(reader.disk))
  BY DEF IInv, BlocksTile
<1>3. /\ outcome # "done" => block.from < Len(f) /\ Refused(f, block)
      /\ \A i \in 1 .. n : Format!Block(f, blocks[i].from) = blocks[i].to
  BY DEF ToCome, Parsed
<1>4. ends[0] = 0 /\ \A i \in 1 .. n : ends[i] = blocks[i].to
  BY <1>1
<1>5. \A i \in 1 .. n : ends[i - 1] = blocks[i].from
  <2> SUFFICES ASSUME NEW i \in 1 .. n PROVE ends[i - 1] = blocks[i].from
    OBVIOUS
  <2>1. blocks[i].from = IF i = 1 THEN 0 ELSE blocks[i - 1].to
    BY <1>2 DEF Tiles
  <2> HIDE DEF ends
  <2>2. CASE i = 1
    BY <1>4, <2>1, <2>2
  <2>3. CASE i # 1
    <3>1. i - 1 \in 1 .. n
      BY <1>1, <2>3
    <3> QED BY <1>4, <2>1, <2>3, <3>1
  <2> QED BY <2>2, <2>3
<1>6. ends[n] = last
  <2>1. last = IF blocks = <<>> THEN 0 ELSE blocks[Len(blocks)].to
    BY <1>2 DEF Tiles
  <2> HIDE DEF ends, last
  <2>2. CASE blocks = <<>>
    BY <1>4, <2>1, <2>2
  <2>3. CASE blocks # <<>>
    <3>1. n \in 1 .. n
      BY <1>1, <2>3
    <3> QED BY <1>4, <2>1, <2>3, <3>1
  <2> QED BY <2>2, <2>3
<1> HIDE DEF ends
<1>7. \A i \in 1 .. n : Format!Block(f, ends[i - 1]) = ends[i]
  BY <1>3, <1>4, <1>5
<1>8. CASE outcome = "done"
  <2>1. ends[n] = Len(f)
    BY <1>1, <1>2, <1>6, <1>8
  <2> QED BY <1>7, <1>8, <2>1 DEF ends
<1>9. CASE outcome # "done"
  <2>1. ends[n] = block.from
    BY <1>6, <1>9
  <2>2. ends[n] # Len(f) /\ Format!Block(f, ends[n]) = Format!Nowhere
    BY <1>1, <1>3, <1>9, <2>1 DEF Refused
  <2> QED BY <1>7, <1>9, <2>2 DEF ends
<1> QED BY <1>8, <1>9

(* The parser returns the blocks that the file begins with by the grammar, *)
(* no more and no fewer, and succeeds exactly when they are all of it.     *)
THEOREM ParserReturnsTheBlocks == Spec => []ReturnsTheBlocks
<1>1. IInv /\ ToCome => ReturnsTheBlocks
  BY ReturnedByGrammar
<1> QED BY <1>1, Invariance, GrammarInvariance, PTL

-----------------------------------------------------------------------------
(* The parser and the JSON document: DocumentsComplete, for every file,    *)
(* key and memory limit.                                                   *)
(*                                                                         *)
(* A count that is left out of the document is one that Layout has seen    *)
(* read.  So each part of the document says the bytes of its part of the   *)
(* file but the counts, and parts that follow one another are said by      *)
(* the texts one after another: Says, SaysThen and SaysList.               *)

-----------------------------------------------------------------------------
(* FlattenSeq, one sequence at a time.                                     *)
IsFlat(seqs, n, run) ==
    run = [i \in 1 .. n |-> IF i = 1 THEN seqs[i] ELSE run[i - 1] \o seqs[i]]

(* The function by which FlattenSeq is defined exists, however long the    *)
(* sequence, and there is no other.                                        *)
LEMMA FlatExists ==
    ASSUME NEW seqs
    PROVE  \A n \in Nat : \E run : IsFlat(seqs, n, run)
<1> DEFINE S == {n \in Nat : \E run : IsFlat(seqs, n, run)}
<1>1. 0 \in S
  <2> DEFINE run == [i \in 1 .. 0 |-> seqs[i]]
  <2>1. run = [i \in 1 .. 0 |-> IF i = 1 THEN seqs[i] ELSE run[i - 1] \o seqs[i]]
    OBVIOUS
  <2> QED BY <2>1 DEF IsFlat
<1>2. ASSUME NEW n \in Nat, n \in S
      PROVE  n + 1 \in S
  <2>1. PICK run : IsFlat(seqs, n, run)
    BY <1>2
  <2> DEFINE new == IF n = 0 THEN seqs[1] ELSE run[n] \o seqs[n + 1]
             more == [i \in 1 .. n + 1 |-> IF i = n + 1 THEN new ELSE run[i]]
  <2>2. \A i \in 1 .. n : run[i] = IF i = 1 THEN seqs[i] ELSE run[i - 1] \o seqs[i]
    BY <2>1 DEF IsFlat
  <2>3. ASSUME NEW i \in 1 .. n + 1
        PROVE  more[i] = IF i = 1 THEN seqs[i] ELSE more[i - 1] \o seqs[i]
    <3>1. CASE i = n + 1 /\ n = 0
      BY <3>1
    <3>2. CASE i = n + 1 /\ n # 0
      <4>1. i # 1 /\ i - 1 \in 1 .. n + 1 /\ i - 1 # n + 1 /\ i - 1 = n
        BY <3>2
      <4> QED BY <3>2, <4>1
    <3>3. CASE i # n + 1 /\ i # 1
      <4>1. i \in 1 .. n /\ i - 1 \in 1 .. n + 1 /\ i - 1 # n + 1
        BY <3>3
      <4> QED BY <2>2, <3>3, <4>1
    <3>4. CASE i # n + 1 /\ i = 1
      <4>1. i \in 1 .. n
        BY <3>4
      <4> QED BY <2>2, <3>4, <4>1
    <3> QED BY <3>1, <3>2, <3>3, <3>4
  <2>4. more = [i \in 1 .. n + 1 |-> more[i]]
    OBVIOUS
  <2> HIDE DEF more
  <2>5. more = [i \in 1 .. n + 1 |-> IF i = 1 THEN seqs[i] ELSE more[i - 1] \o seqs[i]]
    BY <2>3, <2>4, Zenon
  <2>6. \E r : IsFlat(seqs, n + 1, r)
    BY <2>5 DEF IsFlat
  <2> QED BY <2>6
<1>3. \A n \in Nat : n \in S
  <2> HIDE DEF S
  <2> QED BY <1>1, <1>2, AllNaturals
<1> QED BY <1>3

(* Sequences that grow as the concatenations do end in FlattenSeq.         *)
IsList(n, seqs) == n \in Nat /\ Len(seqs) = n /\ (n = 0 => seqs = <<>>)

Grows(n, seqs, T, grown) ==
    /\ grown[0] = <<>>
    /\ \A i \in 1 .. n : seqs[i] \in Seq(T) /\ grown[i] = grown[i - 1] \o seqs[i]

LEMMA FlattenRuns ==
    ASSUME NEW n, NEW seqs, IsList(n, seqs), NEW T, NEW grown, Grows(n, seqs, T, grown)
    PROVE  FlattenSeq(seqs) = grown[n] /\ FlattenSeq(seqs) \in Seq(T)
<1>0. /\ n \in Nat /\ Len(seqs) = n /\ (n = 0 => seqs = <<>>) /\ grown[0] = <<>>
      /\ \A i \in 1 .. n : seqs[i] \in Seq(T) /\ grown[i] = grown[i - 1] \o seqs[i]
  BY DEF IsList, Grows
<1>1. CASE n = 0
  <2>1. FlattenSeq(seqs) = seqs
    BY <1>0, <1>1, Zenon DEF FlattenSeq
  <2> QED BY <1>0, <1>1, <2>1
<1>2. CASE n # 0
  <2> DEFINE run == CHOOSE r : IsFlat(seqs, Len(seqs), r)
  <2>1. IsFlat(seqs, Len(seqs), run)
    <3>1. \E r : IsFlat(seqs, Len(seqs), r)
      BY FlatExists
    <3> QED BY <3>1, Zenon
  <2>2. FlattenSeq(seqs) = run[Len(seqs)]
    BY <1>0, <1>2, Zenon DEF FlattenSeq, IsFlat
  <2> HIDE DEF run
  <2>3. \A i \in 1 .. n : run[i] = IF i = 1 THEN seqs[i] ELSE run[i - 1] \o seqs[i]
    BY <1>0, <2>1 DEF IsFlat
  <2> DEFINE S == {k \in Nat : k + 1 <= n => run[k + 1] = grown[k + 1] /\ grown[k + 1] \in Seq(T)}
  <2>4. 0 \in S
    <3>1. 1 \in 1 .. n /\ 1 - 1 = 0
      BY <1>0, <1>2
    <3>2. run[1] = seqs[1] /\ grown[1] = <<>> \o seqs[1] /\ seqs[1] \in Seq(T)
      BY <1>0, <2>3, <3>1
    <3>3. <<>> \o seqs[1] = seqs[1]
      BY <3>2, ConcatEmptySeq
    <3> QED BY <3>2, <3>3
  <2>5. ASSUME NEW k \in Nat, k \in S PROVE k + 1 \in S
    <3> SUFFICES ASSUME k + 2 <= n
                 PROVE  run[k + 2] = grown[k + 2] /\ grown[k + 2] \in Seq(T)
      OBVIOUS
    <3>1. k + 2 \in 1 .. n /\ k + 2 # 1 /\ (k + 2) - 1 = k + 1 /\ k + 1 <= n
      BY <1>0
    <3>2. run[k + 2] = run[k + 1] \o seqs[k + 2] /\ grown[k + 2] = grown[k + 1] \o seqs[k + 2]
          /\ seqs[k + 2] \in Seq(T)
      BY <1>0, <2>3, <3>1
    <3>3. run[k + 1] = grown[k + 1] /\ grown[k + 1] \in Seq(T)
      BY <2>5, <3>1
    <3>4. grown[k + 1] \o seqs[k + 2] \in Seq(T)
      BY <3>2, <3>3, ConcatProperties
    <3> QED BY <3>2, <3>3, <3>4
  <2>6. \A k \in Nat : k \in S
    <3> HIDE DEF S
    <3> QED BY <2>4, <2>5, AllNaturals
  <2> DEFINE k == n - 1
  <2>7. k \in Nat /\ k + 1 = n /\ k + 1 <= n
    <3>1. n \in Nat
      BY <1>0
    <3> QED BY <1>2, <3>1
  <2> HIDE DEF k
  <2>8. run[n] = grown[n] /\ grown[n] \in Seq(T)
    BY <2>6, <2>7
  <2> QED BY <1>0, <2>2, <2>8
<1> QED BY <1>1, <1>2

(* One more sequence.                                                      *)
LEMMA FlattenMore ==
    ASSUME NEW T, NEW n \in Nat, NEW seqs \in [1 .. n + 1 -> Seq(T)]
    PROVE  /\ FlattenSeq(seqs) = FlattenSeq([i \in 1 .. n |-> seqs[i]]) \o seqs[n + 1]
           /\ FlattenSeq([i \in 1 .. n |-> seqs[i]]) \in Seq(T)
           /\ FlattenSeq(seqs) \in Seq(T)
<1> DEFINE first == [i \in 1 .. n |-> seqs[i]]
           run   == CHOOSE r : IsFlat(seqs, n + 1, r)
           grown == [i \in 0 .. n + 1 |-> IF i = 0 THEN <<>> ELSE run[i]]
<1>1. IsFlat(seqs, n + 1, run)
  <2>1. n + 1 \in Nat
    OBVIOUS
  <2>2. \E r : IsFlat(seqs, n + 1, r)
    BY <2>1, FlatExists
  <2> QED BY <2>2, Zenon
<1> HIDE DEF run
<1>2. \A i \in 1 .. n + 1 : run[i] = IF i = 1 THEN seqs[i] ELSE run[i - 1] \o seqs[i]
  BY <1>1 DEF IsFlat
<1>3. \A i \in 1 .. n + 1 : seqs[i] \in Seq(T)
  OBVIOUS
<1>4. grown[0] = <<>>
  OBVIOUS
<1>5. ASSUME NEW i \in 1 .. n + 1 PROVE grown[i] = grown[i - 1] \o seqs[i]
  <2>1. CASE i = 1
    <3>1. grown[i] = seqs[i] /\ grown[i - 1] = <<>>
      BY <1>2, <2>1
    <3>2. <<>> \o seqs[i] = seqs[i]
      BY <1>3, ConcatEmptySeq
    <3> QED BY <3>1, <3>2
  <2>2. CASE i # 1
    <3>1. grown[i] = run[i] /\ grown[i - 1] = run[i - 1]
      BY <2>2
    <3> QED BY <1>2, <2>2, <3>1
  <2> QED BY <2>1, <2>2
<1>6. \A i \in 1 .. n : i \in 1 .. n + 1 /\ first[i] = seqs[i]
  OBVIOUS
<1>7. Len(seqs) = n + 1 /\ Len(first) = n /\ n + 1 \in Nat /\ n + 1 # 0 /\ (n = 0 => first = <<>>)
  OBVIOUS
<1>8. (n + 1) - 1 = n /\ n + 1 \in 1 .. n + 1
  OBVIOUS
<1> DEFINE m == n + 1
<1> HIDE DEF first, grown
<1>9. FlattenSeq(seqs) = grown[m] /\ FlattenSeq(seqs) \in Seq(T)
  <2>1. IsList(m, seqs)
    BY <1>7 DEF IsList
  <2>2. Grows(m, seqs, T, grown)
    BY <1>3, <1>4, <1>5 DEF Grows
  <2> HIDE DEF m
  <2> QED BY <2>1, <2>2, FlattenRuns
<1>11. FlattenSeq(first) = grown[n] /\ FlattenSeq(first) \in Seq(T)
  <2>1. IsList(n, first)
    BY <1>7 DEF IsList
  <2>2. Grows(n, first, T, grown)
    BY <1>3, <1>4, <1>5, <1>6 DEF Grows
  <2> QED BY <2>1, <2>2, FlattenRuns
<1>12. grown[n + 1] = grown[n] \o seqs[n + 1]
  BY <1>5, <1>8
<1> QED BY <1>9, <1>11, <1>12 DEF first, m

LEMMA FlattenNone ==
    ASSUME NEW seqs, Len(seqs) = 0
    PROVE  FlattenSeq(seqs) = seqs
BY Zenon DEF FlattenSeq

-----------------------------------------------------------------------------
(* The bytes that are kept of a part of the file.                          *)
Piece(p, covered) == IF p \in covered THEN <<>> ELSE PlainAt(reader, p, 1)

LEMMA KeptMore ==
    ASSUME reader \in ReaderType, NEW p \in Nat, NEW q \in Nat, p <= q, q + 1 <= Len(reader.disk),
           NEW C
    PROVE  /\ Kept(p, q + 1, C) = Kept(p, q, C) \o Piece(q, C)
           /\ Kept(p, q, C) \in Seq(Byte) /\ Kept(p, q + 1, C) \in Seq(Byte)
           /\ Piece(q, C) \in Seq(Byte)
<1> DEFINE n    == q - p
           seqs == [i \in 1 .. n + 1 |-> Piece(p + i - 1, C)]
<1>1. n \in Nat /\ (q + 1) - p = n + 1 /\ p + (n + 1) - 1 = q /\ p + n = q
  OBVIOUS
<1>2. Len(reader.disk) \in Nat
  BY ReaderFields
<1>3. \A k \in Nat : k + 1 <= Len(reader.disk) => Piece(k, C) \in Seq(Byte)
  <2> SUFFICES ASSUME NEW k \in Nat, k + 1 <= Len(reader.disk)
               PROVE  Piece(k, C) \in Seq(Byte)
    OBVIOUS
  <2>1. PlainAt(reader, k, 1) \in Seq(Byte) /\ <<>> \in Seq(Byte)
    BY PlainAtIsSubSeq
  <2> QED BY <2>1 DEF Piece
<1>4. \A i \in 1 .. n + 1 : p + i - 1 \in Nat /\ (p + i - 1) + 1 <= Len(reader.disk)
  BY <1>1, <1>2
<1>5. Kept(p, q + 1, C) = FlattenSeq(seqs)
  BY <1>1 DEF Kept, Piece
<1>6. Kept(p, q, C) = FlattenSeq([i \in 1 .. n |-> Piece(p + i - 1, C)])
  BY Zenon DEF Kept, Piece
<1> HIDE DEF n
<1>7. seqs \in [1 .. n + 1 -> Seq(Byte)]
  BY <1>3, <1>4
<1>8. [i \in 1 .. n |-> Piece(p + i - 1, C)] = [i \in 1 .. n |-> seqs[i]]
  BY <1>1
<1>9. seqs[n + 1] = Piece(q, C)
  BY <1>1
<1> HIDE DEF seqs
<1>10. /\ FlattenSeq(seqs) = FlattenSeq([i \in 1 .. n |-> seqs[i]]) \o seqs[n + 1]
       /\ FlattenSeq([i \in 1 .. n |-> seqs[i]]) \in Seq(Byte)
       /\ FlattenSeq(seqs) \in Seq(Byte)
  BY <1>1, <1>7, FlattenMore
<1>11. Piece(q, C) \in Seq(Byte)
  BY <1>3
<1> QED BY <1>5, <1>6, <1>8, <1>9, <1>10, <1>11

LEMMA KeptNone ==
    ASSUME NEW p \in Nat, NEW C
    PROVE  Kept(p, p, C) = <<>>
<1> DEFINE seqs == [i \in 1 .. p - p |-> Piece(p + i - 1, C)]
<1>1. seqs = <<>> /\ Len(seqs) = 0
  OBVIOUS
<1>2. Kept(p, p, C) = FlattenSeq(seqs)
  BY Zenon DEF Kept, Piece
<1> HIDE DEF seqs
<1> QED BY <1>1, <1>2, FlattenNone

LEMMA KeptBytes ==
    ASSUME reader \in ReaderType, NEW p \in Nat, NEW q \in Nat, p <= q, q <= Len(reader.disk),
           NEW C
    PROVE  Kept(p, q, C) \in Seq(Byte)
<1>1. CASE p = q
  <2>1. Kept(p, p, C) = <<>>
    BY KeptNone
  <2> QED BY <1>1, <2>1
<1>2. CASE p # q
  <2> DEFINE k == q - 1
  <2>1. k \in Nat /\ p <= k /\ k + 1 = q /\ k + 1 <= Len(reader.disk)
    BY <1>2
  <2> HIDE DEF k
  <2>2. Kept(p, k + 1, C) \in Seq(Byte)
    BY <2>1, KeptMore
  <2> QED BY <2>1, <2>2
<1> QED BY <1>1, <1>2

LEMMA KeptSplit ==
    ASSUME reader \in ReaderType, NEW p \in Nat, NEW q \in Nat, NEW r \in Nat, p <= q, q <= r,
           r <= Len(reader.disk), NEW C
    PROVE  Kept(p, r, C) = Kept(p, q, C) \o Kept(q, r, C)
<1> DEFINE n == Len(reader.disk)
           S == {k \in Nat : q + k <= n => Kept(p, q + k, C) = Kept(p, q, C) \o Kept(q, q + k, C)}
<1>1. n \in Nat /\ r <= n
  BY ReaderFields
<1>2. ASSUME NEW i \in Nat, NEW j \in Nat, i <= j, j <= n
      PROVE  Kept(i, j, C) \in Seq(Byte)
  BY <1>2, KeptBytes
<1>3. ASSUME NEW i \in Nat, NEW j \in Nat, i <= j, j + 1 <= n
      PROVE  Kept(i, j + 1, C) = Kept(i, j, C) \o Piece(j, C) /\ Piece(j, C) \in Seq(Byte)
  BY <1>3, KeptMore
<1> HIDE DEF n
<1>4. 0 \in S
  <2>1. Kept(q, q, C) = <<>> /\ q + 0 = q
    BY KeptNone
  <2>2. q <= n
    BY <1>1
  <2>3. Kept(p, q, C) \in Seq(Byte)
    BY <1>2, <2>2
  <2>4. Kept(p, q, C) \o <<>> = Kept(p, q, C)
    BY <2>3, ConcatEmptySeq
  <2> QED BY <2>1, <2>4
<1>5. ASSUME NEW k \in Nat, k \in S PROVE k + 1 \in S
  <2> SUFFICES ASSUME q + (k + 1) <= n
               PROVE  Kept(p, q + (k + 1), C) = Kept(p, q, C) \o Kept(q, q + (k + 1), C)
    OBVIOUS
  <2> DEFINE m == q + k
  <2>1. m \in Nat /\ m + 1 = q + (k + 1) /\ m + 1 <= n /\ m <= n /\ p <= m /\ q <= m /\ q <= n
    BY <1>1
  <2>2. Kept(p, m, C) = Kept(p, q, C) \o Kept(q, m, C)
    BY <1>5, <2>1
  <2> HIDE DEF m
  <2>3. /\ Kept(p, m + 1, C) = Kept(p, m, C) \o Piece(m, C)
        /\ Kept(q, m + 1, C) = Kept(q, m, C) \o Piece(m, C)
        /\ Piece(m, C) \in Seq(Byte)
    BY <1>3, <2>1
  <2>4. Kept(p, q, C) \in Seq(Byte) /\ Kept(q, m, C) \in Seq(Byte)
    BY <1>2, <2>1
  <2> DEFINE u == Kept(p, q, C)
             v == Kept(q, m, C)
             w == Piece(m, C)
  <2> HIDE DEF u, v, w
  <2>5. (u \o v) \o w = u \o (v \o w)
    <3>1. u \in Seq(Byte) /\ v \in Seq(Byte) /\ w \in Seq(Byte)
      BY <2>3, <2>4 DEF u, v, w
    <3> QED BY <3>1, ConcatAssociative
  <2> QED BY <2>1, <2>2, <2>3, <2>5 DEF u, v, w
<1>6. \A k \in Nat : k \in S
  <2> HIDE DEF S
  <2> QED BY <1>4, <1>5, AllNaturals
<1> DEFINE d == r - q
<1>7. d \in Nat /\ q + d = r
  OBVIOUS
<1> HIDE DEF d
<1>8. d \in S
  BY <1>6, <1>7
<1> QED BY <1>1, <1>7, <1>8

LEMMA KeptSame ==
    ASSUME NEW p \in Nat, NEW q \in Nat, NEW C, NEW D, \A x \in p .. q - 1 : x \in C <=> x \in D
    PROVE  Kept(p, q, C) = Kept(p, q, D)
<1>1. \A i \in 1 .. q - p : Piece(p + i - 1, C) = Piece(p + i - 1, D)
  <2> SUFFICES ASSUME NEW i \in 1 .. q - p PROVE Piece(p + i - 1, C) = Piece(p + i - 1, D)
    OBVIOUS
  <2>1. p + i - 1 \in p .. q - 1
    OBVIOUS
  <2> QED BY <2>1, Zenon DEF Piece
<1>2. [i \in 1 .. q - p |-> Piece(p + i - 1, C)] = [i \in 1 .. q - p |-> Piece(p + i - 1, D)]
  BY <1>1
<1>3. \A K : Kept(p, q, K) = FlattenSeq([i \in 1 .. q - p |-> Piece(p + i - 1, K)])
  BY Zenon DEF Kept, Piece
<1> QED BY <1>2, <1>3

LEMMA KeptPlain ==
    ASSUME reader \in ReaderType, NEW p \in Nat, NEW q \in Nat, p <= q, q <= Len(reader.disk)
    PROVE  Kept(p, q, {}) = PlainAt(reader, p, q - p)
<1> DEFINE n == Len(reader.disk)
           f == Plain(reader)
           S == {k \in Nat : p + k <= n => Kept(p, p + k, {}) = SubSeq(f, p + 1, p + k)}
<1>1. n \in Nat /\ f \in Seq(Byte) /\ Len(f) = n
  BY PlainBytes
<1>2. ASSUME NEW j \in Nat, p <= j, j + 1 <= n
      PROVE  Kept(p, j + 1, {}) = Kept(p, j, {}) \o SubSeq(f, j + 1, j + 1)
  <2>1. PlainAt(reader, j, 1) = SubSeq(f, j + 1, j + 1)
    BY <1>2, PlainAtIsSubSeq
  <2>2. Kept(p, j + 1, {}) = Kept(p, j, {}) \o Piece(j, {})
    BY <1>2, KeptMore
  <2> QED BY <2>1, <2>2 DEF Piece
<1>3. PlainAt(reader, p, q - p) = SubSeq(f, p + 1, q)
  <2>1. q - p \in Nat /\ p + (q - p) = q
    OBVIOUS
  <2> QED BY <2>1, PlainAtIsSubSeq
<1>4. q <= n
  OBVIOUS
<1> HIDE DEF n, f
<1>5. 0 \in S
  <2>1. Kept(p, p, {}) = <<>> /\ p + 0 = p
    BY KeptNone
  <2>2. SubSeq(f, p + 1, p) = <<>>
    BY SubSeqEmpty
  <2> QED BY <2>1, <2>2
<1>6. ASSUME NEW k \in Nat, k \in S PROVE k + 1 \in S
  <2> SUFFICES ASSUME p + (k + 1) <= n
               PROVE  Kept(p, p + (k + 1), {}) = SubSeq(f, p + 1, p + (k + 1))
    OBVIOUS
  <2> DEFINE m == p + k
             a == p + 1
             b == m + 1
  <2>1. /\ m \in Nat /\ b = p + (k + 1) /\ b <= n /\ p <= m /\ m + 1 <= n
        /\ a \in 1 .. n + 1 /\ m \in a - 1 .. n /\ b \in m .. n
    BY <1>1
  <2>2. Kept(p, m, {}) = SubSeq(f, a, m)
    BY <1>6, <2>1
  <2>3. Kept(p, b, {}) = Kept(p, m, {}) \o SubSeq(f, m + 1, b)
    BY <1>2, <2>1
  <2> HIDE DEF m, a, b
  <2>4. SubSeq(f, a, m) \o SubSeq(f, m + 1, b) = SubSeq(f, a, b)
    BY <1>1, <2>1, ConcatAdjacentSubSeq
  <2> QED BY <2>1, <2>2, <2>3, <2>4 DEF a
<1>7. \A k \in Nat : k \in S
  <2> HIDE DEF S
  <2> QED BY <1>5, <1>6, AllNaturals
<1> DEFINE d == q - p
<1>8. d \in Nat /\ p + d = q
  OBVIOUS
<1> HIDE DEF d
<1>9. d \in S
  BY <1>7, <1>8
<1> QED BY <1>3, <1>4, <1>8, <1>9 DEF d

LEMMA KeptCovered ==
    ASSUME reader \in ReaderType, NEW p \in Nat, NEW q \in Nat, p <= q, q <= Len(reader.disk),
           NEW C, p .. q - 1 \subseteq C
    PROVE  Kept(p, q, C) = <<>>
<1> DEFINE S == {k \in Nat : p + k <= q => Kept(p, p + k, C) = <<>>}
<1>1. Len(reader.disk) \in Nat
  BY ReaderFields
<1>2. 0 \in S
  BY KeptNone
<1>3. ASSUME NEW k \in Nat, k \in S PROVE k + 1 \in S
  <2> SUFFICES ASSUME p + (k + 1) <= q PROVE Kept(p, p + (k + 1), C) = <<>>
    OBVIOUS
  <2> DEFINE m == p + k
  <2>1. /\ m \in Nat /\ m + 1 = p + (k + 1) /\ m + 1 <= Len(reader.disk) /\ p <= m /\ m <= q
        /\ m \in p .. q - 1
    BY <1>1
  <2>2. Kept(p, m, C) = <<>>
    BY <1>3, <2>1
  <2> HIDE DEF m
  <2>3. Kept(p, m + 1, C) = Kept(p, m, C) \o Piece(m, C)
    BY <2>1, KeptMore
  <2>4. Piece(m, C) = <<>>
    BY <2>1 DEF Piece
  <2>5. <<>> \o <<>> = <<>>
    OBVIOUS
  <2> QED BY <2>1, <2>2, <2>3, <2>4, <2>5
<1>4. \A k \in Nat : k \in S
  <2> HIDE DEF S
  <2> QED BY <1>2, <1>3, AllNaturals
<1> DEFINE d == q - p
<1>5. d \in Nat /\ p + d = q
  OBVIOUS
<1> HIDE DEF d
<1>6. d \in S
  BY <1>4, <1>5
<1> QED BY <1>5, <1>6

-----------------------------------------------------------------------------
(* What a document says of a part of the file: the bytes from p up to q    *)
(* without the counts that begin at the marks, which lie between p and q.  *)
Says(p, q, marks, s) ==
    /\ p \in Nat /\ q \in Nat /\ p <= q
    /\ Covered(marks) \subseteq p .. q - 1
    /\ q <= Len(reader.disk) => s = Kept(p, q, Covered(marks))

LEMMA CoveredUnion ==
    ASSUME NEW M, NEW N
    PROVE  Covered(M \cup N) = Covered(M) \cup Covered(N)
BY DEF Covered

LEMMA SaysPlain ==
    ASSUME reader \in ReaderType, NEW p \in Nat, NEW q \in Nat, p <= q, NEW s,
           q <= Len(reader.disk) => s = PlainAt(reader, p, q - p)
    PROVE  Says(p, q, {}, s)
<1>1. Covered({}) = {}
  BY DEF Covered
<1>2. q <= Len(reader.disk) => s = Kept(p, q, {})
  BY KeptPlain
<1> QED BY <1>1, <1>2 DEF Says

LEMMA SaysThen ==
    ASSUME reader \in ReaderType, NEW p, NEW q, NEW r, NEW M, NEW N, NEW s, NEW t,
           Says(p, q, M, s), Says(q, r, N, t)
    PROVE  Says(p, r, M \cup N, s \o t)
<1> DEFINE C == Covered(M)
           D == Covered(N)
           K == Covered(M \cup N)
<1>1. /\ p \in Nat /\ q \in Nat /\ r \in Nat /\ p <= q /\ q <= r
      /\ C \subseteq p .. q - 1 /\ D \subseteq q .. r - 1
      /\ q <= Len(reader.disk) => s = Kept(p, q, C)
      /\ r <= Len(reader.disk) => t = Kept(q, r, D)
  BY DEF Says
<1>2. K = C \cup D
  BY CoveredUnion
<1>3. Len(reader.disk) \in Nat
  BY ReaderFields
<1> HIDE DEF C, D, K
<1>4. p <= r /\ K \subseteq p .. r - 1
  BY <1>1, <1>2
<1>5. ASSUME r <= Len(reader.disk) PROVE s \o t = Kept(p, r, K)
  <2>1. q <= Len(reader.disk)
    BY <1>1, <1>3, <1>5
  <2>2. \A x \in p .. q - 1 : x \in C <=> x \in K
    BY <1>1, <1>2
  <2>3. \A x \in q .. r - 1 : x \in D <=> x \in K
    BY <1>1, <1>2
  <2>4. Kept(p, q, C) = Kept(p, q, K)
    BY <1>1, <2>2, KeptSame
  <2>5. Kept(q, r, D) = Kept(q, r, K)
    BY <1>1, <2>3, KeptSame
  <2>6. Kept(p, r, K) = Kept(p, q, K) \o Kept(q, r, K)
    <3>1. p \in Nat /\ q \in Nat /\ r \in Nat /\ p <= q /\ q <= r
      BY <1>1
    <3> QED BY <1>5, <3>1, KeptSplit
  <2> QED BY <1>1, <1>5, <2>1, <2>4, <2>5, <2>6
<1> QED BY <1>1, <1>4, <1>5 DEF Says, K

(* A count is left out.                                                    *)
LEMMA SaysCount ==
    ASSUME reader \in ReaderType, NEW p \in Nat, FirstAt(File, p) \in Byte
    PROVE  Says(p, After(File, p), {p}, <<>>)
<1>1. p + CompactWidth(p) = After(File, p) /\ CompactWidth(p) = WidthAt(File, p)
  BY CountsOfFile
<1>2. WidthAt(File, p) \in {1, 3, 5, 9}
  BY CompactNat DEF WidthAt
<1> DEFINE q == After(File, p)
           w == CompactWidth(p)
<1>3. q \in Nat /\ p <= q
  BY <1>1, <1>2
<1>4. Covered({p}) = p .. q - 1
  <2>1. Covered({p}) = p .. p + w - 1
    BY DEF Covered
  <2>2. p + w = q /\ w \in Nat
    BY <1>1, <1>2
  <2> HIDE DEF q, w
  <2> QED BY <2>1, <2>2
<1> HIDE DEF q
<1>5. q <= Len(reader.disk) => <<>> = Kept(p, q, Covered({p}))
  BY <1>3, <1>4, KeptCovered
<1> QED BY <1>3, <1>4, <1>5 DEF Says, q

LEMMA SaysSkip ==
    ASSUME reader \in ReaderType, NEW p, NEW q, NEW M, NEW s, Says(p, q, M, s),
           FirstAt(File, q) \in Byte
    PROVE  Says(p, After(File, q), M \cup {q}, s)
<1>1. p \in Nat /\ q \in Nat /\ p <= q /\ (q <= Len(reader.disk) => s = Kept(p, q, Covered(M)))
  BY DEF Says
<1>2. Says(q, After(File, q), {q}, <<>>)
  BY <1>1, SaysCount
<1>3. Says(p, After(File, q), M \cup {q}, s \o <<>>)
  BY <1>2, SaysThen
<1> DEFINE r == After(File, q)
<1>4. q <= r /\ r \in Nat
  BY <1>2 DEF Says
<1>5. ASSUME r <= Len(reader.disk) PROVE s \o <<>> = s
  <2>1. Len(reader.disk) \in Nat
    BY ReaderFields
  <2> HIDE DEF r
  <2>2. q <= Len(reader.disk)
    BY <1>1, <1>4, <1>5, <2>1
  <2>3. s \in Seq(Byte)
    BY <1>1, <2>2, KeptBytes
  <2> QED BY <2>3, ConcatEmptySeq
<1> QED BY <1>3, <1>5 DEF Says

(* Parts one after another, and the list of what is said of each.          *)
LEMMA SaysList ==
    ASSUME reader \in ReaderType, NEW n \in Nat, NEW e, NEW M, NEW s,
           e[0] \in Nat, IsList(n, s),
           \A i \in 1 .. n : Says(e[i - 1], e[i], M[i], s[i])
    PROVE  Says(e[0], e[n], UNION {M[i] : i \in 1 .. n}, FlattenSeq(s))
<1> DEFINE D == Covered(UNION {M[i] : i \in 1 .. n})
           len == Len(reader.disk)
           S == {k \in Nat : k <= n => e[k] \in Nat /\ \A i \in 0 .. k : e[i] <= e[k]}
<1>1. ASSUME NEW i \in 1 .. n
      PROVE  /\ e[i - 1] \in Nat /\ e[i] \in Nat /\ e[i - 1] <= e[i]
             /\ Covered(M[i]) \subseteq e[i - 1] .. e[i] - 1
             /\ e[i] <= len => s[i] = Kept(e[i - 1], e[i], Covered(M[i]))
  BY DEF Says
<1>2. len \in Nat
  BY ReaderFields
<1>3. \A x \in D : \E i \in 1 .. n : x \in Covered(M[i])
  BY DEF Covered
<1>4. \A i \in 1 .. n : Covered(M[i]) \subseteq D
  BY DEF Covered
<1> HIDE DEF D, len
<1>5. \A k \in Nat : k \in S
  <2>1. 0 \in S
    OBVIOUS
  <2>2. ASSUME NEW k \in Nat, k \in S PROVE k + 1 \in S
    <3> SUFFICES ASSUME k + 1 <= n
                 PROVE  e[k + 1] \in Nat /\ \A i \in 0 .. k + 1 : e[i] <= e[k + 1]
      OBVIOUS
    <3>1. k + 1 \in 1 .. n /\ (k + 1) - 1 = k
      OBVIOUS
    <3>2. e[k] \in Nat /\ e[k + 1] \in Nat /\ e[k] <= e[k + 1]
      BY <1>1, <3>1
    <3>3. \A i \in 0 .. k : e[i] <= e[k]
      BY <2>2, <3>1
    <3>4. \A i \in 0 .. k : e[i] \in Nat
      <4> SUFFICES ASSUME NEW i \in 0 .. k PROVE e[i] \in Nat
        OBVIOUS
      <4>1. CASE i = 0
        BY <4>1
      <4>2. CASE i # 0
        <5>1. i \in 1 .. n
          BY <3>1, <4>2
        <5> QED BY <1>1, <5>1
      <4> QED BY <4>1, <4>2
    <3>5. ASSUME NEW i \in 0 .. k + 1 PROVE e[i] <= e[k + 1]
      <4>1. CASE i = k + 1
        BY <3>2, <4>1
      <4>2. CASE i # k + 1
        <5>1. i \in 0 .. k
          BY <4>2
        <5> QED BY <3>2, <3>3, <3>4, <5>1
      <4> QED BY <4>1, <4>2
    <3> QED BY <3>2, <3>5
  <2> HIDE DEF S
  <2> QED BY <2>1, <2>2, AllNaturals
<1>6. \A j \in 0 .. n : e[j] \in Nat /\ \A i \in 0 .. j : e[i] <= e[j]
  BY <1>5
<1>7. ASSUME NEW i \in 1 .. n, NEW x \in e[i - 1] .. e[i] - 1
      PROVE  x \in D <=> x \in Covered(M[i])
  <2>1. ASSUME x \in D PROVE x \in Covered(M[i])
    <3>1. PICK j \in 1 .. n : x \in Covered(M[j])
      BY <1>3, <2>1
    <3>2. /\ e[j - 1] \in Nat /\ e[j] \in Nat /\ x \in e[j - 1] .. e[j] - 1
          /\ e[i - 1] \in Nat /\ e[i] \in Nat
      BY <1>1, <3>1
    <3>3. CASE j = i
      BY <3>1, <3>3
    <3>4. CASE j < i
      <4>1. i - 1 \in 0 .. n /\ j \in 0 .. i - 1
        BY <3>4
      <4>2. e[j] <= e[i - 1]
        BY <1>6, <4>1
      <4> QED BY <3>2, <4>2
    <3>5. CASE i < j
      <4>1. j - 1 \in 0 .. n /\ i \in 0 .. j - 1
        BY <3>5
      <4>2. e[i] <= e[j - 1]
        BY <1>6, <4>1
      <4> QED BY <3>2, <4>2
    <3> QED BY <3>3, <3>4, <3>5
  <2> QED BY <1>4, <2>1
<1>8. 0 \in 0 .. n /\ n \in 0 .. n
  OBVIOUS
<1>9. e[0] \in Nat /\ e[n] \in Nat /\ e[0] <= e[n]
  BY <1>6, <1>8
<1>10. ASSUME NEW x \in D PROVE x \in e[0] .. e[n] - 1
  <2>1. PICK i \in 1 .. n : x \in Covered(M[i])
    BY <1>3
  <2>2. i - 1 \in 0 .. n /\ i \in 0 .. n /\ 0 \in 0 .. i - 1
    OBVIOUS
  <2>3. e[0] <= e[i - 1] /\ e[i] <= e[n] /\ e[i - 1] \in Nat /\ e[i] \in Nat
    BY <1>6, <1>8, <2>2
  <2>4. x \in e[i - 1] .. e[i] - 1
    BY <1>1, <2>1
  <2> QED BY <1>9, <2>3, <2>4
<1>11. ASSUME e[n] <= len PROVE FlattenSeq(s) = Kept(e[0], e[n], D)
  <2> DEFINE grown == [i \in 0 .. n |-> Kept(e[0], e[i], D)]
  <2>1. grown[0] = <<>> /\ grown[n] = Kept(e[0], e[n], D)
    BY <1>8, KeptNone
  <2>2. ASSUME NEW i \in 1 .. n
        PROVE  s[i] \in Seq(Byte) /\ grown[i] = grown[i - 1] \o s[i]
    <3>1. i - 1 \in 0 .. n /\ i \in 0 .. n /\ 0 \in 0 .. i - 1 /\ i \in 0 .. n
      OBVIOUS
    <3>2. /\ e[i - 1] \in Nat /\ e[i] \in Nat /\ e[0] <= e[i - 1] /\ e[i - 1] <= e[i]
          /\ e[i] <= e[n]
      BY <1>1, <1>6, <1>8, <3>1
    <3>3. e[i] <= len
      BY <1>2, <1>9, <1>11, <3>2
    <3>4. s[i] = Kept(e[i - 1], e[i], Covered(M[i]))
      BY <1>1, <3>3
    <3>5. Kept(e[i - 1], e[i], Covered(M[i])) = Kept(e[i - 1], e[i], D)
      BY <1>7, <3>2, KeptSame
    <3>6. Kept(e[i - 1], e[i], D) \in Seq(Byte)
      BY <3>2, <3>3, KeptBytes DEF len
    <3>7. Kept(e[0], e[i], D) = Kept(e[0], e[i - 1], D) \o Kept(e[i - 1], e[i], D)
      <4> DEFINE a == e[0]
                 b == e[i - 1]
                 c == e[i]
      <4>1. /\ a \in Nat /\ b \in Nat /\ c \in Nat /\ a <= b /\ b <= c
            /\ c <= Len(reader.disk)
        BY <1>9, <3>2, <3>3 DEF len
      <4> HIDE DEF a, b, c
      <4>2. Kept(a, c, D) = Kept(a, b, D) \o Kept(b, c, D)
        BY <4>1, KeptSplit
      <4> QED BY <4>2 DEF a, b, c
    <3>8. grown[i] = Kept(e[0], e[i], D) /\ grown[i - 1] = Kept(e[0], e[i - 1], D)
      BY <3>1
    <3> QED BY <3>4, <3>5, <3>6, <3>7, <3>8
  <2> HIDE DEF grown
  <2>3. \A i \in 1 .. n : s[i] \in Seq(Byte) /\ grown[i] = grown[i - 1] \o s[i]
    BY <2>2
  <2>4. Grows(n, s, Byte, grown)
    BY <2>1, <2>3 DEF Grows
  <2>5. FlattenSeq(s) = grown[n]
    BY <2>4, FlattenRuns
  <2> QED BY <2>1, <2>5
<1> QED BY <1>9, <1>10, <1>11 DEF Says, D, len

-----------------------------------------------------------------------------
(* The texts of a document and what a reader makes of them.                *)
LEMMA ReversedTwice ==
    ASSUME NEW S, NEW s \in Seq(S)
    PROVE  /\ Reversed(s) \in Seq(S) /\ Len(Reversed(s)) = Len(s)
           /\ Reversed(Reversed(s)) = s
<1> DEFINE n == Len(s)
           t == Reversed(s)
           u == Reversed(t)
<1>1. n \in Nat /\ \A i \in 1 .. n : s[i] \in S
  BY ElementOfSeq
<1>2. \A i \in 1 .. n : n + 1 - i \in 1 .. n /\ n + 1 - (n + 1 - i) = i
  BY <1>1
<1>3. t = [i \in 1 .. n |-> s[n + 1 - i]]
  BY DEF Reversed
<1> HIDE DEF n, t
<1>4. t \in Seq(S) /\ Len(t) = n /\ \A i \in 1 .. n : t[i] = s[n + 1 - i]
  BY <1>1, <1>2, <1>3
<1>5. u = [i \in 1 .. n |-> t[n + 1 - i]]
  BY <1>4 DEF Reversed
<1> HIDE DEF u
<1>6. u \in Seq(S) /\ Len(u) = n /\ \A i \in 1 .. n : u[i] = t[n + 1 - i]
  BY <1>1, <1>2, <1>4, <1>5
<1>7. \A i \in 1 .. n : u[i] = s[i]
  BY <1>2, <1>4, <1>6
<1>8. u = s
  BY <1>6, <1>7, SeqEqual DEF n
<1> QED BY <1>4, <1>8 DEF n, t, u

(* A hexadecimal text has two digits for each byte.                        *)
Nibble(s, j) == IF j % 2 = 1 THEN s[(j + 1) \div 2] \div 16 ELSE s[j \div 2] % 16

LEMMA HexRoundTrip ==
    ASSUME NEW s \in Seq(Byte)
    PROVE  FromHex(HashToHexString(s)) = s
<1> DEFINE n     == Len(s)
           pairs == [i \in 1 .. n |-> <<s[i] \div 16, s[i] % 16>>]
           grown == [i \in 0 .. n |-> [j \in 1 .. 2 * i |-> Nibble(s, j)]]
           text  == HashToHexString(s)
<1>1. n \in Nat /\ \A i \in 1 .. n : s[i] \in Byte
  BY ElementOfSeq
<1>2. text = FlattenSeq(pairs)
  BY Zenon DEF HashToHexString
<1>3. IsList(n, pairs)
  BY <1>1 DEF IsList
<1>4. \A b \in Byte : /\ b \div 16 \in 0 .. 15 /\ b % 16 \in 0 .. 15
                      /\ 16 * (b \div 16) + (b % 16) = b
  BY DEF Byte
<1>5. grown[0] = <<>>
  BY <1>1
<1>6. ASSUME NEW i \in 1 .. n
      PROVE  /\ Nibble(s, 2 * i - 1) = s[i] \div 16
             /\ Nibble(s, 2 * i) = s[i] % 16
             /\ s[i] \div 16 \in 0 .. 15 /\ s[i] % 16 \in 0 .. 15
             /\ 16 * (s[i] \div 16) + (s[i] % 16) = s[i]
  <2>1. (2 * i - 1) % 2 = 1 /\ ((2 * i - 1) + 1) \div 2 = i /\ (2 * i) % 2 = 0 /\ (2 * i) \div 2 = i
    BY <1>1
  <2>2. s[i] \in Byte
    BY <1>1
  <2>3. Nibble(s, 2 * i - 1) = s[i] \div 16 /\ Nibble(s, 2 * i) = s[i] % 16
    BY <2>1 DEF Nibble
  <2> QED BY <1>4, <2>2, <2>3
<1>7. \A j \in 1 .. 2 * n : Nibble(s, j) \in 0 .. 15
  <2> SUFFICES ASSUME NEW j \in 1 .. 2 * n PROVE Nibble(s, j) \in 0 .. 15
    OBVIOUS
  <2>1. CASE j % 2 = 1
    <3> DEFINE i == (j + 1) \div 2
    <3>1. i \in 1 .. n /\ 2 * i - 1 = j
      BY <1>1, <2>1
    <3> HIDE DEF i
    <3> QED BY <1>6, <3>1
  <2>2. CASE j % 2 # 1
    <3> DEFINE i == j \div 2
    <3>1. i \in 1 .. n /\ 2 * i = j
      BY <1>1, <2>2
    <3> HIDE DEF i
    <3> QED BY <1>6, <3>1
  <2> QED BY <2>1, <2>2
<1>8. ASSUME NEW i \in 0 .. n
      PROVE  /\ grown[i] \in Seq(0 .. 15) /\ Len(grown[i]) = 2 * i
             /\ \A j \in 1 .. 2 * i : grown[i][j] = Nibble(s, j)
  <2>1. grown[i] = [j \in 1 .. 2 * i |-> Nibble(s, j)]
    OBVIOUS
  <2>2. 2 * i \in Nat /\ \A j \in 1 .. 2 * i : j \in 1 .. 2 * n
    BY <1>1
  <2> HIDE DEF grown
  <2> QED BY <1>7, <2>1, <2>2
<1>9. ASSUME NEW i \in 1 .. n PROVE pairs[i] \in Seq(0 .. 15) /\ grown[i] = grown[i - 1] \o pairs[i]
  <2> DEFINE u == grown[i - 1]
             v == pairs[i]
             w == grown[i]
  <2>1. i - 1 \in 0 .. n /\ i \in 0 .. n /\ 2 * (i - 1) + 2 = 2 * i
    BY <1>1
  <2>2. v = <<s[i] \div 16, s[i] % 16>>
    OBVIOUS
  <2>3. v \in Seq(0 .. 15) /\ Len(v) = 2 /\ v[1] = s[i] \div 16 /\ v[2] = s[i] % 16
    <3> DEFINE a == s[i] \div 16
               b == s[i] % 16
    <3>1. a \in 0 .. 15 /\ b \in 0 .. 15
      BY <1>6
    <3> HIDE DEF a, b
    <3>2. <<a, b>> \in Seq(0 .. 15) /\ Len(<<a, b>>) = 2 /\ <<a, b>>[1] = a /\ <<a, b>>[2] = b
      BY <3>1
    <3> HIDE DEF v
    <3> QED BY <2>2, <3>2 DEF a, b
  <2>4. /\ u \in Seq(0 .. 15) /\ Len(u) = 2 * (i - 1)
        /\ \A j \in 1 .. 2 * (i - 1) : u[j] = Nibble(s, j)
    BY <1>8, <2>1
  <2>5. w \in Seq(0 .. 15) /\ Len(w) = 2 * i /\ \A j \in 1 .. 2 * i : w[j] = Nibble(s, j)
    BY <1>8, <2>1
  <2> HIDE DEF u, v, w
  <2> DEFINE x == u \o v
  <2>6. /\ x \in Seq(0 .. 15) /\ Len(x) = Len(u) + Len(v)
        /\ \A j \in 1 .. Len(u) + Len(v) : x[j] = IF j <= Len(u) THEN u[j] ELSE v[j - Len(u)]
    BY <2>3, <2>4, ConcatProperties
  <2> HIDE DEF x
  <2>7. ASSUME NEW j \in 1 .. 2 * i PROVE w[j] = x[j]
    <3>1. CASE j <= 2 * (i - 1)
      BY <2>3, <2>4, <2>5, <2>6, <3>1
    <3>2. CASE j = 2 * i - 1
      <4>1. x[j] = v[1]
        BY <2>3, <2>4, <2>6, <3>2
      <4> QED BY <1>6, <2>3, <2>5, <3>2, <4>1
    <3>3. CASE j = 2 * i
      <4>1. x[j] = v[2]
        BY <2>3, <2>4, <2>6, <3>3
      <4> QED BY <1>6, <2>3, <2>5, <3>3, <4>1
    <3> QED BY <3>1, <3>2, <3>3
  <2>8. Len(x) = Len(w)
    BY <2>1, <2>3, <2>4, <2>5, <2>6
  <2>9. w = x
    BY <2>5, <2>6, <2>7, <2>8, SeqEqual
  <2> QED BY <2>3, <2>9 DEF u, v, w, x
<1> HIDE DEF pairs, grown
<1>10. Grows(n, pairs, 0 .. 15, grown)
  BY <1>5, <1>9 DEF Grows
<1>11. text = grown[n]
  BY <1>2, <1>3, <1>10, FlattenRuns
<1>12. n \in 0 .. n
  BY <1>1
<1>13. Len(text) = 2 * n /\ \A j \in 1 .. 2 * n : text[j] = Nibble(s, j)
  BY <1>8, <1>11, <1>12
<1> HIDE DEF text
<1> DEFINE back == FromHex(text)
<1>14. (2 * n) \div 2 = n
  BY <1>1
<1>15. back = [i \in 1 .. n |-> 16 * text[2 * i - 1] + text[2 * i]]
  BY <1>13, <1>14 DEF FromHex
<1>16. ASSUME NEW i \in 1 .. n PROVE 16 * text[2 * i - 1] + text[2 * i] = s[i]
  <2>1. 2 * i - 1 \in 1 .. 2 * n /\ 2 * i \in 1 .. 2 * n
    BY <1>1
  <2> QED BY <1>6, <1>13, <2>1
<1> HIDE DEF n
<1>17. back = [i \in 1 .. n |-> s[i]]
  BY <1>15, <1>16
<1>18. s = [i \in 1 .. n |-> s[i]]
  BY DEF n
<1> QED BY <1>17, <1>18 DEF back, text

(* The calendar: the years from 1970 to 2106 follow one another, and so do *)
(* the months of each.                                                     *)
LEMMA YearLength ==
    ASSUME NEW y \in Nat, y >= 1970
    PROVE  /\ DaysBeforeYear(y) \in Int
           /\ DaysBeforeYear(y + 1) = DaysBeforeYear(y) + (IF IsLeap(y) THEN 366 ELSE 365)
<1> DEFINE a == y - 1968
           b == y - 1900
           c == y - 1600
<1>1. /\ a \in Nat /\ b \in Nat /\ c \in Nat
      /\ a % 4 = y % 4 /\ b % 100 = y % 100 /\ c % 400 = y % 400
  OBVIOUS
<1>2. DaysBeforeYear(y + 1) = 365 * (y - 1969) + a \div 4 - b \div 100 + c \div 400
  BY DEF DaysBeforeYear
<1>3. DaysBeforeYear(y) = 365 * (y - 1970) + (a - 1) \div 4 - (b - 1) \div 100 + (c - 1) \div 400
  BY DEF DaysBeforeYear
<1>4. a \div 4 - (a - 1) \div 4 = IF y % 4 = 0 THEN 1 ELSE 0
  BY <1>1
<1>5. b \div 100 - (b - 1) \div 100 = IF y % 100 = 0 THEN 1 ELSE 0
  BY <1>1
<1>6. c \div 400 - (c - 1) \div 400 = IF y % 400 = 0 THEN 1 ELSE 0
  BY <1>1
<1>7. (y % 100 = 0 => y % 4 = 0) /\ (y % 400 = 0 => y % 100 = 0)
  OBVIOUS
<1>8. /\ a \div 4 \in Int /\ (a - 1) \div 4 \in Int /\ b \div 100 \in Int /\ (b - 1) \div 100 \in Int
      /\ c \div 400 \in Int /\ (c - 1) \div 400 \in Int
  BY <1>1
<1> HIDE DEF a, b, c
<1> QED BY <1>2, <1>3, <1>4, <1>5, <1>6, <1>7, <1>8 DEF IsLeap

(* The days and the years that 32-bit numbers of seconds reach.            *)
Days32 == {d \in Nat : d <= 49710}

Years32 == 1970 .. 2106

LEMMA YearOfDay ==
    ASSUME NEW day \in Days32
    PROVE  \E y \in Years32 : DaysBeforeYear(y) <= day /\ day < DaysBeforeYear(y + 1)
<1>0. day \in Nat /\ day <= 49710
  BY SMT DEF Days32
<1> DEFINE T == {k \in Nat : k >= 1970 /\ day < DaysBeforeYear(k + 1)}
<1>1. 2106 \in T
  <2>1. DaysBeforeYear(2106 + 1) = 50038
    BY SMT DEF DaysBeforeYear
  <2> QED BY <1>0, <2>1, SMT
<1>2. PICK y \in T : \A k \in T : y <= k
  <2>1. T \in SUBSET Nat
    OBVIOUS
  <2> HIDE DEF T
  <2>2. T # {}
    BY <1>1, SMT
  <2> QED BY <2>1, <2>2, LeastOfSet
<1>3. y \in Nat /\ y >= 1970 /\ y <= 2106 /\ day < DaysBeforeYear(y + 1)
  BY <1>1, <1>2, SMT
<1>4. CASE y = 1970
  <2>1. DaysBeforeYear(1970) = 0
    BY SMT DEF DaysBeforeYear
  <2> HIDE DEF T
  <2>2. DaysBeforeYear(y) = 0
    BY <1>4, <2>1
  <2> QED BY <1>0, <1>3, <2>2, SMT DEF Years32
<1>5. CASE y # 1970
  <2> DEFINE k == y - 1
  <2>1. k \in Nat /\ k >= 1970 /\ k < y /\ k + 1 = y
    BY <1>3, <1>5, SMT
  <2>2. DaysBeforeYear(y) \in Int
    BY <1>3, YearLength, SMT
  <2>3. k \notin T
    <3> HIDE DEF T, k
    <3>1. k \in T => y <= k
      BY <1>2
    <3>2. ~ (y <= k)
      BY <1>3, <2>1, SMT
    <3> QED BY <3>1, <3>2
  <2> HIDE DEF k
  <2>4. ~ (day < DaysBeforeYear(y))
    BY <1>3, <2>1, <2>3, SMT
  <2> QED BY <1>0, <1>3, <2>2, <2>4, SMT DEF Years32
<1> QED BY <1>4, <1>5

LEMMA MonthOfDay ==
    ASSUME NEW y, NEW rest \in Nat, rest < IF IsLeap(y) THEN 366 ELSE 365
    PROVE  /\ \E m \in 1 .. 12 : DaysBeforeMonth(y, m) <= rest /\ rest < DaysBeforeMonth(y, m + 1)
           /\ \A m \in 1 .. 12 : DaysBeforeMonth(y, m) \in Int
<1> DEFINE leap == IF IsLeap(y) THEN 1 ELSE 0
           before(m) == DaysBeforeMonth(y, m)
<1>1. leap \in Nat /\ leap <= 1 /\ rest < 365 + leap
  OBVIOUS
<1>2. /\ before(1) = 0 /\ before(2) = 31 /\ before(3) = 59 + leap /\ before(4) = 90 + leap
      /\ before(5) = 120 + leap /\ before(6) = 151 + leap /\ before(7) = 181 + leap
      /\ before(8) = 212 + leap /\ before(9) = 243 + leap /\ before(10) = 273 + leap
      /\ before(11) = 304 + leap /\ before(12) = 334 + leap /\ before(13) = 365 + leap
  BY DEF DaysBeforeMonth
<1> HIDE DEF leap, before
<1> DEFINE P(m) == before(m) <= rest /\ rest < before(m + 1)
<1>3. P(1) \/ P(2) \/ P(3) \/ P(4) \/ P(5) \/ P(6) \/ P(7) \/ P(8) \/ P(9) \/ P(10) \/ P(11) \/ P(12)
  BY <1>1, <1>2, SMT
<1>4. ASSUME NEW m \in 1 .. 12 PROVE before(m) \in Int
  <2>1. \/ m = 1 \/ m = 2 \/ m = 3 \/ m = 4 \/ m = 5 \/ m = 6 \/ m = 7 \/ m = 8 \/ m = 9
        \/ m = 10 \/ m = 11 \/ m = 12
    OBVIOUS
  <2> QED BY <1>1, <1>2, <2>1, SMT
<1> HIDE DEF P
<1>5. \E m \in 1 .. 12 : P(m)
  BY <1>3
<1> QED BY <1>4, <1>5 DEF P, before

(* The time of a document is the number in the file.                       *)
LEMMA TimeRoundTrip ==
    ASSUME NEW number \in Seq(Byte), Len(number) = 4
    PROVE  FromTime(ToTime(number)) = Reversed(number)
<1> DEFINE n1 == number[1]
           n2 == number[2]
           n3 == number[3]
           n4 == number[4]
<1>1. /\ n1 \in Nat /\ n2 \in Nat /\ n3 \in Nat /\ n4 \in Nat
      /\ n1 <= 255 /\ n2 <= 255 /\ n3 <= 255 /\ n4 <= 255
  <2>1. \A i \in 1 .. 4 : number[i] \in Byte
    BY ElementOfSeq
  <2>2. n1 \in Byte /\ n2 \in Byte /\ n3 \in Byte /\ n4 \in Byte
    BY <2>1
  <2> HIDE DEF n1, n2, n3, n4
  <2> QED BY <2>2, SMT DEF Byte
<1> DEFINE high    == 65536 * n1 + 256 * n2 + n3
           low     == 256 * (high % 60) + n4
           minutes == 256 * (high \div 60) + low \div 60
           day     == minutes \div 1440
           year    == CHOOSE y \in Years32 :
                          DaysBeforeYear(y) <= day /\ day < DaysBeforeYear(y + 1)
           rest    == day - DaysBeforeYear(year)
           month   == CHOOSE m \in 1 .. 12 :
                          DaysBeforeMonth(year, m) <= rest /\ rest < DaysBeforeMonth(year, m + 1)
           date    == [year |-> year, month |-> month,
                       day |-> rest - DaysBeforeMonth(year, month) + 1,
                       hour |-> (minutes \div 60) % 24, minute |-> minutes % 60,
                       second |-> low % 60]
<1>2. ToTime(number) = date
  BY SMT DEF ToTime, Years32
<1>3. /\ high \in Nat /\ high <= 16777215
      /\ high % 256 = n3 /\ (high \div 256) % 256 = n2 /\ high \div 65536 = n1
  <2> DEFINE m == 256 * n1 + n2
             k == 256 * n2 + n3
  <2> HIDE DEF n1, n2, n3, n4
  <2>1. m \in Nat /\ m <= 65535 /\ k \in Nat /\ k <= 65535
    BY <1>1, SMT
  <2>2. high = 256 * m + n3 /\ high = 65536 * n1 + k
    BY <1>1, SMT
  <2>3. m % 256 = n2
    BY <1>1, SMT
  <2> HIDE DEF m, k, high
  <2>4. high \in Nat /\ high <= 16777215
    BY <1>1, <2>1, <2>2, SMT
  <2>5. high % 256 = n3 /\ high \div 256 = m
    BY <1>1, <2>1, <2>2, SMT
  <2>6. high \div 65536 = n1
    BY <1>1, <2>1, <2>2, SMT
  <2> QED BY <2>3, <2>4, <2>5, <2>6, SMT
<1> HIDE DEF n1, n2, n3, n4, high
<1> DEFINE hq == high \div 60
           hr == high % 60
<1>4. hq \in Nat /\ hq <= 279620 /\ hr \in Nat /\ hr <= 59 /\ high = 60 * hq + hr
  BY <1>3, SMT
<1> HIDE DEF hq, hr
<1>5. low = 256 * hr + n4
  BY SMT DEF hr
<1>6. minutes = 256 * hq + low \div 60
  BY SMT DEF hq
<1> HIDE DEF low, minutes
<1> DEFINE lq == low \div 60
           lr == low % 60
<1>7. low \in Nat /\ low <= 15359
  BY <1>1, <1>4, <1>5, SMT
<1>8. /\ lq \in Nat /\ lq <= 255 /\ lr \in Nat /\ lr <= 59 /\ low = 60 * lq + lr
      /\ low \div 256 = hr /\ low % 256 = n4
  <2>1. low \div 256 = hr /\ low % 256 = n4
    BY <1>1, <1>4, <1>5, SMT
  <2> QED BY <1>7, <2>1, SMT
<1>9. minutes = 256 * hq + lq
  BY <1>6
<1> HIDE DEF lq
<1>10. /\ minutes \in Nat /\ minutes <= 71582975
       /\ minutes \div 256 = hq /\ minutes % 256 = lq
  <2>1. minutes \in Nat /\ minutes <= 71582975
    BY <1>4, <1>8, <1>9, SMT
  <2>2. minutes \div 256 = hq /\ minutes % 256 = lq
    BY <1>4, <1>8, <1>9, SMT
  <2> QED BY <2>1, <2>2
<1> DEFINE mq == minutes \div 60
           hour == mq % 24
<1>11. mq \in Nat /\ minutes = 60 * mq + (minutes % 60)
  BY <1>10, SMT
<1>12. day = mq \div 24 /\ day \in Nat /\ day <= 49710
  BY <1>10, SMT
<1> HIDE DEF mq
<1>13. mq = 24 * day + hour /\ hour \in Nat
  BY <1>11, <1>12, SMT
<1>14. 1440 * day + 60 * hour + (minutes % 60) = minutes
  <2>1. minutes % 60 \in Nat /\ day \in Nat
    BY <1>10, <1>12, SMT
  <2> HIDE DEF day, hour
  <2> QED BY <1>11, <1>13, <2>1, SMT
<1> HIDE DEF day
<1>15. year \in Nat /\ year >= 1970 /\ DaysBeforeYear(year) <= day /\ day < DaysBeforeYear(year + 1)
  <2>1. day \in Days32
    <3>1. day \in Nat /\ day <= 49710
      BY <1>12
    <3> QED BY <3>1, SMT DEF Days32
  <2>2. \E y \in Years32 : DaysBeforeYear(y) <= day /\ day < DaysBeforeYear(y + 1)
    BY <2>1, YearOfDay, Zenon
  <2>3. year \in Years32 /\ DaysBeforeYear(year) <= day /\ day < DaysBeforeYear(year + 1)
    BY <2>2, Zenon
  <2> HIDE DEF year
  <2> QED BY <2>3, SMT DEF Years32
<1> HIDE DEF year
<1>16. DaysBeforeYear(year) \in Int /\ rest \in Nat /\ rest < IF IsLeap(year) THEN 366 ELSE 365
  <2>1. /\ DaysBeforeYear(year) \in Int
        /\ DaysBeforeYear(year + 1) = DaysBeforeYear(year) + (IF IsLeap(year) THEN 366 ELSE 365)
    BY <1>15, YearLength, SMT
  <2> QED BY <1>12, <1>15, <2>1, SMT
<1>17. DaysBeforeYear(year) + rest = day
  BY <1>12, <1>16, SMT
<1> HIDE DEF rest
<1>18. month \in 1 .. 12 /\ \A m \in 1 .. 12 : DaysBeforeMonth(year, m) \in Int
  <2>1. /\ \E m \in 1 .. 12 : DaysBeforeMonth(year, m) <= rest /\ rest < DaysBeforeMonth(year, m + 1)
        /\ \A m \in 1 .. 12 : DaysBeforeMonth(year, m) \in Int
    BY <1>16, MonthOfDay, Zenon
  <2> QED BY <2>1, Zenon
<1> HIDE DEF month
<1>19. DaysBeforeMonth(year, month) \in Int
  BY <1>18
<1> DEFINE dm   == DaysBeforeMonth(year, month)
           dom  == rest - dm + 1
           days == DaysBeforeYear(year) + dm + dom - 1
<1>20. days = day
  <2> HIDE DEF dm
  <2> QED BY <1>12, <1>16, <1>17, <1>19, SMT DEF dm
<1> DEFINE mm == 1440 * days + 60 * hour + (minutes % 60)
           ll == 60 * (mm % 256) + lr
           hh == 60 * (mm \div 256) + ll \div 256
<1>21. mm = minutes
  BY <1>14, <1>20, SMT
<1>22. ll = low
  <2>1. mm % 256 = lq
    BY <1>10, <1>21
  <2> HIDE DEF mm, lr
  <2> QED BY <1>8, <2>1
<1>23. hh = high
  <2>1. mm \div 256 = hq /\ ll \div 256 = hr
    BY <1>8, <1>10, <1>21, <1>22
  <2> HIDE DEF mm, ll
  <2> QED BY <1>4, <2>1
<1>24. FromTime(date) = <<ll % 256, hh % 256, (hh \div 256) % 256, hh \div 65536>>
  BY SMT DEF FromTime, mq
<1>25. FromTime(date) = <<n4, n3, n2, n1>>
  <2>1. ll % 256 = n4 /\ hh % 256 = n3 /\ (hh \div 256) % 256 = n2 /\ hh \div 65536 = n1
    <3> HIDE DEF ll, hh
    <3> QED BY <1>3, <1>8, <1>22, <1>23, SMT
  <2> HIDE DEF ll, hh, date
  <2> QED BY <1>24, <2>1, SMT
<1>26. Reversed(number) = <<n4, n3, n2, n1>>
  BY DEF Reversed, n1, n2, n3, n4
<1> QED BY <1>2, <1>25, <1>26

(* Every key of a transaction's object.                                    *)
LEMMA TransactionKeys ==
    ASSUME NEW t, NEW index, t.segwit \in BOOLEAN
    PROVE  LET d == TransactionToJson(t, index) IN
           /\ d.transactionNumber = index
           /\ d.transactionHash = PlainAt(reader, t.hashed.from, t.hashed.to - t.hashed.from)
           /\ d.version = IntegerAt(t.from, 4) /\ d.segwit = t.segwit
           /\ d.inputCount = Len(t.vin) /\ d.outputCount = Len(t.vout)
           /\ d.lockTime = IntegerAt(t.to - 4, 4)
           /\ d.txIn = AllTxInToJson(t.vin) /\ d.txOut = AllTxOutToJson(t.vout)
           /\ t.segwit => d.witness = AllWitnessToJson(t.witnesses)
<1>1. CASE t.segwit
  <2>1. TransactionToJson(t, index) =
            [key \in DOMAIN LegacyToJson(t, index) \cup {"witness"} |->
                 IF key = "witness" THEN AllWitnessToJson(t.witnesses)
                 ELSE LegacyToJson(t, index)[key]]
    BY <1>1 DEF TransactionToJson
  <2> QED BY <1>1, <2>1 DEF LegacyToJson
<1>2. CASE ~ t.segwit
  <2>1. TransactionToJson(t, index) = LegacyToJson(t, index)
    BY <1>2 DEF TransactionToJson
  <2> QED BY <1>2, <2>1 DEF LegacyToJson
<1> QED BY <1>1, <1>2

-----------------------------------------------------------------------------
(* What the texts say, one after another.                                  *)
LEMMA SaysOn ==
    ASSUME reader \in ReaderType, NEW p, NEW q, NEW r, NEW M, NEW s, NEW t,
           Says(p, q, M, s), Says(q, r, {}, t)
    PROVE  Says(p, r, M, s \o t)
<1>1. Says(p, r, M \cup {}, s \o t)
  BY SaysThen
<1>2. M \cup {} = M
  OBVIOUS
<1> QED BY <1>1, <1>2

LEMMA IntegerSays ==
    ASSUME reader \in ReaderType, NEW p \in Nat, NEW n \in Nat
    PROVE  Says(p, p + n, {}, Reversed(IntegerAt(p, n)))
<1> DEFINE q == p + n
           s == Reversed(IntegerAt(p, n))
<1>1. q \in Nat /\ p <= q /\ q - p = n
  OBVIOUS
<1>2. ASSUME q <= Len(reader.disk) PROVE s = PlainAt(reader, p, n)
  <2>1. PlainAt(reader, p, n) \in Seq(Byte)
    BY <1>2, PlainAtIsSubSeq
  <2> QED BY <2>1, ReversedTwice DEF IntegerAt
<1>3. q <= Len(reader.disk) => s = PlainAt(reader, p, q - p)
  BY <1>1, <1>2
<1> HIDE DEF q, s
<1>4. Says(p, q, {}, s)
  BY <1>1, <1>3, SaysPlain
<1> QED BY <1>4 DEF q, s

LEMMA HashSays ==
    ASSUME reader \in ReaderType, NEW p \in Nat
    PROVE  Says(p, p + 32, {}, FromReversed(Hash32At(p)))
<1> DEFINE q == p + 32
           s == FromReversed(Hash32At(p))
<1>1. q \in Nat /\ p <= q /\ q - p = 32
  OBVIOUS
<1>2. ASSUME q <= Len(reader.disk) PROVE s = PlainAt(reader, p, 32)
  <2>1. PlainAt(reader, p, 32) \in Seq(Byte)
    BY <1>2, PlainAtIsSubSeq
  <2>2. /\ Reversed(PlainAt(reader, p, 32)) \in Seq(Byte)
        /\ Reversed(Reversed(PlainAt(reader, p, 32))) = PlainAt(reader, p, 32)
    BY <2>1, ReversedTwice
  <2>3. FromHex(Hash32At(p)) = Reversed(PlainAt(reader, p, 32))
    BY <2>2, HexRoundTrip DEF Hash32At
  <2> QED BY <2>2, <2>3 DEF FromReversed
<1>3. q <= Len(reader.disk) => s = PlainAt(reader, p, q - p)
  BY <1>1, <1>2
<1> HIDE DEF q, s
<1>4. Says(p, q, {}, s)
  BY <1>1, <1>3, SaysPlain
<1> QED BY <1>4 DEF q, s

LEMMA TimeSays ==
    ASSUME reader \in ReaderType, NEW p \in Nat
    PROVE  Says(p, p + 4, {}, FromTime(ToTime(IntegerAt(p, 4))))
<1> DEFINE q == p + 4
           s == FromTime(ToTime(IntegerAt(p, 4)))
<1>1. q \in Nat /\ p <= q /\ q - p = 4
  OBVIOUS
<1>2. ASSUME q <= Len(reader.disk) PROVE s = PlainAt(reader, p, 4)
  <2>1. PlainAt(reader, p, 4) \in Seq(Byte) /\ Len(PlainAt(reader, p, 4)) = 4
    BY <1>2, PlainAtIsSubSeq
  <2>2. /\ IntegerAt(p, 4) \in Seq(Byte) /\ Len(IntegerAt(p, 4)) = 4
        /\ Reversed(IntegerAt(p, 4)) = PlainAt(reader, p, 4)
    BY <2>1, ReversedTwice DEF IntegerAt
  <2> QED BY <2>2, TimeRoundTrip
<1>3. q <= Len(reader.disk) => s = PlainAt(reader, p, q - p)
  BY <1>1, <1>2
<1> HIDE DEF q, s
<1>4. Says(p, q, {}, s)
  BY <1>1, <1>3, SaysPlain
<1> QED BY <1>4 DEF q, s

LEMMA ItemSays ==
    ASSUME reader \in ReaderType, NEW e, e.from \in Nat, e.to \in Nat, e.from <= e.to
    PROVE  Says(e.from, e.to, {}, FromReversed(HashToHexString(WitnessData(e))))
<1> DEFINE p == e.from
           q == e.to
           s == FromReversed(HashToHexString(WitnessData(e)))
<1>1. p \in Nat /\ q \in Nat /\ p <= q /\ q - p \in Nat /\ p + (q - p) = q
  OBVIOUS
<1>2. ASSUME q <= Len(reader.disk) PROVE s = PlainAt(reader, p, q - p)
  <2>1. PlainAt(reader, p, q - p) \in Seq(Byte)
    BY <1>1, <1>2, PlainAtIsSubSeq
  <2>2. WitnessData(e) = Reversed(PlainAt(reader, p, q - p))
    BY DEF WitnessData
  <2>3. /\ WitnessData(e) \in Seq(Byte)
        /\ Reversed(WitnessData(e)) = PlainAt(reader, p, q - p)
    BY <2>1, <2>2, ReversedTwice
  <2>4. FromHex(HashToHexString(WitnessData(e))) = WitnessData(e)
    BY <2>3, HexRoundTrip
  <2> QED BY <2>3, <2>4 DEF FromReversed
<1> HIDE DEF p, q, s
<1>3. Says(p, q, {}, s)
  BY <1>1, <1>2, SaysPlain
<1> QED BY <1>3 DEF p, q, s

LEMMA TextSays ==
    ASSUME reader \in ReaderType, NEW e, e.from \in Nat, e.to \in Nat, e.from <= e.to
    PROVE  Says(e.from, e.to, {}, FromHex(TextOf(e)))
<1> DEFINE p == e.from
           q == e.to
           s == FromHex(TextOf(e))
<1>1. p \in Nat /\ q \in Nat /\ p <= q /\ q - p \in Nat /\ p + (q - p) = q
  OBVIOUS
<1>2. ASSUME q <= Len(reader.disk) PROVE s = PlainAt(reader, p, q - p)
  <2>1. PlainAt(reader, p, q - p) \in Seq(Byte)
    BY <1>1, <1>2, PlainAtIsSubSeq
  <2> QED BY <2>1, HexRoundTrip DEF TextOf
<1> HIDE DEF p, q, s
<1>3. Says(p, q, {}, s)
  BY <1>1, <1>2, SaysPlain
<1> QED BY <1>3 DEF p, q, s

(* A text with its length before it.                                       *)
LEMMA PayloadPlace ==
    ASSUME NEW e, NEW p \in Nat, PayloadAt(File, e, p)
    PROVE  /\ FirstAt(File, p) \in Byte /\ e.from = After(File, p)
           /\ e.from \in Nat /\ e.to \in Nat /\ e.from <= e.to
<1> DEFINE w == WidthAt(File, p)
           v == ValueAt(File, p)
<1>1. FirstAt(File, p) \in Byte /\ v \in Nat /\ e = Extent(p + w, v)
  BY DEF PayloadAt, CountIs, After
<1>2. w \in {1, 3, 5, 9}
  BY <1>1, CompactNat DEF WidthAt
<1> HIDE DEF w, v
<1>3. e.from = p + w /\ e.to = (p + w) + v
  BY <1>1 DEF Extent
<1>4. e.from = After(File, p)
  BY <1>3 DEF After, w
<1> QED BY <1>1, <1>2, <1>3, <1>4

(* An input, an output, a witness stack.                                   *)
LEMMA InputSays ==
    ASSUME reader \in ReaderType, NEW in \in TxInType, InputExact(File, in), NEW k
    PROVE  Says(in.from, in.to, {in.from + 36}, FromTxIn(TxInToJson(in, k)))
<1> DEFINE a == in.from
           b == in.from + 32
           c == in.from + 36
           d == in.script.from
           e == in.script.to
           f == in.to
           t1 == FromReversed(Hash32At(a))
           t2 == Reversed(IntegerAt(b, 4))
           t3 == FromHex(TextOf(in.script))
           t4 == Reversed(IntegerAt(f - 4, 4))
<1>1. a \in Nat /\ b \in Nat /\ c \in Nat /\ b = a + 32 /\ c = b + 4
  BY DEF TxInType
<1>2. PayloadAt(File, in.script, c) /\ f = e + 4
  BY DEF InputExact
<1>3. FromTxIn(TxInToJson(in, k)) = t1 \o t2 \o t3 \o t4
  BY DEF FromTxIn, TxInToJson
<1> HIDE DEF a, b, c, t1, t2, t3, t4
<1>4. /\ FirstAt(File, c) \in Byte /\ d = After(File, c)
      /\ d \in Nat /\ e \in Nat /\ d <= e
  BY <1>1, <1>2, PayloadPlace
<1>5. f - 4 = e
  BY <1>2, <1>4
<1>6. Says(a, b, {}, t1)
  BY <1>1, HashSays DEF t1
<1>7. Says(b, c, {}, t2)
  BY <1>1, IntegerSays DEF t2
<1>8. Says(d, e, {}, t3)
  BY <1>4, TextSays DEF t3
<1> HIDE DEF d, e, f
<1>9. Says(e, f, {}, t4)
  BY <1>2, <1>4, <1>5, IntegerSays DEF t4
<1>10. Says(a, c, {}, t1 \o t2)
  BY <1>6, <1>7, SaysOn
<1>11. Says(a, d, {} \cup {c}, t1 \o t2)
  BY <1>4, <1>10, SaysSkip
<1>12. Says(a, e, {} \cup {c}, t1 \o t2 \o t3)
  BY <1>8, <1>11, SaysOn
<1>13. Says(a, f, {} \cup {c}, t1 \o t2 \o t3 \o t4)
  BY <1>9, <1>12, SaysOn
<1>14. {} \cup {c} = {c}
  OBVIOUS
<1> QED BY <1>3, <1>13, <1>14 DEF a, c, f

LEMMA OutputSays ==
    ASSUME reader \in ReaderType, NEW out \in TxInType, OutputExact(File, out), NEW k
    PROVE  Says(out.from, out.to, {out.from + 8}, FromTxOut(TxOutToJson(out, k)))
<1> DEFINE a == out.from
           b == out.from + 8
           d == out.script.from
           e == out.script.to
           t1 == Reversed(IntegerAt(a, 8))
           t2 == FromHex(TextOf(out.script))
<1>1. a \in Nat /\ b \in Nat /\ b = a + 8
  BY DEF TxInType
<1>2. PayloadAt(File, out.script, b) /\ out.to = e
  BY DEF OutputExact
<1>3. FromTxOut(TxOutToJson(out, k)) = t1 \o t2
  BY DEF FromTxOut, TxOutToJson
<1> HIDE DEF a, b, t1, t2
<1>4. /\ FirstAt(File, b) \in Byte /\ d = After(File, b)
      /\ d \in Nat /\ e \in Nat /\ d <= e
  BY <1>1, <1>2, PayloadPlace
<1>5. Says(a, b, {}, t1)
  BY <1>1, IntegerSays DEF t1
<1>6. Says(d, e, {}, t2)
  BY <1>4, TextSays DEF t2
<1> HIDE DEF d, e
<1>7. Says(a, d, {} \cup {b}, t1)
  BY <1>4, <1>5, SaysSkip
<1>8. Says(a, e, {} \cup {b}, t1 \o t2)
  BY <1>6, <1>7, SaysOn
<1>9. {} \cup {b} = {b}
  OBVIOUS
<1> QED BY <1>2, <1>3, <1>8, <1>9 DEF a, b

(* What follows a count.                                                   *)
LEMMA SaysBehind ==
    ASSUME reader \in ReaderType, NEW p \in Nat, NEW r, NEW N, NEW t, FirstAt(File, p) \in Byte,
           Says(After(File, p), r, N, t)
    PROVE  Says(p, r, {p} \cup N, t)
<1> DEFINE q == After(File, p)
<1>1. Says(p, q, {p}, <<>>)
  BY SaysCount
<1>2. Says(p, r, {p} \cup N, <<>> \o t)
  BY <1>1, SaysThen
<1>3. q \in Nat /\ r \in Nat /\ q <= r /\ (r <= Len(reader.disk) => t = Kept(q, r, Covered(N)))
  BY DEF Says
<1> HIDE DEF q
<1>4. ASSUME r <= Len(reader.disk) PROVE <<>> \o t = t
  <2>1. t \in Seq(Byte)
    BY <1>3, <1>4, KeptBytes
  <2> QED BY <2>1, ConcatEmptySeq
<1> QED BY <1>2, <1>4 DEF Says

LEMMA WitnessSays ==
    ASSUME reader \in ReaderType, NEW w \in WitnessType, ItemsExact(File, w), NEW k
    PROVE  Says(w.from, w.to, StacksCounts(w), FromWitness(WitnessToJson(w, k)))
<1> DEFINE n == Len(w.items)
           p == w.from
           q == After(File, p)
           e == [i \in 0 .. n |-> IF i = 0 THEN q ELSE w.items[i].to]
           M == [i \in 1 .. n |-> {e[i - 1]}]
           s == [i \in 1 .. n |-> FromReversed(HashToHexString(WitnessData(w.items[i])))]
           U == UNION {M[i] : i \in 1 .. n}
<1>1. /\ p \in Nat /\ w.items \in Seq(ExtentType) /\ n \in Nat /\ w.to \in Nat
      /\ \A i \in 1 .. n : w.items[i].to \in Nat
  <2>1. p \in Nat /\ w.items \in Seq(ExtentType) /\ n \in Nat /\ w.to \in Nat
    BY DEF WitnessType
  <2>2. ASSUME NEW i \in 1 .. n PROVE w.items[i].to \in Nat
    <3>1. w.items[i] \in ExtentType
      BY <2>1, ElementOfSeq
    <3> QED BY <3>1 DEF ExtentType
  <2> QED BY <2>1, <2>2
<1>2. FirstAt(File, p) \in Byte /\ w.to = EndOf(w.items, q)
  BY DEF ItemsExact, CountIs
<1>3. q \in Nat /\ q = p + CompactWidth(p)
  <2>1. Says(p, q, {p}, <<>>)
    BY <1>1, <1>2, SaysCount
  <2>2. q = p + CompactWidth(p)
    BY <1>2, CountsOfFile
  <2> QED BY <2>1, <2>2 DEF Says
<1>4. \A i \in 1 .. n : PayloadAt(File, w.items[i], IF i = 1 THEN q ELSE w.items[i - 1].to)
  BY DEF ItemsExact, ItemsFrom
<1> HIDE DEF q
<1>5. ASSUME NEW i \in 1 .. n
      PROVE  /\ e[i] = w.items[i].to /\ e[i - 1] = (IF i = 1 THEN q ELSE w.items[i - 1].to)
             /\ e[i - 1] \in Nat /\ M[i] = {e[i - 1]}
             /\ s[i] = FromReversed(HashToHexString(WitnessData(w.items[i])))
  <2>1. i - 1 \in 0 .. n /\ i \in 0 .. n /\ i # 0 /\ (i # 1 => i - 1 \in 1 .. n)
    BY <1>1
  <2> QED BY <1>1, <1>3, <2>1
<1>6. e[0] = q
  BY <1>1
<1>7. IsList(n, s)
  BY <1>1 DEF IsList
<1>8. e[n] = w.to
  <2>1. CASE n = 0
    <3>1. w.items = <<>>
      BY <1>1, <2>1
    <3> QED BY <1>2, <1>6, <2>1, <3>1 DEF EndOf
  <2>2. CASE n # 0
    <3>1. w.items # <<>> /\ n \in 1 .. n
      BY <1>1, <2>2
    <3> QED BY <1>2, <1>5, <3>1 DEF EndOf
  <2> QED BY <2>1, <2>2
<1>9. FromWitness(WitnessToJson(w, k)) = FlattenSeq(s)
  <2> DEFINE d == WitnessToJson(w, k)
  <2>1. d.items = [i \in 1 .. n |-> HashToHexString(WitnessData(w.items[i]))]
    BY DEF WitnessToJson
  <2> HIDE DEF d
  <2>2. Len(d.items) = n
    BY <1>1, <2>1
  <2>3. [i \in 1 .. Len(d.items) |-> FromReversed(d.items[i])] = s
    BY <2>1, <2>2
  <2> QED BY <2>3 DEF FromWitness, d
<1>10. {p} \cup U = StacksCounts(w)
  <2>1. StacksCounts(w) = {p} \cup {IF i = 1 THEN q ELSE w.items[i - 1].to : i \in 1 .. n}
    BY <1>3 DEF StacksCounts
  <2>2. \A i \in 1 .. n : M[i] = {IF i = 1 THEN q ELSE w.items[i - 1].to}
    BY <1>5
  <2> HIDE DEF e, M
  <2>3. U = {IF i = 1 THEN q ELSE w.items[i - 1].to : i \in 1 .. n}
    BY <2>2
  <2> QED BY <2>1, <2>3
<1> HIDE DEF e, M, s
<1>11. ASSUME NEW i \in 1 .. n PROVE Says(e[i - 1], e[i], M[i], s[i])
  <2> DEFINE a == e[i - 1]
             x == w.items[i]
  <2>1. a \in Nat /\ PayloadAt(File, x, a)
    BY <1>4, <1>5
  <2> HIDE DEF a, x
  <2>2. /\ FirstAt(File, a) \in Byte /\ x.from = After(File, a)
        /\ x.from \in Nat /\ x.to \in Nat /\ x.from <= x.to
    BY <2>1, PayloadPlace
  <2>3. Says(x.from, x.to, {}, FromReversed(HashToHexString(WitnessData(x))))
    BY <2>2, ItemSays
  <2>4. Says(a, x.to, {a} \cup {}, FromReversed(HashToHexString(WitnessData(x))))
    BY <2>1, <2>2, <2>3, SaysBehind
  <2>5. {a} \cup {} = {a}
    OBVIOUS
  <2>6. a = e[i - 1] /\ x.to = e[i] /\ M[i] = {a}
        /\ s[i] = FromReversed(HashToHexString(WitnessData(x)))
    BY <1>5 DEF a, x
  <2> QED BY <2>4, <2>5, <2>6, Zenon
<1>12. e[0] \in Nat
  BY <1>3, <1>6
<1>13. Says(e[0], e[n], U, FlattenSeq(s))
  BY <1>1, <1>7, <1>11, <1>12, SaysList
<1> HIDE DEF U
<1>14. Says(q, w.to, U, FlattenSeq(s))
  BY <1>6, <1>8, <1>13
<1>15. Says(p, w.to, {p} \cup U, FlattenSeq(s))
  BY <1>1, <1>2, <1>14, SaysBehind DEF q
<1> QED BY <1>9, <1>10, <1>15 DEF p

(* Records that follow one another, and the list of what is said of each.  *)
LEMMA SaysChain ==
    ASSUME reader \in ReaderType, NEW segs, NEW p \in Nat, NEW n \in Nat, Len(segs) = n,
           segs = <<>> <=> n = 0, Chained(segs, p), NEW M, NEW s, IsList(n, s),
           \A i \in 1 .. n : Says(segs[i].from, segs[i].to, M[i], s[i])
    PROVE  Says(p, EndOf(segs, p), UNION {M[i] : i \in 1 .. n}, FlattenSeq(s))
<1> DEFINE e == [i \in 0 .. n |-> IF i = 0 THEN p ELSE segs[i].to]
<1>1. e[0] = p /\ e[0] \in Nat
  OBVIOUS
<1>2. e[n] = EndOf(segs, p)
  <2>1. CASE n = 0
    BY <1>1, <2>1 DEF EndOf
  <2>2. CASE n # 0
    BY <2>2 DEF EndOf
  <2> QED BY <2>1, <2>2
<1>3. \A i \in 1 .. n : segs[i].from = IF i = 1 THEN p ELSE segs[i - 1].to
  BY DEF Chained, Tiles
<1>4. \A i \in 1 .. n : e[i - 1] = segs[i].from /\ e[i] = segs[i].to
  <2> SUFFICES ASSUME NEW i \in 1 .. n PROVE e[i - 1] = segs[i].from /\ e[i] = segs[i].to
    OBVIOUS
  <2>1. i - 1 \in 0 .. n /\ i \in 0 .. n /\ i # 0 /\ (i - 1 = 0 <=> i = 1)
    OBVIOUS
  <2> QED BY <1>3, <2>1
<1> HIDE DEF e
<1>5. \A i \in 1 .. n : Says(e[i - 1], e[i], M[i], s[i])
  BY <1>4
<1>6. Says(e[0], e[n], UNION {M[i] : i \in 1 .. n}, FlattenSeq(s))
  BY <1>1, <1>5, SaysList, Zenon
<1> QED BY <1>1, <1>2, <1>6

(* The lists of a transaction.                                             *)
LEMMA InputsSay ==
    ASSUME reader \in ReaderType, NEW ins \in Seq(TxInType), NEW p \in Nat, Chained(ins, p),
           \A i \in 1 .. Len(ins) : InputExact(File, ins[i])
    PROVE  Says(p, EndOf(ins, p), {ins[i].from + 36 : i \in 1 .. Len(ins)},
                FlattenSeq([i \in 1 .. Len(ins) |-> FromTxIn(AllTxInToJson(ins)[i])]))
<1> DEFINE n == Len(ins)
           M == [i \in 1 .. n |-> {ins[i].from + 36}]
           s == [i \in 1 .. n |-> FromTxIn(AllTxInToJson(ins)[i])]
<1>1. n \in Nat /\ (ins = <<>> <=> n = 0) /\ \A i \in 1 .. n : ins[i] \in TxInType
  BY ElementOfSeq
<1>2. IsList(n, s)
  BY <1>1 DEF IsList
<1>3. \A i \in 1 .. n : s[i] = FromTxIn(TxInToJson(ins[i], i)) /\ M[i] = {ins[i].from + 36}
  BY DEF AllTxInToJson
<1> HIDE DEF M, s, n
<1>4. \A i \in 1 .. n : Says(ins[i].from, ins[i].to, M[i], s[i])
  <2> SUFFICES ASSUME NEW i \in 1 .. n PROVE Says(ins[i].from, ins[i].to, M[i], s[i])
    OBVIOUS
  <2>1. ins[i] \in TxInType /\ InputExact(File, ins[i])
    BY <1>1 DEF n
  <2>2. Says(ins[i].from, ins[i].to, {ins[i].from + 36}, FromTxIn(TxInToJson(ins[i], i)))
    BY <2>1, InputSays
  <2> QED BY <1>3, <2>2
<1>5. Says(p, EndOf(ins, p), UNION {M[i] : i \in 1 .. n}, FlattenSeq(s))
  BY <1>1, <1>2, <1>4, SaysChain DEF n
<1>6. UNION {M[i] : i \in 1 .. n} = {ins[i].from + 36 : i \in 1 .. n}
  BY <1>3
<1> QED BY <1>5, <1>6 DEF s, n

LEMMA OutputsSay ==
    ASSUME reader \in ReaderType, NEW outs \in Seq(TxInType), NEW p \in Nat, Chained(outs, p),
           \A i \in 1 .. Len(outs) : OutputExact(File, outs[i])
    PROVE  Says(p, EndOf(outs, p), {outs[i].from + 8 : i \in 1 .. Len(outs)},
                FlattenSeq([i \in 1 .. Len(outs) |-> FromTxOut(AllTxOutToJson(outs)[i])]))
<1> DEFINE n == Len(outs)
           M == [i \in 1 .. n |-> {outs[i].from + 8}]
           s == [i \in 1 .. n |-> FromTxOut(AllTxOutToJson(outs)[i])]
<1>1. n \in Nat /\ (outs = <<>> <=> n = 0) /\ \A i \in 1 .. n : outs[i] \in TxInType
  BY ElementOfSeq
<1>2. IsList(n, s)
  BY <1>1 DEF IsList
<1>3. \A i \in 1 .. n : s[i] = FromTxOut(TxOutToJson(outs[i], i)) /\ M[i] = {outs[i].from + 8}
  BY DEF AllTxOutToJson
<1> HIDE DEF M, s, n
<1>4. \A i \in 1 .. n : Says(outs[i].from, outs[i].to, M[i], s[i])
  <2> SUFFICES ASSUME NEW i \in 1 .. n PROVE Says(outs[i].from, outs[i].to, M[i], s[i])
    OBVIOUS
  <2>1. outs[i] \in TxInType /\ OutputExact(File, outs[i])
    BY <1>1 DEF n
  <2>2. Says(outs[i].from, outs[i].to, {outs[i].from + 8}, FromTxOut(TxOutToJson(outs[i], i)))
    BY <2>1, OutputSays
  <2> QED BY <1>3, <2>2
<1>5. Says(p, EndOf(outs, p), UNION {M[i] : i \in 1 .. n}, FlattenSeq(s))
  BY <1>1, <1>2, <1>4, SaysChain DEF n
<1>6. UNION {M[i] : i \in 1 .. n} = {outs[i].from + 8 : i \in 1 .. n}
  BY <1>3
<1> QED BY <1>5, <1>6 DEF s, n

LEMMA StacksSay ==
    ASSUME reader \in ReaderType, NEW ws \in Seq(WitnessType), NEW p \in Nat, Chained(ws, p),
           \A i \in 1 .. Len(ws) : ItemsExact(File, ws[i])
    PROVE  Says(p, EndOf(ws, p), UNION {StacksCounts(ws[i]) : i \in 1 .. Len(ws)},
                FlattenSeq([i \in 1 .. Len(ws) |-> FromWitness(AllWitnessToJson(ws)[i])]))
<1> DEFINE n == Len(ws)
           M == [i \in 1 .. n |-> StacksCounts(ws[i])]
           s == [i \in 1 .. n |-> FromWitness(AllWitnessToJson(ws)[i])]
<1>1. n \in Nat /\ (ws = <<>> <=> n = 0) /\ \A i \in 1 .. n : ws[i] \in WitnessType
  BY ElementOfSeq
<1>2. IsList(n, s)
  BY <1>1 DEF IsList
<1>3. \A i \in 1 .. n : s[i] = FromWitness(WitnessToJson(ws[i], i)) /\ M[i] = StacksCounts(ws[i])
  BY DEF AllWitnessToJson
<1> HIDE DEF M, s, n
<1>4. \A i \in 1 .. n : Says(ws[i].from, ws[i].to, M[i], s[i])
  BY <1>1, <1>3, WitnessSays DEF n
<1>5. Says(p, EndOf(ws, p), UNION {M[i] : i \in 1 .. n}, FlattenSeq(s))
  BY <1>1, <1>2, <1>4, SaysChain DEF n
<1>6. {M[i] : i \in 1 .. n} = {StacksCounts(ws[i]) : i \in 1 .. n}
  BY <1>3
<1> QED BY <1>5, <1>6 DEF s, n

(* A part of the file without a byte.                                      *)
LEMMA SaysNothing ==
    ASSUME NEW p \in Nat
    PROVE  Says(p, p, {}, <<>>)
<1>1. Covered({}) = {}
  BY DEF Covered
<1> QED BY <1>1, KeptNone DEF Says

(* A transaction.                                                          *)
LEMMA FlagSays ==
    ASSUME reader \in ReaderType, NEW t \in TxType, FlagRead(File, t)
    PROVE  /\ t.from + 4 \in Nat /\ InputsFrom(t) \in Nat
           /\ Says(t.from + 4, InputsFrom(t), {}, IF t.segwit THEN SegwitFlag ELSE <<>>)
<1> DEFINE p == t.from + 4
<1>1. p \in Nat /\ t.segwit \in BOOLEAN
  BY DEF TxType
<1>2. CASE t.segwit
  <2>1. PlainAt(reader, p, 2) = SegwitFlag
    <3>1. \A n : PlainAt(File, p, n) = PlainAt(reader, p, n)
      BY ReadAtFile DEF File
    <3>2. PlainAt(File, p, 2) = SegwitFlag
      BY <1>2 DEF FlagRead
    <3> QED BY <3>1, <3>2
  <2>2. InputsFrom(t) = p + 2
    <3>1. InputsFrom(t) = t.from + 6 /\ t.from \in Nat
      BY <1>2 DEF InputsFrom, TxType
    <3> QED BY <3>1
  <2> HIDE DEF p
  <2> DEFINE q == p + 2
  <2>3. q \in Nat /\ p <= q /\ q - p = 2
    BY <1>1
  <2>4. SegwitFlag = PlainAt(reader, p, q - p)
    BY <2>1, <2>3
  <2> HIDE DEF q
  <2>5. Says(p, q, {}, SegwitFlag)
    BY <1>1, <2>3, <2>4, SaysPlain
  <2> QED BY <1>1, <1>2, <2>2, <2>3, <2>5 DEF q, p
<1>3. CASE ~ t.segwit
  <2>1. InputsFrom(t) = p
    BY <1>3 DEF InputsFrom
  <2> QED BY <1>1, <1>3, <2>1, SaysNothing
<1> QED BY <1>2, <1>3

LEMMA TransactionSays ==
    ASSUME reader \in ReaderType, NEW t \in TxType, TxDone(File, t), NEW j
    PROVE  Says(t.from, t.to, TransactionsCounts(t), FromTransaction(TransactionToJson(t, j)))
<1> DEFINE a == t.from
           b == t.from + 4
           c == InputsFrom(t)
           d == After(File, c)
           e == EndOf(t.vin, d)
           f == After(File, e)
           g == EndOf(t.vout, f)
           h == EndOf(t.witnesses, g)
           z == t.to
           M1 == {t.vin[i].from + 36 : i \in 1 .. Len(t.vin)}
           M2 == {t.vout[i].from + 8 : i \in 1 .. Len(t.vout)}
           M3 == UNION {StacksCounts(t.witnesses[i]) : i \in 1 .. Len(t.witnesses)}
           s1 == Reversed(IntegerAt(a, 4))
           s2 == IF t.segwit THEN SegwitFlag ELSE <<>>
           s3 == FlattenSeq([i \in 1 .. Len(t.vin) |-> FromTxIn(AllTxInToJson(t.vin)[i])])
           s4 == FlattenSeq([i \in 1 .. Len(t.vout) |-> FromTxOut(AllTxOutToJson(t.vout)[i])])
           s5 == IF t.segwit
                 THEN FlattenSeq([i \in 1 .. Len(t.vin) |->
                          FromWitness(AllWitnessToJson(t.witnesses)[i])])
                 ELSE <<>>
           s6 == Reversed(IntegerAt(z - 4, 4))
<1>1. /\ a \in Nat /\ b = a + 4 /\ t.segwit \in BOOLEAN
      /\ t.vin \in Seq(TxInType) /\ t.vout \in Seq(TxInType) /\ t.witnesses \in Seq(WitnessType)
  BY DEF TxType
<1>2. /\ FlagRead(File, t)
      /\ FirstAt(File, c) \in Byte /\ FirstAt(File, e) \in Byte
      /\ Chained(t.vin, d) /\ Chained(t.vout, f) /\ Chained(t.witnesses, g)
      /\ \A i \in 1 .. Len(t.vin) : InputExact(File, t.vin[i])
      /\ \A i \in 1 .. Len(t.vout) : OutputExact(File, t.vout[i])
      /\ \A i \in 1 .. Len(t.witnesses) : ItemsExact(File, t.witnesses[i])
      /\ Len(t.witnesses) = (IF t.segwit THEN Len(t.vin) ELSE 0)
      /\ z = h + 4
  BY Zenon DEF TxDone, AllRead, StacksRead, OutputsRead, InputsRead, CountIs,
               InputsEnd, OutputsEnd, StacksEnd
<1>3. OutputsFrom(t) = e
  BY PartsOfTransaction, Zenon DEF TxDone, InputsEnd
<1>4. FromTransaction(TransactionToJson(t, j)) = s1 \o s2 \o s3 \o s4 \o s5 \o s6
  <2> DEFINE u == TransactionToJson(t, j)
  <2>1. /\ u.version = IntegerAt(a, 4) /\ u.segwit = t.segwit
        /\ u.inputCount = Len(t.vin) /\ u.outputCount = Len(t.vout)
        /\ u.lockTime = IntegerAt(z - 4, 4)
        /\ u.txIn = AllTxInToJson(t.vin) /\ u.txOut = AllTxOutToJson(t.vout)
        /\ t.segwit => u.witness = AllWitnessToJson(t.witnesses)
    BY <1>1, TransactionKeys
  <2> HIDE DEF u
  <2>2. CASE t.segwit
    <3>1. u.witness = AllWitnessToJson(t.witnesses)
      BY <2>1, <2>2
    <3> QED BY <2>1, <2>2, <3>1, Zenon DEF FromTransaction, u
  <2>3. CASE ~ t.segwit
    BY <2>1, <2>3, Zenon DEF FromTransaction, u
  <2> QED BY <2>2, <2>3
<1>5. TransactionsCounts(t) = ((({} \cup {c}) \cup M1) \cup {e} \cup M2) \cup M3
  BY <1>3 DEF TransactionsCounts
<1> HIDE DEF a, b, c, e, f, g, h, z, s1, s2, s3, s4, s5, s6, M1, M2, M3
<1>6. Says(a, b, {}, s1)
  BY <1>1, IntegerSays DEF s1
<1>7. Says(b, c, {}, s2)
  BY <1>2, FlagSays DEF b, c, s2
<1>8. Says(a, c, {}, s1 \o s2)
  BY <1>6, <1>7, SaysOn
<1>9. Says(a, d, {} \cup {c}, s1 \o s2)
  BY <1>2, <1>8, SaysSkip
<1> HIDE DEF d
<1>10. d \in Nat
  BY <1>9 DEF Says
<1>11. Says(d, e, M1, s3)
  BY <1>1, <1>2, <1>10, InputsSay DEF e, M1, s3
<1>12. Says(a, e, ({} \cup {c}) \cup M1, s1 \o s2 \o s3)
  BY <1>9, <1>11, SaysThen
<1>13. Says(a, f, ({} \cup {c}) \cup M1 \cup {e}, s1 \o s2 \o s3)
  BY <1>2, <1>12, SaysSkip DEF f
<1>14. f \in Nat
  BY <1>13 DEF Says
<1>15. Says(f, g, M2, s4)
  BY <1>1, <1>2, <1>14, OutputsSay DEF g, M2, s4
<1>16. Says(a, g, ({} \cup {c}) \cup M1 \cup {e} \cup M2, s1 \o s2 \o s3 \o s4)
  BY <1>13, <1>15, SaysThen
<1>17. g \in Nat
  BY <1>16 DEF Says
<1>18. Says(g, h, M3, s5)
  <2>1. CASE t.segwit
    <3>1. Says(g, h, M3, FlattenSeq([i \in 1 .. Len(t.witnesses) |->
                             FromWitness(AllWitnessToJson(t.witnesses)[i])]))
      BY <1>1, <1>2, <1>17, StacksSay DEF h, M3
    <3> QED BY <1>2, <2>1, <3>1 DEF s5
  <2>2. CASE ~ t.segwit
    <3>1. Len(t.witnesses) = 0 /\ t.witnesses = <<>>
      BY <1>1, <1>2, <2>2
    <3>2. h = g /\ M3 = {} /\ s5 = <<>>
      BY <2>2, <3>1 DEF h, M3, s5, EndOf
    <3> QED BY <1>17, <3>2, SaysNothing
  <2> QED BY <2>1, <2>2
<1>19. Says(a, h, ({} \cup {c}) \cup M1 \cup {e} \cup M2 \cup M3, s1 \o s2 \o s3 \o s4 \o s5)
  BY <1>16, <1>18, SaysThen
<1>20. h \in Nat /\ z - 4 = h
  <2>1. h \in Nat
    BY <1>19 DEF Says
  <2> QED BY <1>2, <2>1
<1>21. Says(h, z, {}, s6)
  BY <1>2, <1>20, IntegerSays DEF s6
<1>22. Says(a, z, ({} \cup {c}) \cup M1 \cup {e} \cup M2 \cup M3,
            s1 \o s2 \o s3 \o s4 \o s5 \o s6)
  BY <1>19, <1>21, SaysOn
<1> QED BY <1>4, <1>5, <1>22 DEF a, z

(* A header.                                                               *)
LEMMA HeaderSays ==
    ASSUME reader \in ReaderType, NEW p \in Nat, NEW h, h.from = p
    PROVE  Says(p, p + 80, {}, FromHeader(BlockHeaderToJson(h)))
<1> DEFINE a == p + 4
           b == p + 36
           c == p + 68
           d == p + 72
           e == p + 76
           f == p + 80
           s1 == Reversed(IntegerAt(p, 4))
           s2 == FromReversed(Hash32At(a))
           s3 == FromReversed(Hash32At(b))
           s4 == FromTime(ToTime(IntegerAt(c, 4)))
           s5 == Reversed(IntegerAt(d, 4))
           s6 == Reversed(IntegerAt(e, 4))
<1>1. /\ a \in Nat /\ b \in Nat /\ c \in Nat /\ d \in Nat /\ e \in Nat
      /\ a = p + 4 /\ b = a + 32 /\ c = b + 32 /\ d = c + 4 /\ e = d + 4 /\ f = e + 4
  OBVIOUS
<1>2. FromHeader(BlockHeaderToJson(h)) = s1 \o s2 \o s3 \o s4 \o s5 \o s6
  BY DEF FromHeader, BlockHeaderToJson
<1> HIDE DEF a, b, c, d, e, f, s1, s2, s3, s4, s5, s6
<1>3. Says(p, a, {}, s1) /\ Says(d, e, {}, s5) /\ Says(e, f, {}, s6)
  BY <1>1, IntegerSays DEF s1, s5, s6
<1>4. Says(a, b, {}, s2) /\ Says(b, c, {}, s3)
  BY <1>1, HashSays DEF s2, s3
<1>5. Says(c, d, {}, s4)
  BY <1>1, TimeSays DEF s4
<1>6. Says(p, b, {}, s1 \o s2)
  BY <1>3, <1>4, SaysOn
<1>7. Says(p, c, {}, s1 \o s2 \o s3)
  BY <1>4, <1>6, SaysOn
<1>8. Says(p, d, {}, s1 \o s2 \o s3 \o s4)
  BY <1>5, <1>7, SaysOn
<1>9. Says(p, e, {}, s1 \o s2 \o s3 \o s4 \o s5)
  BY <1>3, <1>8, SaysOn
<1>10. Says(p, f, {}, s1 \o s2 \o s3 \o s4 \o s5 \o s6)
  BY <1>3, <1>9, SaysOn
<1> QED BY <1>2, <1>10 DEF f

(* A block behind its magic number and size.                               *)
LEMMA BlockSays ==
    ASSUME reader \in ReaderType, NEW b \in BlockType, BlockDone(File, b)
    PROVE  /\ Says(b.from + 8, b.to, Counts(b), FromBlock(BlockToJson(b)))
           /\ b.from + 88 <= b.to
<1> DEFINE p == b.from + 8
           q == b.from + 88
           r == After(File, q)
           n == Len(b.txs)
           M == [i \in 1 .. n |-> TransactionsCounts(b.txs[i])]
           s == [i \in 1 .. n |-> FromTransaction(TransactionToJson(b.txs[i], i))]
           U == UNION {TransactionsCounts(b.txs[i]) : i \in 1 .. Len(b.txs)}
           h == FromHeader(BlockHeaderToJson(b.header))
<1>1. /\ p \in Nat /\ q = p + 80 /\ b.txs \in Seq(TxType) /\ n \in Nat
      /\ (b.txs = <<>> <=> n = 0) /\ \A i \in 1 .. n : b.txs[i] \in TxType
  <2>1. b.from \in Nat /\ b.txs \in Seq(TxType)
    BY DEF BlockType
  <2> QED BY <2>1, ElementOfSeq
<1>2. /\ b.header = Extent(p, HeaderSize)
      /\ FirstAt(File, q) \in Byte
      /\ Chained(b.txs, r)
      /\ \A i \in 1 .. n : TxDone(File, b.txs[i])
      /\ b.to = EndOf(b.txs, r)
  BY DEF BlockDone, TxsRead, HeaderRead, CountIs, TxsFrom, TxsEnd
<1>3. b.header.from = p
  BY <1>2 DEF Extent
<1>4. FromBlock(BlockToJson(b)) = h \o FlattenSeq(s)
  <2> DEFINE d == BlockToJson(b)
  <2>1. /\ d.blockHeader = BlockHeaderToJson(b.header) /\ d.transactionsTotalNumber = n
        /\ d.transactions = AllTransactionsToJson(b.txs)
    BY DEF BlockToJson
  <2>2. \A i \in 1 .. n : AllTransactionsToJson(b.txs)[i] = TransactionToJson(b.txs[i], i)
    BY DEF AllTransactionsToJson
  <2> HIDE DEF d, n
  <2>3. [i \in 1 .. n |-> FromTransaction(d.transactions[i])] = s
    BY <2>1, <2>2
  <2> HIDE DEF s
  <2> QED BY <2>1, <2>3, Zenon DEF FromBlock, d
<1>5. Counts(b) = ({} \cup {q}) \cup U
  BY DEF Counts
<1>6. \A i \in 1 .. n : M[i] = TransactionsCounts(b.txs[i]) /\ s[i] = FromTransaction(TransactionToJson(b.txs[i], i))
  OBVIOUS
<1>7. IsList(n, s)
  BY <1>1 DEF IsList
<1> HIDE DEF p, q, n, M, s, h, U
<1>8. Says(p, q, {}, h)
  BY <1>1, <1>3, HeaderSays DEF h
<1>9. Says(p, r, {} \cup {q}, h)
  BY <1>2, <1>8, SaysSkip
<1>10. r \in Nat /\ q \in Nat /\ q <= r
  <2>1. q \in Nat
    BY <1>8 DEF Says
  <2>2. Says(q, r, {q}, <<>>)
    BY <1>2, <2>1, SaysCount
  <2> QED BY <2>2 DEF Says
<1> HIDE DEF r
<1>11. \A i \in 1 .. n : Says(b.txs[i].from, b.txs[i].to, M[i], s[i])
  <2> SUFFICES ASSUME NEW i \in 1 .. n PROVE Says(b.txs[i].from, b.txs[i].to, M[i], s[i])
    OBVIOUS
  <2> DEFINE t == b.txs[i]
  <2>1. t \in TxType /\ TxDone(File, t)
    BY <1>1, <1>2
  <2> HIDE DEF t
  <2>2. Says(t.from, t.to, TransactionsCounts(t), FromTransaction(TransactionToJson(t, i)))
    BY <2>1, TransactionSays
  <2> QED BY <1>6, <2>2 DEF t
<1>12. Says(r, b.to, UNION {M[i] : i \in 1 .. n}, FlattenSeq(s))
  <2> DEFINE txs == b.txs
  <2>1. /\ Len(txs) = n /\ (txs = <<>> <=> n = 0) /\ Chained(txs, r) /\ b.to = EndOf(txs, r)
        /\ \A i \in 1 .. n : Says(txs[i].from, txs[i].to, M[i], s[i])
    BY <1>1, <1>2, <1>11 DEF n
  <2> HIDE DEF txs
  <2>2. Says(r, EndOf(txs, r), UNION {M[i] : i \in 1 .. n}, FlattenSeq(s))
    BY <1>1, <1>7, <1>10, <2>1, SaysChain
  <2> QED BY <2>1, <2>2
<1>13. UNION {M[i] : i \in 1 .. n} = U
  BY <1>6 DEF U, n
<1>14. Says(p, b.to, ({} \cup {q}) \cup U, h \o FlattenSeq(s))
  BY <1>9, <1>12, <1>13, SaysThen
<1>15. q <= b.to
  BY <1>10, <1>12 DEF Says
<1> QED BY <1>4, <1>5, <1>14, <1>15 DEF p, q

(* The blocks of a file that parsed lie in it.                             *)
LEMMA BlocksInFile ==
    ASSUME IInv, outcome = "done", NEW i \in 1 .. Len(blocks)
    PROVE  /\ blocks[i] \in BlockType
           /\ blocks[i].to = blocks[i].from + 8 + blocks[i].size
           /\ blocks[i].to <= Len(reader.disk)
<1> DEFINE n == Len(blocks)
           S == {k \in Nat : i + k <= n => blocks[i].to <= blocks[i + k].to}
<1>1. n \in Nat /\ i \in 1 .. n /\ \A j \in 1 .. n : blocks[j] \in BlockType
  BY ElementOfSeq DEF IInv, TypeOK
<1>2. /\ \A j \in 1 .. n : blocks[j].from = (IF j = 1 THEN 0 ELSE blocks[j - 1].to)
      /\ reader.mpos = (IF blocks = <<>> THEN 0 ELSE blocks[n].to)
      /\ reader.mpos = Len(reader.disk)
      /\ \A j \in 1 .. n : blocks[j].to = blocks[j].from + 8 + blocks[j].size
  BY DEF IInv, BlocksTile, Tiles
<1>3. \A j \in 1 .. n : blocks[j].from \in Nat /\ blocks[j].size \in Nat /\ blocks[j].to \in Nat
  BY <1>1 DEF BlockType
<1>4. blocks[n].to = Len(reader.disk)
  <2>1. blocks # <<>>
    BY <1>1
  <2> QED BY <1>2, <2>1
<1> HIDE DEF n
<1>5. \A k \in Nat : k \in S
  <2>1. 0 \in S
    BY <1>1, <1>3
  <2>2. ASSUME NEW k \in Nat, k \in S PROVE k + 1 \in S
    <3> SUFFICES ASSUME i + (k + 1) <= n PROVE blocks[i].to <= blocks[i + (k + 1)].to
      OBVIOUS
    <3> DEFINE m == i + (k + 1)
    <3>1. m \in 1 .. n /\ m # 1 /\ m - 1 \in 1 .. n /\ i + k = m - 1 /\ i + k <= n
      BY <1>1
    <3>2. blocks[i].to <= blocks[i + k].to
      BY <2>2, <3>1
    <3> HIDE DEF m
    <3>3. blocks[m].from = blocks[m - 1].to /\ blocks[m].to = blocks[m].from + 8 + blocks[m].size
      BY <1>2, <3>1
    <3>4. blocks[i].to <= blocks[m].to
      <4> DEFINE w == blocks[i].to
                 x == blocks[m - 1].to
                 y == blocks[m].to
                 z == blocks[m].size
      <4>1. w \in Nat /\ x \in Nat /\ y \in Nat /\ z \in Nat
        BY <1>1, <1>3, <3>1
      <4>2. w <= x
        BY <3>1, <3>2
      <4>3. y = x + 8 + z
        BY <3>3
      <4> HIDE DEF w, x, y, z
      <4>4. w <= y
        BY <4>1, <4>2, <4>3
      <4> QED BY <4>4 DEF w, y
    <3> QED BY <3>4 DEF m
  <2> HIDE DEF S
  <2> QED BY <2>1, <2>2, AllNaturals
<1>6. n - i \in Nat /\ i + (n - i) = n /\ i + (n - i) <= n
  BY <1>1
<1>7. blocks[i].to <= blocks[n].to
  BY <1>5, <1>6
<1> QED BY <1>1, <1>2, <1>4, <1>7 DEF n

LEMMA DocumentsHold ==
    ASSUME IInv, Layout
    PROVE  DocumentsComplete
<1> SUFFICES ASSUME outcome = "done", NEW i \in 1 .. Len(blocks)
             PROVE  LET b == blocks[i]
                        d == BlockToJson(b)
                    IN  /\ FromBlock(d) = Payload(b)
                        /\ d.blockHash = FromHeader(d.blockHeader)
                        /\ \A j \in 1 .. d.transactionsTotalNumber :
                              /\ d.transactions[j].transactionNumber = j
                              /\ ~ d.transactions[j].segwit =>
                                    d.transactions[j].transactionHash
                                        = PlainAt(reader, b.txs[j].from, b.txs[j].to - b.txs[j].from)
  BY DEF DocumentsComplete
<1> DEFINE b == blocks[i]
           d == BlockToJson(b)
           p == b.from + 8
<1>1. /\ reader \in ReaderType /\ b \in BlockType /\ BlockDone(File, b)
      /\ b.to = p + b.size /\ b.to <= Len(reader.disk)
  <2>1. reader \in ReaderType /\ BlockDone(File, b)
    BY DEF IInv, TypeOK, Layout
  <2>2. b \in BlockType /\ b.to = b.from + 8 + b.size /\ b.to <= Len(reader.disk)
    BY BlocksInFile
  <2> QED BY <2>1, <2>2
<1>2. ASSUME NEW j \in 1 .. Len(b.txs) PROVE b.txs[j] \in TxType /\ TxDone(File, b.txs[j])
  BY ReturnedTransaction
<1>3. /\ d.blockHash = PlainAt(reader, b.hashed.from, b.hashed.to - b.hashed.from)
      /\ d.blockHeader = BlockHeaderToJson(b.header)
      /\ d.transactionsTotalNumber = Len(b.txs)
      /\ d.transactions = AllTransactionsToJson(b.txs)
  BY DEF BlockToJson
<1>4. p \in Nat /\ b.header = Extent(p, HeaderSize) /\ b.hashed = b.header
  BY <1>1 DEF BlockType, BlockDone, TxsRead, HeaderRead
<1>5. Says(p, b.to, Counts(b), FromBlock(d)) /\ b.from + 88 <= b.to /\ b.from \in Nat
  BY <1>1, BlockSays DEF BlockType
<1> HIDE DEF b, d, p
<1>6. FromBlock(d) = Payload(b)
  <2>1. FromBlock(d) = Kept(p, b.to, Covered(Counts(b)))
    BY <1>1, <1>5 DEF Says
  <2> QED BY <1>1, <2>1 DEF Payload, p
<1>7. d.blockHash = FromHeader(d.blockHeader)
  <2> DEFINE q == p + 80
             s == FromHeader(d.blockHeader)
  <2>1. b.header.from = p /\ b.hashed.from = p /\ b.hashed.to - b.hashed.from = 80
    BY <1>4 DEF Extent, HeaderSize
  <2>2. q \in Nat /\ p <= q /\ q - p = 80
    BY <1>4
  <2>3. Says(p, q, {}, s)
    BY <1>1, <1>3, <1>4, <2>1, HeaderSays
  <2> HIDE DEF q, s
  <2>4. q <= Len(reader.disk)
    <3>1. q = b.from + 88 /\ b.to \in Nat /\ Len(reader.disk) \in Nat
      BY <1>1, <1>5, ReaderFields DEF p, q, BlockType
    <3> QED BY <1>1, <1>5, <2>2, <3>1
  <2>5. Covered({}) = {}
    BY DEF Covered
  <2>6. s = Kept(p, q, {})
    BY <2>3, <2>4, <2>5 DEF Says
  <2>7. s = PlainAt(reader, p, q - p)
    BY <1>1, <1>4, <2>2, <2>4, <2>6, KeptPlain
  <2> QED BY <1>3, <2>1, <2>2, <2>7 DEF s
<1>8. ASSUME NEW j \in 1 .. d.transactionsTotalNumber
      PROVE  /\ d.transactions[j].transactionNumber = j
             /\ d.transactions[j].transactionHash
                   = PlainAt(reader, b.txs[j].from, b.txs[j].to - b.txs[j].from)
  <2> DEFINE t == b.txs[j]
  <2>1. t \in TxType /\ TxDone(File, t)
    BY <1>2, <1>3 DEF b
  <2>2. d.transactions[j] = TransactionToJson(t, j)
    BY <1>3 DEF AllTransactionsToJson
  <2> HIDE DEF t
  <2>3. t.segwit \in BOOLEAN /\ t.from \in Nat /\ t.to \in Nat
    BY <2>1 DEF TxType
  <2>4. t.hashed = Extent(t.from, t.to - t.from)
    BY <2>1 DEF TxDone, HashedWhole
  <2>5. t.hashed.from = t.from /\ t.hashed.to - t.hashed.from = t.to - t.from
    BY <2>3, <2>4 DEF Extent
  <2>6. /\ TransactionToJson(t, j).transactionNumber = j
        /\ TransactionToJson(t, j).transactionHash =
               PlainAt(reader, t.hashed.from, t.hashed.to - t.hashed.from)
    BY <2>3, TransactionKeys
  <2> QED BY <2>2, <2>5, <2>6 DEF t
<1> QED BY <1>6, <1>7, <1>8 DEF b, d

(* Every block of a file that parsed comes back byte for byte from the     *)
(* JSON document blockToJson makes of it, its counts apart; the hashes in  *)
(* it are those of the header's own bytes and of those of each transaction *)
(* without a witness.                                                      *)
THEOREM DocumentsAreComplete == Spec => []DocumentsComplete
<1>1. IInv /\ Layout => DocumentsComplete
  BY DocumentsHold
<1> QED BY <1>1, Invariance, LayoutInvariance, PTL
=============================================================================
