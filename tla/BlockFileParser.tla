-------------------------- MODULE BlockFileParser --------------------------
(***************************************************************************)
(* Parsing one blk*.dat file: BlockFileParser::parse and the parsers below *)
(* it (SingleBlockParser, BlockHeaderParser, TransactionParser), reading   *)
(* through one BitcoinReader.                                              *)
(*                                                                         *)
(* The program is single-threaded: the call stack is the label pc and the  *)
(* local variables of the active calls.  There is one action per parsing   *)
(* function; a function that loops over records is one action per record.  *)
(* A parsed field is represented by the extent of the file it was taken    *)
(* from, so the properties can say which bytes ended up where; only the    *)
(* fields that steer the parser (magic number, sizes, counts, the segwit   *)
(* flag) are decoded.                                                      *)
(***************************************************************************)
EXTENDS BitcoinReader

CONSTANT
    Images       \* what can be on disk: [disk |-> file bytes, key |-> xor.dat bytes]

ASSUME ImagesAssumption == Images \subseteq [disk: Seq(Byte), key: Keys]

VARIABLES
    reader,      \* the BitcoinReader
    pc,          \* the function that runs next
    blocks,      \* `out` of BlockFileParser::parse
    block,       \* locals of SingleBlockParser::parse
    tx,          \* locals of TransactionParser::parseOneTransaction
    outcome      \* "running", "done", the AppErrorCode returned, or "thrown"

vars == <<reader, pc, blocks, block, tx, outcome>>

MagicBytes == <<249, 190, 180, 217>>      \* 0xD9B4BEF9 in little-endian order
MaxBlockSize == 100 * 1024 * 1024         \* kMaxExpectedSizeBytes
HeaderSize == 80                          \* sizeof(BlockHeader)
SegwitFlag == <<0, 1>>

Extent(p, n) == [from |-> p, to |-> p + n]

NewBlock(p) ==
    [from |-> p, size |-> 0, hashed |-> Extent(0, 0), header |-> Extent(0, 0),
     txCount |-> 0, txs |-> <<>>, to |-> p]

NewTx(p) ==
    [from |-> p, segwit |-> FALSE, inCount |-> 0, vin |-> <<>>, outCount |-> 0,
     vout |-> <<>>, witnesses |-> <<>>, hashed |-> Extent(0, 0), to |-> p]

Init ==
    /\ \E im \in Images : reader = NewReader(im.disk, im.key)
    /\ pc = "block"
    /\ blocks = <<>>
    /\ block = NewBlock(0)
    /\ tx = NewTx(0)
    /\ outcome = "running"

(* Return to the callers with an error or an exception: each of them       *)
(* returns it at once.                                                     *)
Leave(r, result) ==
    /\ reader' = r
    /\ pc' = "end"
    /\ outcome' = result
    /\ UNCHANGED <<blocks, block, tx>>

Stop(res) == res.status # "ok" /\ Leave(res.reader, res.status)

Goto(res, label) ==
    /\ reader' = res.reader
    /\ pc' = label
    /\ outcome' = outcome

(* An action binds what a chain of reads returned with \E over a singleton.  *)

(* A count is followed by out.reserve(count), which throws on a count that *)
(* no vector can hold.                                                     *)
Counted(res) == res.status = "ok" /\ res.data <= AllocLimit

StopCount(res) ==
    \/ Stop(res)
    \/ res.status = "ok" /\ res.data > AllocLimit /\ Leave(res.reader, "thrown")

-----------------------------------------------------------------------------
(* The loop head of BlockFileParser::parse and step 0 of the block parser. *)
StartBlock ==
    /\ pc = "block"
    /\ reader' = AfterIsEof(reader)
    /\ IF AtEof(reader)
       THEN /\ pc' = "end"
            /\ outcome' = "done"
            /\ UNCHANGED block
       ELSE /\ pc' = "magic"
            /\ block' = NewBlock(reader.mpos)
            /\ UNCHANGED outcome
    /\ UNCHANGED <<blocks, tx>>

(* A mutation of ParseMagicNumber: look for the next block in the same     *)
(* place instead of giving up.                                             *)
ParseMagicNumberRetry ==
    /\ pc = "magic"
    /\ \E res \in {ReadData(reader, 4)} :
       \/ /\ res.status = "ok" /\ res.data = MagicBytes
          /\ Goto(res, "size")
          /\ UNCHANGED <<blocks, block, tx>>
       \/ /\ res.status = "ok" /\ res.data # MagicBytes
          /\ Goto(SetReadPosition(res.reader, block.from), "block")
          /\ UNCHANGED <<blocks, block, tx>>
       \/ Stop(res)

ParseMagicNumber ==
    /\ pc = "magic"
    /\ \E res \in {ReadData(reader, 4)} :
       \/ /\ res.status = "ok" /\ res.data = MagicBytes
          /\ Goto(res, "size")
          /\ UNCHANGED <<blocks, block, tx>>
       \/ res.status = "ok" /\ res.data # MagicBytes /\ Leave(res.reader, "BlockWrongMagic")
       \/ Stop(res)

ParseBlockSize ==
    /\ pc = "size"
    /\ \E res \in {ReadData(reader, 4)} : LET size == Le32(res.data) IN
       \/ /\ res.status = "ok" /\ size \in 1 .. MaxBlockSize
          /\ block' = [block EXCEPT !.size = size]
          /\ Goto(res, "hash")
          /\ UNCHANGED <<blocks, tx>>
       \/ res.status = "ok" /\ size = 0 /\ Leave(res.reader, "EmptyBlockSize")
       \/ res.status = "ok" /\ size > MaxBlockSize /\ Leave(res.reader, "TooLargeBlockSize")
       \/ Stop(res)

(* A mutation of GetBlockHash: back to the start of the block.             *)
GetBlockHashFromStart ==
    /\ pc = "hash"
    /\ \E res \in {ThenSetReadPosition(ReadData(reader, HeaderSize), block.from)} :
       \/ /\ res.status = "ok"
          /\ block' = [block EXCEPT !.hashed = Extent(reader.mpos, HeaderSize)]
          /\ Goto(res, "header")
          /\ UNCHANGED <<blocks, tx>>
       \/ Stop(res)

(* BlockHeaderParser::getBlockHash reads the header ahead and goes back.   *)
GetBlockHash ==
    /\ pc = "hash"
    /\ \E res \in {ThenSetReadPosition(ReadData(reader, HeaderSize), reader.mpos)} :
       \/ /\ res.status = "ok"
          /\ block' = [block EXCEPT !.hashed = Extent(reader.mpos, HeaderSize)]
          /\ Goto(res, "header")
          /\ UNCHANGED <<blocks, tx>>
       \/ Stop(res)

(* BlockHeaderParser::parse: version, two hashes, time, bits, nonce.       *)
ParseBlockHeader ==
    /\ pc = "header"
    /\ \E hashes \in {Then(Then(ReadData(reader, 4), 32), 32)} :
       \E res \in {Then(Then(Then(hashes, 4), 4), 4)} :
       \/ /\ res.status = "ok"
          /\ block' = [block EXCEPT !.header = [from |-> reader.mpos, to |-> res.reader.mpos]]
          /\ Goto(res, "txCount")
          /\ UNCHANGED <<blocks, tx>>
       \/ Stop(res)

(* A mutation of NextTransaction: the last transaction is forgotten.       *)
NextTransactionButLast(b) == IF Len(b.txs) + 1 < b.txCount THEN "version" ELSE "blockEnd"

NextTransaction(b) == IF Len(b.txs) < b.txCount THEN "version" ELSE "blockEnd"

ParseTransactionCounter ==
    /\ pc = "txCount"
    /\ \E res \in {ReadCompactSize(reader)} :
       \/ /\ Counted(res)
          /\ block' = [block EXCEPT !.txCount = res.data]
          /\ Goto(res, NextTransaction(block'))
          /\ UNCHANGED <<blocks, tx>>
       \/ StopCount(res)

-----------------------------------------------------------------------------
(* TransactionParser::parseOneTransaction, function by function.           *)
ParseVersion ==
    /\ pc = "version"
    /\ \E res \in {ReadData(reader, 4)} :
       \/ /\ res.status = "ok"
          /\ tx' = NewTx(reader.mpos)
          /\ Goto(res, "flag")
          /\ UNCHANGED <<blocks, block>>
       \/ Stop(res)

(* A mutation of FlagFound: only the marker byte is looked at.             *)
MarkerFound(bytes) == bytes # <<>> /\ bytes[1] = SegwitFlag[1]

FlagFound(bytes) == bytes = SegwitFlag

(* Two bytes are read; unless they are the flag the reader goes back.      *)
ParseTransactionFlag ==
    /\ pc = "flag"
    /\ \E two \in {ReadData(reader, 2)} :
       \E res \in {IF FlagFound(two.data) THEN two ELSE ThenSetReadPosition(two, reader.mpos)} :
       \/ /\ res.status = "ok"
          /\ tx' = [tx EXCEPT !.segwit = FlagFound(two.data)]
          /\ Goto(res, "inCount")
          /\ UNCHANGED <<blocks, block>>
       \/ Stop(res)

NextInput(t) == IF Len(t.vin) < t.inCount THEN "txIn" ELSE "outCount"

ParseInCounter ==
    /\ pc = "inCount"
    /\ \E res \in {ReadCompactSize(reader)} :
       \/ /\ Counted(res)
          /\ tx' = [tx EXCEPT !.inCount = res.data]
          /\ Goto(res, NextInput(tx'))
          /\ UNCHANGED <<blocks, block>>
       \/ StopCount(res)

(* parseTxIn: previous hash, index, script length, script, sequence.       *)
ParseTxIn ==
    /\ pc = "txIn"
    /\ \E index \in {Then(ReadArray32(reader), 4)} :
       \E length \in {ThenCompactSize(index)} :
       \E res \in {Then(Then(length, length.data), 4)} :
       \/ /\ res.status = "ok"
          /\ tx' = [tx EXCEPT !.vin = Append(@, [from |-> reader.mpos, to |-> res.reader.mpos,
                        script |-> Extent(length.reader.mpos, length.data)])]
          /\ Goto(res, NextInput(tx'))
          /\ UNCHANGED <<blocks, block>>
       \/ Stop(res)

(* Every segwit transaction has one witness stack for each of its inputs.  *)
NextWitness(t) ==
    IF t.segwit /\ Len(t.witnesses) < Len(t.vin) THEN "witCount" ELSE "lockTime"

NextOutput(t) == IF Len(t.vout) < t.outCount THEN "txOut" ELSE NextWitness(t)

ParseOutCounter ==
    /\ pc = "outCount"
    /\ \E res \in {ReadCompactSize(reader)} :
       \/ /\ Counted(res)
          /\ tx' = [tx EXCEPT !.outCount = res.data]
          /\ Goto(res, NextOutput(tx'))
          /\ UNCHANGED <<blocks, block>>
       \/ StopCount(res)

(* parseTxOut: value, script length, script.                               *)
ParseTxOut ==
    /\ pc = "txOut"
    /\ \E value \in {ReadData(reader, 8)} :
       \E length \in {ThenCompactSize(value)} :
       \E res \in {Then(length, length.data)} :
       \/ /\ res.status = "ok"
          /\ tx' = [tx EXCEPT !.vout = Append(@, [from |-> reader.mpos, to |-> res.reader.mpos,
                        script |-> Extent(length.reader.mpos, length.data)])]
          /\ Goto(res, NextOutput(tx'))
          /\ UNCHANGED <<blocks, block>>
       \/ Stop(res)

(* A mutation of NextItem: the last item of a stack is forgotten.          *)
NextItemButLast(t) ==
    LET w == t.witnesses[Len(t.witnesses)]
    IN  IF Len(w.items) + 1 < w.count THEN "witItem" ELSE NextWitness(t)

NextItem(t) ==
    LET w == t.witnesses[Len(t.witnesses)]
    IN  IF Len(w.items) < w.count THEN "witItem" ELSE NextWitness(t)

(* parseWitness: the item count of the next stack, then its items.         *)
ParseWitness ==
    /\ pc = "witCount"
    /\ \E res \in {ReadCompactSize(reader)} :
       \/ /\ Counted(res)
          /\ tx' = [tx EXCEPT !.witnesses = Append(@, [from |-> reader.mpos, to |-> res.reader.mpos,
                        count |-> res.data, items |-> <<>>])]
          /\ Goto(res, NextItem(tx'))
          /\ UNCHANGED <<blocks, block>>
       \/ StopCount(res)

(* An item that ends at `end` goes to the last stack.                      *)
AddItem(stacks, item, end) ==
    LET w == stacks[Len(stacks)]
    IN  [stacks EXCEPT ![Len(stacks)] = [w EXCEPT !.items = Append(w.items, item), !.to = end]]

(* What parseWitness keeps of an item: its bytes in reverse.               *)
WitnessData(item) == Reversed(PlainAt(reader, item.from, item.to - item.from))

(* The items of a stack are kept as extents here, which WitnessData turns  *)
(* into the bytes in memory.                                               *)
ParseWitnessItem ==
    /\ pc = "witItem"
    /\ \E length \in {ReadCompactSize(reader)} :
       \E res \in {Then(length, length.data)} :
       \/ /\ res.status = "ok"
          /\ tx' = [tx EXCEPT !.witnesses = AddItem(tx.witnesses,
                        Extent(length.reader.mpos, length.data), res.reader.mpos)]
          /\ Goto(res, NextItem(tx'))
          /\ UNCHANGED <<blocks, block>>
       \/ Stop(res)

ParseLockTime ==
    /\ pc = "lockTime"
    /\ \E res \in {ReadData(reader, 4)} :
       \/ /\ res.status = "ok"
          /\ tx' = [tx EXCEPT !.to = res.reader.mpos]
          /\ Goto(res, "txHash")
          /\ UNCHANGED <<blocks, block>>
       \/ Stop(res)

(* getCurrentTransactionHash goes back to the start of the transaction and *)
(* reads it again as one buffer.  The transaction is then complete.        *)
Reread(again) ==
    IF again.status = "ok" /\ again.reader.mpos # reader.mpos
    THEN [again EXCEPT !.status = "FileReadingFailure"]
    ELSE again

GetCurrentTransactionHash ==
    /\ pc = "txHash"
    /\ \E again \in {Then(SetReadPosition(reader, tx.from), reader.mpos - tx.from)} :
       \E res \in {Reread(again)} :
       \/ /\ res.status = "ok"
          /\ block' = [block EXCEPT !.txs = Append(@,
                 [tx EXCEPT !.hashed = Extent(tx.from, reader.mpos - tx.from)])]
          /\ Goto(res, NextTransaction(block'))
          /\ UNCHANGED <<blocks, tx>>
       \/ Stop(res)

-----------------------------------------------------------------------------
(* Step 5 of SingleBlockParser::parse: the declared size against the bytes *)
(* consumed, the magic number and the size field themselves included.      *)
DeclaredEndIgnored == reader.mpos               \* mutation: no check at all

DeclaredEnd == block.from + block.size + 8

CheckBlockEnd ==
    /\ pc = "blockEnd"
    /\ \/ /\ reader.mpos = DeclaredEnd
          /\ blocks' = Append(blocks, [block EXCEPT !.to = reader.mpos])
          /\ pc' = "block"
          /\ UNCHANGED <<reader, block, tx, outcome>>
       \/ reader.mpos # DeclaredEnd /\ Leave(reader, "BlockParsingFailure")

Next ==
    \/ StartBlock
    \/ ParseMagicNumber
    \/ ParseBlockSize
    \/ GetBlockHash
    \/ ParseBlockHeader
    \/ ParseTransactionCounter
    \/ ParseVersion
    \/ ParseTransactionFlag
    \/ ParseInCounter
    \/ ParseTxIn
    \/ ParseOutCounter
    \/ ParseTxOut
    \/ ParseWitness
    \/ ParseWitnessItem
    \/ ParseLockTime
    \/ GetCurrentTransactionHash
    \/ CheckBlockEnd

Spec == Init /\ [][Next]_vars

(* The program runs one sequential function after another: as long as one  *)
(* can run, it does.                                                       *)
FairSpec == Spec /\ WF_vars(Next)
-----------------------------------------------------------------------------
(* Properties.                                                             *)

Labels == {"block", "magic", "size", "hash", "header", "txCount", "version", "flag", "inCount",
           "txIn", "outCount", "txOut", "witCount", "witItem", "lockTime", "txHash",
           "blockEnd", "end"}

ErrorCodes == {"FileReadingFailure", "FileError", "BlockWrongMagic", "EmptyBlockSize",
               "TooLargeBlockSize", "BlockParsingFailure"}

ExtentType  == [from: Nat, to: Nat]
TxInType    == [from: Nat, to: Nat, script: ExtentType]
WitnessType == [from: Nat, to: Nat, count: Nat, items: Seq(ExtentType)]
TxType == [from: Nat, segwit: BOOLEAN, inCount: Nat, vin: Seq(TxInType), outCount: Nat,
           vout: Seq(TxInType), witnesses: Seq(WitnessType), hashed: ExtentType, to: Nat]
BlockType == [from: Nat, size: Nat, hashed: ExtentType, header: ExtentType, txCount: Nat,
              txs: Seq(TxType), to: Nat]

(* Each local of the parsing functions holds a value of its C++ type.      *)
TypeOK ==
    /\ reader \in ReaderType
    /\ pc \in Labels
    /\ blocks \in Seq(BlockType)
    /\ block \in BlockType
    /\ tx \in TxType
    /\ outcome \in {"running", "done", "thrown"} \cup ErrorCodes

(* While parsing runs the stream is usable and the cached position is the  *)
(* stream's own: the sizes, rewinds and hash extents that are computed     *)
(* from getReadPosition() speak of the bytes that are really read next.    *)
RunningReaderCoherent ==
    pc # "end" => /\ Good(reader)
                  /\ reader.mpos = reader.pos
                  /\ reader.pos <= Len(reader.disk)

(* The segments follow one another without gap or overlap from p to q.     *)
Tiles(segs, p, q) ==
    /\ \A i \in 1 .. Len(segs) :
          segs[i].from = (IF i = 1 THEN p ELSE segs[i - 1].to)
    /\ q = IF segs = <<>> THEN p ELSE segs[Len(segs)].to

(* The blocks returned follow one another from the start of the file, each *)
(* with the magic number and exactly as long as its size field says; a     *)
(* successful parse has consumed the whole file.                           *)
BlocksTile ==
    /\ Tiles(blocks, 0, IF pc = "block" \/ outcome = "done"
                        THEN reader.mpos ELSE block.from)
    /\ outcome = "done" => reader.mpos = Len(reader.disk)
    /\ \A i \in 1 .. Len(blocks) : LET b == blocks[i] IN
          /\ PlainAt(reader, b.from, 4) = MagicBytes
          /\ b.size = Le32(PlainAt(reader, b.from + 4, 4))
          /\ b.to = b.from + 8 + b.size

(* Bytes taken by the CompactSize integer at offset p, and its value.      *)
CompactWidth(p) == 1 + CompactTail(PlainAt(reader, p, 1)[1])
CompactAt(p) ==
    CompactValue(PlainAt(reader, p, 1)[1], PlainAt(reader, p + 1, CompactWidth(p) - 1))

(* In every returned block the header and the hashed bytes are the same 80 *)
(* bytes, and the announced number of transactions tiles the rest of it.   *)
TransactionsTile ==
    \A i \in 1 .. Len(blocks) : LET b == blocks[i] IN
        /\ b.header = Extent(b.from + 8, HeaderSize)
        /\ b.hashed = b.header
        /\ Len(b.txs) = CompactAt(b.from + 88)
        /\ Tiles(b.txs, b.from + 88 + CompactWidth(b.from + 88), b.to)

(* Where the parts of a parsed transaction begin.                          *)
InputsFrom(t)  == t.from + (IF t.segwit THEN 6 ELSE 4)
OutputsFrom(t) == IF t.vin = <<>> THEN InputsFrom(t) + CompactWidth(InputsFrom(t))
                  ELSE t.vin[Len(t.vin)].to
WitnessFrom(t) == IF t.vout = <<>> THEN OutputsFrom(t) + CompactWidth(OutputsFrom(t))
                  ELSE t.vout[Len(t.vout)].to

(* The counts, inputs, outputs, witness stacks and lock time of every      *)
(* transaction of a returned block tile it: looking for the segwit flag,   *)
(* and reading the transaction again for its hash, loses or repeats no     *)
(* byte.  There is one witness stack for each input of a segwit            *)
(* transaction and none otherwise.                                         *)
FieldsTile ==
    \A i \in 1 .. Len(blocks) : \A j \in 1 .. Len(blocks[i].txs) :
        LET t == blocks[i].txs[j] IN
        /\ t.segwit = (PlainAt(reader, t.from + 4, 2) = SegwitFlag)
        /\ Len(t.vin) = CompactAt(InputsFrom(t))
        /\ Tiles(t.vin, InputsFrom(t) + CompactWidth(InputsFrom(t)), OutputsFrom(t))
        /\ Len(t.vout) = CompactAt(OutputsFrom(t))
        /\ Tiles(t.vout, OutputsFrom(t) + CompactWidth(OutputsFrom(t)), WitnessFrom(t))
        /\ Len(t.witnesses) = IF t.segwit THEN Len(t.vin) ELSE 0
        /\ Tiles(t.witnesses, WitnessFrom(t), t.to - 4)

(* A script or witness item is exactly as long as the CompactSize before   *)
(* it says, and lies where the layout of its record puts it: p is where    *)
(* its length starts.                                                      *)
Prefixed(e, p) == e = Extent(p + CompactWidth(p), CompactAt(p))

PayloadsExact ==
    \A i \in 1 .. Len(blocks) : \A j \in 1 .. Len(blocks[i].txs) :
        LET t == blocks[i].txs[j] IN
        /\ \A k \in 1 .. Len(t.vin) : LET in == t.vin[k] IN
              Prefixed(in.script, in.from + 36) /\ in.to = in.script.to + 4
        /\ \A k \in 1 .. Len(t.vout) : LET out == t.vout[k] IN
              Prefixed(out.script, out.from + 8) /\ out.to = out.script.to
        /\ \A k \in 1 .. Len(t.witnesses) : LET w == t.witnesses[k] IN
              /\ Len(w.items) = CompactAt(w.from)
              /\ \A n \in 1 .. Len(w.items) :
                    Prefixed(w.items[n],
                             IF n = 1 THEN w.from + CompactWidth(w.from) ELSE w.items[n - 1].to)
              /\ w.to = IF w.items = <<>> THEN w.from + CompactWidth(w.from)
                        ELSE w.items[Len(w.items)].to

(* The grammar of the format, up to the limits the code has.               *)
Format == INSTANCE BlockFormat WITH Limit <- AllocLimit, MaxSize <- MaxBlockSize

(* Whatever is on disk, whole, cut, damaged, obfuscated or read with the   *)
(* wrong key, the parser returns exactly the blocks that the file begins   *)
(* with by the grammar of the format, and succeeds exactly when nothing is *)
(* left behind them (BlockFileParser.cpp, SingleBlockParser.cpp,           *)
(* BlockHeaderParser.cpp, TransactionParser.cpp).                          *)
ReturnsTheBlocks ==
    pc = "end" =>
        \E f \in {Plain(reader)} :
            LET n == Len(blocks)
                ends == [i \in 0 .. n |-> IF i = 0 THEN 0 ELSE blocks[i].to]
            IN  /\ \A i \in 1 .. n : Format!Block(f, ends[i - 1]) = ends[i]
                /\ outcome = "done" <=> ends[n] = Len(f)
                /\ outcome # "done" => Format!Block(f, ends[n]) = Format!Nowhere

(* No step of the parser ends before the place it began: every rewind (the *)
(* header hash, the absent segwit flag, the transaction hash) is undone or *)
(* returns to the record being parsed.  Only an exception in the middle of *)
(* a rewind leaves the reader further back.                                *)
NeverBack == [][outcome' = "thrown" \/ reader'.mpos >= reader.mpos]_vars

(* Parsing ends on every file, malformed ones included.                    *)
Terminates == <>(pc = "end")

(* "hash should be generated with all transaction data, except for sigwit  *)
(* flag and witness" (notes.txt): the bytes hashed for a transaction are   *)
(* those of its legacy form.                                               *)
WitnessBytes(t) ==
    IF t.segwit THEN {t.from + 4, t.from + 5} \cup (WitnessFrom(t) .. t.to - 5) ELSE {}

TxidWithoutWitness ==
    \A i \in 1 .. Len(blocks) : \A j \in 1 .. Len(blocks[i].txs) :
        LET t == blocks[i].txs[j]
        IN  (t.hashed.from .. t.hashed.to - 1) = (t.from .. t.to - 1) \ WitnessBytes(t)

(* "Returns the vector on success, or an AppErrorCode if parsing fails at  *)
(* any point" (BlockFileParser.cpp, above parse): whatever counts a file   *)
(* announces, the parser answers with a result or a code.                  *)
AnswersWithACode == outcome \in {"running", "done"} \cup ErrorCodes
=============================================================================
