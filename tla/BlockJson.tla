----------------------------- MODULE BlockJson -----------------------------
(***************************************************************************)
(* The JSON document wmain prints for each block of a file that parsed:    *)
(* blockToJson of JsonUtils.cpp and the texts of Utils.cpp it is made of.  *)
(*                                                                         *)
(* One operator per function.  The fields of a block in memory are read    *)
(* where the parser took them from, over the reader of BlockFileParser.    *)
(* An object is a record, an array a sequence, a hexadecimal text the      *)
(* sequence of its digits, and an integer its digits to the base 256, the  *)
(* most significant first.  A hash is the bytes it is taken over.  The     *)
(* inputAddress and outputAddress keys are the subject of ScriptAddresses. *)
(***************************************************************************)
EXTENDS BlockFileParser, SequencesExt

(* A mutation of HashToHexString: no setfill('0') and setw(2).             *)
HashToHexStringUnpadded(bytes) ==
    FlattenSeq([i \in 1 .. Len(bytes) |->
        IF bytes[i] < 16 THEN <<bytes[i]>> ELSE <<bytes[i] \div 16, bytes[i] % 16>>])

HashToHexString(bytes) ==
    FlattenSeq([i \in 1 .. Len(bytes) |-> <<bytes[i] \div 16, bytes[i] % 16>>])

IntegerAt(p, n) == Reversed(PlainAt(reader, p, n))

Hash32At(p) == HashToHexString(Reversed(PlainAt(reader, p, 32)))

TextOf(extent) == HashToHexString(PlainAt(reader, extent.from, extent.to - extent.from))

-----------------------------------------------------------------------------
(* The calendar of gmtime.                                                 *)
IsLeap(year) == (year % 4 = 0 /\ year % 100 # 0) \/ year % 400 = 0

\* days from 1 January 1970 to 1 January of that year
DaysBeforeYear(year) ==
    365 * (year - 1970) + (year - 1969) \div 4 - (year - 1901) \div 100 + (year - 1601) \div 400

\* days from 1 January to the first of that month; month 13 ends the year
DaysBeforeMonth(year, month) ==
    <<0, 31, 59, 90, 120, 151, 181, 212, 243, 273, 304, 334, 365>>[month]
        + (IF month > 2 /\ IsLeap(year) THEN 1 ELSE 0)

(* toTime: the UTC date and time of a 32-bit number of seconds.            *)
ToTime(number) ==
    LET high    == 65536 * number[1] + 256 * number[2] + number[3]
        low     == 256 * (high % 60) + number[4]
        minutes == 256 * (high \div 60) + low \div 60
        day     == minutes \div 1440
        year    == CHOOSE y \in 1970 .. 2106 :
                       DaysBeforeYear(y) <= day /\ day < DaysBeforeYear(y + 1)
        rest    == day - DaysBeforeYear(year)
        month   == CHOOSE m \in 1 .. 12 :
                       DaysBeforeMonth(year, m) <= rest /\ rest < DaysBeforeMonth(year, m + 1)
    IN  [year |-> year, month |-> month, day |-> rest - DaysBeforeMonth(year, month) + 1,
         hour |-> (minutes \div 60) % 24, minute |-> minutes % 60, second |-> low % 60]

-----------------------------------------------------------------------------
BlockHeaderToJson(h) ==
    [version           |-> IntegerAt(h.from, 4),
     previousBlockHash |-> Hash32At(h.from + 4),
     merkleRootHash    |-> Hash32At(h.from + 36),
     time              |-> ToTime(IntegerAt(h.from + 68, 4)),
     bits              |-> IntegerAt(h.from + 72, 4),
     nonce             |-> IntegerAt(h.from + 76, 4)]

TxInToJson(input, index) ==
    [txInNumber               |-> index,
     previousTransactionHash  |-> Hash32At(input.from),
     previousTransactionIndex |-> IntegerAt(input.from + 32, 4),
     scriptSignature          |-> TextOf(input.script),
     sequenceNumber           |-> IntegerAt(input.to - 4, 4)]

AllTxInToJson(inputs) == [i \in 1 .. Len(inputs) |-> TxInToJson(inputs[i], i)]

TxOutToJson(output, index) ==
    [txOutNumber  |-> index,
     satoshiValue |-> IntegerAt(output.from, 8),
     scriptPubKey |-> TextOf(output.script)]

AllTxOutToJson(outputs) == [i \in 1 .. Len(outputs) |-> TxOutToJson(outputs[i], i)]

WitnessToJson(witness, index) ==
    [witnessNumber |-> index,
     items         |-> [i \in 1 .. Len(witness.items) |->
                           HashToHexString(WitnessData(witness.items[i]))]]

AllWitnessToJson(witnesses) ==
    [i \in 1 .. Len(witnesses) |-> WitnessToJson(witnesses[i], i)]

LegacyToJson(t, index) ==
    [transactionNumber |-> index,
     transactionHash   |-> PlainAt(reader, t.hashed.from, t.hashed.to - t.hashed.from),
     version           |-> IntegerAt(t.from, 4),
     segwit            |-> t.segwit,
     inputCount        |-> Len(t.vin),
     outputCount       |-> Len(t.vout),
     lockTime          |-> IntegerAt(t.to - 4, 4),
     txIn              |-> AllTxInToJson(t.vin),
     txOut             |-> AllTxOutToJson(t.vout)]

(* The key "witness" is there in a segwit transaction only.                *)
TransactionToJson(t, index) ==
    LET legacy == LegacyToJson(t, index)
    IN  IF t.segwit
        THEN [key \in DOMAIN legacy \cup {"witness"} |->
                 IF key = "witness" THEN AllWitnessToJson(t.witnesses) ELSE legacy[key]]
        ELSE legacy

AllTransactionsToJson(txs) == [i \in 1 .. Len(txs) |-> TransactionToJson(txs[i], i)]

BlockToJson(b) ==
    [blockHash               |-> PlainAt(reader, b.hashed.from, b.hashed.to - b.hashed.from),
     blockHeader             |-> BlockHeaderToJson(b.header),
     transactionsTotalNumber |-> Len(b.txs),
     transactions            |-> AllTransactionsToJson(b.txs)]

-----------------------------------------------------------------------------
(* What a reader of the document does with it: the bytes it stands for.    *)
FromHex(text) == [i \in 1 .. Len(text) \div 2 |-> 16 * text[2 * i - 1] + text[2 * i]]

\* of a text that prints the bytes in reverse: a hash, a witness item
FromReversed(text) == Reversed(FromHex(text))

FromTime(date) ==
    LET days    == DaysBeforeYear(date.year) + DaysBeforeMonth(date.year, date.month) + date.day - 1
        minutes == 1440 * days + 60 * date.hour + date.minute
        low     == 60 * (minutes % 256) + date.second
        high    == 60 * (minutes \div 256) + low \div 256
    IN  <<low % 256, high % 256, (high \div 256) % 256, high \div 65536>>

FromHeader(d) ==
    Reversed(d.version) \o FromReversed(d.previousBlockHash) \o FromReversed(d.merkleRootHash)
        \o FromTime(d.time) \o Reversed(d.bits) \o Reversed(d.nonce)

FromTxIn(d) ==
    FromReversed(d.previousTransactionHash) \o Reversed(d.previousTransactionIndex)
        \o FromHex(d.scriptSignature) \o Reversed(d.sequenceNumber)

FromTxOut(d) == Reversed(d.satoshiValue) \o FromHex(d.scriptPubKey)

FromWitness(d) == FlattenSeq([i \in 1 .. Len(d.items) |-> FromReversed(d.items[i])])

FromTransaction(d) ==
    Reversed(d.version)
        \o (IF d.segwit THEN SegwitFlag ELSE <<>>)
        \o FlattenSeq([i \in 1 .. d.inputCount |-> FromTxIn(d.txIn[i])])
        \o FlattenSeq([i \in 1 .. d.outputCount |-> FromTxOut(d.txOut[i])])
        \o (IF d.segwit THEN FlattenSeq([i \in 1 .. d.inputCount |-> FromWitness(d.witness[i])])
                        ELSE <<>>)
        \o Reversed(d.lockTime)

FromBlock(d) ==
    FromHeader(d.blockHeader)
        \o FlattenSeq([i \in 1 .. d.transactionsTotalNumber |-> FromTransaction(d.transactions[i])])

(* Where the counts and lengths of a block lie in the file.                *)
StacksCounts(w) ==
    {w.from} \cup {IF i = 1 THEN w.from + CompactWidth(w.from) ELSE w.items[i - 1].to :
                       i \in 1 .. Len(w.items)}

TransactionsCounts(t) ==
    {InputsFrom(t), OutputsFrom(t)}
        \cup {t.vin[i].from + 36 : i \in 1 .. Len(t.vin)}
        \cup {t.vout[i].from + 8 : i \in 1 .. Len(t.vout)}
        \cup UNION {StacksCounts(t.witnesses[i]) : i \in 1 .. Len(t.witnesses)}

Counts(b) == {b.from + 88} \cup UNION {TransactionsCounts(b.txs[i]) : i \in 1 .. Len(b.txs)}

(* The bytes from offset p up to q, save those of the counts that begin at *)
(* the marks.                                                              *)
Covered(marks) == UNION {p .. p + CompactWidth(p) - 1 : p \in marks}

Kept(p, q, covered) ==
    FlattenSeq([i \in 1 .. q - p |->
        IF p + i - 1 \in covered THEN <<>> ELSE PlainAt(reader, p + i - 1, 1)])

(* The bytes of a block without its counts and lengths.                    *)
Payload(b) ==
    LET covered == Covered(Counts(b)) IN Kept(b.from + 8, b.from + 8 + b.size, covered)

(* Nothing of a block is lost, doubled, swapped or garbled on its way from *)
(* the file through the parser into the JSON document (blockToJson): a     *)
(* reader of the document alone, who turns hashes and witness items round, *)
(* gets back every byte of the block save the widths of its counts; and    *)
(* the hashes are those of the block's own 80 bytes and, for a transaction *)
(* without a witness, of its own bytes.  For one with a witness the hash   *)
(* is the subject of TxidWithoutWitness.                                   *)
DocumentsComplete ==
    outcome = "done" =>
        \A i \in 1 .. Len(blocks) :
            LET b == blocks[i]
                d == BlockToJson(b)
            IN  /\ FromBlock(d) = Payload(b)
                /\ d.blockHash = FromHeader(d.blockHeader)
                /\ \A j \in 1 .. d.transactionsTotalNumber :
                      /\ d.transactions[j].transactionNumber = j
                      /\ ~ d.transactions[j].segwit =>
                            d.transactions[j].transactionHash
                                = PlainAt(reader, b.txs[j].from, b.txs[j].to - b.txs[j].from)
=============================================================================
