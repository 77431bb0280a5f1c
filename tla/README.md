# Verification of BTC-STofu-Parser

TLA+ models of the block-file parser in `src/src/btc-parser`, checked with TLC
and proved about with TLAPS. All source paths below are relative to
`src/src/btc-parser` unless they name another directory.

## The system

The program reads Bitcoin Core block files (`blk*.dat`, possibly obfuscated with
a repeating XOR key), parses them into blocks, and prints each file as JSON. A
second, separate part stores transactions in PostgreSQL. Nothing in the program
is concurrent; what is hard is *sequence* (a byte stream that is read, rewound and
read again), *partial failure* (files that are cut or damaged, disks that are
full, sessions that break) and *sharing* (the file system and the database table
belong to others too).

| Component | State | Operations | Works with | What makes it correct |
|---|---|---|---|---|
| `FileReader`, `BitcoinReader` | the stream with its position, fail and eof bits; a cached position; the key | `readData`, `readDataArray32`, `readDataCompactSize`, `setReadPosition`, `isEof` | called by all parsers | it delivers the plain bytes of the file in order, from any position, and never after a failure |
| `BlockFileParser`, `SingleBlockParser`, `BlockHeaderParser`, `TransactionParser` | the block and transaction under way, the blocks finished | one parse method per field, three kinds of rewind | reads through `BitcoinReader`, asks `TransactionScriptParser` | what is returned tiles the file; well-formed files are accepted; parsing ends |
| `TransactionScriptParser` | none | script to address | called by `parseTxIn`, `parseTxOut` | different scripts, different addresses; spender and output agree; texts decode |
| `wmain`, `Config`, `getBlockFilesInDirectory` | the configuration, the list of files, the output | one run, from arguments to exit code | calls the parser for each file | the exit code and the JSON files say the truth |
| `BlockPrinter`, `JsonUtils` | the output stream | `printBlock` | called by `wmain` | a document for every block, which says all the block says |
| `TransactionDbPostgreSql` | the connection | `connect`, `isConnected`, `disconnect`, `insert`, finds | a PostgreSQL server | all or nothing, the answer says which, and there is one |
| `Logger` | the sinks with their open file, next rotation and queue of file names; the level; the level in the registry | `Init`, `setCompany`, `setLogLevel`, `getLogLevel`, `LOG_FMT` | called by all; spdlog's daily file sink | every record reaches the file of its company and day; the newest files are kept, and no more |
| `Utils` | none | little-endian numbers, hashes, listing, formatting | called by all | the right width and order |
| `PostgreQueryCommands` | none | query texts | `TransactionDbPostgreSql` | each query selects what its function promises |
| `BlockParser`, `ConsoleBlockPrinter` | legacy | | in no build file | |

## Modules

| Module | Models |
|---|---|
| `Bytes` | XOR of bytes, little-endian integers (`Utils.cpp`) |
| `BitcoinReader` | each reader operation as an operator from a reader to a result: new reader, status, data |
| `ReaderCalls` | the reader driven by any sequence of calls |
| `ByteSource` | abstract: a plain sequence of bytes and a cursor; what a reader promises |
| `BlockFileParser` | the parser as a state machine, one action per parse method, over `BitcoinReader` |
| `BlockFormat` | abstract: the grammar of a block file, written independently of the parser |
| `BlockJson` | the JSON document of a block, key by key, over `BlockFileParser` |
| `BtcParserApp` | a run of the program, over a file system that others change; kills and reruns |
| `TransactionDb` | the database client and the server's table |
| `TransactionQueries` | what each find function selects, and how rows and arrays of text are read back |
| `Logger` | the program's log and the daily files behind it |
| `ScriptAddresses` | script templates and the address each script gets |
| `AddressCodec` | the spelling of addresses: Base58Check, Bech32, Bech32m |
| `BlockFileParser_proofs` | theorems on the parser: types and tiling, the layout of a finished block, that the blocks returned are exactly those of the grammar, and that their JSON documents lose no byte |
| other `*_proofs` | theorems about the module they are named after |
| `MC*` | small instances for TLC |

`BlockFileParser` composes `BitcoinReader`: every action calls its operators on
the variable `reader`. `ReaderCalls` implements `ByteSource` under a refinement
mapping (`Source`), so the parser may be read as working on plain bytes.
`BtcParserApp` takes a whole parse as one step whose result is a constant of the
instance; `BlockFileParser` is what justifies the possible results.
`ScriptAddresses` treats the text of an address as the triple it says (encoding,
version, payload); `AddressCodec` shows that the texts do say it.
`TransactionDb` has the connection and what is stored, `TransactionQueries` what is
selected and read back; a call that found no connection is an outcome of both.

### How state and actions correspond to the code

*Reader.* A reader is a record of the bytes on disk (`disk`), the key, the stream's
position and bits (`pos`, `fail`, `eof`) and `m_readPosition` (`mpos`). A short read
consumes the rest, sets both bits and leaves `mpos`; a seek clears `eof` and never
`fail`; `isEof` peeks, which at the end sets `eof`. A request for more than
`AllocLimit` elements throws, as a vector does. Integers above 2^30 saturate at
`Huge`: every limit the code compares with is smaller.

*Parser.* `pc` names the method that runs next, so that every read is a step of its
own and every early return an outcome. The three rewinds are `GetBlockHash` (80
bytes back), `ParseTransactionFlag` (two bytes back when there is no flag), and
`GetCurrentTransactionHash` (back to the start of the transaction and forward
again). A parsed part is represented by the extent `[from, to)` of its bytes; a
hash by the extent it is taken over. A witness item is kept in reverse
(`WitnessData`), as the code keeps it.

*Documents.* `BlockJson` has one operator per function of `JsonUtils.cpp`: an object is
a record, an array a sequence, a hexadecimal text its digits, a time its UTC date.
`DocumentsComplete` undoes them, turning hashes and witness items round, and compares with
the file, of which only the bytes of counts and lengths are left out: the same count has
several spellings there. What it says of a transaction's hash it says only of one without a
witness; for the others the hash is the subject of `TxidWithoutWitness`.

*Program.* `pc` goes through `SetLogger`, `HandleCommandArguments`, `ReadJson`, the
three configuration keys, `GetBlockFiles`, and then for each file `ParseFile` (with
`OpenReader`), `OpenOutput`, `PrintBlock`, `FinishFile`. A block file and the key
file may be what they should or not; `Remove`, `Kill` and `RunAgain` are the
surroundings. A JSON file is the number of documents in it and the run that made it.

*Database.* `Insert` runs through `BeginWork`, `WriteValues`, `CompleteStream` and
`Commit`, and at each of them the session may be found lost (`Broken`). The server is external:
`table` is what is committed, `pending` the rows of transactions still open there. Other
clients open theirs at any time (`OtherInserts`), and a commit whose connection breaks leaves the
batch in `pending` and throws; the server ends each of them later, either way (`TransactionEnds`).
A key in `table` refuses a batch, and one in `pending` holds `CompleteStream` up (`Waits`), for as
long as that transaction is open, since the code sets no timeout; only the server may refuse the
waiting statement, to end a deadlock (`WaitRefused`). A transaction whose COMMIT was not sent
ends with its session. A call through a null connection is undefined behaviour, modelled as `crash`.

*Queries.* The table is a set of rows; a find function answers with the rows its
condition selects, in any order, sent as column texts (`Columns`, with PostgreSQL's
`array_out`) and parsed again (`ParseRow`, `ParseTextArray`). A text is a sequence of
characters, because the split at commas and the loss of quotes are what is in question.
A statement the server refuses and one that is not sent are both answered with
nothing, as in the code; `outcome` keeps them apart for the properties.

*Logger.* A file is a company and a day. A file sink (`NewSink`, `SinkIt`, `DeleteOld`) has
its open file, the day it rotates on, and the circular queue of file names, which starts
with the unbroken run of days that have files. Every reading of the clock
in the code is a reading in the model, and midnight may pass between any two of
them. Opening, writing, flushing and removing may fail; an exception leaves the call
where the code leaves it. `since`, `leaked` and `raced` are history variables of a
sink, which only the properties read. `Restart` forgets all but files, clock and registry.

*Addresses.* A `uint32_t` is the set of its 1 bits, which keeps the width of the
accumulator and of the checksum; SHA-256 and RIPEMD-160 are constants.

## Runs

| Run | Shows | States |
|---|---|---|
| `reader_calls` | `TypeOK`, cached position right until a failure, failure only at the end of the file and for ever, implements `ByteSource` | 2,827 |
| `parse_files` | parsing ends and returns exactly the blocks the file begins with by the grammar of `BlockFormat` (`ReturnsTheBlocks`; an assumption of the instance checks that the grammar finds the blocks its well-formed files were made of); results tile the file at every level (blocks, transactions, fields, payloads), no rewind loses a byte, the JSON documents give every byte of their blocks back | 40,251 |
| `parser_txid` | *violation*: the transaction hash covers flag and witness | |
| `parser_throws` | *violation*: a count no vector can hold makes the parser throw | |
| `app` | success is complete, the first failure stops, old results are kept, the program ends | 519,212 |
| `app_printed` | *violation*: success although nothing was written | |
| `transaction_db` | what `insert` answers is true of the table; batches are atomic; `insert` returns, unless a key of its batch is held for ever | 907,879 |
| `script_addresses` | addresses tell scripts apart; spender and output agree | 6,540 |
| `db_queries` | every find function answers with exactly what was asked for, as it was stored; array texts are read back exactly when no address has a comma, quote or backslash | 7,303 |
| `db_wallet` | *violation*: one transaction with more outputs than inputs, and no search for a wallet finds anything | |
| `logger` | records reach the file of their company and day; the files kept are the newest, and no more than they should be | 511,078 |
| `address_codec` | the texts decode, by independent decoders, to version, payload and a checksum that verifies | 841 |

### Bounds

- *Reader*: files of a few bytes, with keys shorter and longer than a read, and
  requests up to and beyond the file's length: position, key index and end of file meet in
  every combination.
- *Parser*: files built with the real field widths: no, one or two blocks;
  no, one or two transactions; legacy and segwit; scripts and items of 0 to 2 bytes;
  short and 3-byte counts. They are taken whole, cut at every byte, with one
  record announced too many, and with every single byte replaced by 0, 1, 2, 253 or
  255 (the values at which a length changes its meaning). `AllocLimit = 150` lies
  above every transaction of these files and below the counts the damage makes. One
  file ends in zeros, as one that Bitcoin Core preallocated.
- *Program*: two block files and a text file; the good settings and every way to get one of
  them wrong; one path removed, two runs; room for one or five documents. Two files are
  what "the first failure stops" and "old results stay" need.
- *Database*: two hashes, batches of up to two rows (with none, and with the same key twice), three inserts: a batch, its retry
  and another one that shares a key.
- *Scripts*: every template with two or three payloads, and scripts that miss one by
  a byte; two outputs and one input are what the properties relate.
- *Queries*: three hashes, and for each two rows of which one can be stored, with as many inputs as
  outputs or not, with plain and empty addresses and such that need quotes: every
  table of up to three rows, every range and amount. Array texts: every list of up to two texts of
  up to two characters of each kind the server or the parser treats specially.
- *Logger*: five days (`MaxDay`), a company and none, three files kept by the sink of `Init`
  and two by that of `setCompany` (6 and 5 in the code): queues fill up, overflow, and
  are rebuilt from what a restart, a switch there and back or a day without
  records left. Levels below, at and above the limit of the check.
- *Codec*: regrouping bits and the Bech32 checksum are affine over the field of two
  elements, so the programs with at most one 1 bit decide all programs of their length.
  Base58 gets every number of leading zeros and the bytes around 58 and 256.

### Fairness

`parse_files` and `app` assume weak fairness of the program's own steps: a
single-threaded process that can run is run. `transaction_db` assumes it of the
steps of an insert under way only (`InsertStep`): the server answers a statement it need not
hold up, and the driver notices a lost session. Nothing is assumed of users, other programs,
other clients, of the end of their transactions, or of the loss of a session: `InsertReturns`
therefore says that an insert returns *provided* it does not wait for ever (`<>[](~ Blocked)`).
Without that premise it is false, for one client that never ends its transaction stops every insert
of the same key.

## Proofs

Every theorem holds for all values of the constants under the named assumptions
of the modules (`AllocLimitAssumption`: a vector holds at least a header;
`ImagesAssumption`: files and keys are bytes; `ScriptsAssumption`, the same of scripts; `AppAssumption`; `LoggerAssumption`: at least one file is kept and one
day modelled, levels are numbers; `RowsAssumption` and `ListsAssumption` of `TransactionQueries`: what is
stored has the types of the columns; and the assumption of
`TransactionDb` that batches are sequences of hashes).

- **Reader** (`BitcoinReader_proofs`, `ReaderCalls_proofs`). The inductive
  invariant is `TypeOK /\ CacheCoherent /\ FailedOnlyAtEnd`: coherence alone is not
  inductive, because `isEof` sets `eof` without moving, and the next read fails with
  the cached position still that of the stream only if nothing was left. Each
  operation's effect is a lemma (`ReadDataGives`, ...) cited by reader and parser
  proofs. `ReaderImplementsByteSource` maps each call to one step of `ByteSource`; its
  heart is that decoding a slice with the key index of its start is slicing the
  decoded file.
- **Parser** (`BlockFileParser_proofs`). The invariant adds to `TypeOK` and the
  tiling of the finished blocks where the block under way stands at each label
  (`BlockUnderway`), where the transaction under way began and ended (`TxUnderway`), and that the
  reader is usable whenever the parser runs (`ReaderUsable`). It gives
  `ReaderStaysCoherent`, `BlocksFollowOneAnother` and the action property
  `ParserNeverGoesBack`.
- **Layout** (second part of `BlockFileParser_proofs`, on top of the former). What a finished block holds
  says nothing of the block under way, so `TransactionsTile`, `FieldsTile` and
  `PayloadsExact` are far from inductive. `Layout` says for the file, at every label, how
  far the transaction and the block under way have been read, that each part read so far
  is complete (`InputsRead`, `OutputsRead`, `StacksRead`, `AllRead`, `TxsRead`), and that the
  reader stands where this part ends. The counts are not only remembered but are still
  those of the file (`CountIs`): after `GetCurrentTransactionHash` has gone back to the
  start and forward again, the reader must stand where the transaction ended. From it:
  `BlocksAreTiledByTransactions`, `TransactionsAreTiledByFields`, `PayloadsHaveTheirLengths`.
- **Grammar** (third part of `BlockFileParser_proofs`, on top of both). `ParserReturnsTheBlocks` compares two
  descriptions that go opposite ways: the parser reads forward and knows how much it has
  read, the grammar says from where a part begins where it ends. The invariant that joins
  them, `ToCome`, says at every function that what the grammar has still to find of the part
  under way begins where the reader stands: at `txIn`, say, that the inputs of the transaction
  end where the remaining `inCount - Len(vin)` inputs from here end. A read of one
  more part takes one from both (`OneRead`), and one that fails leaves the grammar without
  an end (`OneMissing`, `TxMissingRefused`), so that where the parser gave up there is no
  block. It needs `Layout`, for the rewind of `GetCurrentTransactionHash`, and that parser and
  grammar decode numbers alike (`NumbersAgree`, `PlaceCount`).
  A list of parts is a recursive function; that it has a value (`RunExists`), and that
  one more part may be taken in front as well as behind (`RepeatFront`, `RepeatBack`), are
  inductions over the count, made with the least element of a set of naturals (`AllNaturals`),
  since the provers cannot use the library's induction theorems.
- **Documents** (fourth part of `BlockFileParser_proofs`). `DocumentsAreComplete` needs no
  invariant of its own: `Layout` says where every part of a returned block lies, that every
  count left out of the document was read there, and which bytes were hashed (`HashedWhole`). The lemmas are about
  one notion, `Says(p, q, marks, s)`: the text `s` is the bytes of the file from `p` up to `q`
  but those of the counts that begin at the marks, which lie in between. An integer, hash,
  time or hexadecimal text says its bytes (`IntegerSays`, `HashSays`, `TimeSays`, `TextSays`), a witness item turned round its own (`ItemSays`), texts of
  adjoining parts may be joined (`SaysThen`, `SaysSkip` past a count) and so may lists of any
  length (`SaysList`); so does an input, an output, a stack, a transaction, a header, a block
  (`InputSays` to `BlockSays`). The date is read back exactly for all 32-bit times (`TimeRoundTrip`):
  every day is in one year and one month (`YearOfDay`, `MonthOfDay`), leap years and 2100 included.
  That the last block ends within the file (`BlocksInFile`) comes from `BlocksTile`.
- **Program** (`BtcParserApp_proofs`). `Progress` says what is true of the files
  before, at and behind `next` at every label. From it: `SuccessMeansComplete`,
  `FirstFailureStops`, `OldResultsStay`.
- **Database** (`TransactionDb_proofs`). The promises about finished inserts are
  inductive only together with what is true of the unfinished ones: the insert under way has
  stored nothing (`NothingYet`), and a batch whose commit is in doubt lies whole in `pending`, has
  no row in the table and was answered with an exception (`InDoubt`), so that the server can only
  store all of it, and of no batch that was refused (`ServerStep`). From it:
  `AcknowledgedStays`, `RefusedLeavesNothing`, `Atomicity`. That no key is stored twice is the
  server's primary key and is assumed.
- **Queries** (`TransactionQueries_proofs`). `TypeCorrect` needs that the table is finite
  (`IInv`), for a sequence of its rows to have a length. `ReadBack` and `Finds` rest on one
  lemma about texts, `ArrayReadBack`: a list of any texts is read back as it was sent exactly
  when no text in it has a comma, a quote or a backslash. It follows a text on its way
  out and back: what `array_out` makes of it (`EscapedKind`, `EscapedPlain`, `ElementKind`), the
  elements joined by commas (`JoinedHolds`: where each element lies in the whole), the cut at the
  commas, which gives the elements back when they have none (`PiecesOfJoined`) and never
  anything with a comma (`PiecesHaveNoComma`), and the quotes taken off (`ElementRead`), after which
  an escaped sign is still one too many (`ElementMarked`). `Finds` adds that every
  find function is one `Called`: what its query text selects is what it is documented to look
  for (`FindIsCall`), the `ANY` over both address columns included (`AnyIsPays`), and `one_row`
  throws away nothing because the hash is the key (`OneRowIs`). The recursive functions behind
  `FlattenSeq` and `Pieces` have values by induction over a length (`FlatExists`, `PiecesExist`).
- **Addresses** (`ScriptAddresses_proofs`). The invariant says that every record holds the
  address of its own script; the rest is about scripts of any bytes. `AddressesAreInjective`:
  kind, version and payload length tell the template, the template and the payload
  tell the script (`AddressSaysScript`). `SpendersAreRecognised`: the key found behind a
  signature is the key that was pushed (`KeyFound`), whose hash is the payload of the
  script that pays to it (`PaysToHash`). It needs of the hash only that it has 20 bytes
  (`Hash160Assumption`), and that such an input is never taken for a redeem script.
- **Log** (`Logger_proofs`). The invariant `IInv` adds to `TypeOK` and
  `RecordsReachTheirFile` that there is one file sink or none (`OneSink`) and no file of
  a day to come, and says of the sink (`SinkKept`): a closed file is tried again with the next
  record, and an open one is that of the day before the rotation, or of two days before it when
  midnight passed while it was opened; the queue lists files that are on disk, oldest first;
  every file from `since` on is in the queue or counted as `leaked`. What one record
  does to the sink and its files, whatever fails, is one lemma (`SinkItKept`), and so is the sink
  made at a start or switch (`NewSinkKept`). From it: `LoggerTypes`,
  `EveryRecordReachesItsFile`, `DiskUseIsBounded` (the files counted are values of the
  queue) and the action property `NewestFilesAreKept` (the queue after the deletion, which is full
  and ascending, maps one-to-one into the newer files). `QueueFound` needs that the
  `CHOOSE` of `InitFilenames` has a value: an induction over the days, made with a least
  element too (`LeastOfSet`).

Only model-checked: the liveness properties (`Terminates`, `Ends`,
`InsertReturns`), since the prover has neither fairness nor `ENABLED`; and
`AddressCodec` with its round trips and checksums: each is about what recursive
functions over two arguments compute for every input, where the lemmas on lists
used elsewhere do not reach; its instance has every number of leading zeros and every
single bit instead.

## Where code and documents disagree

Shown by a run: the *violation* runs above; each is a finding of `PROJECT.json` with
the line it contradicts.

- `parser_txid`: `TransactionParser.cpp:434` against `notes.txt:15`.
- `parser_throws`: `TransactionParser.cpp:37`, and likewise 201, 290, 385, call `reserve` with
  a count from the file; `BlockFileParser.cpp:25` promises an `AppErrorCode`. (`wmain` catches it.)
- `app_printed`: `main.cpp:111` to 120 never look at the stream they report on.
- `db_wallet`: `database/PostgreQueryCommands.cpp:127` against `ITransactionDatabase.h:75`.

Seen while modelling, without a run: each of the first six is one step of the model, with
the outcome the code has and not the one the comment promises.

- `Config.cpp:24`: a JSON error, a value that is no string, or a file gone since it was looked for
  leaves `Config::init` as an exception that nobody catches (exit `"terminated"`); `Config.cpp:13`
  promises the first error's code.
- `main.cpp:110`: directory and file name are joined without a separator, so without a final one
  the results lie beside the `OutputDirectory` of `src/README.md:101` (`Place`).
- `database/TransactionsDbPostgreSql.cpp:33`: `connect` throws `broken_connection` where its comment
  promises `false` (`Connect`).
- `database/TransactionsDbPostgreSql.cpp:52`: `isConnected` before the first successful `connect` reads
  through a null pointer (`Crash`); lines 47-48 promise `false` then.
- `Logger.cpp:223`: the check admits 6, `LOG_TYPE_MAX`, which `Logger.hpp:29` says is "not a log
  level" (`IsLogLevelValid`).
- `TransactionScriptParser.cpp:301`: an input script without a key, such as two zero bytes, gets the
  address of the empty key where the comments (lines 200, 290) promise `"Unknown"`. An input that begins
  with an empty push and two signatures, as one that spends a multi-signature output does, gets the
  address of its first signature in the same way (`DecodeScriptSigP2PKH`).
- `Config.cpp:91`: a path that does not exist is refused for `XorDirectory`, also the empty
  one; `src/README.md:100` says to leave it empty for clear files.
- `database/TransactionsDbPostgreSql.cpp:326`: a statement the server refuses answers like one
  that finds nothing.
- `Logger.cpp:24`: `Init` writes the level to the registry and
  ignores whether it could; no code reads it back into the logger.
- `Logger.cpp:193`: when the file of the new company cannot be opened, the old sink is
  already gone and the logger goes on without a file.
- `Logger.cpp:33` says "keep up to kMaxLogFiles": a day without records ends the run of
  files the queue starts with, and older files stay for ever; and `Logger.cpp:199`
  keeps 5 files for a company where `kMaxLogFiles` is 6.
- `daily_file_sink.h:91` and 93 read the clock twice: when midnight passes in between, the
  records of the new day go to the old day's file until the next midnight.

## Not modelled, and why

- The layout of the JSON text (indentation, quotes) and the text printer of
  `BlockPrinter`, which `main.cpp:116` never asks for: formatting.
- The spelling of query texts and the wording of log records. Days of 23 or 25 hours
  (`Logger` counts midnights). The conversions between UTF-8 and UTF-16 in `Utils.cpp`,
  which delegate to the Windows API.
- The legacy `BlockParser` and `ConsoleBlockPrinter`: in no
  build file. `3rd-party`: vendored headers and libraries, far more code than the
  program's own; spdlog's daily file sink is modelled as part of `Logger`, of the rest the
  behaviour relied on is external in the models.

## Plan

1. *Done*: reader, parser, documents, program, database, addresses; their runs; the theorems above.
2. *Done*: `Logger` with spdlog's daily file sink; reading rows back (`TransactionQueries`);
   the grammar the parser is compared with (`BlockFormat`); the addresses of every script proved.
3. *Done*: `TransactionsTile`, `FieldsTile` and `PayloadsExact` of the parser; all
   properties of `Logger` and `TransactionQueries`; `ReturnsTheBlocks`, that parser and
   grammar agree on every file; `DocumentsComplete`, that no byte is lost on the way into JSON.
4. *Prove more*: of `AddressCodec` the type invariant and the round trips.
