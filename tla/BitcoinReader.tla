--------------------------- MODULE BitcoinReader ---------------------------
(***************************************************************************)
(* The two lower layers every parser reads through: FileReader, a wrapper  *)
(* around std::ifstream, and BitcoinReader, which adds a cached read       *)
(* position and the XOR de-obfuscation of Bitcoin Core's blk*.dat files.   *)
(*                                                                         *)
(* A reader object is a record:                                            *)
(*   disk  the bytes of the file, as stored                                *)
(*   key   the 8 bytes of xor.dat, or <<>> when no xor file is configured  *)
(*   pos   the stream's get position                                       *)
(*   eof   the stream's eofbit                                             *)
(*   fail  the stream's failbit; nothing in the code ever clears it        *)
(*   mpos  BitcoinReader::m_readPosition, the cache every parser consults  *)
(*                                                                         *)
(* An operation maps a reader to a result [reader, status, data]: status   *)
(* is "ok", the AppErrorCode returned, or "thrown" when an exception       *)
(* leaves the call; data are the bytes read, or the integer a CompactSize  *)
(* stands for.  std::ifstream is modelled by its documented effect on      *)
(* eofbit, failbit and the get position.                                   *)
(***************************************************************************)
EXTENDS Bytes

CONSTANT
    AllocLimit   \* the most elements a vector can be made to hold: a larger
                 \* resize() or reserve() throws length_error or bad_alloc

(* Every fixed-width read (the longest is an 80-byte header) fits.          *)
ASSUME AllocLimitAssumption == AllocLimit \in 80 .. Huge - 1

KeyBytes == 8                                              \* kXorKeyBytes

Keys == {<<>>} \cup [1 .. KeyBytes -> Byte]

NewReader(disk, key) ==
    [disk |-> disk, key |-> key, pos |-> 0, eof |-> FALSE, fail |-> FALSE, mpos |-> 0]

Good(r) == ~r.eof /\ ~r.fail

Result(r, status, data) == [reader |-> r, status |-> status, data |-> data]

-----------------------------------------------------------------------------
(* BitcoinReader::xorObfuscation: the index of the key byte for the i-th   *)
(* byte of a buffer follows that byte's offset in the file.                *)
KeyIndexInBuffer(offset, i) == ((i - 1) % KeyBytes) + 1                \* mutation

KeyIndex(offset, i) == ((offset + i - 1) % KeyBytes) + 1

Deobfuscate(key, offset, data) ==
    IF key = <<>> THEN data
    ELSE [i \in 1 .. Len(data) |-> Xor(data[i], key[KeyIndex(offset, i)])]

(* The reader after n bytes were delivered.                                *)
Advanced(r, n) == [r EXCEPT !.pos = r.pos + n, !.mpos = r.pos + n]

(* A short read sets eofbit and failbit and leaves the stream at the end   *)
(* of the file; readData returns before it updates the cached position.    *)
ShortReadCached(r) == [r EXCEPT !.eof = TRUE, !.fail = TRUE, !.mpos = -1] \* mutation

ShortRead(r) ==
    [r EXCEPT !.eof = TRUE, !.fail = TRUE,
              !.pos = IF r.pos > Len(r.disk) THEN r.pos ELSE Len(r.disk)]

(* BitcoinReader::readData over FileReader::readBytes.  The buffer is      *)
(* resized after tellg() and before read(); on a stream that is not good   *)
(* both only set failbit.                                                  *)
ReadData(r, n) ==
    CASE n = 0 ->
            Result(r, "ok", <<>>)
      [] n > AllocLimit ->
            Result([r EXCEPT !.fail = r.fail \/ r.eof], "thrown", <<>>)
      [] n \in 1 .. AllocLimit /\ ~Good(r) ->
            Result([r EXCEPT !.fail = TRUE], "FileReadingFailure", <<>>)
      [] n \in 1 .. AllocLimit /\ Good(r) /\ r.pos + n > Len(r.disk) ->
            Result(ShortRead(r), "FileReadingFailure", <<>>)
      [] n \in 1 .. AllocLimit /\ Good(r) /\ r.pos + n <= Len(r.disk) ->
            Result(Advanced(r, n), "ok",
                   Deobfuscate(r.key, r.pos, SubSeq(r.disk, r.pos + 1, r.pos + n)))

(* readDataArray32: the 32 bytes in reverse order.                         *)
ReadArray32(r) ==
    LET res == ReadData(r, 32) IN [res EXCEPT !.data = Reversed(res.data)]

(* The next read of a chain of calls joined by RETURN_IF_UNEXPECTED.       *)
Then(res, n) == IF res.status = "ok" THEN ReadData(res.reader, n) ELSE res

(* readDataCompactSize: a first byte below 0xFD is the value, otherwise it *)
(* announces 2, 4 or 8 more bytes.                                         *)
CompactTail(first) ==
    CASE first < 253 -> 0 [] first = 253 -> 2 [] first = 254 -> 4 [] first > 254 -> 8

CompactValue(first, tail) ==
    CASE first < 253 -> first
      [] first = 253 -> Le16(tail)
      [] first = 254 -> Le32(tail)
      [] first > 254 -> Le64(tail)

ReadCompactSize(r) ==
    LET one  == ReadData(r, 1)
        tail == Then(one, CompactTail(one.data[1]))
    IN  IF tail.status = "ok"
        THEN [tail EXCEPT !.data = CompactValue(one.data[1], tail.data)]
        ELSE tail

ThenCompactSize(res) == IF res.status = "ok" THEN ReadCompactSize(res.reader) ELSE res

(* setReadPosition: seekg() first clears eofbit, then refuses to move a    *)
(* stream whose failbit is set; a position past the end is accepted.  It   *)
(* returns a bool, and every caller turns false into FileError.            *)
MovedUncached(r, p)    == [r EXCEPT !.eof = FALSE, !.pos = p]          \* mutation
MovedKeepingEof(r, p)  == [r EXCEPT !.pos = p, !.mpos = p]             \* mutation

Moved(r, p) == [r EXCEPT !.eof = FALSE, !.pos = p, !.mpos = p]

SetReadPositionClearing(r, p) ==                                       \* mutation
    Result([Moved(r, p) EXCEPT !.fail = FALSE], "ok", <<>>)

SetReadPosition(r, p) ==
    IF r.fail THEN Result([r EXCEPT !.eof = FALSE], "FileError", <<>>)
              ELSE Result(Moved(r, p), "ok", <<>>)

ThenSetReadPosition(res, p) ==
    IF res.status = "ok" THEN [SetReadPosition(res.reader, p) EXCEPT !.data = res.data] ELSE res

(* isEof: eof() and peek() are both evaluated.  peek() sets eofbit at the  *)
(* end, and failbit on a stream that is not good any more.                 *)
AtEofOnlyAfterRead(r) == r.eof               \* mutation: eof() without peek()

AtEof(r) == ~Good(r) \/ r.pos >= Len(r.disk)

AfterIsEof(r) ==
    CASE ~Good(r)                              -> [r EXCEPT !.fail = TRUE]
      [] Good(r) /\ r.pos >= Len(r.disk)       -> [r EXCEPT !.eof = TRUE]
      [] Good(r) /\ ~(r.pos >= Len(r.disk))    -> r
-----------------------------------------------------------------------------
(* What the file says once the obfuscation is undone, whole and from       *)
(* offset p on.                                                            *)
Plain(r) == Deobfuscate(r.key, 0, r.disk)

PlainAt(r, p, n) == Deobfuscate(r.key, p, SubSeq(r.disk, p + 1, p + n))

ReaderType ==
    [disk: Seq(Byte), key: Keys, pos: Nat, eof: BOOLEAN, fail: BOOLEAN, mpos: Nat]

(* What every call keeps: the cached position is the stream's as long as   *)
(* no call failed, and the stream breaks only where no byte is left.       *)
Sound(r) ==
    /\ r \in ReaderType
    /\ ~r.fail => r.mpos = r.pos
    /\ r.fail \/ r.eof => r.pos >= Len(r.disk)
=============================================================================
