------------------------ MODULE BitcoinReader_proofs ------------------------
(***************************************************************************)
(* Lemmas about the operations of BitcoinReader: what one call does to the *)
(* reader and which bytes it delivers, for every file, key and request.    *)
(***************************************************************************)
EXTENDS BitcoinReader, SequenceTheorems, TLAPS

(* The bytes of a reader's file and the types of its other fields.         *)
LEMMA ReaderFields ==
    ASSUME NEW r \in ReaderType
    PROVE  /\ r.disk \in Seq(Byte) /\ Len(r.disk) \in Nat
           /\ r.key \in Keys
           /\ r.pos \in Nat /\ r.mpos \in Nat /\ r.eof \in BOOLEAN /\ r.fail \in BOOLEAN
           /\ AllocLimit \in Nat
BY AllocLimitAssumption DEF ReaderType

(* readData, whatever it is asked for: it keeps the reader sound and the   *)
(* file what it is; it delivers the bytes at the cached position or none.  *)
ReadDataGives(r, n, res) ==
    /\ res = Result(res.reader, res.status, res.data)
    /\ Sound(res.reader)
    /\ res.reader.disk = r.disk /\ res.reader.key = r.key
    /\ r.fail => res.reader.fail
    /\ res.status \in {"ok", "thrown", "FileReadingFailure"}
    /\ res.status = "thrown" => n > AllocLimit /\ res.reader.mpos = r.mpos
    /\ res.status = "FileReadingFailure" =>
          /\ n # 0
          /\ r.fail \/ r.mpos + n > Len(r.disk)
          /\ res.reader.fail
          /\ res.reader.mpos = r.mpos
    /\ res.status = "ok" =>
          /\ n = 0 \/ (~r.fail /\ r.mpos + n <= Len(r.disk))
          /\ n # 0 => ~r.eof
          /\ res.reader.fail = r.fail /\ res.reader.eof = r.eof
          /\ res.reader.mpos = r.mpos + n
          /\ res.data = IF n = 0 THEN <<>> ELSE PlainAt(r, r.mpos, n)

LEMMA ReadDataSound ==
    ASSUME NEW r, Sound(r), NEW n \in Nat
    PROVE  ReadDataGives(r, n, ReadData(r, n))
<1>0. /\ r.disk \in Seq(Byte) /\ Len(r.disk) \in Nat /\ r.pos \in Nat /\ r.mpos \in Nat
      /\ r.eof \in BOOLEAN /\ r.fail \in BOOLEAN /\ AllocLimit \in Nat
  BY ReaderFields DEF Sound
<1>1. CASE n = 0
  BY <1>0, <1>1 DEF ReadData, Result, ReadDataGives
<1>2. CASE n > AllocLimit
  <2>1. ReadData(r, n) = Result([r EXCEPT !.fail = r.fail \/ r.eof], "thrown", <<>>)
    BY <1>0, <1>2 DEF ReadData
  <2> QED BY <1>0, <1>2, <2>1 DEF Result, Sound, ReaderType, ReadDataGives
<1>3. CASE n \in 1 .. AllocLimit /\ ~Good(r)
  <2> DEFINE q == [r EXCEPT !.fail = TRUE]
  <2>1. ReadData(r, n) = Result(q, "FileReadingFailure", <<>>)
    BY <1>0, <1>3 DEF ReadData, Good
  <2>2. /\ q \in ReaderType /\ q.fail /\ q.mpos = r.mpos /\ q.pos = r.pos
        /\ q.disk = r.disk /\ q.key = r.key
    BY DEF Sound, ReaderType
  <2>3. r.pos >= Len(r.disk) /\ (r.fail \/ r.mpos + n > Len(r.disk))
    BY <1>0, <1>3 DEF Sound, Good
  <2>4. Sound(q)
    BY <2>2, <2>3 DEF Sound
  <2> HIDE DEF q
  <2> QED BY <1>0, <1>3, <2>1, <2>2, <2>3, <2>4 DEF Result, ReadDataGives
<1>4. CASE n \in 1 .. AllocLimit /\ Good(r) /\ r.pos + n > Len(r.disk)
  <2> DEFINE q == ShortRead(r)
  <2>1. ReadData(r, n) = Result(q, "FileReadingFailure", <<>>)
    BY <1>0, <1>4 DEF ReadData, Good
  <2>2. /\ q \in ReaderType /\ q.fail /\ q.mpos = r.mpos /\ q.pos >= Len(r.disk)
        /\ q.disk = r.disk /\ q.key = r.key
    <3>1. (IF r.pos > Len(r.disk) THEN r.pos ELSE Len(r.disk)) \in Nat
      BY <1>0
    <3>2. q.pos = (IF r.pos > Len(r.disk) THEN r.pos ELSE Len(r.disk))
      BY DEF ShortRead, Sound, ReaderType
    <3>3. q \in ReaderType
      BY <3>1 DEF ShortRead, Sound, ReaderType
    <3>4. q.fail /\ q.mpos = r.mpos /\ q.disk = r.disk /\ q.key = r.key
      BY DEF ShortRead, Sound, ReaderType
    <3> QED BY <1>0, <3>2, <3>3, <3>4
  <2>3. Sound(q)
    BY <2>2 DEF Sound
  <2>4. r.mpos = r.pos
    BY <1>0, <1>4 DEF Sound, Good
  <2> HIDE DEF q
  <2> QED BY <1>0, <1>4, <2>1, <2>2, <2>3, <2>4 DEF Result, ReadDataGives
<1>5. CASE n \in 1 .. AllocLimit /\ Good(r) /\ r.pos + n <= Len(r.disk)
  <2> DEFINE q == Advanced(r, n)
             d == PlainAt(r, r.pos, n)
  <2>1. ReadData(r, n) = Result(q, "ok", d)
    BY <1>0, <1>5 DEF ReadData, PlainAt, Good
  <2>2. /\ q \in ReaderType /\ q.fail = r.fail /\ q.eof = r.eof
        /\ q.mpos = r.pos + n /\ q.pos = r.pos + n
        /\ q.disk = r.disk /\ q.key = r.key
    <3>1. r.pos + n \in Nat
      BY <1>0
    <3> QED BY <3>1 DEF Sound, ReaderType, Advanced
  <2>3. r.mpos = r.pos /\ ~r.fail /\ ~r.eof
    BY <1>0, <1>5 DEF Sound, Good
  <2>4. Sound(q)
    BY <2>2, <2>3 DEF Sound
  <2>5. d = PlainAt(r, r.mpos, n)
    BY <2>3
  <2> HIDE DEF q, d
  <2> QED BY <1>0, <1>5, <2>1, <2>2, <2>3, <2>4, <2>5 DEF Result, ReadDataGives
<1> QED BY <1>0, <1>1, <1>2, <1>3, <1>4, <1>5

-----------------------------------------------------------------------------
(* De-obfuscation yields bytes, and where it starts makes no difference:   *)
(* the plain bytes from offset p on are a segment of the plain file.       *)
LEMMA XorBitValues ==
    ASSUME NEW a \in Nat, NEW b \in Nat, NEW w \in {1, 2, 4, 8, 16, 32, 64, 128}
    PROVE  XorBit(a, b, w) \in {0, w}
<1>1. a \div w \in Int /\ b \div w \in Int
  OBVIOUS
<1> DEFINE q == (a \div w) + (b \div w)
<1>2. q \in Int
  BY <1>1
<1> HIDE DEF q
<1>3. q % 2 \in {0, 1}
  BY <1>2
<1>4. (q % 2) * w \in {0, w}
  BY <1>3
<1> QED BY <1>4 DEF XorBit, q

LEMMA XorIsByte ==
    ASSUME NEW a \in Byte, NEW b \in Byte
    PROVE  Xor(a, b) \in Byte
<1>1. a \in Nat /\ b \in Nat
  BY DEF Byte
<1>2. /\ XorBit(a, b, 1) \in {0, 1}   /\ XorBit(a, b, 2) \in {0, 2}
      /\ XorBit(a, b, 4) \in {0, 4}   /\ XorBit(a, b, 8) \in {0, 8}
      /\ XorBit(a, b, 16) \in {0, 16} /\ XorBit(a, b, 32) \in {0, 32}
      /\ XorBit(a, b, 64) \in {0, 64} /\ XorBit(a, b, 128) \in {0, 128}
  BY <1>1, XorBitValues
<1> QED BY <1>2 DEF Xor, Byte

LEMMA DeobfuscateIsBytes ==
    ASSUME NEW key \in Keys, NEW p \in Nat, NEW s \in Seq(Byte)
    PROVE  /\ Deobfuscate(key, p, s) \in Seq(Byte)
           /\ Len(Deobfuscate(key, p, s)) = Len(s)
           /\ key # <<>> => \A i \in 1 .. Len(s) :
                 Deobfuscate(key, p, s)[i] = Xor(s[i], key[KeyIndex(p, i)])
<1>1. CASE key = <<>>
  BY <1>1 DEF Deobfuscate
<1>2. CASE key # <<>>
  <2>1. key \in [1 .. KeyBytes -> Byte]
    BY <1>2 DEF Keys
  <2>2. \A i \in 1 .. Len(s) : KeyIndex(p, i) \in 1 .. KeyBytes
    BY DEF KeyIndex, KeyBytes
  <2>3. \A i \in 1 .. Len(s) : Xor(s[i], key[KeyIndex(p, i)]) \in Byte
    BY <2>1, <2>2, XorIsByte
  <2>4. Deobfuscate(key, p, s) = [i \in 1 .. Len(s) |-> Xor(s[i], key[KeyIndex(p, i)])]
    BY <1>2 DEF Deobfuscate
  <2>5. Deobfuscate(key, p, s) \in [1 .. Len(s) -> Byte]
    BY <2>3, <2>4
  <2>6. Len(s) \in Nat
    OBVIOUS
  <2>7. Deobfuscate(key, p, s) \in Seq(Byte) /\ Len(Deobfuscate(key, p, s)) = Len(s)
    BY <2>5, <2>6
  <2> QED BY <2>4, <2>7
<1> QED BY <1>1, <1>2

LEMMA Segment ==
    ASSUME NEW q \in Seq(Byte), NEW p \in Nat, NEW n \in Nat, p + n <= Len(q)
    PROVE  /\ SubSeq(q, p + 1, p + n) \in Seq(Byte)
           /\ Len(SubSeq(q, p + 1, p + n)) = n
           /\ \A i \in 1 .. n : SubSeq(q, p + 1, p + n)[i] = q[p + i]
<1>1. \A i \in p + 1 .. p + n : q[i] \in Byte
  OBVIOUS
<1>2. p + 1 \in Int /\ p + n \in Int
  OBVIOUS
<1> DEFINE s == SubSeq(q, p + 1, p + n)
<1>3. /\ s \in Seq(Byte)
      /\ Len(s) = IF p + 1 <= p + n THEN (p + n) - (p + 1) + 1 ELSE 0
      /\ \A i \in 1 .. (p + n) - (p + 1) + 1 : s[i] = q[(p + 1) + i - 1]
  BY <1>1, <1>2, SubSeqProperties, SMTT(30)
<1> HIDE DEF s
<1>4. /\ s \in Seq(Byte)
      /\ Len(s) = n
      /\ \A i \in 1 .. n : s[i] = q[p + i]
  BY <1>3
<1> QED BY <1>4 DEF s

LEMMA PlainAtIsSubSeq ==
    ASSUME NEW r \in ReaderType, NEW p \in Nat, NEW n \in Nat, p + n <= Len(r.disk)
    PROVE  /\ PlainAt(r, p, n) = SubSeq(Plain(r), p + 1, p + n)
           /\ PlainAt(r, p, n) \in Seq(Byte)
           /\ Len(PlainAt(r, p, n)) = n
<1>0. r.disk \in Seq(Byte) /\ Len(r.disk) \in Nat /\ r.key \in Keys
  BY ReaderFields
<1> DEFINE s == SubSeq(r.disk, p + 1, p + n)
           t == SubSeq(Plain(r), p + 1, p + n)
<1>1. /\ s \in Seq(Byte) /\ Len(s) = n
      /\ \A i \in 1 .. n : s[i] = r.disk[p + i]
  BY <1>0, Segment
<1>2. /\ Plain(r) \in Seq(Byte) /\ Len(Plain(r)) = Len(r.disk)
      /\ r.key # <<>> => \A i \in 1 .. Len(r.disk) :
            Plain(r)[i] = Xor(r.disk[i], r.key[KeyIndex(0, i)])
  BY <1>0, DeobfuscateIsBytes DEF Plain
<1>3. /\ t \in Seq(Byte) /\ Len(t) = n
      /\ \A i \in 1 .. n : t[i] = Plain(r)[p + i]
  BY <1>0, <1>2, Segment
<1>4. /\ PlainAt(r, p, n) \in Seq(Byte) /\ Len(PlainAt(r, p, n)) = n
      /\ r.key # <<>> => \A i \in 1 .. n :
            PlainAt(r, p, n)[i] = Xor(s[i], r.key[KeyIndex(p, i)])
  <2>1. PlainAt(r, p, n) = Deobfuscate(r.key, p, s)
    BY DEF PlainAt
  <2> HIDE DEF s, t
  <2>2. /\ Deobfuscate(r.key, p, s) \in Seq(Byte) /\ Len(Deobfuscate(r.key, p, s)) = Len(s)
        /\ r.key # <<>> => \A i \in 1 .. Len(s) :
              Deobfuscate(r.key, p, s)[i] = Xor(s[i], r.key[KeyIndex(p, i)])
    <3>1. r.key \in Keys /\ s \in Seq(Byte)
      BY <1>0, <1>1
    <3> QED BY <3>1, DeobfuscateIsBytes, Zenon
  <2> QED BY <1>1, <2>1, <2>2
<1>5. \A i \in 1 .. n : KeyIndex(p, i) = KeyIndex(0, p + i)
  <2>1. ASSUME NEW i \in 1 .. n PROVE p + i - 1 = 0 + (p + i) - 1
    OBVIOUS
  <2> QED BY <2>1 DEF KeyIndex
<1> HIDE DEF s, t
<1>6. CASE r.key = <<>>
  BY <1>4, <1>6 DEF PlainAt, Plain, Deobfuscate
<1>7. CASE r.key # <<>>
  <2>1. \A i \in 1 .. n : p + i \in 1 .. Len(r.disk)
    BY <1>0
  <2>2. \A i \in 1 .. n : PlainAt(r, p, n)[i] = t[i]
    BY <1>1, <1>2, <1>3, <1>4, <1>5, <1>7, <2>1
  <2>3. PlainAt(r, p, n) = t
    BY <1>3, <1>4, <2>2, SeqEqual
  <2> QED BY <1>4, <2>3 DEF t
<1> QED BY <1>6, <1>7

-----------------------------------------------------------------------------
(* Decoded integers are naturals.                                          *)
LEMMA LittleEndianNat ==
    ASSUME NEW s \in Seq(Byte)
    PROVE  /\ Len(s) = 2 => Le16(s) \in Nat
           /\ Len(s) = 4 => Le32(s) \in Nat
           /\ Len(s) = 8 => Le64(s) \in Nat
<1>1. \A i \in 1 .. Len(s) : s[i] \in Nat
  <2>1. \A i \in 1 .. Len(s) : s[i] \in Byte
    BY ElementOfSeq
  <2>2. \A x \in Byte : x \in Nat
    BY DEF Byte
  <2> QED BY <2>1, <2>2
<1>2. ASSUME Len(s) \in {2, 4, 8} PROVE Le16(s) \in Nat
  <2>1. s[1] \in Nat /\ s[2] \in Nat
    BY <1>1, <1>2
  <2> QED BY <2>1 DEF Le16
<1>3. ASSUME Len(s) \in {4, 8} PROVE Le32(s) \in Nat
  <2>1. s[3] \in Nat /\ s[4] \in Nat
    BY <1>1, <1>3
  <2>2. Le16(s) \in Nat
    BY <1>2, <1>3
  <2> QED BY <2>1, <2>2 DEF Le32, Huge
<1>4. ASSUME Len(s) = 8 PROVE Le64(s) \in Nat
  <2>1. Le32(s) \in Nat
    BY <1>3, <1>4
  <2> QED BY <2>1 DEF Le64, Huge
<1> QED BY <1>2, <1>3, <1>4

LEMMA CompactNat ==
    ASSUME NEW b \in Byte
    PROVE  /\ CompactTail(b) \in {0, 2, 4, 8}
           /\ \A s \in Seq(Byte) : Len(s) = CompactTail(b) => CompactValue(b, s) \in Nat
           /\ CompactTail(b) = 0 => \A s, t : CompactValue(b, s) = CompactValue(b, t)
           /\ CompactTail(b) = 0 => \A s : CompactValue(b, s) \in Nat
<1>1. CASE b < 253
  <2>1. CompactTail(b) = 0 /\ b \in Nat
    BY <1>1 DEF Byte, CompactTail
  <2>2. \A s : CompactValue(b, s) = b
    BY <1>1 DEF Byte, CompactValue
  <2> QED BY <2>1, <2>2
<1>2. CASE b = 253
  <2>1. CompactTail(b) = 2
    BY <1>2 DEF CompactTail
  <2>2. \A s : CompactValue(b, s) = Le16(s)
    BY <1>2 DEF CompactValue
  <2> QED BY <2>1, <2>2, LittleEndianNat
<1>3. CASE b = 254
  <2>1. CompactTail(b) = 4
    BY <1>3 DEF CompactTail
  <2>2. \A s : CompactValue(b, s) = Le32(s)
    BY <1>3 DEF CompactValue
  <2> QED BY <2>1, <2>2, LittleEndianNat
<1>4. CASE b = 255
  <2>1. CompactTail(b) = 8
    BY <1>4 DEF CompactTail
  <2>2. \A s : CompactValue(b, s) = Le64(s)
    BY <1>4 DEF CompactValue
  <2> QED BY <2>1, <2>2, LittleEndianNat
<1> QED BY <1>1, <1>2, <1>3, <1>4 DEF Byte

(* The CompactSize integer at offset p of the plain file.                  *)
FirstAt(r, p) == PlainAt(r, p, 1)[1]
WidthAt(r, p) == 1 + CompactTail(FirstAt(r, p))
ValueAt(r, p) == CompactValue(FirstAt(r, p), PlainAt(r, p + 1, CompactTail(FirstAt(r, p))))

LEMMA CompactAtNat ==
    ASSUME NEW r \in ReaderType, NEW p \in Nat, p + 1 <= Len(r.disk)
    PROVE  /\ FirstAt(r, p) \in Byte
           /\ WidthAt(r, p) \in {1, 3, 5, 9}
           /\ p + WidthAt(r, p) <= Len(r.disk) => ValueAt(r, p) \in Nat
<1>0. Len(r.disk) \in Nat
  BY ReaderFields
<1>1. FirstAt(r, p) \in Byte
  BY PlainAtIsSubSeq DEF FirstAt
<1>2. WidthAt(r, p) \in {1, 3, 5, 9}
  BY <1>1, CompactNat DEF WidthAt
<1>3. ASSUME p + WidthAt(r, p) <= Len(r.disk)
      PROVE  ValueAt(r, p) \in Nat
  <2>1. CompactTail(FirstAt(r, p)) \in Nat
    BY <1>1, CompactNat
  <2>2. p + 1 + CompactTail(FirstAt(r, p)) <= Len(r.disk)
    BY <1>0, <1>3, <2>1 DEF WidthAt
  <2>3. /\ PlainAt(r, p + 1, CompactTail(FirstAt(r, p))) \in Seq(Byte)
        /\ Len(PlainAt(r, p + 1, CompactTail(FirstAt(r, p)))) = CompactTail(FirstAt(r, p))
    BY <2>1, <2>2, PlainAtIsSubSeq
  <2> QED BY <1>1, <2>3, CompactNat DEF ValueAt
<1> QED BY <1>1, <1>2, <1>3

LEMMA FirstByte ==
    ASSUME NEW r \in ReaderType, NEW p \in Nat, p + 1 <= Len(r.disk)
    PROVE  FirstAt(r, p) = Plain(r)[p + 1]
<1>1. PlainAt(r, p, 1) = SubSeq(Plain(r), p + 1, p + 1)
  BY PlainAtIsSubSeq
<1>2. Plain(r) \in Seq(Byte) /\ Len(Plain(r)) = Len(r.disk) /\ Len(r.disk) \in Nat
  BY ReaderFields, DeobfuscateIsBytes DEF Plain
<1>3. \A q \in Seq(Byte) : p + 1 <= Len(q) => SubSeq(q, p + 1, p + 1)[1] = q[p + 1]
  <2> SUFFICES ASSUME NEW q \in Seq(Byte), p + 1 <= Len(q)
               PROVE  SubSeq(q, p + 1, p + 1)[1] = q[p + 1]
    OBVIOUS
  <2>1. \A i \in 1 .. 1 : SubSeq(q, p + 1, p + 1)[i] = q[p + i]
    BY Segment
  <2> QED BY <2>1
<1> QED BY <1>1, <1>2, <1>3 DEF FirstAt

(* readDataCompactSize: it delivers the integer at the cached position and *)
(* moves behind it, or fails because the file ends inside it.              *)
LEMMA ReadCompactSizeSound ==
    ASSUME NEW r, Sound(r)
    PROVE  LET res == ReadCompactSize(r) IN
           /\ res = Result(res.reader, res.status, res.data)
           /\ Sound(res.reader)
           /\ res.reader.disk = r.disk /\ res.reader.key = r.key
           /\ r.fail => res.reader.fail
           /\ res.status \in {"ok", "FileReadingFailure"}
           /\ res.status = "FileReadingFailure" =>
                 /\ res.reader.fail
                 /\ \/ /\ r.fail \/ r.mpos + 1 > Len(r.disk)
                       /\ res.reader.mpos = r.mpos
                    \/ /\ ~r.fail /\ r.mpos + 1 <= Len(r.disk)
                       /\ r.mpos + WidthAt(r, r.mpos) > Len(r.disk)
                       /\ res.reader.mpos = r.mpos + 1
           /\ res.status = "ok" =>
                 /\ ~r.fail /\ ~r.eof /\ ~res.reader.fail /\ ~res.reader.eof
                 /\ r.mpos + 1 <= Len(r.disk)
                 /\ r.mpos + WidthAt(r, r.mpos) <= Len(r.disk)
                 /\ res.reader.mpos = r.mpos + WidthAt(r, r.mpos)
                 /\ res.data = ValueAt(r, r.mpos)
                 /\ res.data \in Nat
<1> DEFINE one  == ReadData(r, 1)
           res  == ReadCompactSize(r)
           k    == CompactTail(one.data[1])
           tail == ReadData(one.reader, k)
<1>0. r \in ReaderType /\ r.mpos \in Nat /\ Len(r.disk) \in Nat
      /\ AllocLimit \in Nat /\ AllocLimit >= 80
  BY ReaderFields, AllocLimitAssumption DEF Sound
<1>1. /\ one = Result(one.reader, one.status, one.data)
      /\ Sound(one.reader)
      /\ one.reader.disk = r.disk /\ one.reader.key = r.key
      /\ r.fail => one.reader.fail
      /\ one.status \in {"ok", "FileReadingFailure"}
      /\ one.status = "FileReadingFailure" =>
            /\ r.fail \/ r.mpos + 1 > Len(r.disk)
            /\ one.reader.fail /\ one.reader.mpos = r.mpos
      /\ one.status = "ok" =>
            /\ ~r.fail /\ r.mpos + 1 <= Len(r.disk) /\ ~r.eof
            /\ one.reader.fail = r.fail /\ one.reader.eof = r.eof
            /\ one.reader.mpos = r.mpos + 1
            /\ one.data = PlainAt(r, r.mpos, 1)
  <2>1. ReadDataGives(r, 1, one)
    BY ReadDataSound
  <2> HIDE DEF one
  <2> QED BY <1>0, <2>1 DEF ReadDataGives
<1> HIDE DEF one
<1>2. CASE one.status # "ok"
  <2>1. res = one
    BY <1>2 DEF ReadCompactSize, Then, one
  <2> QED BY <1>1, <1>2, <2>1
<1>3. CASE one.status = "ok"
  <2>1. /\ FirstAt(r, r.mpos) = one.data[1] /\ one.data[1] \in Byte
        /\ k \in {0, 2, 4, 8} /\ WidthAt(r, r.mpos) = 1 + k
    BY <1>0, <1>1, <1>3, CompactAtNat, CompactNat DEF FirstAt, WidthAt
  <2> HIDE DEF k
  <2>2. /\ tail = Result(tail.reader, tail.status, tail.data)
        /\ Sound(tail.reader)
        /\ tail.reader.disk = r.disk /\ tail.reader.key = r.key
        /\ tail.status \in {"ok", "FileReadingFailure"}
        /\ tail.status = "FileReadingFailure" =>
              /\ r.mpos + 1 + k > Len(r.disk)
              /\ tail.reader.fail /\ tail.reader.mpos = r.mpos + 1
        /\ tail.status = "ok" =>
              /\ k = 0 \/ r.mpos + 1 + k <= Len(r.disk)
              /\ ~tail.reader.fail /\ ~tail.reader.eof
              /\ tail.reader.mpos = r.mpos + 1 + k
              /\ tail.data = IF k = 0 THEN <<>> ELSE PlainAt(one.reader, r.mpos + 1, k)
    <3>1. ReadDataGives(one.reader, k, tail)
      BY <1>1, <2>1, ReadDataSound
    <3>2. tail.status # "thrown"
      BY <1>0, <2>1, <3>1 DEF ReadDataGives
    <3> HIDE DEF tail
    <3> QED BY <1>0, <1>1, <1>3, <2>1, <3>1, <3>2 DEF ReadDataGives
  <2>3. PlainAt(one.reader, r.mpos + 1, k) = PlainAt(r, r.mpos + 1, k)
    BY <1>1 DEF PlainAt
  <2> HIDE DEF tail
  <2>4. CASE tail.status # "ok"
    <3>1. res = tail
      BY <1>3, <2>4 DEF ReadCompactSize, Then, one, k, tail
    <3> QED BY <1>0, <1>1, <1>3, <2>1, <2>2, <2>4, <3>1
  <2>5. CASE tail.status = "ok"
    <3>1. res = [tail EXCEPT !.data = CompactValue(one.data[1], tail.data)]
      BY <1>3, <2>5 DEF ReadCompactSize, Then, one, k, tail
    <3>2. /\ res.reader = tail.reader /\ res.status = "ok"
          /\ res.data = CompactValue(one.data[1], tail.data)
          /\ res = Result(res.reader, res.status, res.data)
      <4>1. tail = Result(tail.reader, tail.status, tail.data)
        BY <2>2
      <4> QED BY <2>5, <3>1, <4>1 DEF Result
    <3>3. CompactValue(one.data[1], tail.data) = ValueAt(r, r.mpos)
      <4>1. CASE k = 0
        BY <2>1, <4>1, CompactNat DEF ValueAt, k
      <4>2. CASE k # 0
        <5>1. tail.data = PlainAt(r, r.mpos + 1, k)
          BY <2>2, <2>3, <2>5, <4>2
        <5> QED BY <2>1, <5>1 DEF ValueAt, k
      <4> QED BY <4>1, <4>2
    <3>4. r.mpos + WidthAt(r, r.mpos) <= Len(r.disk)
      BY <1>0, <1>1, <1>3, <2>1, <2>2, <2>5
    <3>5. ValueAt(r, r.mpos) \in Nat
      BY <1>0, <1>1, <1>3, <3>4, CompactAtNat
    <3> QED BY <1>0, <1>1, <1>3, <2>1, <2>2, <2>5, <3>2, <3>3, <3>4, <3>5
  <2> QED BY <2>4, <2>5
<1> QED BY <1>2, <1>3

(* setReadPosition moves a usable reader and leaves a failed one failed.   *)
LEMMA SetReadPositionSound ==
    ASSUME NEW r, Sound(r), NEW p \in Nat
    PROVE  LET res == SetReadPosition(r, p) IN
           /\ Sound(res.reader)
           /\ res.reader.disk = r.disk /\ res.reader.key = r.key
           /\ res.reader.fail = r.fail /\ ~res.reader.eof
           /\ res.status = IF r.fail THEN "FileError" ELSE "ok"
           /\ res.reader.mpos = IF r.fail THEN r.mpos ELSE p
           /\ res = Result(res.reader, res.status, <<>>)
<1>0. r \in ReaderType /\ r.fail \in BOOLEAN
  BY DEF Sound, ReaderType
<1>1. CASE r.fail
  <2> DEFINE q == [r EXCEPT !.eof = FALSE]
  <2>1. SetReadPosition(r, p) = Result(q, "FileError", <<>>)
    BY <1>1 DEF SetReadPosition
  <2>2. /\ q \in ReaderType /\ q.fail = r.fail /\ ~q.eof /\ q.mpos = r.mpos /\ q.pos = r.pos
        /\ q.disk = r.disk /\ q.key = r.key
    BY <1>0 DEF ReaderType
  <2> HIDE DEF q
  <2>3. Sound(q)
    BY <1>1, <2>2 DEF Sound
  <2>4. /\ SetReadPosition(r, p).reader = q /\ SetReadPosition(r, p).status = "FileError"
        /\ SetReadPosition(r, p) = Result(q, "FileError", <<>>)
    BY <2>1 DEF Result
  <2> QED BY <1>0, <1>1, <2>2, <2>3, <2>4
<1>2. CASE ~r.fail
  <2> DEFINE q == Moved(r, p)
  <2>1. SetReadPosition(r, p) = Result(q, "ok", <<>>)
    BY <1>2 DEF SetReadPosition
  <2>2. /\ q \in ReaderType /\ q.fail = r.fail /\ ~q.eof /\ q.mpos = p /\ q.pos = p
        /\ q.disk = r.disk /\ q.key = r.key
    BY <1>0 DEF ReaderType, Moved
  <2> HIDE DEF q
  <2>3. Sound(q)
    BY <1>2, <2>2 DEF Sound
  <2>4. /\ SetReadPosition(r, p).reader = q /\ SetReadPosition(r, p).status = "ok"
        /\ SetReadPosition(r, p) = Result(q, "ok", <<>>)
    BY <2>1 DEF Result
  <2> QED BY <1>0, <1>2, <2>2, <2>3, <2>4
<1> QED BY <1>0, <1>1, <1>2

(* isEof tells the truth: TRUE when no byte is left and only then.  Asked  *)
(* of a reader that has not seen the end yet, it never breaks it.          *)
LEMMA IsEofSound ==
    ASSUME NEW r, Sound(r)
    PROVE  /\ Sound(AfterIsEof(r))
           /\ AfterIsEof(r).disk = r.disk /\ AfterIsEof(r).key = r.key
           /\ AfterIsEof(r).mpos = r.mpos
           /\ r.fail => AfterIsEof(r).fail
           /\ ~r.eof => AfterIsEof(r).fail = r.fail
           /\ AtEof(r) = (r.fail \/ r.mpos >= Len(r.disk))
           /\ ~AtEof(r) => ~AfterIsEof(r).eof /\ ~AfterIsEof(r).fail
<1>0. /\ r \in ReaderType /\ r.fail \in BOOLEAN /\ r.eof \in BOOLEAN
      /\ r.pos \in Nat /\ r.mpos \in Nat /\ Len(r.disk) \in Nat
  BY ReaderFields DEF Sound
<1> DEFINE q == AfterIsEof(r)
<1>1. CASE Good(r)
  <2>1. /\ q \in ReaderType /\ q.eof = (r.pos >= Len(r.disk)) /\ q.fail = r.fail
        /\ q.pos = r.pos /\ q.mpos = r.mpos /\ q.disk = r.disk /\ q.key = r.key
    <3>1. CASE r.pos >= Len(r.disk)
      <4>1. q = [r EXCEPT !.eof = TRUE]
        BY <1>1, <3>1 DEF AfterIsEof
      <4> QED BY <1>0, <3>1, <4>1 DEF ReaderType
    <3>2. CASE ~(r.pos >= Len(r.disk))
      <4>1. q = r
        BY <1>1, <3>2 DEF AfterIsEof
      <4> QED BY <1>0, <1>1, <3>2, <4>1 DEF Good
    <3> QED BY <3>1, <3>2
  <2> HIDE DEF q
  <2>2. Sound(q)
    BY <1>0, <1>1, <2>1 DEF Sound, Good
  <2> QED BY <1>0, <1>1, <2>1, <2>2 DEF Sound, Good, AtEof, q
<1>2. CASE ~Good(r)
  <2>0. q = [r EXCEPT !.fail = TRUE]
    BY <1>2 DEF AfterIsEof
  <2>1. /\ q \in ReaderType /\ q.eof = r.eof /\ q.fail
        /\ q.pos = r.pos /\ q.mpos = r.mpos /\ q.disk = r.disk /\ q.key = r.key
    BY <1>0, <2>0 DEF ReaderType
  <2> HIDE DEF q
  <2>2. Sound(q)
    BY <1>0, <1>2, <2>1 DEF Sound, Good
  <2> QED BY <1>0, <1>2, <2>1, <2>2 DEF Sound, Good, AtEof, q
<1> QED BY <1>1, <1>2

LEMMA NewReaderSound ==
    ASSUME NEW disk \in Seq(Byte), NEW key \in Keys
    PROVE  LET r == NewReader(disk, key) IN
           /\ Sound(r) /\ Good(r) /\ r.mpos = 0 /\ r.disk = disk /\ r.key = key
BY DEF NewReader, Sound, ReaderType, Good
=============================================================================
