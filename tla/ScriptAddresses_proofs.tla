----------------------- MODULE ScriptAddresses_proofs -----------------------
(***************************************************************************)
(* Theorems about ScriptAddresses, for all scripts and every function in   *)
(* the place of the hash.                                                  *)
(*                                                                         *)
(* The invariant says of every record that its address is the one its      *)
(* script gets.  What is to be shown is then about scripts alone: that an  *)
(* address gives back the template and the payload it was made of, and     *)
(* that the two sides of a payment meet in the same hash.                  *)
(***************************************************************************)
EXTENDS ScriptAddresses, SequenceTheorems, TLAPS

Templates(s) == IsP2PKH(s) \/ IsP2SH(s) \/ IsP2WPKH(s) \/ IsP2WSH(s) \/ IsTaproot(s)

(* The templates exclude one another and the scripts that are answered     *)
(* before them.                                                            *)
LEMMA TemplatesExclude ==
    ASSUME NEW s \in Seq(Byte)
    PROVE  /\ Templates(s) => s # <<>> /\ s[1] # OpReturn
           /\ IsP2PKH(s) => ~ IsP2SH(s) /\ ~ IsP2WPKH(s) /\ ~ IsP2WSH(s) /\ ~ IsTaproot(s)
           /\ IsP2SH(s) => ~ IsP2WPKH(s) /\ ~ IsP2WSH(s) /\ ~ IsTaproot(s)
           /\ IsP2WPKH(s) \/ IsP2WSH(s) => ~ IsTaproot(s)
BY DEF Templates, IsP2PKH, IsP2SH, IsP2WPKH, IsP2WSH, IsTaproot, OpDup, OpReturn, OpHash160, Op0, Op1

(* The address of each kind of output.                                     *)
LEMMA P2pkhAddress ==
    ASSUME NEW s \in Seq(Byte), IsP2PKH(s)
    PROVE  OutputAddress(s) = Base58Check(0, SubSeq(s, 4, 23))
BY TemplatesExclude DEF OutputAddress, Templates

LEMMA P2shAddress ==
    ASSUME NEW s \in Seq(Byte), IsP2SH(s)
    PROVE  OutputAddress(s) = Base58Check(5, SubSeq(s, 3, 22))
BY TemplatesExclude DEF OutputAddress, Templates

LEMMA P2wpkhAddress ==
    ASSUME NEW s \in Seq(Byte), IsP2WPKH(s)
    PROVE  OutputAddress(s) = Bech32Encode(0, SubSeq(s, 3, 22))
<1>1. OutputAddress(s) = Bech32Encode(0, SubSeq(s, 3, Len(s)))
  BY TemplatesExclude DEF OutputAddress, Templates
<1> QED
  BY <1>1 DEF IsP2WPKH

LEMMA P2wshAddress ==
    ASSUME NEW s \in Seq(Byte), IsP2WSH(s)
    PROVE  OutputAddress(s) = Bech32Encode(0, SubSeq(s, 3, 34))
<1>1. OutputAddress(s) = Bech32Encode(0, SubSeq(s, 3, Len(s)))
  BY TemplatesExclude DEF OutputAddress, Templates
<1> QED
  BY <1>1 DEF IsP2WSH

LEMMA TaprootAddress ==
    ASSUME NEW s \in Seq(Byte), IsTaproot(s)
    PROVE  OutputAddress(s) = Bech32Encode(1, SubSeq(s, 3, 34))
<1>1. OutputAddress(s) = Bech32Encode(1, SubSeq(s, 3, Len(s)))
  BY TemplatesExclude DEF OutputAddress, Templates
<1> QED
  BY <1>1 DEF IsTaproot

(* Any other script is written as one of the two texts.                    *)
LEMMA OtherAddress ==
    ASSUME NEW s \in Seq(Byte), ~ Templates(s)
    PROVE  OutputAddress(s) \in {Unknown, DataCarrier}
BY DEF OutputAddress, Templates

(* A text tells its payload.                                               *)
LEMMA TextPayload ==
    ASSUME NEW k, NEW v, NEW p, NEW q, Text(k, v, p) = Text(k, v, q)
    PROVE  p = q
<1>1. Text(k, v, p).payload = p /\ Text(k, v, q).payload = q
  BY DEF Text
<1> QED
  BY <1>1

(* What a slice is.                                                        *)
LEMMA Slice ==
    ASSUME NEW s \in Seq(Byte), NEW m \in 1 .. Len(s), NEW n \in m .. Len(s)
    PROVE  /\ Len(SubSeq(s, m, n)) = n - m + 1
           /\ \A i \in m .. n : SubSeq(s, m, n)[i - m + 1] = s[i]
<1>1. m \in Int /\ n \in Int /\ m <= n
  OBVIOUS
<1>2. \A i \in m .. n : s[i] \in Byte
  BY ElementOfSeq
<1>3. /\ Len(SubSeq(s, m, n)) = IF m <= n THEN n - m + 1 ELSE 0
      /\ \A i \in 1 .. n - m + 1 : SubSeq(s, m, n)[i] = s[m + i - 1]
  BY <1>1, <1>2, SubSeqProperties, SMTT(30)
<1> SUFFICES ASSUME NEW i \in m .. n PROVE SubSeq(s, m, n)[i - m + 1] = s[i]
  BY <1>1, <1>3
<1>4. i - m + 1 \in 1 .. n - m + 1 /\ m + (i - m + 1) - 1 = i
  OBVIOUS
<1> QED
  BY <1>3, <1>4

(* Two sequences with the same slice agree on it.                          *)
LEMMA SlicesEqual ==
    ASSUME NEW s \in Seq(Byte), NEW t \in Seq(Byte), NEW m \in 1 .. Len(s), NEW n \in m .. Len(s),
           n <= Len(t), SubSeq(s, m, n) = SubSeq(t, m, n)
    PROVE  \A i \in m .. n : s[i] = t[i]
  BY Slice

(* The length of a payload.                                                *)
LEMMA PayloadLengths ==
    ASSUME NEW s \in Seq(Byte)
    PROVE  /\ Len(s) = 22 => Len(SubSeq(s, 3, 22)) = 20
           /\ Len(s) = 34 => Len(SubSeq(s, 3, 34)) = 32
BY Slice

(* Encoding and version of the address of each template.                   *)
LEMMA AddressFields ==
    ASSUME NEW s \in Seq(Byte)
    PROVE  /\ IsP2PKH(s) => OutputAddress(s).kind = "base58" /\ OutputAddress(s).version = 0
           /\ IsP2SH(s) => OutputAddress(s).kind = "base58" /\ OutputAddress(s).version = 5
           /\ IsP2WPKH(s) \/ IsP2WSH(s) =>
                 OutputAddress(s).kind = "bech32" /\ OutputAddress(s).version = 0
           /\ IsTaproot(s) => OutputAddress(s).kind = "bech32" /\ OutputAddress(s).version = 1
<1>1. \A v, p : Base58Check(v, p).kind = "base58" /\ Base58Check(v, p).version = v
  BY DEF Base58Check, Text
<1>2. \A v, p : Bech32Encode(v, p).kind = "bech32" /\ Bech32Encode(v, p).version = v
  BY DEF Bech32Encode, Text
<1>3. CASE IsP2PKH(s)
  BY <1>1, <1>3, P2pkhAddress, TemplatesExclude
<1>4. CASE IsP2SH(s)
  BY <1>1, <1>4, P2shAddress, TemplatesExclude
<1>5. CASE IsP2WPKH(s)
  BY <1>2, <1>5, P2wpkhAddress, TemplatesExclude
<1>6. CASE IsP2WSH(s)
  BY <1>2, <1>6, P2wshAddress, TemplatesExclude
<1>7. CASE IsTaproot(s)
  BY <1>2, <1>7, TaprootAddress, TemplatesExclude
<1> QED
  BY <1>3, <1>4, <1>5, <1>6, <1>7

(* An address that is one comes from a template, and the same address      *)
(* comes from the same script.                                             *)
LEMMA AddressSaysScript ==
    ASSUME NEW s \in Seq(Byte), NEW t \in Seq(Byte), OutputAddress(s) = OutputAddress(t),
           OutputAddress(s).kind \in {"base58", "bech32"}
    PROVE  s = t
<1>1. Templates(s) /\ Templates(t)
  <2>1. Unknown.kind = "Unknown" /\ DataCarrier.kind = "OP_RETURN"
    BY DEF Unknown, DataCarrier, Text
  <2> QED
    BY <2>1, OtherAddress
<1>2. CASE IsP2PKH(s)
  <2>1. OutputAddress(s) = Text("base58", 0, SubSeq(s, 4, 23))
    BY <1>2, P2pkhAddress DEF Base58Check
  <2>2. OutputAddress(t).kind = "base58" /\ OutputAddress(t).version = 0
    BY <2>1 DEF Text
  <2>3. IsP2PKH(t)
    BY <2>2, <1>1, AddressFields DEF Templates
  <2>4. OutputAddress(t) = Text("base58", 0, SubSeq(t, 4, 23))
    BY <2>3, P2pkhAddress DEF Base58Check
  <2>5. SubSeq(s, 4, 23) = SubSeq(t, 4, 23)
    BY <2>1, <2>4, TextPayload
  <2>6. Len(s) = 25 /\ Len(t) = 25
    BY <1>2, <2>3 DEF IsP2PKH
  <2>7. \A i \in 4 .. 23 : s[i] = t[i]
    <3>1. 4 \in 1 .. Len(s) /\ 23 \in 4 .. Len(s) /\ 23 <= Len(t)
      BY <2>6
    <3> QED
      BY <2>5, <3>1, SlicesEqual
  <2>8. \A i \in 1 .. Len(s) : s[i] = t[i]
    <3>1. s[1] = t[1] /\ s[2] = t[2] /\ s[3] = t[3] /\ s[24] = t[24] /\ s[25] = t[25]
      BY <1>2, <2>3 DEF IsP2PKH
    <3>2. \A i \in 1 .. Len(s) : i = 1 \/ i = 2 \/ i = 3 \/ i = 24 \/ i = 25 \/ i \in 4 .. 23
      BY <2>6
    <3> QED
      BY <2>7, <3>1, <3>2
  <2> QED
    BY <2>6, <2>8, SeqEqual
<1>3. CASE IsP2SH(s)
  <2>1. OutputAddress(s) = Text("base58", 5, SubSeq(s, 3, 22))
    BY <1>3, P2shAddress DEF Base58Check
  <2>2. OutputAddress(t).kind = "base58" /\ OutputAddress(t).version = 5
    BY <2>1 DEF Text
  <2>3. IsP2SH(t)
    BY <2>2, <1>1, AddressFields DEF Templates
  <2>4. OutputAddress(t) = Text("base58", 5, SubSeq(t, 3, 22))
    BY <2>3, P2shAddress DEF Base58Check
  <2>5. SubSeq(s, 3, 22) = SubSeq(t, 3, 22)
    BY <2>1, <2>4, TextPayload
  <2>6. Len(s) = 23 /\ Len(t) = 23
    BY <1>3, <2>3 DEF IsP2SH
  <2>7. \A i \in 3 .. 22 : s[i] = t[i]
    <3>1. 3 \in 1 .. Len(s) /\ 22 \in 3 .. Len(s) /\ 22 <= Len(t)
      BY <2>6
    <3> QED
      BY <2>5, <3>1, SlicesEqual
  <2>8. \A i \in 1 .. Len(s) : s[i] = t[i]
    <3>1. s[1] = t[1] /\ s[2] = t[2] /\ s[23] = t[23]
      BY <1>3, <2>3 DEF IsP2SH
    <3>2. \A i \in 1 .. Len(s) : i = 1 \/ i = 2 \/ i = 23 \/ i \in 3 .. 22
      BY <2>6
    <3> QED
      BY <2>7, <3>1, <3>2
  <2> QED
    BY <2>6, <2>8, SeqEqual
<1>4. CASE IsP2WPKH(s)
  <2>1. OutputAddress(s) = Text("bech32", 0, SubSeq(s, 3, 22))
    BY <1>4, P2wpkhAddress DEF Bech32Encode
  <2>2. OutputAddress(t).kind = "bech32" /\ OutputAddress(t).version = 0
    BY <2>1 DEF Text
  <2>3. IsP2WPKH(t)
    <3>1. IsP2WPKH(t) \/ IsP2WSH(t)
      BY <2>2, <1>1, AddressFields DEF Templates
    <3>2. ASSUME IsP2WSH(t) PROVE FALSE
      <4>1. OutputAddress(t) = Text("bech32", 0, SubSeq(t, 3, 34))
        BY <3>2, P2wshAddress DEF Bech32Encode
      <4>2. SubSeq(s, 3, 22) = SubSeq(t, 3, 34)
        BY <2>1, <4>1, TextPayload
      <4>3. Len(s) = 22 /\ Len(t) = 34
        BY <1>4, <3>2 DEF IsP2WPKH, IsP2WSH
      <4>4. Len(SubSeq(s, 3, 22)) = 20
        BY <4>3, PayloadLengths
      <4>5. Len(SubSeq(t, 3, 34)) = 32
        BY <4>3, PayloadLengths
      <4>6. Len(SubSeq(s, 3, 22)) = Len(SubSeq(t, 3, 34))
        BY <4>2, Zenon
      <4>7. 20 = 32
        BY <4>4, <4>5, <4>6, Zenon
      <4> QED
        BY <4>7
    <3> QED
      BY <3>1, <3>2
  <2>4. OutputAddress(t) = Text("bech32", 0, SubSeq(t, 3, 22))
    BY <2>3, P2wpkhAddress DEF Bech32Encode
  <2>5. SubSeq(s, 3, 22) = SubSeq(t, 3, 22)
    BY <2>1, <2>4, TextPayload
  <2>6. Len(s) = 22 /\ Len(t) = 22
    BY <1>4, <2>3 DEF IsP2WPKH
  <2>7. \A i \in 3 .. 22 : s[i] = t[i]
    <3>1. 3 \in 1 .. Len(s) /\ 22 \in 3 .. Len(s) /\ 22 <= Len(t)
      BY <2>6
    <3> QED
      BY <2>5, <3>1, SlicesEqual
  <2>8. \A i \in 1 .. Len(s) : s[i] = t[i]
    <3>1. s[1] = t[1] /\ s[2] = t[2]
      BY <1>4, <2>3 DEF IsP2WPKH
    <3>2. \A i \in 1 .. Len(s) : i = 1 \/ i = 2 \/ i \in 3 .. 22
      BY <2>6
    <3> QED
      BY <2>7, <3>1, <3>2
  <2> QED
    BY <2>6, <2>8, SeqEqual
<1>5. CASE IsP2WSH(s)
  <2>1. OutputAddress(s) = Text("bech32", 0, SubSeq(s, 3, 34))
    BY <1>5, P2wshAddress DEF Bech32Encode
  <2>2. OutputAddress(t).kind = "bech32" /\ OutputAddress(t).version = 0
    BY <2>1 DEF Text
  <2>3. IsP2WSH(t)
    <3>1. IsP2WSH(t) \/ IsP2WPKH(t)
      BY <2>2, <1>1, AddressFields DEF Templates
    <3>2. ASSUME IsP2WPKH(t) PROVE FALSE
      <4>1. OutputAddress(t) = Text("bech32", 0, SubSeq(t, 3, 22))
        BY <3>2, P2wpkhAddress DEF Bech32Encode
      <4>2. SubSeq(s, 3, 34) = SubSeq(t, 3, 22)
        BY <2>1, <4>1, TextPayload
      <4>3. Len(s) = 34 /\ Len(t) = 22
        BY <1>5, <3>2 DEF IsP2WSH, IsP2WPKH
      <4>4. Len(SubSeq(s, 3, 34)) = 32
        BY <4>3, PayloadLengths
      <4>5. Len(SubSeq(t, 3, 22)) = 20
        BY <4>3, PayloadLengths
      <4>6. Len(SubSeq(s, 3, 34)) = Len(SubSeq(t, 3, 22))
        BY <4>2, Zenon
      <4>7. 32 = 20
        BY <4>4, <4>5, <4>6, Zenon
      <4> QED
        BY <4>7
    <3> QED
      BY <3>1, <3>2
  <2>4. OutputAddress(t) = Text("bech32", 0, SubSeq(t, 3, 34))
    BY <2>3, P2wshAddress DEF Bech32Encode
  <2>5. SubSeq(s, 3, 34) = SubSeq(t, 3, 34)
    BY <2>1, <2>4, TextPayload
  <2>6. Len(s) = 34 /\ Len(t) = 34
    BY <1>5, <2>3 DEF IsP2WSH
  <2>7. \A i \in 3 .. 34 : s[i] = t[i]
    <3>1. 3 \in 1 .. Len(s) /\ 34 \in 3 .. Len(s) /\ 34 <= Len(t)
      BY <2>6
    <3> QED
      BY <2>5, <3>1, SlicesEqual
  <2>8. \A i \in 1 .. Len(s) : s[i] = t[i]
    <3>1. s[1] = t[1] /\ s[2] = t[2]
      BY <1>5, <2>3 DEF IsP2WSH
    <3>2. \A i \in 1 .. Len(s) : i = 1 \/ i = 2 \/ i \in 3 .. 34
      BY <2>6
    <3> QED
      BY <2>7, <3>1, <3>2
  <2> QED
    BY <2>6, <2>8, SeqEqual
<1>6. CASE IsTaproot(s)
  <2>1. OutputAddress(s) = Text("bech32", 1, SubSeq(s, 3, 34))
    BY <1>6, TaprootAddress DEF Bech32Encode
  <2>2. OutputAddress(t).kind = "bech32" /\ OutputAddress(t).version = 1
    BY <2>1 DEF Text
  <2>3. IsTaproot(t)
    BY <2>2, <1>1, AddressFields DEF Templates
  <2>4. OutputAddress(t) = Text("bech32", 1, SubSeq(t, 3, 34))
    BY <2>3, TaprootAddress DEF Bech32Encode
  <2>5. SubSeq(s, 3, 34) = SubSeq(t, 3, 34)
    BY <2>1, <2>4, TextPayload
  <2>6. Len(s) = 34 /\ Len(t) = 34
    BY <1>6, <2>3 DEF IsTaproot
  <2>7. \A i \in 3 .. 34 : s[i] = t[i]
    <3>1. 3 \in 1 .. Len(s) /\ 34 \in 3 .. Len(s) /\ 34 <= Len(t)
      BY <2>6
    <3> QED
      BY <2>5, <3>1, SlicesEqual
  <2>8. \A i \in 1 .. Len(s) : s[i] = t[i]
    <3>1. s[1] = t[1] /\ s[2] = t[2]
      BY <1>6, <2>3 DEF IsTaproot
    <3>2. \A i \in 1 .. Len(s) : i = 1 \/ i = 2 \/ i \in 3 .. 34
      BY <2>6
    <3> QED
      BY <2>7, <3>1, <3>2
  <2> QED
    BY <2>6, <2>8, SeqEqual
<1> QED
  BY <1>1, <1>2, <1>3, <1>4, <1>5, <1>6 DEF Templates

-----------------------------------------------------------------------------
(* Spenders.                                                               *)

(* A push: the length, then the data.                                      *)
LEMMA PushIs ==
    ASSUME NEW x \in Seq(Byte)
    PROVE  /\ Push(x) \in Seq(Nat)
           /\ Len(Push(x)) = Len(x) + 1
           /\ Push(x)[1] = Len(x)
           /\ \A i \in 1 .. Len(x) : Push(x)[i + 1] = x[i]
<1> DEFINE one == <<Len(x)>>
<1>1. x \in Seq(Nat) /\ one \in Seq(Nat) /\ Len(one) = 1 /\ one[1] = Len(x)
  <2>1. Byte \subseteq Nat
    BY DEF Byte
  <2>2. x \in Seq(Nat)
    BY <2>1, SeqMonotonic
  <2> QED
    BY <2>2
<1>2. /\ Push(x) \in Seq(Nat)
      /\ Len(Push(x)) = Len(one) + Len(x)
      /\ \A i \in 1 .. Len(one) + Len(x) :
            Push(x)[i] = IF i <= Len(one) THEN one[i] ELSE x[i - Len(one)]
  BY <1>1, ConcatProperties, SMTT(30) DEF Push
<1>3. \A i \in 1 .. 1 + Len(x) : Push(x)[i] = IF i <= 1 THEN Len(x) ELSE x[i - 1]
  BY <1>1, <1>2
<1>4. Push(x)[1] = Len(x)
  BY <1>3
<1>5. \A i \in 1 .. Len(x) : Push(x)[i + 1] = x[i]
  BY <1>3
<1> QED
  BY <1>1, <1>2, <1>4, <1>5

(* What decodeScriptSigP2PKH finds in a signature and a key.               *)
LEMMA KeyFound ==
    ASSUME NEW in \in Seq(Byte), NEW n \in 0 .. Len(in) - 2,
           in = Push(SubSeq(in, 2, n + 1)) \o Push(SubSeq(in, n + 3, Len(in)))
    PROVE  /\ in[1] = n
           /\ HasKey(in)
           /\ Key(in) = SubSeq(in, n + 3, Len(in))
<1> DEFINE sig == SubSeq(in, 2, n + 1)
           key == SubSeq(in, n + 3, Len(in))
<1>1. Len(in) \in Nat /\ n \in Int
  BY LenProperties
<1>2. \A i \in 1 .. Len(in) : in[i] \in Byte
  BY ElementOfSeq
<1>3. sig \in Seq(Byte) /\ Len(sig) = n
  <2>1. \A i \in 2 .. n + 1 : in[i] \in Byte
    BY <1>1, <1>2
  <2>2. sig \in Seq(Byte) /\ Len(sig) = IF 2 <= n + 1 THEN n + 1 - 2 + 1 ELSE 0
    BY <1>1, <2>1, SubSeqProperties, SMTT(30)
  <2> QED
    BY <1>1, <2>2
<1>4. key \in Seq(Byte) /\ Len(key) = Len(in) - n - 2
  <2>1. \A i \in n + 3 .. Len(in) : in[i] \in Byte
    BY <1>1, <1>2
  <2>2. key \in Seq(Byte) /\ Len(key) = IF n + 3 <= Len(in) THEN Len(in) - (n + 3) + 1 ELSE 0
    BY <1>1, <2>1, SubSeqProperties, SMTT(30)
  <2> QED
    BY <1>1, <2>2
<1> DEFINE a == Push(sig)
           b == Push(key)
<1>5. a \in Seq(Nat) /\ Len(a) = n + 1 /\ a[1] = n
  BY <1>3, PushIs
<1>6. b \in Seq(Nat) /\ Len(b) = Len(in) - n - 1 /\ b[1] = Len(in) - n - 2
  <2>1. b \in Seq(Nat) /\ Len(b) = Len(key) + 1 /\ b[1] = Len(key)
    BY <1>4, PushIs
  <2> HIDE DEF b, key
  <2> QED
    BY <1>1, <1>4, <2>1
<1>7. in = a \o b
  OBVIOUS
<1> HIDE DEF a, b
<1>8. \A i \in 1 .. Len(a) + Len(b) : in[i] = IF i <= Len(a) THEN a[i] ELSE b[i - Len(a)]
  BY <1>5, <1>6, <1>7, ConcatProperties
<1>9. in[1] = n
  <2>1. 1 \in 1 .. Len(a) + Len(b) /\ 1 <= Len(a)
    BY <1>1, <1>5, <1>6
  <2>2. in[1] = a[1]
    BY <1>8, <2>1
  <2> QED
    BY <1>5, <2>2
<1>10. in[n + 2] = Len(in) - n - 2
  <2>1. n + 2 \in 1 .. Len(a) + Len(b) /\ ~ (n + 2 <= Len(a)) /\ n + 2 - Len(a) = 1
    BY <1>1, <1>5, <1>6
  <2>2. in[n + 2] = b[n + 2 - Len(a)]
    BY <1>8, <2>1
  <2> QED
    BY <1>6, <2>1, <2>2
<1>11. KeyLengthAt(in) = n + 2 /\ KeyEnd(in) = Len(in)
  BY <1>1, <1>9, <1>10 DEF KeyLengthAt, KeyEnd
<1>12. n + 2 + 1 = n + 3 /\ n + 2 <= Len(in)
  BY <1>1
<1>13. HasKey(in)
  BY <1>1, <1>11, <1>12 DEF HasKey
<1>14. Key(in) = SubSeq(in, n + 3, Len(in))
  BY <1>11, <1>12 DEF Key
<1> QED
  BY <1>9, <1>13, <1>14

(* A hash is a sequence of 20 bytes.                                       *)
LEMMA HashIsSequence ==
    ASSUME NEW h \in [1 .. 20 -> Byte]
    PROVE  h \in Seq(Byte) /\ Len(h) = 20
<1>1. Seq(Byte) = UNION {[1 .. n -> Byte] : n \in Nat}
  OBVIOUS
<1>2. h \in Seq(Byte)
  <2>1. [1 .. 20 -> Byte] \in {[1 .. n -> Byte] : n \in Nat}
    OBVIOUS
  <2> QED
    BY <1>1, <2>1
<1>3. 1 .. Len(h) = 1 .. 20 /\ Len(h) \in Nat
  BY <1>2, LenProperties
<1> QED
  BY <1>2, <1>3

(* The script that pays to a hash is the pay-to-public-key-hash template,  *)
(* and its payload is the hash.                                            *)
LEMMA PaysToHash ==
    ASSUME NEW h \in [1 .. 20 -> Byte]
    PROVE  OutputAddress(P2pkhScript(h)) = Base58Check(0, h)
<1> DEFINE before == <<OpDup, OpHash160, OpPushBytes20>>
           after == <<OpEqualVerify, OpCheckSig>>
           out == P2pkhScript(h)
<1>1. h \in Seq(Byte) /\ Len(h) = 20
  BY HashIsSequence
<1>2. /\ before \in Seq(Byte) /\ Len(before) = 3
      /\ before[1] = OpDup /\ before[2] = OpHash160 /\ before[3] = OpPushBytes20
  BY DEF Byte, OpDup, OpHash160, OpPushBytes20
<1>3. /\ after \in Seq(Byte) /\ Len(after) = 2
      /\ after[1] = OpEqualVerify /\ after[2] = OpCheckSig
  BY DEF Byte, OpEqualVerify, OpCheckSig
<1> HIDE DEF before, after
<1> DEFINE front == before \o h
<1>4. /\ front \in Seq(Byte) /\ Len(front) = 23
      /\ \A i \in 1 .. 23 : front[i] = IF i <= 3 THEN before[i] ELSE h[i - 3]
  <2>1. /\ front \in Seq(Byte) /\ Len(front) = Len(before) + Len(h)
        /\ \A i \in 1 .. Len(before) + Len(h) :
              front[i] = IF i <= Len(before) THEN before[i] ELSE h[i - Len(before)]
    BY <1>1, <1>2, ConcatProperties, Zenon
  <2> HIDE DEF front
  <2> QED
    BY <1>1, <1>2, <2>1
<1>5. out = front \o after
  BY DEF P2pkhScript, before, after
<1> HIDE DEF front, out
<1>6. /\ out \in Seq(Byte) /\ Len(out) = 25
      /\ \A i \in 1 .. 25 : out[i] = IF i <= 23 THEN front[i] ELSE after[i - 23]
  <2>1. /\ out \in Seq(Byte) /\ Len(out) = Len(front) + Len(after)
        /\ \A i \in 1 .. Len(front) + Len(after) :
              out[i] = IF i <= Len(front) THEN front[i] ELSE after[i - Len(front)]
    BY <1>3, <1>4, <1>5, ConcatProperties, Zenon
  <2> QED
    BY <1>3, <1>4, <2>1
<1>7. out[1] = before[1] /\ out[2] = before[2] /\ out[3] = before[3]
  BY <1>4, <1>6
<1>8. out[24] = after[1] /\ out[25] = after[2]
  BY <1>6
<1>9. IsP2PKH(out)
  BY <1>2, <1>3, <1>6, <1>7, <1>8 DEF IsP2PKH
<1>10. OutputAddress(out) = Base58Check(0, SubSeq(out, 4, 23))
  BY <1>6, <1>9, P2pkhAddress
<1>11. SubSeq(out, 4, 23) = h
  <2>1. \A i \in 4 .. 23 : out[i] \in Byte
    <3>1. 4 .. 23 \subseteq 1 .. Len(out)
      BY <1>6
    <3> QED
      BY <1>6, <3>1, ElementOfSeq
  <2>2. /\ SubSeq(out, 4, 23) \in Seq(Byte)
        /\ Len(SubSeq(out, 4, 23)) = IF 4 <= 23 THEN 23 - 4 + 1 ELSE 0
        /\ \A i \in 1 .. 23 - 4 + 1 : SubSeq(out, 4, 23)[i] = out[4 + i - 1]
    BY <2>1, SubSeqProperties, SMTT(30)
  <2>3. Len(SubSeq(out, 4, 23)) = 20
    BY <2>2
  <2>4. \A i \in 1 .. 20 : SubSeq(out, 4, 23)[i] = out[i + 3]
    BY <2>2
  <2>5. \A i \in 1 .. 20 : out[i + 3] = h[i]
    <3> SUFFICES ASSUME NEW i \in 1 .. 20 PROVE out[i + 3] = h[i]
      OBVIOUS
    <3>1. i + 3 \in 1 .. 23 /\ i + 3 \in 1 .. 25 /\ i + 3 <= 23 /\ ~ (i + 3 <= 3) /\ i + 3 - 3 = i
      OBVIOUS
    <3>2. out[i + 3] = front[i + 3]
      BY <1>6, <3>1, Zenon
    <3> DEFINE j == i + 3
    <3>3. j \in 1 .. 23 /\ ~ (j <= 3) /\ j - 3 = i
      BY <3>1
    <3> HIDE DEF j
    <3>4. front[j] = h[j - 3]
      BY <1>4, <3>3
    <3>5. front[j] = h[i]
      BY <3>3, <3>4
    <3> QED
      BY <3>2, <3>5 DEF j
  <2>6. \A i \in 1 .. Len(h) : SubSeq(out, 4, 23)[i] = h[i]
    BY <1>1, <2>4, <2>5
  <2> QED
    BY <1>1, <2>2, <2>3, <2>6, SeqEqual
<1> QED
  BY <1>10, <1>11 DEF out

(* The two ends of a payment to a key.                                     *)
LEMMA SpenderMeetsOutput ==
    ASSUME NEW in \in InputScripts, NEW out, Unlocks(in, out)
    PROVE  InputAddress(in) = OutputAddress(out)
<1>1. PICK n \in 0 .. Len(in) - 2 :
          /\ in = Push(SubSeq(in, 2, n + 1)) \o Push(SubSeq(in, n + 3, Len(in)))
          /\ out = P2pkhScript(Hash160(SubSeq(in, n + 3, Len(in))))
  BY DEF Unlocks
<1>2. in \in Seq(Byte) /\ Len(in) \in Nat
  BY ScriptsAssumption, LenProperties
<1>3. in[1] = n /\ HasKey(in) /\ Key(in) = SubSeq(in, n + 3, Len(in))
  BY <1>1, <1>2, KeyFound
<1>4. in # <<>>
  BY <1>1, <1>2
<1>5. ~ IsP2shP2wpkhRedeem(in)
  <2> SUFFICES ASSUME IsP2shP2wpkhRedeem(in) PROVE FALSE
    OBVIOUS
  <2>1. Len(in) = 23 /\ in[1] = 22
    BY DEF IsP2shP2wpkhRedeem, OpPushBytes22
  <2>2. n = 22
    BY <1>3, <2>1
  <2>3. n <= 21
    BY <2>1
  <2> QED
    BY <2>2, <2>3
<1>6. InputAddress(in) = Base58Check(0, Hash160(Key(in)))
  BY <1>3, <1>4, <1>5 DEF InputAddress, DecodeScriptSigP2PKH
<1>7. Hash160(Key(in)) \in [1 .. 20 -> Byte]
  BY <1>3, <1>4, Hash160Assumption
<1>8. out = P2pkhScript(Hash160(Key(in)))
  BY <1>1, <1>3
<1> QED
  BY <1>6, <1>7, <1>8, PaysToHash

-----------------------------------------------------------------------------
(* The addresses are addresses.                                            *)

(* A slice of the right length is a payload.                               *)
LEMMA PayloadOf ==
    ASSUME NEW s \in Seq(Byte), NEW m \in 1 .. Len(s), NEW n \in m .. Len(s), NEW k, n - m + 1 = k
    PROVE  IsPayload(SubSeq(s, m, n), k)
<1>1. m \in Int /\ n \in Int /\ m <= n
  OBVIOUS
<1>2. \A i \in m .. n : s[i] \in Byte
  BY ElementOfSeq
<1>3. SubSeq(s, m, n) \in Seq(Byte)
  BY <1>1, <1>2, SubSeqProperties, SMTT(30)
<1> QED
  BY <1>3, Slice DEF IsPayload

(* The two ways to spell an address.                                       *)
LEMMA Base58IsAddress ==
    ASSUME NEW v \in {0, 5}, NEW p, IsPayload(p, 20)
    PROVE  IsAddress(Base58Check(v, p))
<1>1. Base58Check(v, p).version = v /\ Base58Check(v, p).payload = p
  BY DEF Base58Check, Text
<1> QED
  BY <1>1 DEF IsAddress

LEMMA Bech32IsAddress ==
    ASSUME NEW v \in {0, 1}, NEW p, (v = 0 /\ IsPayload(p, 20)) \/ IsPayload(p, 32)
    PROVE  IsAddress(Bech32Encode(v, p))
<1>1. Bech32Encode(v, p).version = v /\ Bech32Encode(v, p).payload = p
  BY DEF Bech32Encode, Text
<1> QED
  BY <1>1 DEF IsAddress

(* What parseOutputScript and parseInputScript return is an address.       *)
LEMMA OutputIsAddress ==
    ASSUME NEW s \in Seq(Byte)
    PROVE  IsAddress(OutputAddress(s))
<1>1. CASE IsP2PKH(s)
  <2>1. 4 \in 1 .. Len(s) /\ 23 \in 4 .. Len(s) /\ 23 - 4 + 1 = 20
    BY <1>1 DEF IsP2PKH
  <2>2. IsPayload(SubSeq(s, 4, 23), 20)
    BY <2>1, PayloadOf
  <2> QED
    BY <1>1, <2>2, P2pkhAddress, Base58IsAddress
<1>2. CASE IsP2SH(s)
  <2>1. 3 \in 1 .. Len(s) /\ 22 \in 3 .. Len(s) /\ 22 - 3 + 1 = 20
    BY <1>2 DEF IsP2SH
  <2>2. IsPayload(SubSeq(s, 3, 22), 20)
    BY <2>1, PayloadOf
  <2> QED
    BY <1>2, <2>2, P2shAddress, Base58IsAddress
<1>3. CASE IsP2WPKH(s)
  <2>1. 3 \in 1 .. Len(s) /\ 22 \in 3 .. Len(s) /\ 22 - 3 + 1 = 20
    BY <1>3 DEF IsP2WPKH
  <2>2. IsPayload(SubSeq(s, 3, 22), 20)
    BY <2>1, PayloadOf
  <2> QED
    BY <1>3, <2>2, P2wpkhAddress, Bech32IsAddress
<1>4. CASE IsP2WSH(s)
  <2>1. 3 \in 1 .. Len(s) /\ 34 \in 3 .. Len(s) /\ 34 - 3 + 1 = 32
    BY <1>4 DEF IsP2WSH
  <2>2. IsPayload(SubSeq(s, 3, 34), 32)
    BY <2>1, PayloadOf
  <2> QED
    BY <1>4, <2>2, P2wshAddress, Bech32IsAddress
<1>5. CASE IsTaproot(s)
  <2>1. 3 \in 1 .. Len(s) /\ 34 \in 3 .. Len(s) /\ 34 - 3 + 1 = 32
    BY <1>5 DEF IsTaproot
  <2>2. IsPayload(SubSeq(s, 3, 34), 32)
    BY <2>1, PayloadOf
  <2> QED
    BY <1>5, <2>2, TaprootAddress, Bech32IsAddress
<1>6. CASE ~ Templates(s)
  BY <1>6, OtherAddress DEF IsAddress
<1> QED
  BY <1>1, <1>2, <1>3, <1>4, <1>5, <1>6 DEF Templates

LEMMA InputIsAddress ==
    ASSUME NEW s \in InputScripts
    PROVE  IsAddress(InputAddress(s))
<1>1. s \in Seq(Byte)
  BY ScriptsAssumption
<1>2. IsAddress(Unknown)
  BY DEF IsAddress
<1>3. CASE s = <<>>
  BY <1>2, <1>3 DEF InputAddress
<1>4. CASE s # <<>> /\ IsP2shP2wpkhRedeem(s)
  <2>1. 4 \in 1 .. Len(s) /\ 23 \in 4 .. Len(s) /\ 23 - 4 + 1 = 20
    BY <1>4 DEF IsP2shP2wpkhRedeem
  <2>2. IsPayload(SubSeq(s, 4, 23), 20)
    BY <1>1, <2>1, PayloadOf
  <2>3. InputAddress(s) = Bech32Encode(0, SubSeq(s, 4, 23))
    BY <1>4 DEF InputAddress
  <2> QED
    BY <2>2, <2>3, Bech32IsAddress
<1>5. CASE s # <<>> /\ ~ IsP2shP2wpkhRedeem(s) /\ HasKey(s)
  <2>1. Hash160(Key(s)) \in [1 .. 20 -> Byte]
    BY <1>5, Hash160Assumption
  <2>2. IsPayload(Hash160(Key(s)), 20)
    BY <2>1, HashIsSequence DEF IsPayload
  <2>3. InputAddress(s) = Base58Check(0, Hash160(Key(s)))
    BY <1>5 DEF InputAddress, DecodeScriptSigP2PKH
  <2> QED
    BY <2>2, <2>3, Base58IsAddress
<1>6. CASE s # <<>> /\ ~ IsP2shP2wpkhRedeem(s) /\ ~ HasKey(s)
  BY <1>2, <1>6 DEF InputAddress, DecodeScriptSigP2PKH
<1> QED
  BY <1>3, <1>4, <1>5, <1>6

-----------------------------------------------------------------------------
(* The invariant: every record holds a script that was read and the        *)
(* address that script gets.                                               *)
IInv ==
    /\ \A o \in outputs : o.script \in OutputScripts /\ o.address = OutputAddress(o.script)
    /\ \A i \in inputs : i.script \in InputScripts /\ i.address = InputAddress(i.script)

(* The invariant holds: records are added, never changed.                  *)
LEMMA Invariance == Spec => []IInv
<1>1. Init => IInv
  BY DEF Init, IInv
<1>2. IInv /\ [Next]_vars => IInv'
  <2> SUFFICES ASSUME IInv, [Next]_vars PROVE IInv'
    OBVIOUS
  <2>1. CASE ParseOutputScript
    BY <2>1 DEF ParseOutputScript, IInv
  <2>2. CASE ParseInputScript
    BY <2>2 DEF ParseInputScript, IInv
  <2>3. CASE UNCHANGED vars
    BY <2>3 DEF vars, IInv
  <2> QED
    BY <2>1, <2>2, <2>3 DEF Next
<1> QED
  BY <1>1, <1>2, PTL DEF Spec

(* Whatever the script, the text written for it is an address of the       *)
(* length of its kind, or says that there is none.                         *)
THEOREM TypeCorrect == Spec => []TypeOK
<1>1. IInv => TypeOK
  BY ScriptsAssumption, OutputIsAddress, InputIsAddress DEF IInv, TypeOK
<1> QED
  BY <1>1, Invariance, PTL

(* No two scripts of any length share an address.                          *)
THEOREM AddressesAreInjective == Spec => []AddressesTellScriptsApart
<1>1. IInv => AddressesTellScriptsApart
  <2> SUFFICES ASSUME IInv, NEW o1 \in outputs, NEW o2 \in outputs, o1.address = o2.address,
                      o1.address.kind \in {"base58", "bech32"}
               PROVE  o1.script = o2.script
    BY DEF AddressesTellScriptsApart
  <2>1. o1.script \in Seq(Byte) /\ o2.script \in Seq(Byte)
    BY ScriptsAssumption DEF IInv
  <2>2. OutputAddress(o1.script) = OutputAddress(o2.script)
    BY DEF IInv
  <2>3. OutputAddress(o1.script).kind \in {"base58", "bech32"}
    BY DEF IInv
  <2> QED
    BY <2>1, <2>2, <2>3, AddressSaysScript
<1> QED
  BY <1>1, Invariance, PTL

(* Whatever the hash, an input that unlocks a pay-to-public-key-hash       *)
(* output is reported with the address of that output.                     *)
THEOREM SpendersAreRecognised == Spec => []SpenderHasSameAddress
<1>1. IInv => SpenderHasSameAddress
  <2> SUFFICES ASSUME IInv, NEW i \in inputs, NEW o \in outputs, Unlocks(i.script, o.script)
               PROVE  i.address = o.address
    BY DEF SpenderHasSameAddress
  <2>1. i.script \in InputScripts /\ i.address = InputAddress(i.script)
    BY DEF IInv
  <2>2. o.address = OutputAddress(o.script)
    BY DEF IInv
  <2> QED
    BY <2>1, <2>2, SpenderMeetsOutput
<1> QED
  BY <1>1, Invariance, PTL
=============================================================================
