----------------------- MODULE TransactionQueries_proofs --------------------
(***************************************************************************)
(* What holds of the find functions for every set of rows, addresses,      *)
(* amounts, times and lists: types, that a row is read back as it was      *)
(* stored exactly when none of its texts has a comma, a quote or a         *)
(* backslash, and that each find function finds what it is asked for.      *)
(*                                                                         *)
(* Most of this is about texts: a list of addresses is sent as one text,   *)
(* and read back by cutting that text at its commas.  The lemmas follow    *)
(* the text on its way: the signs a text is escaped with, the element it   *)
(* becomes, the elements joined by commas, and the pieces cut from them.   *)
(***************************************************************************)
EXTENDS TransactionQueries, FiniteSetTheorems, SequenceTheorems, WellFoundedInduction, TLAPS

(* A set of naturals that is not empty has a least one.                    *)
LEMMA LeastOfSet ==
    ASSUME NEW T \in SUBSET Nat, T # {}
    PROVE  \E m \in T : \A k \in T : m <= k
<1> DEFINE R == {ss \in Nat \X Nat : ss[1] < ss[2]}
<1>1. IsWellFoundedOn(R, Nat)
  BY NatLessThanWellFounded DEF OpToRel
<1>2. PICK m \in T : \A k \in T : ~ (<<k, m>> \in R)
  <2> HIDE DEF R
  <2> QED BY <1>1, WFMin
<1>3. \A k \in T : k < m => <<k, m>> \in R
  OBVIOUS
<1> HIDE DEF R
<1>4. \A k \in T : ~ (k < m)
  BY <1>2, <1>3
<1> QED BY <1>4

(* A set of naturals that has 0 and with each number the next has all.     *)
LEMMA AllNaturals ==
    ASSUME NEW S, 0 \in S, \A n \in Nat : n \in S => n + 1 \in S
    PROVE  \A n \in Nat : n \in S
<1> SUFFICES ASSUME NEW n \in Nat, n \notin S PROVE FALSE
  OBVIOUS
<1> DEFINE T == {m \in Nat : m \notin S}
<1>1. T \in SUBSET Nat /\ T # {}
  OBVIOUS
<1>2. PICK m \in T : \A k \in T : m <= k
  <2> HIDE DEF T
  <2> QED BY <1>1, LeastOfSet
<1>3. m \in Nat /\ m \notin S /\ m # 0
  BY <1>2
<1>4. m - 1 \in Nat /\ (m - 1) + 1 = m
  BY <1>3
<1>5. m - 1 \in S
  <2>1. m - 1 \notin T
    <3> HIDE DEF T
    <3> QED BY <1>2, <1>4
  <2> QED BY <1>4, <2>1
<1> QED BY <1>3, <1>4, <1>5

(* Any text that may be met: a character of a type, or one that is added.  *)
Chars == STRING \cup Special

(* The signs of an array text are told apart.                              *)
LEMMA CharsDiffer ==
    /\ Comma # Quote /\ Comma # Backslash /\ Quote # Backslash
    /\ Open # Close /\ Open # Comma /\ Open # Quote
BY DEF Comma, Quote, Backslash, Open, Close

(* They are characters.                                                    *)
LEMMA CharsAreChars == {Comma, Quote, Backslash, Open, Close, Blank} \subseteq Chars
BY DEF Chars, Special

-----------------------------------------------------------------------------
(* FlattenSeq: the concatenations of the first sequences.                  *)
IsFlat(seqs, n, run) ==
    run = [i \in 1 .. n |-> IF i = 1 THEN seqs[i] ELSE run[i - 1] \o seqs[i]]

(* The function by which FlattenSeq is defined exists, however long the    *)
(* sequence.                                                               *)
LEMMA FlatExists ==
    ASSUME NEW seqs
    PROVE  \A n \in Nat : \E run : IsFlat(seqs, n, run)
<1> DEFINE S == {n \in Nat : \E run : IsFlat(seqs, n, run)}
<1>1. 0 \in S
  <2> DEFINE run == [i \in 1 .. 0 |-> seqs[i]]
  <2>1. run = [i \in 1 .. 0 |-> IF i = 1 THEN seqs[i] ELSE run[i - 1] \o seqs[i]]
    OBVIOUS
  <2> QED BY <2>1 DEF IsFlat
<1>2. ASSUME NEW n \in Nat, n \in S
      PROVE  n + 1 \in S
  <2>1. PICK run : IsFlat(seqs, n, run)
    BY <1>2
  <2> DEFINE new == IF n = 0 THEN seqs[1] ELSE run[n] \o seqs[n + 1]
             more == [i \in 1 .. n + 1 |-> IF i = n + 1 THEN new ELSE run[i]]
  <2>2. \A i \in 1 .. n : run[i] = IF i = 1 THEN seqs[i] ELSE run[i - 1] \o seqs[i]
    BY <2>1 DEF IsFlat
  <2>3. ASSUME NEW i \in 1 .. n + 1
        PROVE  more[i] = IF i = 1 THEN seqs[i] ELSE more[i - 1] \o seqs[i]
    <3>1. CASE i = n + 1 /\ n = 0
      BY <3>1
    <3>2. CASE i = n + 1 /\ n # 0
      <4>1. i # 1 /\ i - 1 \in 1 .. n + 1 /\ i - 1 # n + 1 /\ i - 1 = n
        BY <3>2
      <4> QED BY <3>2, <4>1
    <3>3. CASE i # n + 1 /\ i # 1
      <4>1. i \in 1 .. n /\ i - 1 \in 1 .. n + 1 /\ i - 1 # n + 1
        BY <3>3
      <4> QED BY <2>2, <3>3, <4>1
    <3>4. CASE i # n + 1 /\ i = 1
      <4>1. i \in 1 .. n
        BY <3>4
      <4> QED BY <2>2, <3>4, <4>1
    <3> QED BY <3>1, <3>2, <3>3, <3>4
  <2>4. more = [i \in 1 .. n + 1 |-> more[i]]
    OBVIOUS
  <2> HIDE DEF more
  <2>5. more = [i \in 1 .. n + 1 |-> IF i = 1 THEN seqs[i] ELSE more[i - 1] \o seqs[i]]
    BY <2>3, <2>4, Zenon
  <2>6. \E r : IsFlat(seqs, n + 1, r)
    BY <2>5 DEF IsFlat
  <2> QED BY <2>6
<1>3. \A n \in Nat : n \in S
  <2> HIDE DEF S
  <2> QED BY <1>1, <1>2, AllNaturals
<1> QED BY <1>3

(* So FlattenSeq is the last concatenation, and each is the one before     *)
(* with one more sequence.                                                 *)
LEMMA FlattenIsFlat ==
    ASSUME NEW seqs, Len(seqs) \in Nat, Len(seqs) # 0
    PROVE  \E run : /\ FlattenSeq(seqs) = run[Len(seqs)]
                    /\ run[1] = seqs[1]
                    /\ \A i \in 2 .. Len(seqs) : run[i] = run[i - 1] \o seqs[i]
<1> DEFINE run == CHOOSE r : IsFlat(seqs, Len(seqs), r)
<1>1. IsFlat(seqs, Len(seqs), run)
  <2>1. \E r : IsFlat(seqs, Len(seqs), r)
    BY FlatExists
  <2> QED BY <2>1, Zenon
<1>2. FlattenSeq(seqs) = run[Len(seqs)]
  BY Zenon DEF FlattenSeq, IsFlat
<1>3. \A i \in 1 .. Len(seqs) : run[i] = IF i = 1 THEN seqs[i] ELSE run[i - 1] \o seqs[i]
  <2> HIDE DEF run
  <2> QED BY <1>1 DEF IsFlat
<1> DEFINE n == Len(seqs)
<1>4. n \in Nat /\ n # 0
  OBVIOUS
<1>5. \A i \in 1 .. n : run[i] = IF i = 1 THEN seqs[i] ELSE run[i - 1] \o seqs[i]
  BY <1>3
<1> HIDE DEF run, n
<1>6. run[1] = seqs[1]
  <2>1. 1 \in 1 .. n
    BY <1>4
  <2> QED BY <1>5, <2>1
<1>7. ASSUME NEW i \in 2 .. n PROVE run[i] = run[i - 1] \o seqs[i]
  <2>1. i \in 1 .. n /\ i # 1
    BY <1>4
  <2> QED BY <1>5, <2>1, Zenon
<1> QED BY <1>2, <1>6, <1>7, Zenon DEF n

(* What is kept by one more sequence is kept by all of them.               *)
LEMMA FlatKeeps ==
    ASSUME NEW n \in Nat \ {0}, NEW S, 1 \in S, \A i \in 2 .. n : i - 1 \in S => i \in S
    PROVE  \A i \in 1 .. n : i \in S
<1> DEFINE T == {k \in Nat : k + 1 <= n => k + 1 \in S}
<1>1. 0 \in T
  OBVIOUS
<1>2. ASSUME NEW k \in Nat, k \in T PROVE k + 1 \in T
  <2>1. CASE k + 2 <= n
    <3>1. k + 2 \in 2 .. n /\ (k + 2) - 1 = k + 1 /\ k + 1 <= n /\ (k + 1) + 1 = k + 2
      BY <2>1
    <3>2. k + 1 \in S
      BY <1>2, <3>1
    <3> QED BY <3>1, <3>2
  <2>2. CASE ~ (k + 2 <= n)
    BY <2>2
  <2> QED BY <2>1, <2>2
<1>3. \A k \in Nat : k \in T
  <2> HIDE DEF T
  <2> QED BY <1>1, <1>2, AllNaturals
<1>4. ASSUME NEW i \in 1 .. n PROVE i \in S
  <2>1. i - 1 \in Nat /\ (i - 1) + 1 = i /\ i <= n
    OBVIOUS
  <2> QED BY <1>3, <2>1
<1> QED BY <1>4

-----------------------------------------------------------------------------
(* How the server escapes a text.                                          *)
Sign(c) == IF c \in {Quote, Backslash} THEN <<Backslash, c>> ELSE <<c>>

(* An escaped text is its signs, one after another.                        *)
LEMMA EscapedSigns ==
    ASSUME NEW C, Backslash \in C, NEW text \in Seq(C), text # <<>>
    PROVE  \E run : /\ Escaped(text) = run[Len(text)]
                    /\ run[1] = Sign(text[1])
                    /\ \A i \in 2 .. Len(text) : run[i] = run[i - 1] \o Sign(text[i])
<1> DEFINE signs == [i \in DOMAIN text |-> Sign(text[i])]
           n == Len(text)
<1>1. n \in Nat /\ n # 0 /\ DOMAIN text = 1 .. n
  BY EmptySeq
<1>2. Escaped(text) = FlattenSeq(signs)
  BY Zenon DEF Escaped, Sign
<1>3. Len(signs) = n
  <2>1. signs = [i \in 1 .. n |-> Sign(text[i])]
    BY <1>1
  <2> QED BY <1>1, <2>1
<1>4. \A i \in 1 .. n : signs[i] = Sign(text[i])
  BY <1>1
<1> HIDE DEF signs
<1>5. PICK run : /\ FlattenSeq(signs) = run[n] /\ run[1] = signs[1]
                 /\ \A i \in 2 .. n : run[i] = run[i - 1] \o signs[i]
  <2> HIDE DEF n
  <2>1. Len(signs) \in Nat /\ Len(signs) # 0
    BY <1>1, <1>3
  <2>2. \E run : /\ FlattenSeq(signs) = run[Len(signs)] /\ run[1] = signs[1]
                 /\ \A i \in 2 .. Len(signs) : run[i] = run[i - 1] \o signs[i]
    BY <2>1, FlattenIsFlat, Zenon
  <2> QED BY <1>3, <2>2, Zenon
<1>6. run[1] = Sign(text[1])
  <2>1. 1 \in 1 .. n
    BY <1>1
  <2> QED BY <1>4, <1>5, <2>1
<1>7. ASSUME NEW i \in 2 .. n PROVE run[i] = run[i - 1] \o Sign(text[i])
  <2>1. i \in 1 .. n
    BY <1>1
  <2> QED BY <1>4, <1>5, <2>1, Zenon
<1> QED BY <1>2, <1>5, <1>6, <1>7

(* The empty text has none.                                                *)
LEMMA EscapedEmpty == Escaped(<<>>) = <<>>
<1> DEFINE signs == [i \in DOMAIN (<<>>) |-> Sign((<<>>)[i])]
<1>1. signs = <<>>
  OBVIOUS
<1>2. Escaped(<<>>) = FlattenSeq(signs)
  BY Zenon DEF Escaped, Sign
<1>3. Len(signs) = 0
  BY <1>1
<1> HIDE DEF signs
<1>4. FlattenSeq(signs) = signs
  BY <1>3, Zenon DEF FlattenSeq
<1> QED BY <1>1, <1>2, <1>4

(* It becomes no shorter, and longer when there is something to escape.    *)
LEMMA EscapedKind ==
    ASSUME NEW C, Backslash \in C, NEW text \in Seq(C)
    PROVE  /\ Escaped(text) \in Seq(C)
           /\ (\E k \in 1 .. Len(text) : text[k] \in {Quote, Backslash}) =>
                  Len(Escaped(text)) > Len(text)
<1>1. CASE text = <<>>
  <2>1. Escaped(text) \in Seq(C)
    BY <1>1, EscapedEmpty
  <2>2. \A k \in 1 .. Len(text) : FALSE
    BY <1>1
  <2> QED BY <2>1, <2>2
<1>2. CASE text # <<>>
  <2> DEFINE n == Len(text)
  <2>1. n \in Nat \ {0} /\ \A i \in 1 .. n : text[i] \in C
    BY <1>2, EmptySeq, ElementOfSeq
  <2>2. PICK run : /\ Escaped(text) = run[n] /\ run[1] = Sign(text[1])
                   /\ \A i \in 2 .. n : run[i] = run[i - 1] \o Sign(text[i])
    BY <1>2, EscapedSigns
  <2> DEFINE S == {i \in 1 .. n :
                      /\ run[i] \in Seq(C) /\ Len(run[i]) >= i
                      /\ (\E k \in 1 .. i : text[k] \in {Quote, Backslash}) => Len(run[i]) > i}
  <2>3. ASSUME NEW i \in 1 .. n
        PROVE  /\ Sign(text[i]) \in Seq(C) /\ Len(Sign(text[i])) >= 1
               /\ text[i] \in {Quote, Backslash} => Len(Sign(text[i])) = 2
    <3>1. text[i] \in C
      BY <2>1
    <3>2. CASE text[i] \in {Quote, Backslash}
      <4>1. Sign(text[i]) = <<Backslash, text[i]>>
        BY <3>2, Zenon DEF Sign
      <4> QED BY <3>1, <4>1
    <3>3. CASE text[i] \notin {Quote, Backslash}
      <4>1. Sign(text[i]) = <<text[i]>>
        BY <3>3, Zenon DEF Sign
      <4> QED BY <3>1, <3>3, <4>1
    <3> QED BY <3>2, <3>3
  <2>4. 1 \in S
    <3>1. 1 \in 1 .. n
      BY <2>1
    <3>2. /\ run[1] \in Seq(C) /\ Len(run[1]) >= 1
          /\ text[1] \in {Quote, Backslash} => Len(run[1]) = 2
      BY <2>2, <2>3, <3>1
    <3>3. (\E k \in 1 .. 1 : text[k] \in {Quote, Backslash}) => Len(run[1]) > 1
      <4>1. \A k \in 1 .. 1 : k = 1
        OBVIOUS
      <4>2. 2 > 1
        OBVIOUS
      <4> QED BY <3>2, <4>1, <4>2, Zenon
    <3> QED BY <3>1, <3>2, <3>3
  <2>5. ASSUME NEW i \in 2 .. n, i - 1 \in S PROVE i \in S
    <3> DEFINE old == run[i - 1]
               sign == Sign(text[i])
    <3>1. i \in 1 .. n /\ i - 1 \in 1 .. n
      BY <2>1
    <3>2. /\ old \in Seq(C) /\ Len(old) >= i - 1
          /\ (\E k \in 1 .. i - 1 : text[k] \in {Quote, Backslash}) => Len(old) > i - 1
      BY <2>5
    <3>3. /\ sign \in Seq(C) /\ Len(sign) >= 1
          /\ text[i] \in {Quote, Backslash} => Len(sign) = 2
      BY <2>3, <3>1
    <3>4. run[i] = old \o sign
      BY <2>2
    <3> HIDE DEF old, sign
    <3>5. run[i] \in Seq(C) /\ Len(run[i]) = Len(old) + Len(sign) /\ Len(old) \in Nat /\ Len(sign) \in Nat
      BY <3>2, <3>3, <3>4
    <3>6. ASSUME NEW k \in 1 .. i, text[k] \in {Quote, Backslash} PROVE Len(run[i]) > i
      <4>1. CASE k = i
        <5>1. Len(sign) = 2
          BY <3>3, <3>6, <4>1, Zenon
        <5>2. Len(old) >= i - 1 /\ i \in Nat
          BY <3>1, <3>2
        <5> QED BY <3>5, <5>1, <5>2
      <4>2. CASE k # i
        <5>1. k \in 1 .. i - 1
          BY <4>2
        <5>2. Len(old) > i - 1
          BY <3>2, <3>6, <5>1
        <5> QED BY <3>3, <3>5, <5>2
      <4> QED BY <4>1, <4>2
    <3>7. Len(run[i]) >= i
      BY <3>2, <3>3, <3>5
    <3> QED BY <3>1, <3>5, <3>6, <3>7
  <2>6. \A i \in 1 .. n : i \in S
    <3> HIDE DEF S, n
    <3> QED BY <2>1, <2>4, <2>5, FlatKeeps
  <2>7. n \in S
    BY <2>1, <2>6
  <2> QED BY <2>2, <2>7
<1> QED BY <1>1, <1>2

(* Without quotes and backslashes it is the text itself.                   *)
LEMMA EscapedPlain ==
    ASSUME NEW C, Backslash \in C, NEW text \in Seq(C),
           \A k \in 1 .. Len(text) : text[k] \notin {Quote, Backslash}
    PROVE  Escaped(text) = text
<1>1. CASE text = <<>>
  BY <1>1, EscapedEmpty
<1>2. CASE text # <<>>
  <2> DEFINE n == Len(text)
  <2>1. n \in Nat \ {0} /\ \A i \in 1 .. n : text[i] \in C
    BY <1>2, EmptySeq, ElementOfSeq
  <2>2. PICK run : /\ Escaped(text) = run[n] /\ run[1] = Sign(text[1])
                   /\ \A i \in 2 .. n : run[i] = run[i - 1] \o Sign(text[i])
    BY <1>2, EscapedSigns
  <2>3. ASSUME NEW i \in 1 .. n PROVE Sign(text[i]) = <<text[i]>>
    BY Zenon DEF Sign
  <2> DEFINE S == {i \in 1 .. n : run[i] = SubSeq(text, 1, i)}
  <2>4. 1 \in S
    <3>1. 1 \in 1 .. n
      BY <2>1
    <3>2. run[1] = <<text[1]>>
      BY <2>2, <2>3, <3>1
    <3>3. SubSeq(text, 1, 1) = <<text[1]>>
      <4> DEFINE one == SubSeq(text, 1, 1)
      <4>1. one \in Seq(C) /\ Len(one) = 1 /\ one[1] = text[1]
        BY <3>1
      <4>2. <<text[1]>> \in Seq(C) /\ Len(<<text[1]>>) = 1 /\ (<<text[1]>>)[1] = text[1]
        BY <2>1, <3>1
      <4> HIDE DEF one
      <4>3. \A i \in 1 .. 1 : one[i] = (<<text[1]>>)[i]
        BY <4>1, <4>2
      <4>4. one = <<text[1]>>
        BY <4>1, <4>2, <4>3, SeqEqual
      <4> QED BY <4>4 DEF one
    <3> QED BY <3>1, <3>2, <3>3
  <2>5. ASSUME NEW i \in 2 .. n, i - 1 \in S PROVE i \in S
    <3>1. i \in 1 .. n /\ i - 1 \in 1 .. n
      BY <2>1
    <3>2. run[i] = SubSeq(text, 1, i - 1) \o <<text[i]>>
      BY <2>2, <2>3, <2>5, <3>1
    <3>3. SubSeq(text, 1, i - 1) \o <<text[i]>> = SubSeq(text, 1, i)
      BY <3>1
    <3> QED BY <3>1, <3>2, <3>3
  <2>6. \A i \in 1 .. n : i \in S
    <3> HIDE DEF S, n
    <3> QED BY <2>1, <2>4, <2>5, FlatKeeps
  <2>7. n \in S
    BY <2>1, <2>6
  <2>8. SubSeq(text, 1, n) = text
    OBVIOUS
  <2> QED BY <2>2, <2>7, <2>8
<1> QED BY <1>1, <1>2

-----------------------------------------------------------------------------
(* A text between quotes is read back as what is between them.             *)
LEMMA UnquotedQuoted ==
    ASSUME NEW C, Quote \in C, NEW s \in Seq(C)
    PROVE  Unquoted(<<Quote>> \o s \o <<Quote>>) = s
<1> DEFINE item == <<Quote>> \o s \o <<Quote>>
           rest == s \o <<Quote>>
<1>1. <<Quote>> \in Seq(C) /\ Len(<<Quote>>) = 1 /\ (<<Quote>>)[1] = Quote
  OBVIOUS
<1>2. /\ item \in Seq(C) /\ Len(item) = Len(s) + 2 /\ item # <<>>
      /\ item[1] = Quote
      /\ \A i \in 1 .. Len(s) : item[i + 1] = s[i]
      /\ item[Len(s) + 2] = Quote
  BY <1>1
<1>3. /\ rest \in Seq(C) /\ Len(rest) = Len(s) + 1 /\ rest # <<>>
      /\ \A i \in 1 .. Len(s) : rest[i] = s[i]
      /\ rest[Len(s) + 1] = Quote
  BY <1>1
<1>4. Len(s) \in Nat
  OBVIOUS
<1> HIDE DEF item, rest
<1>5. Head(item) = Quote
  BY <1>2
<1>6. Tail(item) = rest
  <2>1. /\ Tail(item) \in Seq(C) /\ Len(Tail(item)) = Len(s) + 1
        /\ \A i \in 1 .. Len(s) + 1 : Tail(item)[i] = item[i + 1]
    BY <1>2, <1>4, HeadTailProperties
  <2>2. ASSUME NEW i \in 1 .. Len(s) + 1 PROVE Tail(item)[i] = rest[i]
    <3>1. CASE i = Len(s) + 1
      <4>1. i + 1 = Len(s) + 2
        BY <1>4, <3>1
      <4> QED BY <1>2, <1>3, <2>1, <3>1, <4>1
    <3>2. CASE i # Len(s) + 1
      <4>1. i \in 1 .. Len(s)
        BY <1>4, <3>2
      <4> QED BY <1>2, <1>3, <2>1, <4>1
    <3> QED BY <3>1, <3>2
  <2> QED BY <1>3, <2>1, <2>2, SeqEqual
<1>7. Last(rest) = Quote
  BY <1>3 DEF Last
<1>8. Front(rest) = s
  <2>1. Front(rest) = SubSeq(rest, 1, Len(s))
    <3>1. Len(rest) - 1 = Len(s)
      BY <1>3, <1>4
    <3> QED BY <3>1 DEF Front
  <2>2. /\ SubSeq(rest, 1, Len(s)) \in Seq(C) /\ Len(SubSeq(rest, 1, Len(s))) = Len(s)
        /\ \A i \in 1 .. Len(s) : SubSeq(rest, 1, Len(s))[i] = rest[i]
    BY <1>3, <1>4
  <2>3. \A i \in 1 .. Len(s) : SubSeq(rest, 1, Len(s))[i] = s[i]
    BY <1>3, <2>2
  <2> QED BY <2>1, <2>2, <2>3, SeqEqual
<1>9. Unquoted(item) = s
  BY <1>2, <1>3, <1>5, <1>6, <1>7, <1>8, Zenon DEF Unquoted
<1> QED BY <1>9 DEF item

(* A text without quotes is read back as it is.                            *)
LEMMA UnquotedPlain ==
    ASSUME NEW C, NEW s \in Seq(C), \A k \in 1 .. Len(s) : s[k] # Quote
    PROVE  Unquoted(s) = s
<1>1. CASE s = <<>>
  BY <1>1, Zenon DEF Unquoted
<1>2. CASE s # <<>>
  <2>1. 1 \in 1 .. Len(s) /\ Len(s) \in 1 .. Len(s) /\ Head(s) = s[1]
    BY <1>2
  <2>2. Head(s) # Quote /\ Last(s) # Quote
    BY <2>1 DEF Last
  <2> QED BY <2>2, Zenon DEF Unquoted
<1> QED BY <1>1, <1>2

(* What is sent for a text has the characters of the text, quotes and      *)
(* backslashes, and is not empty; and reading it back adds none.           *)
LEMMA ElementKind ==
    ASSUME NEW C, Quote \in C, Backslash \in C, NEW text \in Seq(C)
    PROVE  Element(text) \in Seq(C) /\ Element(text) # <<>>
<1>1. Escaped(text) \in Seq(C)
  BY EscapedKind
<1>2. CASE text = <<>> \/ ToSet(text) \cap Special # {}
  <2>1. Element(text) = <<Quote>> \o Escaped(text) \o <<Quote>>
    BY <1>2, Zenon DEF Element
  <2>2. <<Quote>> \o Escaped(text) \o <<Quote>> \in Seq(C)
        /\ <<Quote>> \o Escaped(text) \o <<Quote>> # <<>>
    BY <1>1
  <2> QED BY <2>1, <2>2
<1>3. CASE ~ (text = <<>> \/ ToSet(text) \cap Special # {})
  <2>1. Element(text) = text /\ text # <<>>
    BY <1>3, Zenon DEF Element
  <2> QED BY <2>1
<1> QED BY <1>2, <1>3

(* Taking off quotes adds no character.                                    *)
LEMMA UnquotedKind ==
    ASSUME NEW C, NEW s \in Seq(C)
    PROVE  Unquoted(s) \in Seq(C)
<1> DEFINE rest == IF s # <<>> /\ Head(s) = Quote THEN Tail(s) ELSE s
<1>1. rest \in Seq(C)
  <2>1. CASE s # <<>>
    <3>1. Tail(s) \in Seq(C)
      BY <2>1, HeadTailProperties
    <3> QED BY <3>1
  <2>2. CASE s = <<>>
    BY <2>2
  <2> QED BY <2>1, <2>2
<1>2. Unquoted(s) = IF rest # <<>> /\ Last(rest) = Quote THEN Front(rest) ELSE rest
  BY Zenon DEF Unquoted
<1> HIDE DEF rest
<1>3. Front(rest) \in Seq(C)
  <2>1. /\ Len(rest) \in Nat
        /\ \A i \in 1 .. Len(rest) - 1 : rest[i] \in C
    BY <1>1, ElementOfSeq
  <2>2. 1 \in Int /\ Len(rest) - 1 \in Int
    BY <2>1
  <2> DEFINE m == Len(rest) - 1
  <2> HIDE DEF m
  <2>3. m \in Int /\ \A i \in 1 .. m : rest[i] \in C
    BY <2>1, <2>2 DEF m
  <2>4. SubSeq(rest, 1, m) \in Seq(C)
    BY <2>3, SubSeqProperties
  <2> QED BY <2>4 DEF Front, m
<1> QED BY <1>1, <1>2, <1>3

(* Without commas, quotes and backslashes a text is read back as it is.    *)
Unmarked(text) == ToSet(text) \cap {Comma, Quote, Backslash} = {}

(* Unmarked speaks of the characters of the text, one by one.              *)
LEMMA UnmarkedSigns ==
    ASSUME NEW text \in Seq(Chars)
    PROVE  Unmarked(text) <=> \A k \in 1 .. Len(text) : text[k] \notin {Comma, Quote, Backslash}
<1>1. DOMAIN text = 1 .. Len(text)
  OBVIOUS
<1>2. ToSet(text) = {text[k] : k \in 1 .. Len(text)}
  BY <1>1 DEF ToSet
<1> QED BY <1>2 DEF Unmarked

(* So is what is sent for it, whether it was put in quotes or not.         *)
LEMMA ElementRead ==
    ASSUME NEW text \in Seq(Chars), Unmarked(text)
    PROVE  Unquoted(Element(text)) = text
<1>1. \A k \in 1 .. Len(text) : text[k] \notin {Quote, Backslash} /\ text[k] # Quote
  BY UnmarkedSigns
<1>2. Quote \in Chars /\ Backslash \in Chars
  BY CharsAreChars
<1>3. CASE text = <<>> \/ ToSet(text) \cap Special # {}
  <2>1. Escaped(text) = text
    BY <1>1, <1>2, EscapedPlain
  <2>2. Element(text) = <<Quote>> \o text \o <<Quote>>
    BY <1>3, <2>1, Zenon DEF Element
  <2> QED BY <1>2, <2>2, UnquotedQuoted
<1>4. CASE ~ (text = <<>> \/ ToSet(text) \cap Special # {})
  <2>1. Element(text) = text
    BY <1>4, Zenon DEF Element
  <2> QED BY <1>1, <2>1, UnquotedPlain
<1> QED BY <1>3, <1>4

(* With a quote or a backslash it is not.                                  *)
LEMMA ElementMarked ==
    ASSUME NEW text \in Seq(Chars), NEW k \in 1 .. Len(text), text[k] \in {Quote, Backslash}
    PROVE  Unquoted(Element(text)) # text
<1>1. Quote \in Chars /\ Backslash \in Chars
  BY CharsAreChars
<1>2. ToSet(text) \cap Special # {}
  <2>1. text[k] \in ToSet(text)
    BY DEF ToSet
  <2>2. text[k] \in Special
    BY DEF Special
  <2> QED BY <2>1, <2>2
<1>3. Element(text) = <<Quote>> \o Escaped(text) \o <<Quote>>
  BY <1>2, Zenon DEF Element
<1>4. Escaped(text) \in Seq(Chars) /\ Len(Escaped(text)) > Len(text)
  BY <1>1, EscapedKind
<1>5. Unquoted(Element(text)) = Escaped(text)
  BY <1>1, <1>3, <1>4, UnquotedQuoted
<1>6. Len(text) \in Nat
  OBVIOUS
<1> QED BY <1>4, <1>5, <1>6

-----------------------------------------------------------------------------
(* Cutting a text at its commas.                                           *)
LEMMA LineEndIs ==
    ASSUME NEW text, Len(text) \in Nat, NEW p \in 1 .. Len(text)
    PROVE  /\ LineEnd(text, p) \in p .. Len(text) + 1
           /\ LineEnd(text, p) <= Len(text) => text[LineEnd(text, p)] = Comma
           /\ \A k \in p .. LineEnd(text, p) - 1 : text[k] # Comma
<1> DEFINE n == Len(text)
           T == {q \in p .. n + 1 : q > n \/ text[q] = Comma}
<1>1. n \in Nat /\ p \in 1 .. n
  OBVIOUS
<1>2. LineEnd(text, p) = CHOOSE q \in T : \A k \in T : q <= k
  BY Zenon DEF LineEnd, Min
<1> HIDE DEF n
<1>3. T \in SUBSET Nat
  BY <1>1
<1>4. n + 1 \in T
  BY <1>1
<1>5. \E q \in T : \A k \in T : q <= k
  <2> HIDE DEF T
  <2> QED BY <1>3, <1>4, LeastOfSet
<1>6. LineEnd(text, p) \in T /\ \A k \in T : LineEnd(text, p) <= k
  <2> HIDE DEF T
  <2> QED BY <1>2, <1>5, Zenon
<1> DEFINE q == LineEnd(text, p)
<1>7. q \in p .. n + 1 /\ (q > n \/ text[q] = Comma)
  BY <1>6
<1>8. ASSUME NEW k \in p .. q - 1 PROVE text[k] # Comma
  <2> HIDE DEF q
  <2>1. k \in p .. n + 1 /\ ~ (q <= k)
    BY <1>1, <1>7
  <2>2. k \notin T
    <3> HIDE DEF T
    <3> QED BY <1>6, <2>1, Zenon DEF q
  <2> QED BY <2>1, <2>2
<1>9. q <= n => text[q] = Comma
  <2> HIDE DEF q
  <2> QED BY <1>1, <1>7
<1> QED BY <1>7, <1>8, <1>9 DEF n

(* The pieces from the p-th character on, when `rest` has those from later *)
(* characters on.                                                          *)
PiecesAt(text, rest, p) ==
    IF p > Len(text) THEN <<>>
    ELSE <<SubSeq(text, p, LineEnd(text, p) - 1)>> \o rest[LineEnd(text, p) + 1]

IsPieces(text, d, rest) == rest = [p \in d .. Len(text) + 2 |-> PiecesAt(text, rest, p)]

(* The function by which Pieces is defined exists: it is built from the    *)
(* end of the text, one place at a time.                                   *)
LEMMA PiecesExist ==
    ASSUME NEW text, Len(text) \in Nat
    PROVE  \E rest : IsPieces(text, 1, rest)
<1> DEFINE n == Len(text)
           S == {m \in Nat : m <= n + 2 => \E rest : IsPieces(text, n + 3 - m, rest)}
<1>0. n \in Nat
  OBVIOUS
<1>1. 0 \in S
  <2> DEFINE rest == [p \in n + 3 .. n + 2 |-> <<>>]
  <2>1. rest = [p \in n + 3 .. n + 2 |-> PiecesAt(text, rest, p)]
    <3> HIDE DEF n
    <3> QED BY <1>0
  <2>2. IsPieces(text, n + 3, rest)
    BY <2>1 DEF IsPieces
  <2>3. n + 3 - 0 = n + 3
    BY <1>0
  <2> HIDE DEF n, rest
  <2> QED BY <2>2, <2>3
<1>2. ASSUME NEW m \in Nat, m \in S PROVE m + 1 \in S
  <2> SUFFICES ASSUME m + 1 <= n + 2 PROVE \E rest : IsPieces(text, n + 3 - (m + 1), rest)
    OBVIOUS
  <2> DEFINE d == n + 3 - m
             e == n + 3 - (m + 1)
  <2>1. d \in 1 .. n + 3 /\ e \in 1 .. n + 2 /\ d = e + 1 /\ m <= n + 2
    <3> HIDE DEF n
    <3> QED BY <1>0
  <2>2. PICK rest : IsPieces(text, d, rest)
    <3> HIDE DEF n
    <3> QED BY <1>2, <2>1
  <2> DEFINE more == [p \in e .. n + 2 |-> IF p = e THEN PiecesAt(text, rest, e) ELSE rest[p]]
  <2> HIDE DEF d, e
  <2>3. \A p \in d .. n + 2 : rest[p] = PiecesAt(text, rest, p)
    BY <2>2, Zenon DEF IsPieces
  <2>4. ASSUME NEW p \in e .. n + 2 PROVE more[p] = PiecesAt(text, more, p)
    <3>1. more[p] = PiecesAt(text, rest, p)
      <4>1. CASE p = e
        BY <4>1
      <4>2. CASE p # e
        <5>1. p \in d .. n + 2
          <6> HIDE DEF n, more
          <6> QED BY <1>0, <2>1, <4>2
        <5> QED BY <2>3, <4>2, <5>1
      <4> QED BY <4>1, <4>2
    <3>2. CASE p > n
      BY <3>1, <3>2, Zenon DEF PiecesAt
    <3>3. CASE ~ (p > n)
      <4> DEFINE q == LineEnd(text, p) + 1
      <4>1. p \in 1 .. n
        <5> HIDE DEF n
        <5> QED BY <1>0, <2>1, <3>3
      <4>2. q \in p + 1 .. n + 2
        <5>1. LineEnd(text, p) \in p .. n + 1
          BY <4>1, LineEndIs
        <5> HIDE DEF n
        <5> QED BY <1>0, <4>1, <5>1
      <4>3. q \in e .. n + 2 /\ q # e
        <5> HIDE DEF n, q
        <5> QED BY <1>0, <2>1, <4>1, <4>2
      <4>4. more[q] = rest[q]
        <5> HIDE DEF n, q
        <5> QED BY <4>3
      <4> HIDE DEF more
      <4> QED BY <3>1, <4>4, Zenon DEF PiecesAt
    <3> QED BY <3>2, <3>3
  <2>5. more = [p \in e .. n + 2 |-> more[p]]
    OBVIOUS
  <2> HIDE DEF more
  <2>6. more = [p \in e .. n + 2 |-> PiecesAt(text, more, p)]
    BY <2>4, <2>5, Zenon
  <2>7. IsPieces(text, e, more)
    BY <2>6, Zenon DEF IsPieces
  <2> QED BY <2>7 DEF e
<1>3. \A m \in Nat : m \in S
  <2> HIDE DEF S
  <2> QED BY <1>1, <1>2, AllNaturals
<1>4. n + 2 \in Nat /\ n + 3 - (n + 2) = 1 /\ n + 2 <= n + 2
  <2> HIDE DEF n
  <2> QED BY <1>0
<1>5. n + 2 \in S
  <2> HIDE DEF S, n
  <2> QED BY <1>3, <1>4
<1> HIDE DEF n
<1> QED BY <1>4, <1>5

(* So Pieces is a line, and the pieces after it.                           *)
LEMMA PiecesAre ==
    ASSUME NEW text, Len(text) \in Nat
    PROVE  \E rest : /\ Pieces(text) = rest[1]
                     /\ \A p \in 1 .. Len(text) + 2 : rest[p] = PiecesAt(text, rest, p)
<1> DEFINE rest == CHOOSE r : IsPieces(text, 1, r)
<1>1. IsPieces(text, 1, rest)
  <2>1. \E r : IsPieces(text, 1, r)
    BY PiecesExist
  <2> QED BY <2>1, Zenon
<1>2. Pieces(text) = rest[1]
  BY Zenon DEF Pieces, IsPieces, PiecesAt
<1> HIDE DEF rest
<1>3. \A p \in 1 .. Len(text) + 2 : rest[p] = PiecesAt(text, rest, p)
  BY <1>1, Zenon DEF IsPieces
<1> QED BY <1>2, <1>3

(* No piece of a text has a comma.                                         *)
LEMMA PiecesHaveNoComma ==
    ASSUME NEW text \in Seq(Chars)
    PROVE  Pieces(text) \in Seq(Seq(Chars \ {Comma}))
<1> DEFINE n == Len(text)
           C == Chars \ {Comma}
<1>0. n \in Nat /\ \A k \in 1 .. n : text[k] \in Chars
  BY ElementOfSeq
<1>1. PICK rest : /\ Pieces(text) = rest[1]
                  /\ \A p \in 1 .. n + 2 : rest[p] = PiecesAt(text, rest, p)
  BY PiecesAre
<1> DEFINE S == {m \in Nat : \A p \in 1 .. n + 2 : p + m >= n + 2 => rest[p] \in Seq(Seq(C))}
<1>2. ASSUME NEW p \in 1 .. n + 2, p > n PROVE rest[p] \in Seq(Seq(C))
  <2>1. rest[p] = <<>>
    BY <1>1, <1>2, Zenon DEF PiecesAt
  <2> HIDE DEF C
  <2> QED BY <2>1
<1>3. 0 \in S
  <2>1. ASSUME NEW p \in 1 .. n + 2, p + 0 >= n + 2 PROVE rest[p] \in Seq(Seq(C))
    <3>1. p > n
      <4> HIDE DEF n
      <4> QED BY <1>0, <2>1
    <3> QED BY <1>2, <3>1
  <2> QED BY <2>1
<1>4. ASSUME NEW m \in Nat, m \in S PROVE m + 1 \in S
  <2>1. ASSUME NEW p \in 1 .. n + 2, p + (m + 1) >= n + 2 PROVE rest[p] \in Seq(Seq(C))
    <3> DEFINE q == LineEnd(text, p)
               line == SubSeq(text, p, q - 1)
    <3>1. CASE p > n
      BY <1>2, <3>1
    <3>2. CASE ~ (p > n)
      <4>1. p \in 1 .. n
        <5> HIDE DEF n
        <5> QED BY <1>0, <3>2
      <4>2. q \in p .. n + 1 /\ \A k \in p .. q - 1 : text[k] # Comma
        BY <1>0, <4>1, LineEndIs
      <4>3. rest[p] = <<line>> \o rest[q + 1]
        BY <1>1, <3>2, Zenon DEF PiecesAt
      <4>4. q + 1 \in 1 .. n + 2 /\ q + 1 + m >= n + 2
        <5> HIDE DEF n, q
        <5> QED BY <1>0, <2>1, <4>1, <4>2
      <4>5. rest[q + 1] \in Seq(Seq(C))
        <5> HIDE DEF C, n, q
        <5> QED BY <1>4, <4>4
      <4>6. line \in Seq(C)
        <5>1. \A k \in p .. q - 1 : k \in 1 .. n
          <6> HIDE DEF n, q
          <6> QED BY <1>0, <4>1, <4>2
        <5>2. \A k \in p .. q - 1 : text[k] \in C
          BY <1>0, <4>2, <5>1
        <5>3. q - 1 \in Int /\ p \in Int
          <6> HIDE DEF n, q
          <6> QED BY <1>0, <4>1, <4>2
        <5> HIDE DEF n, q, C
        <5> QED BY <5>2, <5>3, SubSeqProperties
      <4> HIDE DEF C, n, q, line
      <4> QED BY <4>3, <4>5, <4>6
    <3> QED BY <3>1, <3>2
  <2> HIDE DEF C, n
  <2> QED BY <2>1
<1>5. \A m \in Nat : m \in S
  <2> HIDE DEF S
  <2> QED BY <1>3, <1>4, AllNaturals
<1>6. n + 2 \in Nat /\ 1 \in 1 .. n + 2 /\ 1 + (n + 2) >= n + 2
  <2> HIDE DEF n
  <2> QED BY <1>0
<1>7. n + 2 \in S
  <2> HIDE DEF S, n
  <2> QED BY <1>5, <1>6
<1> HIDE DEF C, n
<1> QED BY <1>1, <1>6, <1>7 DEF C

-----------------------------------------------------------------------------
(* The text that joins n elements E by commas, one element after another:  *)
(* element i ends where the concatenation of the first i pieces does.      *)
Joined(E, i) == IF i = 1 THEN E[i] ELSE <<Comma>> \o E[i]

Holds(E, run, j, i) ==
    /\ Len(run[i]) \in Nat /\ Len(run[i]) <= Len(run[j]) /\ Len(run[i]) >= Len(E[i])
    /\ \A k \in 1 .. Len(E[i]) : run[j][Len(run[i]) - Len(E[i]) + k] = E[i][k]
    /\ i < j => Len(run[i]) < Len(run[j]) /\ run[j][Len(run[i]) + 1] = Comma

(* Each element lies where the concatenation up to it ends, and a comma    *)
(* follows it unless it is the last.                                       *)
LEMMA JoinedHolds ==
    ASSUME NEW n \in Nat \ {0}, NEW E \in [1 .. n -> Seq(Chars \ {Comma})], NEW run,
           run[1] = Joined(E, 1), \A i \in 2 .. n : run[i] = run[i - 1] \o Joined(E, i)
    PROVE  /\ \A j \in 1 .. n : run[j] \in Seq(Chars)
           /\ \A j \in 1 .. n : \A i \in 1 .. j : Holds(E, run, j, i)
           /\ Len(run[1]) = Len(E[1])
           /\ \A j \in 2 .. n : Len(run[j]) = Len(run[j - 1]) + 1 + Len(E[j])
<1> DEFINE S == {j \in 1 .. n : run[j] \in Seq(Chars) /\ \A i \in 1 .. j : Holds(E, run, j, i)}
<1>1. ASSUME NEW i \in 1 .. n PROVE E[i] \in Seq(Chars) /\ Len(E[i]) \in Nat
  <2>1. E[i] \in Seq(Chars \ {Comma})
    OBVIOUS
  <2>2. Seq(Chars \ {Comma}) \subseteq Seq(Chars)
    BY SeqMonotonic
  <2> QED BY <2>1, <2>2
<1>2. run[1] = E[1] /\ 1 \in 1 .. n
  BY DEF Joined
<1>3. 1 \in S
  <2>1. run[1] \in Seq(Chars) /\ Len(run[1]) \in Nat
    BY <1>1, <1>2
  <2>2. Holds(E, run, 1, 1)
    <3>1. Len(run[1]) - Len(E[1]) = 0
      BY <1>2, <2>1
    <3>2. \A k \in 1 .. Len(E[1]) : run[1][Len(run[1]) - Len(E[1]) + k] = E[1][k]
      <4>1. ASSUME NEW k \in 1 .. Len(E[1]) PROVE 0 + k = k
        OBVIOUS
      <4> QED BY <1>2, <3>1, <4>1
    <3>3. Len(run[1]) <= Len(run[1]) /\ Len(run[1]) >= Len(E[1]) /\ ~ (1 < 1)
      BY <1>2, <2>1
    <3> QED BY <2>1, <3>2, <3>3 DEF Holds
  <2>3. \A i \in 1 .. 1 : i = 1
    OBVIOUS
  <2> QED BY <1>2, <2>1, <2>2, <2>3
<1>4. ASSUME NEW j \in 2 .. n, j - 1 \in 1 .. n, run[j - 1] \in Seq(Chars)
      PROVE  /\ run[j] \in Seq(Chars)
             /\ Len(run[j]) = Len(run[j - 1]) + 1 + Len(E[j])
             /\ \A k \in 1 .. Len(run[j - 1]) : run[j][k] = run[j - 1][k]
             /\ run[j][Len(run[j - 1]) + 1] = Comma
             /\ \A k \in 1 .. Len(E[j]) : run[j][Len(run[j - 1]) + 1 + k] = E[j][k]
  <2> DEFINE old == run[j - 1]
             e == E[j]
             next == <<Comma>> \o e
  <2>1. j \in 1 .. n /\ j # 1
    OBVIOUS
  <2>2. run[j] = old \o next
    BY <2>1, Zenon DEF Joined
  <2>3. e \in Seq(Chars) /\ Len(e) \in Nat /\ old \in Seq(Chars) /\ Len(old) \in Nat
    BY <1>1, <1>4, <2>1
  <2>4. <<Comma>> \in Seq(Chars) /\ Len(<<Comma>>) = 1 /\ (<<Comma>>)[1] = Comma
    BY CharsAreChars
  <2> HIDE DEF e, old
  <2>5. /\ next \in Seq(Chars) /\ Len(next) = 1 + Len(e) /\ next[1] = Comma
        /\ \A k \in 1 .. Len(e) : next[k + 1] = e[k]
    BY <2>3, <2>4
  <2> HIDE DEF next
  <2>6. /\ old \o next \in Seq(Chars) /\ Len(old \o next) = Len(old) + Len(next)
        /\ \A k \in 1 .. Len(old) : (old \o next)[k] = old[k]
        /\ \A k \in 1 .. Len(next) : (old \o next)[Len(old) + k] = next[k]
    <3>1. old \in Seq(Chars) /\ next \in Seq(Chars)
      BY <2>3, <2>5
    <3> HIDE DEF Chars
    <3> QED BY <3>1, ConcatProperties
  <2>7. /\ run[j] \in Seq(Chars) /\ Len(run[j]) = Len(old) + 1 + Len(e)
        /\ \A k \in 1 .. Len(old) : run[j][k] = old[k]
    BY <2>2, <2>3, <2>5, <2>6
  <2>8. run[j][Len(old) + 1] = Comma
    <3>1. 1 \in 1 .. Len(next)
      BY <2>3, <2>5
    <3> QED BY <2>2, <2>5, <2>6, <3>1
  <2>9. ASSUME NEW k \in 1 .. Len(e) PROVE run[j][Len(old) + 1 + k] = e[k]
    <3>1. k + 1 \in 1 .. Len(next) /\ Len(old) + (k + 1) = Len(old) + 1 + k
      BY <2>3, <2>5
    <3>2. (old \o next)[Len(old) + (k + 1)] = next[k + 1]
      BY <2>6, <3>1
    <3> QED BY <2>2, <2>5, <3>1, <3>2
  <2> QED BY <2>7, <2>8, <2>9 DEF old, e
<1>5. ASSUME NEW j \in 2 .. n, j - 1 \in S PROVE j \in S
  <2>1. j - 1 \in 1 .. n /\ j \in 1 .. n /\ j - 1 \in Nat /\ j \in Nat
    OBVIOUS
  <2>2. run[j - 1] \in Seq(Chars) /\ \A i \in 1 .. j - 1 : Holds(E, run, j - 1, i)
    BY <1>5
  <2> DEFINE m == Len(run[j - 1])
             l == Len(run[j])
  <2>3. /\ run[j] \in Seq(Chars) /\ l = m + 1 + Len(E[j])
        /\ \A k \in 1 .. m : run[j][k] = run[j - 1][k]
        /\ run[j][m + 1] = Comma
        /\ \A k \in 1 .. Len(E[j]) : run[j][m + 1 + k] = E[j][k]
    BY <1>4, <2>1, <2>2
  <2>4. m \in Nat /\ l \in Nat /\ Len(E[j]) \in Nat /\ m < l
    <3>1. run[j - 1] \in Seq(Chars) /\ run[j] \in Seq(Chars)
      BY <2>2, <2>3
    <3>2. m \in Nat /\ l \in Nat
      BY <3>1
    <3>3. Len(E[j]) \in Nat
      BY <1>1, <2>1
    <3>4. l = m + 1 + Len(E[j])
      BY <2>3
    <3> DEFINE e == Len(E[j])
    <3>5. e \in Nat /\ l = m + 1 + e
      BY <3>3, <3>4
    <3> HIDE DEF m, l, e
    <3>6. m < l
      BY <3>2, <3>5
    <3> QED BY <3>2, <3>3, <3>6
  <2>5. ASSUME NEW i \in 1 .. j - 1 PROVE Holds(E, run, j, i)
    <3> DEFINE a == Len(run[i])
               b == Len(E[i])
    <3>1. /\ a \in Nat /\ a <= m /\ a >= b /\ b \in Nat
          /\ \A k \in 1 .. b : run[j - 1][a - b + k] = E[i][k]
          /\ i < j - 1 => a < m /\ run[j - 1][a + 1] = Comma
      <4>1. i \in 1 .. n
        BY <2>1
      <4> QED BY <1>1, <2>2, <4>1 DEF Holds
    <3> HIDE DEF m, l, a, b
    <3>2. ASSUME NEW k \in 1 .. b PROVE run[j][a - b + k] = E[i][k]
      <4>1. a - b + k \in 1 .. m
        BY <2>4, <3>1
      <4> QED BY <2>3, <3>1, <4>1
    <3>3. a <= l /\ a < l
      BY <2>4, <3>1
    <3>4. run[j][a + 1] = Comma
      <4>1. CASE i = j - 1
        BY <2>3, <4>1 DEF a, m
      <4>2. CASE i # j - 1
        <5>1. a < m /\ run[j - 1][a + 1] = Comma
          BY <2>1, <3>1, <4>2
        <5>2. a + 1 \in 1 .. m
          BY <2>4, <3>1, <5>1
        <5> QED BY <2>3, <5>1, <5>2
      <4> QED BY <4>1, <4>2
    <3> QED BY <3>1, <3>2, <3>3, <3>4 DEF Holds, a, b, l
  <2>6. Holds(E, run, j, j)
    <3> DEFINE b == Len(E[j])
    <3>1. b \in Nat
      BY <2>4
    <3>2. ASSUME NEW k \in 1 .. b PROVE run[j][l - b + k] = E[j][k]
      <4> HIDE DEF m, l, b
      <4>1. l - b + k = m + 1 + k
        BY <2>3, <2>4, <3>1 DEF b
      <4> QED BY <2>3, <4>1 DEF b
    <3>3. l \in Nat /\ l <= l /\ l >= b /\ ~ (j < j)
      <4> HIDE DEF m, l
      <4> QED BY <2>1, <2>3, <2>4
    <3> QED BY <3>2, <3>3 DEF Holds
  <2>7. ASSUME NEW i \in 1 .. j PROVE Holds(E, run, j, i)
    <3>1. i = j \/ i \in 1 .. j - 1
      BY <2>1
    <3> QED BY <2>5, <2>6, <3>1
  <2> QED BY <2>1, <2>3, <2>7
<1>6. \A j \in 1 .. n : j \in S
  <2> HIDE DEF S
  <2> QED BY <1>3, <1>5, FlatKeeps
<1>7. ASSUME NEW j \in 2 .. n PROVE Len(run[j]) = Len(run[j - 1]) + 1 + Len(E[j])
  <2>1. j - 1 \in 1 .. n
    OBVIOUS
  <2> QED BY <1>4, <1>6, <2>1
<1> QED BY <1>2, <1>6, <1>7

Begin(E, run, i) == Len(run[i]) - Len(E[i]) + 1

Found(E, run, n, i) ==
    /\ Begin(E, run, i) \in 1 .. Len(run[n])
    /\ LineEnd(run[n], Begin(E, run, i)) = Len(run[i]) + 1
    /\ SubSeq(run[n], Begin(E, run, i), Len(run[i])) = E[i]

(* Cut at its commas the text gives the elements back.                     *)
LEMMA ElementFound ==
    ASSUME NEW n \in Nat \ {0}, NEW E \in [1 .. n -> Seq(Chars \ {Comma})], NEW run,
           \A i \in 1 .. n : E[i] # <<>>,
           run[n] \in Seq(Chars), NEW i \in 1 .. n, Holds(E, run, n, i)
    PROVE  Found(E, run, n, i)
<1> DEFINE body == run[n]
           l == Len(body)
           a == Len(run[i])
           e == E[i]
           b == Len(e)
           p == Begin(E, run, i)
           q == LineEnd(body, p)
<1>1. e \in Seq(Chars \ {Comma}) /\ e # <<>> /\ b \in Nat \ {0}
  BY EmptySeq
<1>2. \A k \in 1 .. b : e[k] # Comma
  <2>1. \A k \in 1 .. b : e[k] \in Chars \ {Comma}
    BY <1>1, ElementOfSeq
  <2> QED BY <2>1
<1>3. l \in Nat
  OBVIOUS
<1>4. /\ a \in Nat /\ a <= l /\ a >= b
      /\ \A k \in 1 .. b : body[a - b + k] = e[k]
      /\ i < n => a < l /\ body[a + 1] = Comma
  BY DEF Holds
<1>5. (i = n => a = l) /\ p = a - b + 1
  BY DEF Begin
<1> HIDE DEF p, a, b, l, body, e
<1>6. p \in 1 .. l
  BY <1>1, <1>3, <1>4, <1>5
<1>7. q \in p .. l + 1 /\ (q <= l => body[q] = Comma) /\ \A k \in p .. q - 1 : body[k] # Comma
  <2>1. Len(body) \in Nat /\ p \in 1 .. Len(body)
    BY <1>3, <1>6 DEF l
  <2>2. /\ LineEnd(body, p) \in p .. Len(body) + 1
        /\ LineEnd(body, p) <= Len(body) => body[LineEnd(body, p)] = Comma
        /\ \A k \in p .. LineEnd(body, p) - 1 : body[k] # Comma
    BY <2>1, LineEndIs
  <2> QED BY <2>2 DEF l
<1>8. q = a + 1
  <2> HIDE DEF q
  <2>1. q \in Nat
    BY <1>3, <1>6, <1>7
  <2>2. CASE q < a + 1
    <3> DEFINE k == q - (a - b)
    <3>1. k \in 1 .. b /\ a - b + k = q /\ q <= l
      BY <1>1, <1>3, <1>4, <1>5, <1>7, <2>1, <2>2
    <3> HIDE DEF k
    <3>2. body[q] = e[k] /\ e[k] # Comma
      BY <1>2, <1>4, <3>1
    <3> QED BY <1>7, <3>1, <3>2
  <2>3. CASE q > a + 1
    <3>1. a + 1 \in p .. q - 1 /\ a + 1 <= l
      BY <1>1, <1>3, <1>4, <1>5, <1>7, <2>1, <2>3
    <3>2. i < n
      <4>1. a # l
        BY <1>3, <1>4, <3>1
      <4> QED BY <1>5, <4>1
    <3> QED BY <1>4, <1>7, <3>1, <3>2
  <2> QED BY <1>4, <2>1, <2>2, <2>3
<1>9. SubSeq(body, p, a) = e
  <2>1. ASSUME NEW k \in p .. a PROVE body[k] \in Chars
    <3>1. k \in 1 .. l
      BY <1>1, <1>3, <1>4, <1>5, <1>6
    <3>2. \A j \in 1 .. Len(body) : body[j] \in Chars
      BY ElementOfSeq DEF body
    <3> QED BY <3>1, <3>2 DEF l
  <2>2. p \in Int /\ a \in Int /\ a - p + 1 = b /\ p <= a
    <3>1. a \in Nat /\ b \in Nat /\ b # 0 /\ p = a - b + 1
      BY <1>1, <1>4, <1>5
    <3> QED BY <3>1
  <2>3. /\ SubSeq(body, p, a) \in Seq(Chars) /\ Len(SubSeq(body, p, a)) = b
        /\ \A k \in 1 .. b : SubSeq(body, p, a)[k] = body[p + k - 1]
    <3>1. /\ SubSeq(body, p, a) \in Seq(Chars)
          /\ Len(SubSeq(body, p, a)) = IF p <= a THEN a - p + 1 ELSE 0
          /\ \A k \in 1 .. a - p + 1 : SubSeq(body, p, a)[k] = body[p + k - 1]
      BY <2>1, <2>2, SubSeqProperties
    <3> QED BY <2>2, <3>1
  <2>4. ASSUME NEW k \in 1 .. b PROVE SubSeq(body, p, a)[k] = e[k]
    <3>1. p + k - 1 = a - b + k
      BY <1>1, <1>4, <1>5, <2>2
    <3> QED BY <1>4, <2>3, <3>1
  <2>5. e \in Seq(Chars) /\ Len(e) = b
    <3>1. Seq(Chars \ {Comma}) \subseteq Seq(Chars)
      BY SeqMonotonic
    <3> QED BY <1>1, <3>1 DEF b
  <2> QED BY <2>3, <2>4, <2>5, SeqEqual
<1> QED BY <1>6, <1>8, <1>9 DEF Found, p, a, b, l, body, e

(* A function on 1 .. n is a sequence of length n.                         *)
LEMMA FunctionIsSeq ==
    ASSUME NEW S, NEW n \in Nat, NEW f \in [1 .. n -> S]
    PROVE  f \in Seq(S) /\ Len(f) = n
OBVIOUS

(* Elements without commas, joined by commas, are the pieces: shown from   *)
(* the last element to the first.                                          *)
LEMMA PiecesOfJoined ==
    ASSUME NEW n \in Nat \ {0}, NEW E \in [1 .. n -> Seq(Chars \ {Comma})], NEW run,
           \A i \in 1 .. n : E[i] # <<>>,
           run[1] = Joined(E, 1), \A i \in 2 .. n : run[i] = run[i - 1] \o Joined(E, i)
    PROVE  Pieces(run[n]) = E
<1> DEFINE body == run[n]
           l == Len(body)
           begin(i) == Begin(E, run, i)
           later(i) == [j \in 1 .. n - i + 1 |-> E[i + j - 1]]
<1>1. /\ \A i \in 1 .. n : run[i] \in Seq(Chars)
      /\ \A i \in 1 .. n : Holds(E, run, n, i)
      /\ Len(run[1]) = Len(E[1])
      /\ \A i \in 2 .. n : Len(run[i]) = Len(run[i - 1]) + 1 + Len(E[i])
  <2>1. n \in 1 .. n /\ \A i \in 1 .. n : i \in 1 .. n
    OBVIOUS
  <2>2. /\ \A j \in 1 .. n : run[j] \in Seq(Chars)
        /\ \A j \in 1 .. n : \A i \in 1 .. j : Holds(E, run, j, i)
        /\ Len(run[1]) = Len(E[1])
        /\ \A j \in 2 .. n : Len(run[j]) = Len(run[j - 1]) + 1 + Len(E[j])
    BY JoinedHolds
  <2> QED BY <2>1, <2>2, Zenon
<1>2. body \in Seq(Chars) /\ l \in Nat
  BY <1>1
<1>3. \A i \in 1 .. n : E[i] \in Seq(Chars) /\ Len(E[i]) \in Nat /\ Len(run[i]) \in Nat
  <2>1. Seq(Chars \ {Comma}) \subseteq Seq(Chars)
    BY SeqMonotonic
  <2> QED BY <1>1, <2>1
<1>4. PICK rest : /\ Pieces(body) = rest[1]
                  /\ \A p \in 1 .. l + 2 : rest[p] = PiecesAt(body, rest, p)
  BY <1>2, PiecesAre
<1>5. ASSUME NEW i \in 1 .. n PROVE rest[begin(i)] = <<E[i]>> \o rest[Len(run[i]) + 2]
  <2> DEFINE p == begin(i)
             a == Len(run[i])
  <2>1. p \in 1 .. l /\ LineEnd(body, p) = a + 1 /\ SubSeq(body, p, a) = E[i]
    <3>1. run[n] \in Seq(Chars) /\ Holds(E, run, n, i)
      BY <1>1, <1>2
    <3>2. \A j \in 1 .. n : E[j] # <<>>
      OBVIOUS
    <3>3. i \in 1 .. n /\ n \in Nat \ {0} /\ E \in [1 .. n -> Seq(Chars \ {Comma})]
      OBVIOUS
    <3> HIDE DEF later, begin, body, l, p, a
    <3>4. Found(E, run, n, i)
      BY <3>1, <3>2, <3>3, ElementFound, Zenon
    <3> QED BY <3>4 DEF Found, begin, body, l, p, a
  <2>2. a \in Nat
    BY <1>3
  <2> HIDE DEF body, l, p, a
  <2>3. p \in 1 .. l + 2 /\ ~ (p > l) /\ (a + 1) - 1 = a /\ (a + 1) + 1 = a + 2
    BY <1>2, <2>1, <2>2
  <2>4. rest[p] = <<SubSeq(body, p, LineEnd(body, p) - 1)>> \o rest[LineEnd(body, p) + 1]
    BY <1>4, <2>3, Zenon DEF PiecesAt, l
  <2>5. rest[p] = <<E[i]>> \o rest[a + 2]
    BY <2>1, <2>3, <2>4
  <2> QED BY <2>5 DEF p, a
<1>6. ASSUME NEW i \in 1 .. n, i # n PROVE i + 1 \in 1 .. n /\ begin(i + 1) = Len(run[i]) + 2
  <2> DEFINE a == Len(run[i])
             c == Len(run[i + 1])
             b == Len(E[i + 1])
  <2>1. i + 1 \in 2 .. n /\ i + 1 \in 1 .. n /\ (i + 1) - 1 = i
    BY <1>6
  <2>2. c = a + 1 + b
    BY <1>1, <2>1
  <2>3. a \in Nat /\ b \in Nat
    BY <1>3, <2>1
  <2> HIDE DEF a, b, c
  <2>4. c - b + 1 = a + 2
    BY <2>2, <2>3
  <2> QED BY <2>1, <2>4 DEF a, b, c, Begin
<1>7. rest[Len(run[n]) + 2] = <<>>
  <2> HIDE DEF l, body
  <2>1. l + 2 \in 1 .. l + 2 /\ l + 2 > l
    BY <1>2
  <2>2. rest[l + 2] = <<>>
    BY <1>4, <2>1, Zenon DEF PiecesAt, l
  <2> QED BY <2>2 DEF l, body
<1> DEFINE S == {m \in Nat : m < n => rest[begin(n - m)] = later(n - m)}
<1>8. 0 \in S
  <2>1. n - 0 = n /\ n - n + 1 = 1 /\ n \in 1 .. n
    OBVIOUS
  <2>2. rest[begin(n)] = <<E[n]>> \o <<>>
    BY <1>5, <1>7, <2>1, Zenon
  <2>3. <<E[n]>> \o <<>> = <<E[n]>>
    <3>1. E[n] \in Seq(Chars)
      BY <1>3, <2>1
    <3> DEFINE x == E[n]
    <3> HIDE DEF x
    <3>2. <<x>> \o <<>> = <<x>>
      OBVIOUS
    <3> QED BY <3>2 DEF x
  <2>4. later(n) = <<E[n]>>
    <3>1. later(n) = [j \in 1 .. 1 |-> E[n + j - 1]]
      BY <2>1
    <3>2. \A j \in 1 .. 1 : n + j - 1 = n
      OBVIOUS
    <3> DEFINE x == E[n]
    <3>3. later(n) = [j \in 1 .. 1 |-> x]
      BY <3>1, <3>2
    <3> HIDE DEF later, x
    <3>4. later(n) = <<x>>
      BY <3>3
    <3> QED BY <3>4 DEF x
  <2> HIDE DEF begin, later
  <2> QED BY <2>1, <2>2, <2>3, <2>4
<1>9. ASSUME NEW m \in Nat, m \in S PROVE m + 1 \in S
  <2> SUFFICES ASSUME m + 1 < n PROVE rest[begin(n - (m + 1))] = later(n - (m + 1))
    <3> HIDE DEF begin, later
    <3> QED OBVIOUS
  <2> DEFINE i == n - (m + 1)
             x == E[i]
             s == later(i + 1)
             t == later(i)
  <2>1. i \in 1 .. n /\ i # n /\ i + 1 = n - m /\ m < n /\ i \in Nat /\ i < n
    OBVIOUS
  <2> HIDE DEF i
  <2>2. rest[begin(i + 1)] = s
    <3> HIDE DEF begin, later
    <3> QED BY <1>9, <2>1 DEF s
  <2>3. rest[begin(i)] = <<x>> \o s
    <3>1. rest[begin(i)] = <<E[i]>> \o rest[Len(run[i]) + 2]
      BY <1>5, <2>1
    <3>2. begin(i + 1) = Len(run[i]) + 2
      BY <1>6, <2>1
    <3> HIDE DEF begin, later
    <3> QED BY <2>2, <3>1, <3>2 DEF x
  <2>4. /\ s \in Seq(Seq(Chars)) /\ Len(s) = n - i
        /\ \A j \in 1 .. n - i : s[j] = E[i + j]
    <3>1. n - (i + 1) + 1 = n - i /\ \A j \in 1 .. n - i : (i + 1) + j - 1 = i + j /\ i + j \in 1 .. n
      BY <2>1
    <3>2. s = [j \in 1 .. n - i |-> E[i + j]]
      BY <3>1
    <3> HIDE DEF s, later
    <3>3. \A j \in 1 .. n - i : E[i + j] \in Seq(Chars)
      BY <1>3, <3>1
    <3>4. n - i \in Nat
      BY <2>1
    <3> DEFINE k == n - i
    <3> HIDE DEF k
    <3>5. k \in Nat /\ s = [j \in 1 .. k |-> E[i + j]] /\ \A j \in 1 .. k : E[i + j] \in Seq(Chars)
      BY <3>2, <3>3, <3>4 DEF k
    <3>6. s \in [1 .. k -> Seq(Chars)] /\ \A j \in 1 .. k : s[j] = E[i + j]
      BY <3>5
    <3>7. s \in Seq(Seq(Chars)) /\ Len(s) = k
      BY <3>5, <3>6, FunctionIsSeq
    <3> QED BY <3>6, <3>7 DEF k
  <2>5. /\ t \in Seq(Seq(Chars)) /\ Len(t) = n - i + 1
        /\ \A j \in 1 .. n - i + 1 : t[j] = E[i + j - 1]
    <3>1. \A j \in 1 .. n - i + 1 : i + j - 1 \in 1 .. n
      BY <2>1
    <3>2. \A j \in 1 .. n - i + 1 : E[i + j - 1] \in Seq(Chars)
      BY <1>3, <3>1
    <3>3. n - i + 1 \in Nat
      BY <2>1
    <3> DEFINE k == n - i + 1
    <3>4. t = [j \in 1 .. k |-> E[i + j - 1]]
      OBVIOUS
    <3> HIDE DEF k, t
    <3>5. k \in Nat /\ \A j \in 1 .. k : E[i + j - 1] \in Seq(Chars)
      BY <3>2, <3>3 DEF k
    <3>6. t \in [1 .. k -> Seq(Chars)] /\ \A j \in 1 .. k : t[j] = E[i + j - 1]
      BY <3>4, <3>5
    <3>7. t \in Seq(Seq(Chars)) /\ Len(t) = k
      BY <3>5, <3>6, FunctionIsSeq
    <3> QED BY <3>6, <3>7 DEF k
  <2>6. x \in Seq(Chars) /\ <<x>> \in Seq(Seq(Chars)) /\ Len(<<x>>) = 1 /\ (<<x>>)[1] = x
    BY <1>3, <2>1
  <2> DEFINE u == <<x>> \o s
  <2>7. /\ u \in Seq(Seq(Chars)) /\ Len(u) = 1 + (n - i)
        /\ u[1] = x
        /\ \A j \in 1 .. n - i : u[j + 1] = s[j]
    <3> HIDE DEF x, s
    <3>1. n - i \in Nat
      BY <2>1
    <3> QED BY <2>4, <2>6, <3>1
  <2>8. ASSUME NEW j \in 1 .. n - i + 1 PROVE u[j] = t[j]
    <3> HIDE DEF u, t, s
    <3>1. CASE j = 1
      <4>1. i + j - 1 = i
        BY <2>1, <3>1
      <4> QED BY <2>5, <2>7, <3>1, <4>1 DEF x
    <3>2. CASE j # 1
      <4>1. j - 1 \in 1 .. n - i /\ (j - 1) + 1 = j /\ i + (j - 1) = i + j - 1
        BY <2>1, <3>2
      <4>2. u[j] = s[j - 1] /\ s[j - 1] = E[i + (j - 1)]
        BY <2>4, <2>7, <4>1
      <4> QED BY <2>5, <4>1, <4>2
    <3> QED BY <3>1, <3>2
  <2>9. u = t
    <3> HIDE DEF u, t
    <3>1. Len(u) = n - i + 1
      BY <2>1, <2>7
    <3>2. /\ u \in Seq(Seq(Chars)) /\ t \in Seq(Seq(Chars)) /\ Len(u) = Len(t)
          /\ \A j \in 1 .. Len(u) : u[j] = t[j]
      BY <2>5, <2>7, <2>8, <3>1
    <3> QED BY <3>2, SeqEqual
  <2> HIDE DEF later, begin
  <2> QED BY <2>3, <2>9 DEF u, t, i
<1>10. \A m \in Nat : m \in S
  <2> HIDE DEF S
  <2> QED BY <1>8, <1>9, AllNaturals
<1>11. rest[begin(1)] = later(1)
  <2>1. n - 1 \in Nat /\ n - 1 < n /\ n - (n - 1) = 1
    OBVIOUS
  <2>2. n - 1 \in S
    <3> HIDE DEF S
    <3> QED BY <1>10, <2>1
  <2> HIDE DEF begin, later
  <2> QED BY <2>1, <2>2
<1>12. begin(1) = 1
  <2>1. Len(run[1]) \in Nat
    BY <1>3
  <2> QED BY <1>1, <2>1 DEF Begin
<1>13. later(1) = E
  <2>1. n - 1 + 1 = n /\ \A j \in 1 .. n : 1 + j - 1 = j
    OBVIOUS
  <2>2. later(1) = [j \in 1 .. n |-> E[j]]
    BY <2>1
  <2> QED BY <2>2
<1> HIDE DEF begin, later
<1> QED BY <1>4, <1>11, <1>12, <1>13

-----------------------------------------------------------------------------
(* Sending a list of texts and reading it back.                            *)
Parts(list) ==
    [i \in DOMAIN list |-> IF i = 1 THEN Element(list[i]) ELSE <<Comma>> \o Element(list[i])]

(* Sequences that are not empty have a concatenation that is not.          *)
LEMMA FlattenKind ==
    ASSUME NEW C, NEW seqs, Len(seqs) \in Nat, Len(seqs) # 0,
           \A i \in 1 .. Len(seqs) : seqs[i] \in Seq(C) /\ seqs[i] # <<>>
    PROVE  FlattenSeq(seqs) \in Seq(C) /\ FlattenSeq(seqs) # <<>>
<1> DEFINE n == Len(seqs)
<1>1. PICK run : /\ FlattenSeq(seqs) = run[n] /\ run[1] = seqs[1]
                 /\ \A i \in 2 .. n : run[i] = run[i - 1] \o seqs[i]
  BY FlattenIsFlat
<1>2. n \in Nat \ {0} /\ \A i \in 1 .. n : seqs[i] \in Seq(C) /\ seqs[i] # <<>>
  OBVIOUS
<1> HIDE DEF n
<1> DEFINE S == {i \in 1 .. n : run[i] \in Seq(C) /\ run[i] # <<>>}
<1>3. 1 \in S
  BY <1>1, <1>2
<1>4. ASSUME NEW i \in 2 .. n, i - 1 \in S PROVE i \in S
  <2>1. i \in 1 .. n
    BY <1>2
  <2>2. run[i] = run[i - 1] \o seqs[i]
    BY <1>1, Zenon
  <2>3. run[i - 1] \in Seq(C) /\ run[i - 1] # <<>> /\ seqs[i] \in Seq(C)
    BY <1>2, <1>4, <2>1
  <2> DEFINE s == run[i - 1]
             t == seqs[i]
  <2> HIDE DEF s, t
  <2>4. s \o t \in Seq(C) /\ s \o t # <<>>
    BY <2>3 DEF s, t
  <2> QED BY <2>1, <2>2, <2>4 DEF s, t
<1>5. \A i \in 1 .. n : i \in S
  <2> HIDE DEF S
  <2> QED BY <1>2, <1>3, <1>4, FlatKeeps
<1>6. n \in S
  BY <1>2, <1>5
<1> QED BY <1>1, <1>6

(* The parts of a list: its elements, with a comma before each but the     *)
(* first.                                                                  *)
LEMMA PartsAre ==
    ASSUME NEW C, {Comma, Quote, Backslash} \subseteq C,
           NEW list \in Seq(Seq(C)), list # <<>>
    PROVE  /\ Len(Parts(list)) = Len(list)
           /\ \A i \in 1 .. Len(list) :
                 /\ Parts(list)[i] = IF i = 1 THEN Element(list[i]) ELSE <<Comma>> \o Element(list[i])
                 /\ Parts(list)[i] \in Seq(C) /\ Parts(list)[i] # <<>>
<1> DEFINE n == Len(list)
<1>1. n \in Nat \ {0} /\ DOMAIN list = 1 .. n /\ \A i \in 1 .. n : list[i] \in Seq(C)
  BY EmptySeq, ElementOfSeq
<1> HIDE DEF n
<1>2. Parts(list) = [i \in 1 .. n |-> IF i = 1 THEN Element(list[i]) ELSE <<Comma>> \o Element(list[i])]
  BY <1>1 DEF Parts
<1>3. ASSUME NEW i \in 1 .. n
      PROVE  /\ Parts(list)[i] = IF i = 1 THEN Element(list[i]) ELSE <<Comma>> \o Element(list[i])
             /\ Parts(list)[i] \in Seq(C) /\ Parts(list)[i] # <<>>
  <2>1. Parts(list)[i] = IF i = 1 THEN Element(list[i]) ELSE <<Comma>> \o Element(list[i])
    BY <1>2
  <2>2. Element(list[i]) \in Seq(C) /\ Element(list[i]) # <<>>
    BY <1>1, ElementKind
  <2> DEFINE e == Element(list[i])
  <2> HIDE DEF e
  <2>3. <<Comma>> \o e \in Seq(C) /\ <<Comma>> \o e # <<>>
    BY <2>2 DEF e
  <2> QED BY <2>1, <2>2, <2>3 DEF e
<1>4. Len(Parts(list)) = n
  <2> DEFINE f == Parts(list)
  <2>1. DOMAIN f = 1 .. n
    BY <1>2
  <2>2. f = [i \in 1 .. n |-> f[i]]
    BY <1>2
  <2> HIDE DEF f
  <2>3. f \in [1 .. n -> Seq(C)]
    BY <1>3, <2>1, <2>2 DEF f
  <2>4. Len(f) = n
    BY <1>1, <2>3, FunctionIsSeq
  <2> QED BY <2>4 DEF f
<1> QED BY <1>3, <1>4 DEF n

(* The braces are taken off again, and the pieces are read one by one.     *)
LEMMA ParsedPieces ==
    ASSUME NEW C, {Open, Close} \subseteq C, NEW body \in Seq(C), body # <<>>
    PROVE  ParseTextArray(<<Open>> \o body \o <<Close>>) =
               [i \in DOMAIN Pieces(body) |-> Unquoted(Pieces(body)[i])]
<1> DEFINE row == <<Open>> \o body \o <<Close>>
           l == Len(body)
<1>1. l \in Nat \ {0}
  BY EmptySeq
<1>2. /\ row \in Seq(C) /\ Len(row) = l + 2 /\ row[1] = Open /\ row # <<>>
      /\ \A i \in 1 .. l : row[i + 1] = body[i]
  OBVIOUS
<1> HIDE DEF row, l
<1>3. Head(row) = Open
  BY <1>2
<1>4. row \notin {<<>>, <<Open, Close>>}
  <2>1. Len(<<Open, Close>>) = 2
    OBVIOUS
  <2>2. Len(row) # 2
    BY <1>1, <1>2
  <2> QED BY <1>2, <2>1, <2>2
<1>5. SubSeq(row, 2, Len(row) - 1) = body
  <2>1. Len(row) - 1 = l + 1 /\ l + 1 \in Int /\ 2 \in Int /\ 2 <= l + 1 /\ (l + 1) - 2 + 1 = l
    BY <1>1, <1>2
  <2>2. \A i \in 2 .. l + 1 : row[i] \in C
    <3>1. \A i \in 1 .. Len(row) : row[i] \in C
      BY <1>2, ElementOfSeq
    <3>2. \A i \in 2 .. l + 1 : i \in 1 .. Len(row)
      BY <1>1, <1>2
    <3> QED BY <3>1, <3>2
  <2> DEFINE m == l + 1
             s == SubSeq(row, 2, m)
  <2>3. m \in Int /\ 2 <= m /\ m - 2 + 1 = l /\ \A i \in 2 .. m : row[i] \in C
    BY <2>1, <2>2
  <2> HIDE DEF m
  <2>4. s \in Seq(C) /\ Len(s) = l /\ \A i \in 1 .. l : s[i] = row[2 + i - 1]
    <3>1. /\ SubSeq(row, 2, m) \in Seq(C)
          /\ Len(SubSeq(row, 2, m)) = IF 2 <= m THEN m - 2 + 1 ELSE 0
          /\ \A i \in 1 .. m - 2 + 1 : SubSeq(row, 2, m)[i] = row[2 + i - 1]
      BY <2>3, SubSeqProperties
    <3> QED BY <2>3, <3>1
  <2> HIDE DEF s
  <2>5. ASSUME NEW i \in 1 .. l PROVE s[i] = body[i]
    <3>1. 2 + i - 1 = i + 1
      BY <1>1
    <3> QED BY <1>2, <2>4, <3>1
  <2>6. Len(s) = Len(body) /\ \A i \in 1 .. Len(s) : s[i] = body[i]
    BY <2>4, <2>5 DEF l
  <2>7. s = body
    BY <2>4, <2>6, SeqEqual
  <2> QED BY <2>1, <2>7 DEF s, m
<1>6. ParseTextArray(row) = [i \in DOMAIN Pieces(body) |-> Unquoted(Pieces(body)[i])]
  BY <1>3, <1>4, <1>5, Zenon DEF ParseTextArray
<1> QED BY <1>6 DEF row

(* The list without texts is read back.                                    *)
LEMMA EmptyReadBack == ParseTextArray(ArrayText(<<>>)) = <<>> /\ Readable(<<>>)
<1> DEFINE parts == [i \in DOMAIN (<<>>) |->
                        IF i = 1 THEN Element((<<>>)[i]) ELSE <<Comma>> \o Element((<<>>)[i])]
<1>1. parts = <<>>
  OBVIOUS
<1>2. ArrayText(<<>>) = <<Open>> \o FlattenSeq(parts) \o <<Close>>
  BY Zenon DEF ArrayText
<1>3. Len(parts) = 0
  BY <1>1
<1> HIDE DEF parts
<1>4. FlattenSeq(parts) = parts
  BY <1>3, Zenon DEF FlattenSeq
<1>5. ArrayText(<<>>) = <<Open, Close>>
  <2>1. ArrayText(<<>>) = <<Open>> \o <<>> \o <<Close>>
    BY <1>1, <1>2, <1>4, Zenon
  <2> DEFINE sent == <<Open>> \o <<>> \o <<Close>>
             braces == <<Open, Close>>
  <2>3. Open \in Chars /\ Close \in Chars
    BY CharsAreChars
  <2>4. sent \in Seq(Chars) /\ Len(sent) = 2 /\ sent[1] = Open /\ sent[2] = Close
    BY <2>3
  <2>5. braces \in Seq(Chars) /\ Len(braces) = 2 /\ braces[1] = Open /\ braces[2] = Close
    BY <2>3
  <2>6. \A i \in 1 .. 2 : sent[i] = braces[i]
    <3>1. \A i \in 1 .. 2 : i = 1 \/ i = 2
      OBVIOUS
    <3> QED BY <2>4, <2>5, <3>1
  <2>7. sent = braces
    <3> HIDE DEF sent, braces
    <3> QED BY <2>4, <2>5, <2>6, SeqEqual
  <2> QED BY <2>1, <2>7
<1>6. ParseTextArray(<<Open, Close>>) = <<>>
  BY DEF ParseTextArray
<1>7. \A i \in DOMAIN (<<>>) : FALSE
  OBVIOUS
<1> QED BY <1>5, <1>6, <1>7 DEF Readable

(* A list that is not empty is sent as its parts between braces.           *)
LEMMA SentList ==
    ASSUME NEW list \in Seq(Seq(Chars)), list # <<>>
    PROVE  \E run : /\ run[Len(list)] \in Seq(Chars)
                    /\ run[1] = Joined([i \in 1 .. Len(list) |-> Element(list[i])], 1)
                    /\ \A i \in 2 .. Len(list) :
                          run[i] = run[i - 1] \o Joined([j \in 1 .. Len(list) |-> Element(list[j])], i)
                    /\ ParseTextArray(ArrayText(list)) =
                          [i \in DOMAIN Pieces(run[Len(list)]) |-> Unquoted(Pieces(run[Len(list)])[i])]
<1> DEFINE n == Len(list)
           parts == Parts(list)
           E == [i \in 1 .. n |-> Element(list[i])]
<1>1. n \in Nat \ {0}
  BY EmptySeq
<1>2. {Comma, Quote, Backslash} \subseteq Chars /\ {Open, Close} \subseteq Chars
  BY CharsAreChars
<1>3. /\ Len(parts) = n
      /\ \A i \in 1 .. n :
            /\ parts[i] = IF i = 1 THEN Element(list[i]) ELSE <<Comma>> \o Element(list[i])
            /\ parts[i] \in Seq(Chars) /\ parts[i] # <<>>
  <2> HIDE DEF Chars
  <2> QED BY <1>2, PartsAre
<1>4. ASSUME NEW i \in 1 .. n PROVE parts[i] = Joined(E, i)
  <2>1. E[i] = Element(list[i])
    OBVIOUS
  <2> HIDE DEF E, n, parts
  <2> QED BY <1>3, <2>1, Zenon DEF Joined
<1>5. ArrayText(list) = <<Open>> \o FlattenSeq(parts) \o <<Close>>
  BY Zenon DEF ArrayText, Parts
<1> HIDE DEF n, parts, E
<1>6. PICK run : /\ FlattenSeq(parts) = run[n] /\ run[1] = parts[1]
                 /\ \A i \in 2 .. n : run[i] = run[i - 1] \o parts[i]
  BY <1>1, <1>3, FlattenIsFlat
<1>7. run[n] \in Seq(Chars) /\ run[n] # <<>>
  <2> HIDE DEF Chars
  <2>1. Len(parts) \in Nat /\ Len(parts) # 0
        /\ \A i \in 1 .. Len(parts) : parts[i] \in Seq(Chars) /\ parts[i] # <<>>
    BY <1>1, <1>3
  <2>2. FlattenSeq(parts) \in Seq(Chars) /\ FlattenSeq(parts) # <<>>
    BY <2>1, FlattenKind
  <2> QED BY <1>6, <2>2
<1>8. ParseTextArray(ArrayText(list)) = [i \in DOMAIN Pieces(run[n]) |-> Unquoted(Pieces(run[n])[i])]
  <2> DEFINE body == run[n]
  <2> HIDE DEF body, Chars
  <2>1. body \in Seq(Chars) /\ body # <<>>
    BY <1>7 DEF body
  <2>2. ParseTextArray(<<Open>> \o body \o <<Close>>) =
            [i \in DOMAIN Pieces(body) |-> Unquoted(Pieces(body)[i])]
    BY <1>2, <2>1, ParsedPieces
  <2>3. ArrayText(list) = <<Open>> \o body \o <<Close>>
    BY <1>5, <1>6 DEF body
  <2> QED BY <2>2, <2>3 DEF body
<1>9. run[1] = Joined(E, 1)
  <2>1. 1 \in 1 .. n
    BY <1>1
  <2> QED BY <1>4, <1>6, <2>1
<1>10. ASSUME NEW i \in 2 .. n PROVE run[i] = run[i - 1] \o Joined(E, i)
  <2>1. i \in 1 .. n
    BY <1>1
  <2>2. run[i] = run[i - 1] \o parts[i]
    BY <1>6, Zenon
  <2> QED BY <1>4, <2>1, <2>2
<1> QED BY <1>7, <1>8, <1>9, <1>10, Zenon DEF n, E

(* A text with a comma is cut, and lost.                                   *)
LEMMA CommaIsLost ==
    ASSUME NEW list \in Seq(Seq(Chars)), NEW i \in 1 .. Len(list),
           NEW k \in 1 .. Len(list[i]), list[i][k] = Comma
    PROVE  ParseTextArray(ArrayText(list)) # list
<1>1. list # <<>>
  OBVIOUS
<1>2. PICK body : /\ body \in Seq(Chars)
                  /\ ParseTextArray(ArrayText(list)) =
                        [j \in DOMAIN Pieces(body) |-> Unquoted(Pieces(body)[j])]
  BY <1>1, SentList, Zenon
<1> DEFINE items == Pieces(body)
           read == [j \in DOMAIN items |-> Unquoted(items[j])]
           C == Chars \ {Comma}
<1>3. items \in Seq(Seq(C))
  BY <1>2, PiecesHaveNoComma
<1> SUFFICES ASSUME read = list PROVE FALSE
  BY <1>2
<1>4. i \in DOMAIN items
  <2>1. DOMAIN read = DOMAIN items
    BY Zenon
  <2>2. DOMAIN list = 1 .. Len(list)
    OBVIOUS
  <2> QED BY <2>1, <2>2
<1>5. items[i] \in Seq(C)
  <2> HIDE DEF items, C
  <2> QED BY <1>3, <1>4, ElementOfSeq
<1>6. list[i] = Unquoted(items[i])
  <2>1. read[i] = Unquoted(items[i])
    BY <1>4, Zenon
  <2> QED BY <2>1
<1>7. list[i] \in Seq(C)
  <2> HIDE DEF C, items
  <2> QED BY <1>5, <1>6, UnquotedKind
<1>8. list[i][k] \in C
  <2> HIDE DEF C
  <2> QED BY <1>7, ElementOfSeq
<1> QED BY <1>8

(* Without commas each text is a piece.                                    *)
LEMMA PlainIsRead ==
    ASSUME NEW list \in Seq(Seq(Chars \ {Comma})), list # <<>>
    PROVE  ParseTextArray(ArrayText(list)) = [i \in 1 .. Len(list) |-> Unquoted(Element(list[i]))]
<1> DEFINE n == Len(list)
           C == Chars \ {Comma}
           E == [i \in 1 .. n |-> Element(list[i])]
<1>1. n \in Nat \ {0} /\ \A i \in 1 .. n : list[i] \in Seq(C)
  BY EmptySeq, ElementOfSeq
<1>2. Quote \in C /\ Backslash \in C
  BY CharsAreChars, CharsDiffer
<1>3. \A i \in 1 .. n : Element(list[i]) \in Seq(C) /\ Element(list[i]) # <<>>
  <2> HIDE DEF C, n
  <2> QED BY <1>1, <1>2, ElementKind
<1>4. E \in [1 .. n -> Seq(C)] /\ \A i \in 1 .. n : E[i] # <<>>
  <2> HIDE DEF C, n
  <2> QED BY <1>3
<1>5. list \in Seq(Seq(Chars))
  <2>1. Seq(C) \subseteq Seq(Chars)
    BY SeqMonotonic
  <2> HIDE DEF C
  <2>2. Seq(Seq(C)) \subseteq Seq(Seq(Chars))
    BY <2>1, SeqMonotonic
  <2> QED BY <2>2 DEF C
<1>6. PICK run : /\ run[1] = Joined(E, 1)
                 /\ \A i \in 2 .. n : run[i] = run[i - 1] \o Joined(E, i)
                 /\ ParseTextArray(ArrayText(list)) =
                       [i \in DOMAIN Pieces(run[n]) |-> Unquoted(Pieces(run[n])[i])]
  BY <1>5, SentList, Zenon
<1> HIDE DEF n, E
<1>7. Pieces(run[n]) = E
  BY <1>1, <1>4, <1>6, PiecesOfJoined
<1>8. DOMAIN E = 1 .. n /\ \A i \in 1 .. n : E[i] = Element(list[i])
  BY DEF E
<1> QED BY <1>6, <1>7, <1>8 DEF n

(* A list of texts is read back as it was sent exactly when no text in it  *)
(* has a comma, a quote or a backslash.                                    *)
LEMMA ArrayReadBack ==
    ASSUME NEW list \in Seq(Seq(Chars))
    PROVE  ParseTextArray(ArrayText(list)) = list <=> Readable(list)
<1> DEFINE n == Len(list)
           C == Chars \ {Comma}
<1>1. n \in Nat /\ DOMAIN list = 1 .. n /\ \A i \in 1 .. n : list[i] \in Seq(Chars)
  BY ElementOfSeq
<1>2. Readable(list) <=> \A i \in 1 .. n : Unmarked(list[i])
  <2> HIDE DEF n
  <2> QED BY <1>1, Zenon DEF Readable, Unmarked
<1>3. CASE list = <<>>
  BY <1>3, EmptyReadBack
<1>4. CASE list # <<>> /\ \E i \in 1 .. n : \E k \in 1 .. Len(list[i]) : list[i][k] = Comma
  <2>1. PICK i \in 1 .. n : \E k \in 1 .. Len(list[i]) : list[i][k] = Comma
    BY <1>4
  <2>2. PICK k \in 1 .. Len(list[i]) : list[i][k] = Comma
    BY <2>1
  <2>3. ParseTextArray(ArrayText(list)) # list
    BY <2>2, CommaIsLost
  <2>4. ~ Unmarked(list[i])
    BY <1>1, <2>2, UnmarkedSigns
  <2> QED BY <1>2, <2>3, <2>4
<1>5. CASE list # <<>> /\ ~ \E i \in 1 .. n : \E k \in 1 .. Len(list[i]) : list[i][k] = Comma
  <2>1. ASSUME NEW i \in 1 .. n PROVE list[i] \in Seq(C)
    <3> DEFINE text == list[i]
    <3>1. text \in Seq(Chars) /\ \A k \in 1 .. Len(text) : text[k] # Comma
      BY <1>1, <1>5
    <3> HIDE DEF text
    <3>2. \A k \in 1 .. Len(text) : text[k] \in C
      BY <3>1, ElementOfSeq
    <3> HIDE DEF C
    <3>3. text = [k \in 1 .. Len(text) |-> text[k]] /\ Len(text) \in Nat
      BY <3>1
    <3>4. text \in [1 .. Len(text) -> C]
      BY <3>2, <3>3
    <3>5. text \in Seq(C)
      BY <3>3, <3>4, FunctionIsSeq
    <3> QED BY <3>5 DEF text
  <2>2. list \in Seq(Seq(C))
    <3> HIDE DEF C, n
    <3>1. list = [k \in 1 .. n |-> list[k]]
      BY <1>1 DEF n
    <3>2. list \in [1 .. n -> Seq(C)]
      BY <2>1, <3>1
    <3> QED BY <1>1, <3>2, FunctionIsSeq
  <2>3. ParseTextArray(ArrayText(list)) = [i \in 1 .. n |-> Unquoted(Element(list[i]))]
    BY <1>5, <2>2, PlainIsRead
  <2> HIDE DEF n
  <2>4. CASE \A i \in 1 .. n : Unmarked(list[i])
    <3>1. \A i \in 1 .. n : Unquoted(Element(list[i])) = list[i]
      BY <1>1, <2>4, ElementRead
    <3>2. list = [i \in 1 .. n |-> list[i]]
      BY <1>1
    <3> QED BY <1>2, <2>3, <2>4, <3>1, <3>2
  <2>5. CASE ~ \A i \in 1 .. n : Unmarked(list[i])
    <3>1. PICK i \in 1 .. n : ~ Unmarked(list[i])
      BY <2>5
    <3>2. PICK k \in 1 .. Len(list[i]) : list[i][k] \in {Comma, Quote, Backslash}
      BY <1>1, <3>1, UnmarkedSigns
    <3>3. list[i][k] \in {Quote, Backslash}
      BY <1>5, <3>2
    <3>4. Unquoted(Element(list[i])) # list[i]
      BY <1>1, <3>3, ElementMarked
    <3> QED BY <1>2, <2>3, <3>1, <3>4
  <2> QED BY <2>4, <2>5
<1> QED BY <1>3, <1>4, <1>5

-----------------------------------------------------------------------------
(* Rows.                                                                   *)
LEMMA TextsAreChars == Seq(Texts) \subseteq Seq(Seq(Chars))
<1>1. Texts \subseteq Seq(Chars)
  BY SeqMonotonic DEF Texts, Chars
<1> QED BY <1>1, SeqMonotonic

(* What is read back of the columns of a row.                              *)
LEMMA ColumnsAre ==
    ASSUME NEW row
    PROVE  /\ Columns(row)[1] = row.txHash
           /\ Columns(row)[InAddress] = ArrayText(row.txIn)
           /\ Columns(row)[OutAddress] = ArrayText(row.txOut)
           /\ Columns(row)[4] = row.time
           /\ Columns(row)[5] = row.satoshi
<1> DEFINE in == ArrayText(row.txIn)
           out == ArrayText(row.txOut)
<1>1. Columns(row) = <<row.txHash, in, out, row.time, row.satoshi>>
  BY DEF Columns
<1> HIDE DEF in, out
<1>2. /\ Columns(row)[1] = row.txHash /\ Columns(row)[2] = in /\ Columns(row)[3] = out
      /\ Columns(row)[4] = row.time /\ Columns(row)[5] = row.satoshi
  BY <1>1
<1> QED BY <1>2 DEF in, out, InAddress, OutAddress

(* A row is read back column by column.                                    *)
LEMMA RowParsed ==
    ASSUME NEW row
    PROVE  ParseRow(Columns(row)) =
              [txHash |-> row.txHash, txIn |-> ParseTextArray(ArrayText(row.txIn)),
               txOut |-> ParseTextArray(ArrayText(row.txOut)), time |-> row.time, satoshi |-> row.satoshi]
BY ColumnsAre, Zenon DEF ParseRow

(* It is the row that was stored exactly when both its lists are read      *)
(* back.                                                                   *)
LEMMA RowReadBack ==
    ASSUME NEW row \in RowType
    PROVE  (ParseRow(Columns(row)) = row) <=> Readable(row.txIn) /\ Readable(row.txOut)
<1> DEFINE in == ParseTextArray(ArrayText(row.txIn))
           out == ParseTextArray(ArrayText(row.txOut))
<1>1. row.txIn \in Seq(Texts) /\ row.txOut \in Seq(Texts)
  BY DEF RowType
<1>2. row.txIn \in Seq(Seq(Chars)) /\ row.txOut \in Seq(Seq(Chars))
  BY <1>1, TextsAreChars
<1>3. (in = row.txIn <=> Readable(row.txIn)) /\ (out = row.txOut <=> Readable(row.txOut))
  BY <1>2, ArrayReadBack, Zenon
<1>4. ParseRow(Columns(row)) =
        [txHash |-> row.txHash, txIn |-> in, txOut |-> out, time |-> row.time, satoshi |-> row.satoshi]
  BY RowParsed, Zenon
<1>5. row = [txHash |-> row.txHash, txIn |-> row.txIn, txOut |-> row.txOut,
             time |-> row.time, satoshi |-> row.satoshi]
  BY DEF RowType
<1> HIDE DEF in, out
<1>6. ParseRow(Columns(row)) = row <=> in = row.txIn /\ out = row.txOut
  BY <1>4, <1>5
<1> QED BY <1>3, <1>6

(* What is sent for rows in some order, and what each reader makes of it.  *)
LEMMA OrdersAre ==
    ASSUME NEW rows, NEW s \in Orders(rows)
    PROVE  DOMAIN s = 1 .. Cardinality(rows) /\ \A i \in DOMAIN s : s[i] \in rows
BY DEF Orders

(* Rows are read back one by one, in the order in which they were sent.    *)
LEMMA RowsParsed ==
    ASSUME NEW s
    PROVE  ParseRows([i \in DOMAIN s |-> Columns(s[i])]) = [i \in DOMAIN s |-> ParseRow(Columns(s[i]))]
<1> DEFINE sent == [i \in DOMAIN s |-> Columns(s[i])]
<1>1. DOMAIN sent = DOMAIN s /\ \A i \in DOMAIN s : sent[i] = Columns(s[i])
  BY Zenon
<1> HIDE DEF sent
<1>2. ParseRows(sent) = [i \in DOMAIN s |-> ParseRow(Columns(s[i]))]
  BY <1>1 DEF ParseRows
<1> QED BY <1>2 DEF sent

(* Readable rows are read back as they are.                                *)
LEMMA RowsReadBack ==
    ASSUME NEW rows \in SUBSET RowType, NEW s \in Orders(rows),
           \A r \in rows : Readable(r.txIn) /\ Readable(r.txOut)
    PROVE  ParseRows([i \in DOMAIN s |-> Columns(s[i])]) = s
<1>1. \A i \in DOMAIN s : s[i] \in rows
  BY OrdersAre
<1>2. \A i \in DOMAIN s : ParseRow(Columns(s[i])) = s[i]
  BY <1>1, RowReadBack
<1>3. s = [i \in DOMAIN s |-> s[i]]
  BY DEF Orders
<1> QED BY <1>2, <1>3, RowsParsed

(* So are their lists, one after another.                                  *)
LEMMA ListsReadBack ==
    ASSUME NEW rows \in SUBSET RowType, NEW s \in Orders(rows),
           \A r \in rows : Readable(r.txIn) /\ Readable(r.txOut)
    PROVE  /\ Inputs([i \in DOMAIN s |-> Columns(s[i])]) = FlattenSeq([i \in DOMAIN s |-> s[i].txIn])
           /\ Outputs([i \in DOMAIN s |-> Columns(s[i])]) = FlattenSeq([i \in DOMAIN s |-> s[i].txOut])
<1> DEFINE sent == [i \in DOMAIN s |-> Columns(s[i])]
<1>1. DOMAIN sent = DOMAIN s /\ \A i \in DOMAIN s : sent[i] = Columns(s[i])
  BY Zenon
<1>2. ASSUME NEW i \in DOMAIN s
      PROVE  /\ ParseTextArray(ArrayText(s[i].txIn)) = s[i].txIn
             /\ ParseTextArray(ArrayText(s[i].txOut)) = s[i].txOut
  <2>1. s[i] \in rows
    BY OrdersAre
  <2>2. Readable(s[i].txIn) /\ Readable(s[i].txOut)
    BY <2>1
  <2>3. s[i].txIn \in Seq(Texts) /\ s[i].txOut \in Seq(Texts)
    BY <2>1 DEF RowType
  <2> QED BY <2>2, <2>3, TextsAreChars, ArrayReadBack
<1> HIDE DEF sent
<1>3. ASSUME NEW i \in DOMAIN s
      PROVE  /\ ParseTextArray(sent[i][InAddress]) = s[i].txIn
             /\ ParseTextArray(sent[i][OutAddress]) = s[i].txOut
  BY <1>1, <1>2, ColumnsAre
<1>4. /\ [i \in DOMAIN sent |-> ParseTextArray(sent[i][InAddress])] = [i \in DOMAIN s |-> s[i].txIn]
      /\ [i \in DOMAIN sent |-> ParseTextArray(sent[i][OutAddress])] = [i \in DOMAIN s |-> s[i].txOut]
  BY <1>1, <1>3
<1>5. Inputs(sent) = FlattenSeq([i \in DOMAIN s |-> s[i].txIn])
  BY <1>4, Zenon DEF Inputs, ParseTextArrayColumn
<1>6. Outputs(sent) = FlattenSeq([i \in DOMAIN s |-> s[i].txOut])
  BY <1>4, Zenon DEF Outputs, ParseTextArrayColumn
<1> QED BY <1>5, <1>6 DEF sent

-----------------------------------------------------------------------------
(* What one call does: it fails, or it answers from the rows asked for.    *)
Wanted(call, a, r) ==
    LET during == a[1] <= r.time /\ r.time <= a[2]
        pays(address) == \E text \in ToSet(r.txIn \o r.txOut) : text = address
    IN  CASE call \in {"row by hash", "inputs by hash", "outputs by hash"} -> r.txHash = a[1]
          [] call \in {"rows by time", "inputs by time", "outputs by time"} -> during
          [] call \in {"rows by satoshi", "inputs by satoshi", "outputs by satoshi"} ->
                r.satoshi = a[1]
          [] call \in {"rows by satoshi and time", "inputs by satoshi and time",
                       "outputs by satoshi and time"} -> r.satoshi = a[3] /\ during
          [] call = "rows by wallet" -> pays(a[1])
          [] call = "rows by wallet and time" -> pays(a[3]) /\ during

Calls == RowCalls \cup InputCalls \cup OutputCalls

ResultOf(call, sent) ==
    IF call = "row by hash" THEN OneRow(sent)
    ELSE IF call \in RowCalls THEN ParseRows(sent)
    ELSE IF call \in InputCalls THEN Inputs(sent)
    ELSE Outputs(sent)

Selected(call, arg) == {r \in table : Wanted(call, arg, r)}

Called(call, arg) ==
    /\ call \in Calls
    /\ \/ \E outcome \in {"down", "error"} : Fails(call, arg, outcome)
       \/ \E sent \in Sent(Selected(call, arg)) : Answers(call, arg, ResultOf(call, sent))

(* The strings of the calls are told apart.                                *)
LEMMA ResultsAre ==
    ASSUME NEW sent
    PROVE  /\ ResultOf("row by hash", sent) = OneRow(sent)
           /\ \A call \in RowCalls \ {"row by hash"} : ResultOf(call, sent) = ParseRows(sent)
           /\ \A call \in InputCalls : ResultOf(call, sent) = Inputs(sent)
           /\ \A call \in OutputCalls : ResultOf(call, sent) = Outputs(sent)
<1>1. \A call \in InputCalls : call # "row by hash" /\ call \notin RowCalls
  BY DEF InputCalls, RowCalls
<1>2. \A call \in OutputCalls : call # "row by hash" /\ call \notin RowCalls /\ call \notin InputCalls
  BY DEF InputCalls, OutputCalls, RowCalls
<1> QED BY <1>1, <1>2, Zenon DEF ResultOf

(* What each find function asks of a row.                                  *)
LEMMA WantedByHash ==
    ASSUME NEW a, NEW r, NEW call \in {"row by hash", "inputs by hash", "outputs by hash"}
    PROVE  Wanted(call, a, r) = (r.txHash = a[1])
BY Zenon DEF Wanted

LEMMA WantedByTime ==
    ASSUME NEW a, NEW r, NEW call \in {"rows by time", "inputs by time", "outputs by time"}
    PROVE  Wanted(call, a, r) = (a[1] <= r.time /\ r.time <= a[2])
<1>1. call \notin {"row by hash", "inputs by hash", "outputs by hash"}
  OBVIOUS
<1> QED BY <1>1, Zenon DEF Wanted

LEMMA WantedBySatoshi ==
    ASSUME NEW a, NEW r, NEW call \in {"rows by satoshi", "inputs by satoshi", "outputs by satoshi"}
    PROVE  Wanted(call, a, r) = (r.satoshi = a[1])
<1>1. /\ call \notin {"row by hash", "inputs by hash", "outputs by hash"}
      /\ call \notin {"rows by time", "inputs by time", "outputs by time"}
  OBVIOUS
<1> QED BY <1>1, Zenon DEF Wanted

LEMMA WantedBySatoshiTime ==
    ASSUME NEW a, NEW r, NEW call \in {"rows by satoshi and time", "inputs by satoshi and time",
                                       "outputs by satoshi and time"}
    PROVE  Wanted(call, a, r) = (r.satoshi = a[3] /\ a[1] <= r.time /\ r.time <= a[2])
<1>1. /\ call \notin {"row by hash", "inputs by hash", "outputs by hash"}
      /\ call \notin {"rows by time", "inputs by time", "outputs by time"}
      /\ call \notin {"rows by satoshi", "inputs by satoshi", "outputs by satoshi"}
  OBVIOUS
<1> QED BY <1>1, Zenon DEF Wanted

Pays(r, address) == \E text \in ToSet(r.txIn \o r.txOut) : text = address

LEMMA WantedByWallet ==
    ASSUME NEW a, NEW r
    PROVE  /\ Wanted("rows by wallet", a, r) = Pays(r, a[1])
           /\ Wanted("rows by wallet and time", a, r) = (Pays(r, a[3]) /\ a[1] <= r.time /\ r.time <= a[2])
<1>1. ASSUME NEW call \in {"rows by wallet", "rows by wallet and time"}
      PROVE  /\ call \notin {"row by hash", "inputs by hash", "outputs by hash"}
             /\ call \notin {"rows by time", "inputs by time", "outputs by time"}
             /\ call \notin {"rows by satoshi", "inputs by satoshi", "outputs by satoshi"}
             /\ call \notin {"rows by satoshi and time", "inputs by satoshi and time",
                             "outputs by satoshi and time"}
  OBVIOUS
<1>2. "rows by wallet" # "rows by wallet and time"
  OBVIOUS
<1> QED BY <1>1, <1>2, Zenon DEF Wanted, Pays

(* ANY over both columns asks the same as looking through both.            *)
LEMMA AnyIsPays ==
    ASSUME NEW r \in RowType, NEW address
    PROVE  AnyIs(r, address) <=> Pays(r, address)
<1> DEFINE in == r.txIn
           out == r.txOut
<1>1. in \in Seq(Texts) /\ out \in Seq(Texts)
  BY DEF RowType
<1> HIDE DEF in, out
<1>2. ToSet(in \o out) = ToSet(in) \cup ToSet(out)
  <2>0. Len(in) \in Nat /\ Len(out) \in Nat /\ DOMAIN in = 1 .. Len(in) /\ DOMAIN out = 1 .. Len(out)
    BY <1>1
  <2>1. /\ DOMAIN (in \o out) = 1 .. Len(in) + Len(out)
        /\ \A i \in 1 .. Len(in) : (in \o out)[i] = in[i]
        /\ \A i \in 1 .. Len(out) : (in \o out)[Len(in) + i] = out[i]
    <3>1. /\ in \o out \in Seq(Texts) /\ Len(in \o out) = Len(in) + Len(out)
          /\ \A i \in 1 .. Len(in) : (in \o out)[i] = in[i]
          /\ \A i \in 1 .. Len(out) : (in \o out)[Len(in) + i] = out[i]
      BY <1>1, ConcatProperties
    <3> DEFINE both == in \o out
    <3> HIDE DEF both
    <3>2. DOMAIN both = 1 .. Len(both)
      BY <3>1 DEF both
    <3> QED BY <3>1, <3>2 DEF both
  <2> DEFINE both == in \o out
             m == Len(in)
             l == Len(out)
  <2> HIDE DEF both, m, l
  <2>2. m \in Nat /\ l \in Nat
    BY <2>0 DEF m, l
  <2>3. ToSet(both) = {both[i] : i \in 1 .. m + l} /\ ToSet(in) = {in[i] : i \in 1 .. m}
        /\ ToSet(out) = {out[i] : i \in 1 .. l}
    BY <2>0, <2>1, Zenon DEF ToSet, both, m, l
  <2>4. /\ \A i \in 1 .. m : both[i] = in[i]
        /\ \A i \in 1 .. l : both[m + i] = out[i]
    BY <2>1 DEF both, m, l
  <2>5. ASSUME NEW i \in 1 .. m + l PROVE both[i] \in ToSet(in) \cup ToSet(out)
    <3>1. CASE i <= m
      <4>1. i \in 1 .. m
        BY <2>2, <3>1
      <4> QED BY <2>3, <2>4, <4>1
    <3>2. CASE ~ (i <= m)
      <4>1. i - m \in 1 .. l /\ m + (i - m) = i
        BY <2>2, <3>2
      <4> QED BY <2>3, <2>4, <4>1
    <3> QED BY <3>1, <3>2
  <2>6. ASSUME NEW i \in 1 .. m PROVE in[i] \in ToSet(both)
    <3>1. i \in 1 .. m + l
      BY <2>2
    <3> QED BY <2>3, <2>4, <3>1
  <2>7. ASSUME NEW i \in 1 .. l PROVE out[i] \in ToSet(both)
    <3>1. m + i \in 1 .. m + l
      BY <2>2
    <3> QED BY <2>3, <2>4, <3>1
  <2>8. ToSet(both) = ToSet(in) \cup ToSet(out)
    BY <2>3, <2>5, <2>6, <2>7
  <2> QED BY <2>8 DEF both
<1> QED BY <1>2 DEF AnyIs, Pays, in, out

(* The argument of a find function of two conditions: the range, then the  *)
(* other.                                                                  *)
LEMMA RangeAnd ==
    ASSUME NEW range \in Ranges, NEW x
    PROVE  (range \o <<x>>)[1] = range[1] /\ (range \o <<x>>)[2] = range[2] /\ (range \o <<x>>)[3] = x
<1>1. PICK a \in Times, b \in Times : range = <<a, b>>
  BY DEF Ranges
<1> DEFINE U == {a, b, x}
<1>2. <<a, b>> \in Seq(U) /\ Len(<<a, b>>) = 2 /\ <<x>> \in Seq(U) /\ Len(<<x>>) = 1 /\ (<<x>>)[1] = x
  OBVIOUS
<1> DEFINE s == <<a, b>>
           t == <<x>>
<1> HIDE DEF U, s, t
<1>3. s \in Seq(U) /\ t \in Seq(U) /\ Len(s) = 2 /\ Len(t) = 1 /\ t[1] = x
  BY <1>2 DEF s, t
<1> DEFINE u == s \o t
<1>4. u[1] = s[1] /\ u[2] = s[2] /\ u[3] = t[1]
  <2>1. \A i \in 1 .. Len(s) + Len(t) : u[i] = IF i <= Len(s) THEN s[i] ELSE t[i - Len(s)]
    BY <1>3, ConcatProperties
  <2> HIDE DEF u
  <2>2. \A i \in 1 .. 2 + 1 : u[i] = IF i <= 2 THEN s[i] ELSE t[i - 2]
    BY <1>3, <2>1, Zenon
  <2>3. /\ 1 \in 1 .. 2 + 1 /\ 2 \in 1 .. 2 + 1 /\ 3 \in 1 .. 2 + 1
        /\ 1 <= 2 /\ 2 <= 2 /\ ~ (3 <= 2) /\ 3 - 2 = 1
    OBVIOUS
  <2>4. u[1] = s[1] /\ u[2] = s[2]
    BY <2>2, <2>3
  <2>5. u[3] = t[3 - 2]
    BY <2>2, <2>3, Zenon
  <2> QED BY <2>3, <2>4, <2>5
<1> QED BY <1>1, <1>3, <1>4 DEF s, t

(* A query for the rows that are asked for is a call.                      *)
LEMMA QueryCalled ==
    ASSUME NEW call \in Calls, NEW arg, NEW results,
           FindQuery(call, arg, results),
           results = {ResultOf(call, sent) : sent \in Sent(Selected(call, arg))}
    PROVE  Called(call, arg)
<1>1. CASE Fails(call, arg, "down")
  BY <1>1 DEF Called
<1>2. CASE \E result \in results : Answers(call, arg, result)
  <2>1. PICK result \in results : Answers(call, arg, result)
    BY <1>2
  <2>2. PICK sent \in Sent(Selected(call, arg)) : result = ResultOf(call, sent)
    OBVIOUS
  <2> QED BY <2>1, <2>2, Zenon DEF Called
<1> QED BY <1>1, <1>2, Zenon DEF FindQuery

(* The three find functions of one condition.                              *)
LEMMA ThreeCalled ==
    ASSUME NEW rows \in RowCalls \ {"row by hash"}, NEW ins \in InputCalls, NEW outs \in OutputCalls,
           NEW arg, NEW found,
           Selected(rows, arg) = found, Selected(ins, arg) = found, Selected(outs, arg) = found,
           \/ FindQuery(rows, arg, {ParseRows(sent) : sent \in Sent(found)})
           \/ FindQuery(ins, arg, {Inputs(sent) : sent \in Sent(found)})
           \/ FindQuery(outs, arg, {Outputs(sent) : sent \in Sent(found)})
    PROVE  \E call : Called(call, arg)
<1>1. rows \in Calls /\ ins \in Calls /\ outs \in Calls
  BY DEF Calls
<1>2. /\ {ParseRows(sent) : sent \in Sent(found)} = {ResultOf(rows, sent) : sent \in Sent(found)}
      /\ {Inputs(sent) : sent \in Sent(found)} = {ResultOf(ins, sent) : sent \in Sent(found)}
      /\ {Outputs(sent) : sent \in Sent(found)} = {ResultOf(outs, sent) : sent \in Sent(found)}
  <2>1. \A sent : /\ ParseRows(sent) = ResultOf(rows, sent)
                  /\ Inputs(sent) = ResultOf(ins, sent)
                  /\ Outputs(sent) = ResultOf(outs, sent)
    BY ResultsAre
  <2> QED BY <2>1
<1>3. CASE FindQuery(rows, arg, {ParseRows(sent) : sent \in Sent(found)})
  <2>1. Called(rows, arg)
    BY <1>1, <1>2, <1>3, QueryCalled
  <2> QED BY <2>1
<1>4. CASE FindQuery(ins, arg, {Inputs(sent) : sent \in Sent(found)})
  <2>1. Called(ins, arg)
    BY <1>1, <1>2, <1>4, QueryCalled
  <2> QED BY <2>1
<1>5. CASE FindQuery(outs, arg, {Outputs(sent) : sent \in Sent(found)})
  <2>1. Called(outs, arg)
    BY <1>1, <1>2, <1>5, QueryCalled
  <2> QED BY <2>1
<1> QED BY <1>3, <1>4, <1>5

(* Every find function is such a call: the rows that its query text        *)
(* selects are the rows that are asked for.                                *)
LEMMA FindIsCall ==
    ASSUME Find, table \subseteq RowType
    PROVE  UNCHANGED table /\ \E call, arg : Called(call, arg)
<1>0. UNCHANGED table
  BY DEF Find
<1>1. CASE FindByTransactionHash
  <2>1. PICK row \in Rows :
          LET found == {r \in table : HashIs(r, row.txHash)}
              arg == <<row.txHash>>
          IN  \/ FindQuery("row by hash", arg, {OneRow(sent) : sent \in Sent(found)})
              \/ FindQuery("inputs by hash", arg, {Inputs(sent) : sent \in Sent(found)})
              \/ FindQuery("outputs by hash", arg, {Outputs(sent) : sent \in Sent(found)})
    BY <1>1, Zenon DEF FindByTransactionHash
  <2> DEFINE hash == row.txHash
             arg == <<hash>>
             found == {r \in table : HashIs(r, hash)}
  <2>2. ASSUME NEW call \in {"row by hash", "inputs by hash", "outputs by hash"}
        PROVE  Selected(call, arg) = found
    <3>1. \A r : Wanted(call, arg, r) = (r.txHash = arg[1])
      BY <2>2, WantedByHash
    <3>2. arg[1] = hash
      OBVIOUS
    <3> HIDE DEF arg, hash
    <3> QED BY <3>1, <3>2 DEF Selected, HashIs
  <2>3. "row by hash" \in Calls /\ "inputs by hash" \in Calls /\ "outputs by hash" \in Calls
        /\ "inputs by hash" \in InputCalls /\ "outputs by hash" \in OutputCalls
    BY DEF Calls, RowCalls, InputCalls, OutputCalls
  <2>4. /\ \A sent : OneRow(sent) = ResultOf("row by hash", sent)
        /\ \A sent : Inputs(sent) = ResultOf("inputs by hash", sent)
        /\ \A sent : Outputs(sent) = ResultOf("outputs by hash", sent)
    BY <2>3, ResultsAre
  <2> HIDE DEF arg, found
  <2>5. /\ {OneRow(sent) : sent \in Sent(found)} =
              {ResultOf("row by hash", sent) : sent \in Sent(Selected("row by hash", arg))}
        /\ {Inputs(sent) : sent \in Sent(found)} =
              {ResultOf("inputs by hash", sent) : sent \in Sent(Selected("inputs by hash", arg))}
        /\ {Outputs(sent) : sent \in Sent(found)} =
              {ResultOf("outputs by hash", sent) : sent \in Sent(Selected("outputs by hash", arg))}
    BY <2>2, <2>4
  <2>6. \/ FindQuery("row by hash", arg, {OneRow(sent) : sent \in Sent(found)})
        \/ FindQuery("inputs by hash", arg, {Inputs(sent) : sent \in Sent(found)})
        \/ FindQuery("outputs by hash", arg, {Outputs(sent) : sent \in Sent(found)})
    BY <2>1, Zenon DEF arg, found
  <2>7. CASE FindQuery("row by hash", arg, {OneRow(sent) : sent \in Sent(found)})
    <3>1. Called("row by hash", arg)
      BY <2>3, <2>5, <2>7, QueryCalled
    <3> QED BY <1>0, <3>1
  <2>8. CASE FindQuery("inputs by hash", arg, {Inputs(sent) : sent \in Sent(found)})
    <3>1. Called("inputs by hash", arg)
      BY <2>3, <2>5, <2>8, QueryCalled
    <3> QED BY <1>0, <3>1
  <2>9. CASE FindQuery("outputs by hash", arg, {Outputs(sent) : sent \in Sent(found)})
    <3>1. Called("outputs by hash", arg)
      BY <2>3, <2>5, <2>9, QueryCalled
    <3> QED BY <1>0, <3>1
  <2> QED BY <2>6, <2>7, <2>8, <2>9
<1>2. CASE FindByTimeRange
  <2>1. PICK range \in Ranges :
          LET found == {r \in table : Between(r, range)}
          IN  \/ FindQuery("rows by time", range, {ParseRows(sent) : sent \in Sent(found)})
              \/ FindQuery("inputs by time", range, {Inputs(sent) : sent \in Sent(found)})
              \/ FindQuery("outputs by time", range, {Outputs(sent) : sent \in Sent(found)})
    BY <1>2, Zenon DEF FindByTimeRange
  <2> DEFINE found == {r \in table : Between(r, range)}
  <2>2. ASSUME NEW call \in {"rows by time", "inputs by time", "outputs by time"}
        PROVE  Selected(call, range) = found
    <3>1. \A r : Wanted(call, range, r) = Between(r, range)
      BY <2>2, WantedByTime, Zenon DEF Between
    <3> QED BY <3>1 DEF Selected
  <2>3. "rows by time" \in RowCalls \ {"row by hash"} /\ "inputs by time" \in InputCalls
        /\ "outputs by time" \in OutputCalls
    BY DEF RowCalls, InputCalls, OutputCalls
  <2>4. /\ Selected("rows by time", range) = found
        /\ Selected("inputs by time", range) = found
        /\ Selected("outputs by time", range) = found
    BY <2>2
  <2>5. \/ FindQuery("rows by time", range, {ParseRows(sent) : sent \in Sent(found)})
        \/ FindQuery("inputs by time", range, {Inputs(sent) : sent \in Sent(found)})
        \/ FindQuery("outputs by time", range, {Outputs(sent) : sent \in Sent(found)})
    BY <2>1, Zenon
  <2> HIDE DEF found
  <2> QED BY <1>0, <2>3, <2>4, <2>5, ThreeCalled
<1>3. CASE FindBySatoshi
  <2>1. PICK n \in Amounts :
          LET found == {r \in table : SatoshiIs(r, n)}
          IN  \/ FindQuery("rows by satoshi", <<n>>, {ParseRows(sent) : sent \in Sent(found)})
              \/ FindQuery("inputs by satoshi", <<n>>, {Inputs(sent) : sent \in Sent(found)})
              \/ FindQuery("outputs by satoshi", <<n>>, {Outputs(sent) : sent \in Sent(found)})
    BY <1>3, Zenon DEF FindBySatoshi
  <2> DEFINE found == {r \in table : SatoshiIs(r, n)}
             arg == <<n>>
  <2>2. ASSUME NEW call \in {"rows by satoshi", "inputs by satoshi", "outputs by satoshi"}
        PROVE  Selected(call, arg) = found
    <3>0. arg[1] = n
      OBVIOUS
    <3> HIDE DEF arg
    <3>1. \A r : Wanted(call, arg, r) = SatoshiIs(r, n)
      BY <2>2, <3>0, WantedBySatoshi, Zenon DEF SatoshiIs
    <3> QED BY <3>1 DEF Selected
  <2>3. "rows by satoshi" \in RowCalls \ {"row by hash"} /\ "inputs by satoshi" \in InputCalls
        /\ "outputs by satoshi" \in OutputCalls
    BY DEF RowCalls, InputCalls, OutputCalls
  <2>4. /\ Selected("rows by satoshi", arg) = found
        /\ Selected("inputs by satoshi", arg) = found
        /\ Selected("outputs by satoshi", arg) = found
    BY <2>2
  <2>5. \/ FindQuery("rows by satoshi", arg, {ParseRows(sent) : sent \in Sent(found)})
        \/ FindQuery("inputs by satoshi", arg, {Inputs(sent) : sent \in Sent(found)})
        \/ FindQuery("outputs by satoshi", arg, {Outputs(sent) : sent \in Sent(found)})
    BY <2>1, Zenon
  <2> HIDE DEF found, arg
  <2> QED BY <1>0, <2>3, <2>4, <2>5, ThreeCalled
<1>4. CASE FindBySatoshiTimeRange
  <2>1. PICK n \in Amounts, range \in Ranges :
          LET found == {r \in table : SatoshiIs(r, n) /\ Between(r, range)}
              arg == range \o <<n>>
          IN  \/ FindQuery("rows by satoshi and time", arg, {ParseRows(sent) : sent \in Sent(found)})
              \/ FindQuery("inputs by satoshi and time", arg, {Inputs(sent) : sent \in Sent(found)})
              \/ FindQuery("outputs by satoshi and time", arg, {Outputs(sent) : sent \in Sent(found)})
    BY <1>4, Zenon DEF FindBySatoshiTimeRange
  <2> DEFINE found == {r \in table : SatoshiIs(r, n) /\ Between(r, range)}
             arg == range \o <<n>>
  <2>2. ASSUME NEW call \in {"rows by satoshi and time", "inputs by satoshi and time",
                             "outputs by satoshi and time"}
        PROVE  Selected(call, arg) = found
    <3>0. arg[1] = range[1] /\ arg[2] = range[2] /\ arg[3] = n
      BY RangeAnd
    <3> HIDE DEF arg
    <3>1. \A r : Wanted(call, arg, r) = (r.satoshi = n /\ range[1] <= r.time /\ r.time <= range[2])
      BY <2>2, <3>0, WantedBySatoshiTime
    <3> QED BY <3>1 DEF Selected, SatoshiIs, Between
  <2>3. "rows by satoshi and time" \in RowCalls \ {"row by hash"}
        /\ "inputs by satoshi and time" \in InputCalls /\ "outputs by satoshi and time" \in OutputCalls
    BY DEF RowCalls, InputCalls, OutputCalls
  <2>4. /\ Selected("rows by satoshi and time", arg) = found
        /\ Selected("inputs by satoshi and time", arg) = found
        /\ Selected("outputs by satoshi and time", arg) = found
    BY <2>2
  <2>5. \/ FindQuery("rows by satoshi and time", arg, {ParseRows(sent) : sent \in Sent(found)})
        \/ FindQuery("inputs by satoshi and time", arg, {Inputs(sent) : sent \in Sent(found)})
        \/ FindQuery("outputs by satoshi and time", arg, {Outputs(sent) : sent \in Sent(found)})
    BY <2>1, Zenon
  <2> HIDE DEF found, arg
  <2> QED BY <1>0, <2>3, <2>4, <2>5, ThreeCalled
<1>5. CASE FindByWallet
  <2> DEFINE call == "rows by wallet"
  <2>0. call \in Calls /\ call \in RowCalls \ {"row by hash"}
    BY DEF Calls, RowCalls
  <2>1. PICK address \in Addresses :
          \/ Fails(call, <<address>>, "error")
          \/ FindQuery(call, <<address>>,
                       {ParseRows(sent) : sent \in Sent({r \in table : AnyIs(r, address)})})
    BY <1>5, Zenon DEF FindByWallet
  <2> DEFINE arg == <<address>>
             found == {r \in table : AnyIs(r, address)}
  <2>2. Selected(call, arg) = found
    <3>0. arg[1] = address
      OBVIOUS
    <3> HIDE DEF arg
    <3>1. \A r \in table : Wanted(call, arg, r) <=> AnyIs(r, address)
      <4>1. ASSUME NEW r \in table PROVE Wanted(call, arg, r) <=> AnyIs(r, address)
        <5>1. Wanted(call, arg, r) = Pays(r, address)
          BY <3>0, WantedByWallet
        <5>2. AnyIs(r, address) <=> Pays(r, address)
          BY AnyIsPays
        <5> QED BY <5>1, <5>2
      <4> QED BY <4>1
    <3> QED BY <3>1 DEF Selected
  <2> HIDE DEF call
  <2>3. \A sent : ParseRows(sent) = ResultOf(call, sent)
    BY <2>0, ResultsAre
  <2> HIDE DEF arg, found
  <2>4. {ParseRows(sent) : sent \in Sent(found)} = {ResultOf(call, sent) : sent \in Sent(Selected(call, arg))}
    BY <2>2, <2>3
  <2>5. Fails(call, arg, "error") \/ FindQuery(call, arg, {ParseRows(sent) : sent \in Sent(found)})
    BY <2>1, Zenon DEF arg, found
  <2>6. CASE Fails(call, arg, "error")
    <3>1. Called(call, arg)
      BY <2>0, <2>6 DEF Called
    <3> QED BY <1>0, <3>1
  <2>7. CASE FindQuery(call, arg, {ParseRows(sent) : sent \in Sent(found)})
    <3>1. Called(call, arg)
      BY <2>0, <2>4, <2>7, QueryCalled
    <3> QED BY <1>0, <3>1
  <2> QED BY <2>5, <2>6, <2>7
<1>6. CASE FindByWalletTimeRange
  <2> DEFINE call == "rows by wallet and time"
  <2>0. call \in Calls /\ call \in RowCalls \ {"row by hash"}
    BY DEF Calls, RowCalls
  <2>1. PICK address \in Addresses, range \in Ranges :
          \/ Fails(call, range \o <<address>>, "error")
          \/ FindQuery(call, range \o <<address>>, {ParseRows(sent) : sent \in
                           Sent({r \in table : AnyIs(r, address) /\ Between(r, range)})})
    BY <1>6, Zenon DEF FindByWalletTimeRange
  <2> DEFINE arg == range \o <<address>>
             found == {r \in table : AnyIs(r, address) /\ Between(r, range)}
  <2>2. Selected(call, arg) = found
    <3>0. arg[1] = range[1] /\ arg[2] = range[2] /\ arg[3] = address
      BY RangeAnd
    <3> HIDE DEF arg
    <3>1. \A r \in table : Wanted(call, arg, r) <=> AnyIs(r, address) /\ Between(r, range)
      <4>1. ASSUME NEW r \in table
            PROVE  Wanted(call, arg, r) <=> AnyIs(r, address) /\ Between(r, range)
        <5>1. Wanted(call, arg, r) = (Pays(r, address) /\ range[1] <= r.time /\ r.time <= range[2])
          BY <3>0, WantedByWallet
        <5>2. AnyIs(r, address) <=> Pays(r, address)
          BY AnyIsPays
        <5> QED BY <5>1, <5>2 DEF Between
      <4> QED BY <4>1
    <3> QED BY <3>1 DEF Selected
  <2> HIDE DEF call
  <2>3. \A sent : ParseRows(sent) = ResultOf(call, sent)
    BY <2>0, ResultsAre
  <2> HIDE DEF arg, found
  <2>4. {ParseRows(sent) : sent \in Sent(found)} = {ResultOf(call, sent) : sent \in Sent(Selected(call, arg))}
    BY <2>2, <2>3
  <2>5. Fails(call, arg, "error") \/ FindQuery(call, arg, {ParseRows(sent) : sent \in Sent(found)})
    BY <2>1, Zenon DEF arg, found
  <2>6. CASE Fails(call, arg, "error")
    <3>1. Called(call, arg)
      BY <2>0, <2>6 DEF Called
    <3> QED BY <1>0, <3>1
  <2>7. CASE FindQuery(call, arg, {ParseRows(sent) : sent \in Sent(found)})
    <3>1. Called(call, arg)
      BY <2>0, <2>4, <2>7, QueryCalled
    <3> QED BY <1>0, <3>1
  <2> QED BY <2>5, <2>6, <2>7
<1> QED BY <1>1, <1>2, <1>3, <1>4, <1>5, <1>6, Zenon DEF Find

-----------------------------------------------------------------------------
(* Types.                                                                  *)
IInv == TypeOK /\ IsFiniteSet(table)

(* As many rows are sent, and read, as were found.                         *)
LEMMA SentIs ==
    ASSUME NEW rows, IsFiniteSet(rows), NEW s \in Orders(rows)
    PROVE  /\ Cardinality(rows) \in Nat
           /\ Len([i \in DOMAIN s |-> Columns(s[i])]) = Cardinality(rows)
           /\ Len(ParseRows([i \in DOMAIN s |-> Columns(s[i])])) = Cardinality(rows)
<1> DEFINE n == Cardinality(rows)
           f == [i \in DOMAIN s |-> Columns(s[i])]
           g == [i \in DOMAIN s |-> ParseRow(Columns(s[i]))]
<1>1. n \in Nat
  BY FS_CardinalityType
<1>2. DOMAIN s = 1 .. n
  BY OrdersAre
<1>3. f \in [1 .. n -> {Columns(s[i]) : i \in 1 .. n}]
  BY <1>2
<1>4. g \in [1 .. n -> {ParseRow(Columns(s[i])) : i \in 1 .. n}]
  BY <1>2
<1>5. ParseRows(f) = g
  BY RowsParsed
<1> HIDE DEF n, f, g
<1>6. Len(f) = n /\ Len(g) = n
  BY <1>1, <1>3, <1>4, FunctionIsSeq
<1> QED BY <1>1, <1>5, <1>6 DEF n, f

(* The hash of a row that is read was stored, whatever became of its       *)
(* lists.                                                                  *)
LEMMA RowsStored ==
    ASSUME NEW rows \in SUBSET Rows, NEW s \in Orders(rows), NEW i \in DOMAIN s
    PROVE  ParseRow(Columns(s[i])).txHash \in Hashes
<1>1. s[i] \in Rows
  BY OrdersAre
<1>2. ParseRow(Columns(s[i])).txHash = s[i].txHash
  BY RowParsed
<1> QED BY <1>1, <1>2 DEF Hashes

(* The answer of a find function for rows: hashes that were stored, and at *)
(* most one row by hash.                                                   *)
LEMMA RowAnswers ==
    ASSUME NEW rows \in SUBSET Rows, NEW sent \in Sent(rows), NEW call \in RowCalls
    PROVE  /\ \A i \in DOMAIN ResultOf(call, sent) : ResultOf(call, sent)[i].txHash \in Hashes
           /\ IsFiniteSet(rows) /\ call = "row by hash" => Len(ResultOf(call, sent)) <= 1
<1>1. PICK s \in Orders(rows) : sent = [i \in DOMAIN s |-> Columns(s[i])]
  BY DEF Sent
<1>2. ParseRows(sent) = [i \in DOMAIN s |-> ParseRow(Columns(s[i]))]
  BY <1>1, RowsParsed
<1>3. \A i \in DOMAIN ParseRows(sent) : ParseRows(sent)[i].txHash \in Hashes
  BY <1>2, RowsStored
<1>4. CASE call # "row by hash"
  <2>1. ResultOf(call, sent) = ParseRows(sent)
    BY <1>4, ResultsAre
  <2> QED BY <1>3, <1>4, <2>1
<1>5. CASE call = "row by hash"
  <2>1. ResultOf(call, sent) = OneRow(sent)
    BY <1>5, ResultsAre
  <2>2. CASE Len(sent) = 1
    <3>1. OneRow(sent) = ParseRows(sent)
      BY <2>2, Zenon DEF OneRow
    <3>2. ASSUME IsFiniteSet(rows) PROVE Len(ParseRows(sent)) = 1
      BY <1>1, <2>2, <3>2, SentIs
    <3>3. 1 <= 1
      OBVIOUS
    <3>4. IsFiniteSet(rows) => Len(ParseRows(sent)) <= 1
      BY <3>2, <3>3, Zenon
    <3> QED BY <1>3, <2>1, <3>1, <3>4, Zenon
  <2>3. CASE Len(sent) # 1
    <3>1. OneRow(sent) = <<>>
      BY <2>3, Zenon DEF OneRow
    <3> QED BY <2>1, <3>1
  <2> QED BY <2>2, <2>3
<1> QED BY <1>4, <1>5

(* What a call leaves in answer.                                           *)
LEMMA CalledIs ==
    ASSUME NEW call, NEW arg, Called(call, arg)
    PROVE  /\ call \in Calls
           /\ answer'.call = call /\ answer'.arg = arg
           /\ \/ answer'.outcome \in {"down", "error"} /\ answer'.result = <<>>
              \/ /\ answer'.outcome = "ok"
                 /\ \E sent \in Sent(Selected(call, arg)) : answer'.result = ResultOf(call, sent)
<1>1. CASE \E outcome \in {"down", "error"} : Fails(call, arg, outcome)
  BY <1>1 DEF Called, Fails
<1>2. CASE \E sent \in Sent(Selected(call, arg)) : Answers(call, arg, ResultOf(call, sent))
  <2>1. PICK sent \in Sent(Selected(call, arg)) : Answers(call, arg, ResultOf(call, sent))
    BY <1>2
  <2>2. answer' = [call |-> call, arg |-> arg, result |-> ResultOf(call, sent), outcome |-> "ok"]
    BY <2>1 DEF Answers
  <2> DEFINE result == ResultOf(call, sent)
  <2> HIDE DEF result
  <2>3. answer' = [call |-> call, arg |-> arg, result |-> result, outcome |-> "ok"]
    BY <2>2 DEF result
  <2>4. answer'.call = call /\ answer'.arg = arg /\ answer'.outcome = "ok" /\ answer'.result = result
    BY <2>3
  <2> QED BY <2>4 DEF Called, result
<1> QED BY <1>1, <1>2 DEF Called

(* Before the first call and after a store there is no answer.             *)
LEMMA NoneIs == None.call = "none" /\ None.outcome = "ok" /\ None.result = <<>>
BY DEF None

(* The type invariant, with a table of finitely many rows, holds at first. *)
LEMMA TypeInit == Init => IInv
<1> SUFFICES ASSUME Init PROVE IInv
  OBVIOUS
<1>1. table = {} /\ answer = None
  BY DEF Init
<1>2. IsFiniteSet(table)
  BY <1>1, FS_EmptySet
<1>3. "none" \notin RowCalls /\ "none" # "row by hash"
  BY DEF RowCalls
<1>4. TypeOK
  BY <1>1, <1>3, NoneIs DEF TypeOK
<1> QED BY <1>2, <1>4 DEF IInv

(* Every step keeps it: a store adds one row with a new hash, and a find   *)
(* function answers from the table as it is.                               *)
LEMMA TypeStep == IInv /\ [Next]_vars => IInv'
<1> SUFFICES ASSUME IInv, [Next]_vars PROVE IInv'
  OBVIOUS
<1>0. /\ table \subseteq Rows /\ IsFiniteSet(table)
      /\ \A r1, r2 \in table : r1.txHash = r2.txHash => r1 = r2
  BY DEF IInv, TypeOK
<1>1. CASE Store
  <2>1. PICK row \in Rows : /\ \A r \in table : r.txHash # row.txHash
                            /\ table' = table \cup {row}
    BY <1>1 DEF Store
  <2>2. answer' = None
    BY <1>1 DEF Store
  <2>3. IsFiniteSet(table')
    BY <1>0, <2>1, FS_AddElement
  <2>4. table' \subseteq Rows /\ \A r1, r2 \in table' : r1.txHash = r2.txHash => r1 = r2
    BY <1>0, <2>1
  <2>5. "none" \notin RowCalls /\ "none" # "row by hash"
    BY DEF RowCalls
  <2>6. TypeOK'
    BY <2>2, <2>4, <2>5, NoneIs DEF TypeOK
  <2> QED BY <2>3, <2>6 DEF IInv
<1>2. CASE Find
  <2>1. table \subseteq RowType
    BY <1>0, RowsAssumption
  <2>2. table' = table /\ \E call, arg : Called(call, arg)
    BY <1>2, <2>1, FindIsCall
  <2>3. PICK call, arg : Called(call, arg)
    BY <2>2
  <2>4. call \in Calls /\ answer'.call = call
    BY <2>3, CalledIs
  <2>5. IsFiniteSet(table') /\ table' \subseteq Rows
        /\ \A r1, r2 \in table' : r1.txHash = r2.txHash => r1 = r2
    BY <1>0, <2>2
  <2> DEFINE rows == Selected(call, arg)
  <2>6. rows \in SUBSET Rows /\ IsFiniteSet(rows)
    <3>1. rows \subseteq table
      BY DEF Selected
    <3> QED BY <1>0, <3>1, FS_Subset
  <2>7. CASE answer'.outcome \in {"down", "error"} /\ answer'.result = <<>>
    <3>1. /\ \A i \in DOMAIN answer'.result : answer'.result[i].txHash \in Hashes
          /\ Len(answer'.result) <= 1
      BY <2>7
    <3>2. TypeOK'
      BY <2>4, <2>5, <2>7, <3>1 DEF TypeOK, Calls, Hashes
    <3> QED BY <2>5, <3>2 DEF IInv
  <2>8. CASE /\ answer'.outcome = "ok"
             /\ \E sent \in Sent(rows) : answer'.result = ResultOf(call, sent)
    <3>1. PICK sent \in Sent(rows) : answer'.result = ResultOf(call, sent)
      BY <2>8
    <3>2. call \in RowCalls =>
            /\ \A i \in DOMAIN answer'.result : answer'.result[i].txHash \in Hashes
            /\ call = "row by hash" => Len(answer'.result) <= 1
      BY <2>6, <3>1, RowAnswers
    <3>3. "row by hash" \in RowCalls
      BY DEF RowCalls
    <3>4. TypeOK'
      BY <2>4, <2>5, <2>8, <3>2, <3>3 DEF TypeOK, Calls, Hashes
    <3> QED BY <2>5, <3>4 DEF IInv
  <2> QED BY <2>3, <2>7, <2>8, CalledIs
<1>3. CASE UNCHANGED vars
  BY <1>3 DEF vars, IInv, TypeOK, Hashes
<1> QED BY <1>1, <1>2, <1>3 DEF Next

(* The table has each hash once; rows that a find function returns         *)
(* (TransactionDbPostgreSql::parseTransactionRow) have hashes that were    *)
(* stored, a failed call returns nothing, and findByTransactionHash at     *)
(* most one row.                                                           *)
THEOREM TypeCorrect == Spec => []TypeOK
<1>1. IInv => TypeOK
  BY DEF IInv
<1> QED BY <1>1, TypeInit, TypeStep, PTL DEF Spec

(* So it always holds.                                                     *)
LEMMA IInvAlways == Spec => []IInv
BY TypeInit, TypeStep, PTL DEF Spec

-----------------------------------------------------------------------------
(* Reading back a row.                                                     *)
LEMMA ReadBackHolds == IInv => ArraysReadBack
<1> SUFFICES ASSUME IInv, NEW row \in table, NEW list \in Lists
             PROVE  LET paid == [row EXCEPT !.txOut = list]
                    IN  (ParseRow(Columns(paid)) = paid) <=> Readable(row.txIn) /\ Readable(list)
  BY DEF ArraysReadBack
<1> DEFINE paid == [row EXCEPT !.txOut = list]
<1>1. row \in RowType /\ list \in Seq(Texts)
  BY RowsAssumption, ListsAssumption DEF IInv, TypeOK
<1>2. paid \in RowType /\ paid.txIn = row.txIn /\ paid.txOut = list
  BY <1>1 DEF RowType
<1> HIDE DEF paid
<1>3. (ParseRow(Columns(paid)) = paid) <=> Readable(row.txIn) /\ Readable(list)
  BY <1>2, RowReadBack
<1> QED BY <1>3 DEF paid

(* parseTextArray gives back what the server was given, for every list of  *)
(* texts, exactly when none of them has a comma, a quote or a backslash:   *)
(* braces, blanks and empty texts do no harm.                              *)
THEOREM ReadBack == Spec => []ArraysReadBack
BY IInvAlways, ReadBackHolds, PTL

-----------------------------------------------------------------------------
(* What the find functions find.                                           *)
LEMMA OneRowIs ==
    ASSUME NEW rows \in SUBSET RowType, IsFiniteSet(rows), NEW s \in Orders(rows),
           \A r \in rows : Readable(r.txIn) /\ Readable(r.txOut),
           \A r1, r2 \in rows : r1 = r2
    PROVE  OneRow([i \in DOMAIN s |-> Columns(s[i])]) \in Orders(rows)
<1> DEFINE sent == [i \in DOMAIN s |-> Columns(s[i])]
<1>1. Len(sent) = Cardinality(rows) /\ ParseRows(sent) = s
  BY SentIs, RowsReadBack
<1> HIDE DEF sent
<1>2. CASE Cardinality(rows) = 1
  <2>1. OneRow(sent) = s
    BY <1>1, <1>2, Zenon DEF OneRow
  <2> QED BY <2>1 DEF sent
<1>3. CASE Cardinality(rows) # 1
  <2>1. rows = {}
    <3> SUFFICES ASSUME NEW r \in rows PROVE FALSE
      OBVIOUS
    <3>1. rows = {r}
      OBVIOUS
    <3>2. Cardinality({r}) = 1
      BY FS_Singleton
    <3> QED BY <1>3, <3>1, <3>2
  <2>2. Cardinality(rows) = 0
    BY <2>1, FS_EmptySet
  <2>3. Len(sent) # 1
    BY <1>1, <2>2
  <2>4. OneRow(sent) = <<>>
    BY <2>3, Zenon DEF OneRow
  <2>5. <<>> \in [1 .. 0 -> rows] /\ ToSet(<<>>) = {}
    BY DEF ToSet
  <2> QED BY <2>1, <2>2, <2>4, <2>5 DEF Orders, sent
<1> QED BY <1>2, <1>3

(* A step that answers answers right. Only this step's answer is spoken    *)
(* of, so nothing but the types is needed of the state before.             *)
LEMMA FindsStep == IInv /\ FindsExactly /\ [Next]_vars => FindsExactly'
<1> SUFFICES ASSUME IInv, FindsExactly, [Next]_vars PROVE FindsExactly'
  OBVIOUS
<1>0. /\ table \subseteq Rows /\ IsFiniteSet(table) /\ table \subseteq RowType
      /\ \A r1, r2 \in table : r1.txHash = r2.txHash => r1 = r2
  BY RowsAssumption DEF IInv, TypeOK
<1>1. CASE Store
  <2>1. answer'.call = "none"
    BY <1>1, NoneIs DEF Store
  <2> QED BY <2>1 DEF FindsExactly
<1>2. CASE Find
  <2>1. table' = table /\ \E call, arg : Called(call, arg)
    BY <1>0, <1>2, FindIsCall
  <2>2. PICK call, arg : Called(call, arg)
    BY <2>1
  <2>3. call \in Calls /\ answer'.call = call /\ answer'.arg = arg
    BY <2>2, CalledIs
  <2> DEFINE rows == Selected(call, arg)
             asked == {r \in table' : Asked(r)'}
  <2>4. asked = rows
    <3>1. \A r : Asked(r)' = Wanted(answer'.call, answer'.arg, r)
      BY Zenon DEF Asked, Wanted
    <3> QED BY <2>1, <2>3, <3>1 DEF Selected
  <2> HIDE DEF rows, asked
  <2>5. CASE answer'.outcome \in {"down", "error"}
    BY <2>5 DEF FindsExactly
  <2>6. CASE /\ answer'.outcome = "ok"
             /\ \E sent \in Sent(rows) : answer'.result = ResultOf(call, sent)
    <3> DEFINE TxIn(r) == r.txIn
               TxOut(r) == r.txOut
    <3> SUFFICES ASSUME \A r \in asked : Readable(r.txIn) /\ Readable(r.txOut)
                 PROVE  /\ call \in RowCalls => answer'.result \in Orders(asked)
                        /\ call \in InputCalls => answer'.result \in Concatenations(asked, TxIn)
                        /\ call \in OutputCalls => answer'.result \in Concatenations(asked, TxOut)
      BY <2>3 DEF FindsExactly, asked, Concatenations
    <3>1. PICK sent \in Sent(rows) : answer'.result = ResultOf(call, sent)
      BY <2>6
    <3>2. PICK s \in Orders(rows) : sent = [i \in DOMAIN s |-> Columns(s[i])]
      BY <3>1 DEF Sent
    <3>3. rows \in SUBSET RowType /\ IsFiniteSet(rows) /\ rows \subseteq table
          /\ \A r \in rows : Readable(r.txIn) /\ Readable(r.txOut)
      <4>1. rows \subseteq table
        BY DEF Selected, rows
      <4> QED BY <1>0, <2>4, <4>1, FS_Subset
    <3>4. ASSUME call \in RowCalls PROVE answer'.result \in Orders(asked)
      <4>1. CASE call = "row by hash"
        <5>1. \A r1, r2 \in rows : r1 = r2
          <6>1. \A r \in rows : r.txHash = arg[1]
            BY <4>1, WantedByHash DEF rows, Selected
          <6> QED BY <1>0, <3>3, <6>1
        <5>2. OneRow(sent) \in Orders(rows)
          BY <3>2, <3>3, <5>1, OneRowIs
        <5>3. ResultOf(call, sent) = OneRow(sent)
          BY <4>1, ResultsAre
        <5> QED BY <2>4, <3>1, <5>2, <5>3
      <4>2. CASE call # "row by hash"
        <5>1. ResultOf(call, sent) = ParseRows(sent)
          BY <3>4, <4>2, ResultsAre
        <5>2. ParseRows(sent) = s
          BY <3>2, <3>3, RowsReadBack
        <5> QED BY <2>4, <3>1, <5>1, <5>2
      <4> QED BY <4>1, <4>2
    <3>5. /\ Inputs(sent) = FlattenSeq([i \in DOMAIN s |-> s[i].txIn])
          /\ Outputs(sent) = FlattenSeq([i \in DOMAIN s |-> s[i].txOut])
      BY <3>2, <3>3, ListsReadBack
    <3>6. ASSUME call \in InputCalls PROVE answer'.result \in Concatenations(asked, TxIn)
      <4>1. ResultOf(call, sent) = Inputs(sent)
        BY <3>6, ResultsAre
      <4>2. FlattenSeq([i \in DOMAIN s |-> s[i].txIn]) \in Concatenations(asked, TxIn)
        BY <2>4, <3>2, Zenon DEF Concatenations
      <4> QED BY <3>1, <3>5, <4>1, <4>2
    <3>7. ASSUME call \in OutputCalls PROVE answer'.result \in Concatenations(asked, TxOut)
      <4>1. ResultOf(call, sent) = Outputs(sent)
        BY <3>7, ResultsAre
      <4>2. FlattenSeq([i \in DOMAIN s |-> s[i].txOut]) \in Concatenations(asked, TxOut)
        BY <2>4, <3>2, Zenon DEF Concatenations
      <4> QED BY <3>1, <3>5, <4>1, <4>2
    <3> QED BY <3>4, <3>6, <3>7
  <2> QED BY <2>2, <2>5, <2>6, CalledIs DEF rows
<1>3. CASE UNCHANGED vars
  BY <1>3 DEF vars, FindsExactly, Asked, Concatenations
<1> QED BY <1>1, <1>2, <1>3 DEF Next

(* Every find function of TransactionDbPostgreSql that does not fail       *)
(* returns exactly the rows (or the addresses of the rows) that it is      *)
(* documented to look for, in the order in which the server sends them, as *)
(* long as the addresses in them can be read back.                         *)
THEOREM Finds == Spec => []FindsExactly
<1>1. Init => FindsExactly
  BY NoneIs DEF Init, FindsExactly
<1> QED BY <1>1, IInvAlways, FindsStep, PTL DEF Spec
=============================================================================
