------------------------ MODULE TransactionDb_proofs ------------------------
(***************************************************************************)
(* The table of transactions is never left in a state that insert did not  *)
(* promise, for every set of keys, every set of batches and any number of  *)
(* calls.                                                                  *)
(***************************************************************************)
EXTENDS TransactionDb, TLAPS

Inside == {"begin", "stream", "commit"}

\* No row is ascribed to an insert that has not begun.
KnownWriters == \A row \in table \cup pending : row.by <= Len(inserts)

\* The insert under way has no result yet, and has stored nothing yet.
NothingYet == pc \in Inside => inserts[Current].result = "none" /\ StoredBy(Current) = {}

\* A commit in doubt: the server holds the whole batch and none of it is
\* stored yet.
PendingOf(n) == {row \in pending : row.by = n}
InDoubt ==
    \A n \in DOMAIN inserts :
       \/ PendingOf(n) = {}
       \/ /\ PendingOf(n) = AllRows(n)
          /\ StoredBy(n) = {}
          /\ inserts[n].result = "thrown"

Promises ==
    /\ KnownWriters
    /\ NothingYet
    /\ InDoubt
    /\ AckedAreStored
    /\ RefusedAreNotStored
    /\ BatchesAreAtomic

IInv == TypeOK /\ Promises

-----------------------------------------------------------------------------
(* A step that neither moves a row nor ends an insert keeps the promises.  *)
LEMMA QuietStep ==
    ASSUME IInv, table' = table, pending' = pending, inserts' = inserts,
           pc' \in Inside => pc \in Inside
    PROVE  Promises'
<1> USE DEF Current, Batch
<1>1. KnownWriters' BY DEF IInv, Promises, KnownWriters
<1>2. NothingYet' BY DEF IInv, Promises, NothingYet, StoredBy
<1>3. InDoubt' BY DEF IInv, Promises, InDoubt, PendingOf, StoredBy, AllRows
<1>4. AckedAreStored' BY DEF IInv, Promises, AckedAreStored, AllRows
<1>5. RefusedAreNotStored' BY DEF IInv, Promises, RefusedAreNotStored, StoredBy
<1>6. BatchesAreAtomic' BY DEF IInv, Promises, BatchesAreAtomic, StoredBy, AllRows
<1> QED BY <1>1, <1>2, <1>3, <1>4, <1>5, <1>6 DEF Promises

(* What a step that ends the insert under way does to `inserts`.           *)
LEMMA FinishFacts ==
    ASSUME IInv, pc \in Inside, NEW r \in {"true", "false", "thrown"}, Finish(r)
    PROVE  /\ Current \in DOMAIN inserts
           /\ Len(inserts') = Len(inserts) /\ DOMAIN inserts' = DOMAIN inserts
           /\ inserts' \in Seq(InsertType)
           /\ \A n \in DOMAIN inserts : inserts'[n].batch = inserts[n].batch
           /\ \A n \in DOMAIN inserts \ {Current} : inserts'[n] = inserts[n]
           /\ inserts'[Current].result = r
           /\ pc' = "idle"
           /\ answer' = [op |-> "insert", result |-> r]
<1> USE DEF Current
<1>1. inserts \in Seq(InsertType) /\ inserts # <<>> BY DEF IInv, TypeOK, Inside
<1>2. Len(inserts) \in Nat /\ Len(inserts) > 0 /\ DOMAIN inserts = 1 .. Len(inserts)
      BY <1>1
<1>3. Current \in DOMAIN inserts /\ inserts[Current] \in InsertType BY <1>1, <1>2
<1>4. inserts' = [inserts EXCEPT ![Current].result = r] BY DEF Finish
<1>5. [inserts[Current] EXCEPT !.result = r] \in InsertType BY <1>3 DEF InsertType
<1>6. inserts' \in Seq(InsertType) BY <1>1, <1>3, <1>4, <1>5
<1>7. DOMAIN inserts' = DOMAIN inserts /\ Len(inserts') = Len(inserts) BY <1>1, <1>2, <1>4, <1>6
<1>8. inserts'[Current].batch = inserts[Current].batch /\ inserts'[Current].result = r
      BY <1>3, <1>4 DEF InsertType
<1>9. \A n \in DOMAIN inserts \ {Current} : inserts'[n] = inserts[n] BY <1>4
<1> QED BY <1>3, <1>6, <1>7, <1>8, <1>9 DEF Finish, Return

(* An insert that ends without storing anything keeps the promises.        *)
LEMMA RefuseStep ==
    ASSUME IInv, pc \in Inside, NEW r \in {"false", "thrown"}, Finish(r), table' = table,
           pending' = pending
    PROVE  Promises'
<1>1. /\ Current \in DOMAIN inserts
      /\ Len(inserts') = Len(inserts) /\ DOMAIN inserts' = DOMAIN inserts
      /\ \A n \in DOMAIN inserts : inserts'[n].batch = inserts[n].batch
      /\ \A n \in DOMAIN inserts \ {Current} : inserts'[n] = inserts[n]
      /\ inserts'[Current].result = r
      /\ pc' = "idle"
      BY FinishFacts
<1>2. StoredBy(Current) = {} BY DEF IInv, Promises, NothingYet
<1>3. KnownWriters' BY <1>1 DEF IInv, Promises, KnownWriters
<1>4. NothingYet' BY <1>1 DEF NothingYet, Inside
<1>5. AckedAreStored'
      BY <1>1 DEF IInv, Promises, AckedAreStored, AllRows
<1>6. RefusedAreNotStored'
      BY <1>1, <1>2 DEF IInv, Promises, RefusedAreNotStored, StoredBy
<1>7. BatchesAreAtomic'
  <2> SUFFICES ASSUME NEW n \in DOMAIN inserts PROVE (StoredBy(n) \in {{}, AllRows(n)})'
      BY <1>1 DEF BatchesAreAtomic
  <2>1. AllRows(n)' = AllRows(n) BY <1>1 DEF AllRows
  <2>2. StoredBy(n)' = StoredBy(n) BY DEF StoredBy
  <2> QED BY <2>1, <2>2 DEF IInv, Promises, BatchesAreAtomic
<1>8. InDoubt'
  <2> SUFFICES ASSUME NEW n \in DOMAIN inserts, PendingOf(n) # {}
               PROVE  (PendingOf(n) = AllRows(n) /\ StoredBy(n) = {} /\ inserts[n].result = "thrown")'
      BY <1>1 DEF InDoubt, PendingOf
  <2>1. PendingOf(n) = AllRows(n) /\ StoredBy(n) = {} /\ inserts[n].result = "thrown"
        BY DEF IInv, Promises, InDoubt
  <2>2. n # Current BY <2>1 DEF IInv, Promises, NothingYet
  <2>3. AllRows(n)' = AllRows(n) BY <1>1 DEF AllRows
  <2>4. StoredBy(n)' = StoredBy(n) /\ PendingOf(n)' = PendingOf(n) BY DEF StoredBy, PendingOf
  <2> QED BY <1>1, <2>1, <2>2, <2>3, <2>4
<1> QED BY <1>3, <1>4, <1>5, <1>6, <1>7, <1>8 DEF Promises

(* A commit that is answered has stored the whole batch.                   *)
LEMMA StoreStep ==
    ASSUME IInv, pc = "commit", Finish("true"),
           table' = table \cup Rows, pending' = pending
    PROVE  Promises'
<1>1. /\ Current \in DOMAIN inserts
      /\ Len(inserts') = Len(inserts) /\ DOMAIN inserts' = DOMAIN inserts
      /\ \A n \in DOMAIN inserts : inserts'[n].batch = inserts[n].batch
      /\ \A n \in DOMAIN inserts \ {Current} : inserts'[n] = inserts[n]
      /\ inserts'[Current].result = "true"
      /\ pc' = "idle"
      BY FinishFacts DEF Inside
<1>2. StoredBy(Current) = {} BY DEF IInv, Promises, NothingYet, Inside
<1>3. Rows = AllRows(Current) BY DEF Rows, AllRows, Batch, Current
<1>4. \A n \in DOMAIN inserts : AllRows(n)' = AllRows(n) BY <1>1 DEF AllRows
<1>5. \A n \in DOMAIN inserts \ {Current} : StoredBy(n)' = StoredBy(n)
      BY DEF StoredBy, Rows
<1>6. StoredBy(Current)' = AllRows(Current)
  <2>1. \A n : StoredBy(n)' = {row \in table \cup Rows : row.by = n} BY DEF StoredBy
  <2>2. Current' = Current BY <1>1 DEF Current
  <2>3. {row \in table \cup Rows : row.by = Current} = Rows
        BY <1>2 DEF StoredBy, Rows
  <2> QED BY <2>1, <2>2, <2>3, <1>3
<1>7. KnownWriters'
      BY <1>1 DEF IInv, Promises, KnownWriters, Rows, Current, TypeOK
<1>8. NothingYet' BY <1>1 DEF NothingYet, Inside
<1>9. AckedAreStored'
  <2> SUFFICES ASSUME NEW n \in DOMAIN inserts, inserts'[n].result = "true"
               PROVE  AllRows(n) \subseteq table \cup Rows
      BY <1>1, <1>4 DEF AckedAreStored
  <2>1. CASE n = Current BY <2>1, <1>3
  <2>2. CASE n # Current BY <2>2, <1>1 DEF IInv, Promises, AckedAreStored
  <2> QED BY <2>1, <2>2
<1>10. RefusedAreNotStored'
       BY <1>1, <1>5 DEF IInv, Promises, RefusedAreNotStored
<1>11. BatchesAreAtomic'
  <2> SUFFICES ASSUME NEW n \in DOMAIN inserts PROVE (StoredBy(n) \in {{}, AllRows(n)})'
      BY <1>1 DEF BatchesAreAtomic
  <2>1. CASE n = Current
    <3>1. Current' = Current BY <1>1 DEF Current
    <3> QED BY <2>1, <3>1, <1>4, <1>6
  <2>2. CASE n # Current BY <2>2, <1>4, <1>5 DEF IInv, Promises, BatchesAreAtomic
  <2> QED BY <2>1, <2>2
<1>12. InDoubt'
  <2> SUFFICES ASSUME NEW n \in DOMAIN inserts, PendingOf(n) # {}
               PROVE  (PendingOf(n) = AllRows(n) /\ StoredBy(n) = {} /\ inserts[n].result = "thrown")'
      BY <1>1 DEF InDoubt, PendingOf
  <2>1. PendingOf(n) = AllRows(n) /\ StoredBy(n) = {} /\ inserts[n].result = "thrown"
        BY DEF IInv, Promises, InDoubt
  <2>2. n # Current BY <2>1 DEF IInv, Promises, NothingYet, Inside
  <2>3. PendingOf(n)' = PendingOf(n) BY DEF PendingOf
  <2> QED BY <1>1, <1>4, <1>5, <2>1, <2>2, <2>3
<1> QED BY <1>7, <1>8, <1>9, <1>10, <1>11, <1>12 DEF Promises

(* A commit in doubt leaves the whole batch to the server.                 *)
LEMMA DoubtStep ==
    ASSUME IInv, pc = "commit", Finish("thrown"),
           table' = table, pending' = pending \cup Rows
    PROVE  Promises'
<1>1. /\ Current \in DOMAIN inserts
      /\ Len(inserts') = Len(inserts) /\ DOMAIN inserts' = DOMAIN inserts
      /\ \A n \in DOMAIN inserts : inserts'[n].batch = inserts[n].batch
      /\ \A n \in DOMAIN inserts \ {Current} : inserts'[n] = inserts[n]
      /\ inserts'[Current].result = "thrown"
      /\ pc' = "idle"
      BY FinishFacts DEF Inside
<1>2. StoredBy(Current) = {} /\ inserts[Current].result = "none"
      BY DEF IInv, Promises, NothingYet, Inside
<1>3. PendingOf(Current) = {} BY <1>1, <1>2 DEF IInv, Promises, InDoubt
<1>4. Rows = AllRows(Current) BY DEF Rows, AllRows, Batch, Current
<1>5. \A n \in DOMAIN inserts : AllRows(n)' = AllRows(n) BY <1>1 DEF AllRows
<1>6. \A n : StoredBy(n)' = StoredBy(n) BY DEF StoredBy
<1>7. \A n : PendingOf(n)' = {row \in pending \cup Rows : row.by = n} BY DEF PendingOf
<1>8. \A n \in DOMAIN inserts \ {Current} : PendingOf(n)' = PendingOf(n)
      BY <1>7 DEF PendingOf, Rows
<1>9. {row \in pending \cup Rows : row.by = Current} = Rows BY <1>3 DEF PendingOf, Rows
<1>10. KnownWriters'
       BY <1>1 DEF IInv, Promises, KnownWriters, Rows, Current, TypeOK
<1>11. NothingYet' BY <1>1 DEF NothingYet, Inside
<1>12. AckedAreStored' BY <1>1, <1>5 DEF IInv, Promises, AckedAreStored
<1>13. RefusedAreNotStored' BY <1>1, <1>6 DEF IInv, Promises, RefusedAreNotStored
<1>14. BatchesAreAtomic'
  <2> SUFFICES ASSUME NEW n \in DOMAIN inserts PROVE (StoredBy(n) \in {{}, AllRows(n)})'
      BY <1>1 DEF BatchesAreAtomic
  <2> QED BY <1>5, <1>6 DEF IInv, Promises, BatchesAreAtomic
<1>15. InDoubt'
  <2> SUFFICES ASSUME NEW n \in DOMAIN inserts, PendingOf(n)' # {}
               PROVE  (PendingOf(n) = AllRows(n) /\ StoredBy(n) = {} /\ inserts[n].result = "thrown")'
      BY <1>1 DEF InDoubt
  <2>1. CASE n = Current BY <2>1, <1>1, <1>2, <1>4, <1>5, <1>6, <1>7, <1>9
  <2>2. CASE n # Current BY <2>2, <1>1, <1>5, <1>6, <1>8 DEF IInv, Promises, InDoubt
  <2> QED BY <2>1, <2>2
<1> QED BY <1>10, <1>11, <1>12, <1>13, <1>14, <1>15 DEF Promises

(* A new insert owns no row.                                               *)
LEMMA BeginStep ==
    ASSUME IInv, NEW b \in Batches, NEW r \in {"none", "false"},
           inserts' = Append(inserts, [batch |-> b, result |-> r]), table' = table,
           pending' = pending, pc' \in {"idle", "begin"}, pc' = "begin" => r = "none"
    PROVE  Promises'
<1>1. inserts \in Seq(InsertType) BY DEF IInv, TypeOK
<1>2. /\ Len(inserts) \in Nat /\ DOMAIN inserts = 1 .. Len(inserts)
      /\ Len(inserts') = Len(inserts) + 1
      /\ DOMAIN inserts' = 1 .. (Len(inserts) + 1)
      /\ \A n \in DOMAIN inserts : inserts'[n] = inserts[n]
      /\ inserts'[Len(inserts) + 1] = [batch |-> b, result |-> r]
      BY <1>1
<1>3. DOMAIN inserts' = DOMAIN inserts \cup {Len(inserts')} BY <1>2
<1>4. \A row \in table \cup pending : row.by \in Nat /\ row.by <= Len(inserts)
      BY DEF IInv, Promises, KnownWriters, TypeOK
<1>5. /\ {row \in table : row.by = Len(inserts')} = {}
      /\ {row \in pending : row.by = Len(inserts')} = {}
      BY <1>2, <1>4
<1>6. \A n \in DOMAIN inserts : AllRows(n)' = AllRows(n) BY <1>2 DEF AllRows
<1>7. \A n : StoredBy(n)' = {row \in table : row.by = n} BY DEF StoredBy
<1>8. KnownWriters' BY <1>2, <1>4 DEF KnownWriters
<1>9. NothingYet' BY <1>2, <1>5 DEF NothingYet, StoredBy, Current, Inside
<1>10. InDoubt'
  <2> SUFFICES ASSUME NEW n \in DOMAIN inserts', PendingOf(n) # {}
               PROVE  (PendingOf(n) = AllRows(n) /\ StoredBy(n) = {} /\ inserts[n].result = "thrown")'
      BY DEF InDoubt, PendingOf
  <2>1. n \in DOMAIN inserts BY <1>3, <1>5 DEF PendingOf
  <2> QED BY <2>1, <1>2, <1>6 DEF IInv, Promises, InDoubt, PendingOf, StoredBy
<1>11. AckedAreStored'
       BY <1>2, <1>3, <1>6 DEF IInv, Promises, AckedAreStored
<1>12. RefusedAreNotStored'
       BY <1>2, <1>3, <1>5 DEF IInv, Promises, RefusedAreNotStored, StoredBy
<1>13. BatchesAreAtomic'
  <2> SUFFICES ASSUME NEW n \in DOMAIN inserts' PROVE (StoredBy(n) \in {{}, AllRows(n)})'
      BY DEF BatchesAreAtomic
  <2>1. CASE n \in DOMAIN inserts
        BY <2>1, <1>6 DEF IInv, Promises, BatchesAreAtomic, StoredBy
  <2>2. CASE n = Len(inserts') BY <2>2, <1>5 DEF StoredBy
  <2> QED BY <2>1, <2>2, <1>3
<1> QED BY <1>8, <1>9, <1>10, <1>11, <1>12, <1>13 DEF Promises

(* A row of another client is no insert's.                                 *)
LEMMA OtherStep == ASSUME IInv, OtherInserts PROVE Promises'
<1> USE DEF Current, Batch
<1>1. PICK h \in Hashes : pending' = pending \cup {[hash |-> h, by |-> 0]}
      BY DEF OtherInserts
<1>2. UNCHANGED <<pc, table, inserts>> BY DEF OtherInserts
<1>3. inserts \in Seq(InsertType)
      BY DEF IInv, TypeOK
<1>4. Len(inserts) \in Nat /\ DOMAIN inserts = 1 .. Len(inserts) BY <1>3
<1>5. \A n \in DOMAIN inserts : PendingOf(n)' = PendingOf(n) BY <1>1, <1>4 DEF PendingOf
<1>6. \A n : AllRows(n)' = AllRows(n) /\ StoredBy(n)' = StoredBy(n)
      BY <1>2 DEF AllRows, StoredBy
<1>7. KnownWriters' BY <1>1, <1>2, <1>4 DEF IInv, Promises, KnownWriters
<1>8. NothingYet' BY <1>2, <1>6 DEF IInv, Promises, NothingYet
<1>9. InDoubt' BY <1>2, <1>5, <1>6 DEF IInv, Promises, InDoubt
<1>10. AckedAreStored' BY <1>2, <1>6 DEF IInv, Promises, AckedAreStored
<1>11. RefusedAreNotStored' BY <1>2, <1>6 DEF IInv, Promises, RefusedAreNotStored
<1>12. BatchesAreAtomic' BY <1>2, <1>6 DEF IInv, Promises, BatchesAreAtomic
<1> QED BY <1>7, <1>8, <1>9, <1>10, <1>11, <1>12 DEF Promises

(* A transaction that the server ends by itself is another client's, or    *)
(* the whole of a batch whose commit was in doubt.                         *)
LEMMA ServerStep == ASSUME IInv, TransactionEnds PROVE Promises'
<1> USE DEF Current, Batch
<1>1. PICK row \in pending : LET whole == IF row.by = 0 THEN {row} ELSE {r \in pending : r.by = row.by} IN
          /\ pending' = pending \ whole
          /\ table' \in {table, table \cup whole}
      BY DEF TransactionEnds
<1> DEFINE whole == IF row.by = 0 THEN {row} ELSE {r \in pending : r.by = row.by}
<1>2. /\ whole \subseteq pending
      /\ \A r \in whole : r.by = row.by
      /\ row.by # 0 => whole = PendingOf(row.by)
      BY DEF PendingOf
<1>3. pending' = pending \ whole /\ table' \in {table, table \cup whole} BY <1>1
<1> HIDE DEF whole
<1>4. UNCHANGED <<pc, inserts>> BY DEF TransactionEnds
<1>5. inserts \in Seq(InsertType) BY DEF IInv, TypeOK
<1>6. Len(inserts) \in Nat /\ DOMAIN inserts = 1 .. Len(inserts) BY <1>5
<1>7. \A n : AllRows(n)' = AllRows(n) BY <1>4 DEF AllRows
<1>8. \A n : n # row.by => StoredBy(n)' = StoredBy(n) /\ PendingOf(n)' = PendingOf(n)
  <2> SUFFICES ASSUME NEW n, n # row.by
               PROVE  StoredBy(n)' = StoredBy(n) /\ PendingOf(n)' = PendingOf(n)
      OBVIOUS
  <2>1. \A r \in whole : r.by # n BY <1>2
  <2>2. StoredBy(n)' = {r \in table' : r.by = n} /\ PendingOf(n)' = {r \in pending' : r.by = n}
        BY DEF StoredBy, PendingOf
  <2>3. CASE table' = table BY <1>3, <2>1, <2>2, <2>3 DEF StoredBy, PendingOf
  <2>4. CASE table' = table \cup whole BY <1>3, <2>1, <2>2, <2>4 DEF StoredBy, PendingOf
  <2> QED BY <1>3, <2>3, <2>4
<1>9. ASSUME row.by \in DOMAIN inserts
      PROVE  /\ inserts[row.by].result = "thrown"
             /\ PendingOf(row.by)' = {}
             /\ StoredBy(row.by)' \in {{}, AllRows(row.by)}
  <2>1. row \in PendingOf(row.by) BY DEF PendingOf
  <2>2. /\ PendingOf(row.by) = AllRows(row.by)
        /\ StoredBy(row.by) = {}
        /\ inserts[row.by].result = "thrown"
        BY <1>9, <2>1 DEF IInv, Promises, InDoubt
  <2>3. row.by # 0 BY <1>6, <1>9
  <2>4. whole = PendingOf(row.by) BY <1>2, <2>3
  <2>5. PendingOf(row.by)' = {r \in pending' : r.by = row.by} /\ StoredBy(row.by)' = {r \in table' : r.by = row.by}
        BY DEF PendingOf, StoredBy
  <2>6. {r \in pending' : r.by = row.by} = {} BY <1>3, <2>4 DEF PendingOf
  <2>7. {r \in table' : r.by = row.by} \in {{}, PendingOf(row.by)}
    <3>1. CASE table' = table BY <3>1, <2>2 DEF StoredBy
    <3>2. CASE table' = table \cup whole BY <3>2, <2>2, <2>4 DEF StoredBy, PendingOf
    <3> QED BY <1>3, <3>1, <3>2
  <2> QED BY <2>2, <2>5, <2>6, <2>7
<1>10. KnownWriters'
  <2>1. \A r \in table' \cup pending' : r \in table \cup pending BY <1>2, <1>3
  <2> QED BY <2>1, <1>4 DEF IInv, Promises, KnownWriters
<1>11. NothingYet'
  <2>1. pc \in Inside => Current \in DOMAIN inserts BY <1>5, <1>6 DEF IInv, TypeOK, Inside
  <2>2. pc \in Inside => inserts[Current].result = "none" BY DEF IInv, Promises, NothingYet
  <2>3. pc \in Inside => Current # row.by BY <1>9, <2>1, <2>2
  <2>4. \A n : n # row.by => {r \in table' : r.by = n} = StoredBy(n) BY <1>8 DEF StoredBy
  <2>5. pc \in Inside => {r \in table' : r.by = Current} = {}
        BY <2>3, <2>4 DEF IInv, Promises, NothingYet
  <2>6. StoredBy(Current)' = {r \in table' : r.by = Current} BY <1>4 DEF StoredBy
  <2> QED BY <1>4, <2>2, <2>5, <2>6 DEF NothingYet
<1>12. InDoubt'
  <2> SUFFICES ASSUME NEW n \in DOMAIN inserts, PendingOf(n)' # {}
               PROVE  (PendingOf(n) = AllRows(n) /\ StoredBy(n) = {} /\ inserts[n].result = "thrown")'
      BY <1>4 DEF InDoubt
  <2>1. n # row.by BY <1>9
  <2> QED BY <2>1, <1>4, <1>7, <1>8 DEF IInv, Promises, InDoubt
<1>13. AckedAreStored'
  <2>1. table \subseteq table' BY <1>3
  <2> QED BY <2>1, <1>4, <1>7 DEF IInv, Promises, AckedAreStored
<1>14. RefusedAreNotStored'
  <2> SUFFICES ASSUME NEW n \in DOMAIN inserts, inserts[n].result = "false"
               PROVE  StoredBy(n)' = {}
      BY <1>4 DEF RefusedAreNotStored
  <2>1. n # row.by BY <1>9
  <2> QED BY <2>1, <1>8 DEF IInv, Promises, RefusedAreNotStored
<1>15. BatchesAreAtomic'
  <2> SUFFICES ASSUME NEW n \in DOMAIN inserts PROVE (StoredBy(n) \in {{}, AllRows(n)})'
      BY <1>4 DEF BatchesAreAtomic
  <2>1. CASE n = row.by BY <2>1, <1>7, <1>9
  <2>2. CASE n # row.by BY <2>2, <1>7, <1>8 DEF IInv, Promises, BatchesAreAtomic
  <2> QED BY <2>1, <2>2
<1> QED BY <1>10, <1>11, <1>12, <1>13, <1>14, <1>15 DEF Promises

-----------------------------------------------------------------------------
(* A batch of a recorded insert is a sequence of keys.                     *)
LEMMA BatchOf ==
    ASSUME inserts \in Seq(InsertType), NEW n \in DOMAIN inserts
    PROVE  inserts[n].batch \in Seq(Hashes) /\ Len(inserts[n].batch) \in Nat
<1>1. inserts[n] \in InsertType OBVIOUS
<1>2. inserts[n].batch \in Batches BY <1>1 DEF InsertType
<1>3. inserts[n].batch \in Seq(Hashes) BY <1>2, DbAssumption
<1> QED BY <1>3

(* A step between two calls, or one that ends the object, keeps the types. *)
LEMMA OutsideStep ==
    ASSUME TypeOK, table' = table, pending' = pending, inserts' = inserts, written' = written,
           conn' \in {"null", "open", "closed"}, session' \in BOOLEAN,
           pc' \in {"idle", "gone"},
           \/ answer' = answer
           \/ \E op \in Calls : \E r \in Results : answer' = [op |-> op, result |-> r]
    PROVE  TypeOK'
<1>1. answer' \in AnswerType BY DEF TypeOK, AnswerType
<1> QED BY <1>1 DEF TypeOK

(* So does one that leaves the insert under way where it is, or moves it   *)
(* on to its next statement.                                               *)
LEMMA InsideStep ==
    ASSUME TypeOK, inserts' = inserts, written' = written, answer' = answer,
           conn' = conn, session' \in BOOLEAN, table' \subseteq [hash: Hashes, by: Nat],
           pending' \subseteq [hash: Hashes, by: Nat],
           \/ pc' = pc
           \/ pc \in Inside /\ pc' \in Inside
    PROVE  TypeOK'
<1>1. Batch' = Batch BY DEF Batch, Current
<1> QED BY <1>1 DEF TypeOK, Inside

(* And one that ends an insert.                                            *)
LEMMA EndStep ==
    ASSUME IInv, pc \in Inside, NEW r \in {"true", "false", "thrown"}, Finish(r),
           conn' \in {"null", "open", "closed"}, session' \in BOOLEAN, written' = written,
           table' \in {table, table \cup Rows}, pending' \in {pending, pending \cup Rows}
    PROVE  TypeOK'
<1>0. TypeOK BY DEF IInv
<1>1. /\ inserts' \in Seq(InsertType)
      /\ Current \in DOMAIN inserts
      /\ pc' = "idle"
      /\ answer' = [op |-> "insert", result |-> r]
      BY FinishFacts
<1>2. Batch \in Seq(Hashes) BY <1>0, <1>1, BatchOf DEF TypeOK, Batch
<1>3. \A i \in DOMAIN Batch : Batch[i] \in Hashes BY <1>2
<1>4. Current \in Nat BY <1>0 DEF TypeOK, Current
<1>5. Rows \subseteq [hash: Hashes, by: Nat] BY <1>3, <1>4 DEF Rows
<1>6. answer' \in AnswerType BY <1>1 DEF AnswerType, Results, Calls
<1>7. table' \subseteq [hash: Hashes, by: Nat] /\ pending' \subseteq [hash: Hashes, by: Nat]
      BY <1>0, <1>5 DEF TypeOK
<1>8. written' \in Nat BY <1>0 DEF TypeOK
<1> QED BY <1>1, <1>6, <1>7, <1>8 DEF TypeOK

LEMMA TypeStep == ASSUME IInv, [Next]_vars PROVE TypeOK'
<1>0. TypeOK BY DEF IInv
<1> USE DEF Calls, server
<1>1. ASSUME NEW op \in Calls, Crash(op) PROVE TypeOK'
  <2>1. "crash" \in Results BY DEF Results
  <2>2. \E o \in Calls : \E r \in Results : answer' = [op |-> o, result |-> r]
        BY <1>1, <2>1 DEF Crash
  <2>3. conn' \in {"null", "open", "closed"} /\ session' \in BOOLEAN
        BY <1>0, <1>1 DEF Crash, TypeOK
  <2>4. pc' = "gone" /\ UNCHANGED <<server, inserts, written>> BY <1>1 DEF Crash
  <2> QED BY <1>0, <2>2, <2>3, <2>4, OutsideStep
<1>2. ASSUME \E o \in Calls : \E r \in Results : Return(o, r),
             conn' \in {"null", "open", "closed"}, session' \in BOOLEAN,
             UNCHANGED <<server, inserts, written>>
      PROVE  TypeOK'
  <2>1. \E o \in Calls : \E x \in Results : answer' = [op |-> o, result |-> x]
        BY <1>2 DEF Return
  <2>2. pc' = "idle" BY <1>2 DEF Return
  <2> QED BY <1>0, <1>2, <2>1, <2>2, OutsideStep
<1>3. conn \in {"null", "open", "closed"} /\ session \in BOOLEAN BY <1>0 DEF TypeOK
<1>4. \A o \in Calls : \A x \in {"true", "false", "thrown", "none", "row"} :
         Return(o, x) => \E p \in Calls : \E r \in Results : Return(p, r)
      BY DEF Results
<1>5. CASE Connect
  <2>1. \E x \in {"true", "false", "thrown"} : Return("connect", x) BY <1>5 DEF Connect
  <2>2. /\ conn' \in {"null", "open", "closed"} /\ session' \in BOOLEAN
        /\ UNCHANGED <<server, inserts, written>>
        BY <1>3, <1>5 DEF Connect
  <2> QED BY <1>2, <1>4, <2>1, <2>2
<1>6. CASE IsConnected
  <2>1. CASE Crash("isConnected") BY <1>1, <2>1
  <2>2. CASE ~ Crash("isConnected")
    <3>1. \E x \in {"true", "false"} : Return("isConnected", x)
          BY <1>6, <2>2 DEF IsConnected
    <3>2. UNCHANGED <<conn, session, server, inserts, written>>
          BY <1>6, <2>2 DEF IsConnected
    <3> QED BY <1>2, <1>3, <1>4, <3>1, <3>2
  <2> QED BY <2>1, <2>2
<1>7. CASE Disconnect
  <2>1. CASE Crash("disconnect") BY <1>1, <2>1
  <2>2. CASE ~ Crash("disconnect")
    <3>1. /\ Return("disconnect", "none")
          /\ conn' = "closed" /\ session' = FALSE
          /\ UNCHANGED <<server, inserts, written>>
          BY <1>7, <2>2 DEF Disconnect
    <3> QED BY <1>2, <1>4, <3>1
  <2> QED BY <2>1, <2>2
<1>8. CASE Destroy
  <2>1. CASE conn # "null" /\ pc' = "gone" /\ conn' = "closed" /\ session' = FALSE
             /\ UNCHANGED <<server, inserts, written, answer>>
        BY <1>0, <2>1, OutsideStep
  <2> QED BY <1>1, <1>8, <2>1 DEF Destroy
<1>9. CASE Insert
  <2>1. CASE Crash("insert") BY <1>1, <2>1
  <2>2. CASE ~ Crash("insert")
    <3>1. written' = 0 /\ UNCHANGED <<conn, session, server>> BY <1>9, <2>2 DEF Insert
    <3>2. PICK b \in Batches, x \in {"none", "false"} :
             /\ inserts' = Append(inserts, [batch |-> b, result |-> x])
             /\ \/ Return("insert", "false")
                \/ pc' = "begin" /\ UNCHANGED answer
          BY <1>9, <2>2 DEF Insert
    <3>3. [batch |-> b, result |-> x] \in InsertType BY DEF InsertType
    <3>4. inserts \in Seq(InsertType) BY <1>0 DEF TypeOK
    <3>5. /\ inserts' \in Seq(InsertType)
          /\ Len(inserts') = Len(inserts) + 1 /\ Len(inserts) \in Nat
          /\ inserts'[Len(inserts')].batch = b
          BY <3>2, <3>3, <3>4
    <3>6. inserts' # <<>> BY <3>5
    <3>7. b \in Seq(Hashes) BY DbAssumption
    <3>8. 0 <= Len(b) BY <3>7
    <3>9. Batch' = b BY <3>5 DEF Batch, Current
    <3>10. answer' \in AnswerType
      <4>1. CASE UNCHANGED answer BY <1>0, <4>1 DEF TypeOK
      <4>2. CASE answer' = [op |-> "insert", result |-> "false"]
            BY <4>2 DEF AnswerType, Results
      <4> QED BY <3>2, <4>1, <4>2 DEF Return
    <3>11. pc' \in {"idle", "begin"} BY <3>2 DEF Return
    <3> QED BY <1>0, <3>1, <3>5, <3>6, <3>8, <3>9, <3>10, <3>11 DEF TypeOK
  <2> QED BY <2>1, <2>2
<1>10. CASE BeginWork
  <2>1. CASE session /\ pc' = "stream" /\ UNCHANGED <<conn, session, server, inserts, written, answer>>
        BY <1>0, <1>10, <2>1, InsideStep DEF BeginWork, Inside, TypeOK
  <2>2. CASE \E r \in {"false", "thrown"} :
                /\ Finish(r) /\ conn' \in {conn, "closed"}
                /\ UNCHANGED <<session, server, written>>
        BY <1>3, <1>10, <2>2, EndStep DEF BeginWork, Inside
  <2> QED BY <1>10, <2>1, <2>2 DEF BeginWork, Broken
<1>11. CASE WriteValues
  <2>1. CASE written' = written + 1 /\ UNCHANGED <<conn, session, server, pc, inserts, answer>>
    <3>1. pc = "stream" /\ written < Len(Batch) BY <1>11 DEF WriteValues
    <3>2. Len(Batch) \in Nat
      <4>1. inserts \in Seq(InsertType) /\ inserts # <<>> BY <1>0, <3>1 DEF TypeOK
      <4>2. Current \in DOMAIN inserts BY <4>1 DEF Current
      <4> QED BY <4>1, <4>2, BatchOf DEF Batch
    <3>3. written' \in Nat /\ written' <= Len(Batch)
          BY <1>0, <2>1, <3>1, <3>2 DEF TypeOK
    <3>4. Batch' = Batch BY <2>1 DEF Batch, Current
    <3> QED BY <1>0, <2>1, <3>1, <3>3, <3>4 DEF TypeOK
  <2>2. CASE Broken BY <1>3, <1>11, <2>2, EndStep DEF WriteValues, Inside, Broken
  <2> QED BY <1>11, <2>1, <2>2 DEF WriteValues
<1>12. CASE CompleteStream
  <2>1. CASE session /\ pc' = "commit" /\ UNCHANGED <<conn, session, server, inserts, written, answer>>
        BY <1>0, <1>12, <2>1, InsideStep DEF CompleteStream, Inside, TypeOK
  <2>2. CASE \E r \in {"false", "thrown"} :
                /\ Finish(r) /\ conn' \in {conn, "closed"}
                /\ UNCHANGED <<session, server, written>>
        BY <1>3, <1>12, <2>2, EndStep DEF CompleteStream, Inside
  <2> QED BY <1>12, <2>1, <2>2 DEF CompleteStream, Broken
<1>13. CASE Commit
  <2>1. pc \in Inside /\ \E r \in {"true", "false", "thrown"} : Finish(r)
        BY <1>13 DEF Commit, CommitEnds, Broken, Inside
  <2>2. /\ conn' \in {"open", "closed", "null"} /\ session' \in BOOLEAN /\ written' = written
        /\ table' \in {table, table \cup Rows} /\ pending' \in {pending, pending \cup Rows}
        BY <1>3, <1>13 DEF Commit, CommitEnds, Broken
  <2> QED BY <2>1, <2>2, EndStep
<1>14. ASSUME NEW op \in Calls, \E x \in {"none", "row", "thrown"} : Return(op, x),
              conn' \in {conn, "closed"}, UNCHANGED <<session, server, inserts, written>>
       PROVE  TypeOK'
  <2>1. \E o \in Calls : \E r \in Results : Return(o, r) BY <1>4, <1>14
  <2> QED BY <1>2, <1>3, <1>14, <2>1
<1>15. CASE FindRows
  <2>1. CASE Crash("find") BY <1>1, <2>1
  <2>2. CASE ~ Crash("find")
    <3>1. /\ \E x \in {"none", "row", "thrown"} : Return("find", x)
          /\ conn' \in {conn, "closed"}
          /\ UNCHANGED <<session, server, inserts, written>>
          BY <1>15, <2>2 DEF FindRows, FindQuery
    <3> QED BY <1>14, <3>1
  <2> QED BY <2>1, <2>2
<1>16. CASE FindAddresses
  <2>1. CASE Crash("findAddresses") BY <1>1, <2>1
  <2>2. CASE ~ Crash("findAddresses")
    <3>1. /\ \E x \in {"none", "row", "thrown"} : Return("findAddresses", x)
          /\ conn' \in {conn, "closed"}
          /\ UNCHANGED <<session, server, inserts, written>>
          BY <1>16, <2>2 DEF FindAddresses, FindQuery
    <3> QED BY <1>14, <3>1
  <2> QED BY <2>1, <2>2
<1>17. CASE LoseSession BY <1>0, <1>17, InsideStep DEF LoseSession, TypeOK
<1>18. CASE OtherInserts
  <2>1. pending' \subseteq [hash: Hashes, by: Nat] /\ table' \subseteq [hash: Hashes, by: Nat]
        BY <1>0, <1>18 DEF OtherInserts, TypeOK
  <2> QED BY <1>0, <1>3, <1>18, <2>1, InsideStep DEF OtherInserts
<1>19. CASE TransactionEnds
  <2>1. pending' \subseteq pending /\ table' \subseteq table \cup pending
        BY <1>19 DEF TransactionEnds
  <2>2. pending' \subseteq [hash: Hashes, by: Nat] /\ table' \subseteq [hash: Hashes, by: Nat]
        BY <1>0, <2>1 DEF TypeOK
  <2> QED BY <1>0, <1>3, <1>19, <2>2, InsideStep DEF TransactionEnds
<1>20. CASE WaitRefused
  <2>1. pc \in Inside /\ Finish("false") /\ UNCHANGED <<conn, session, server, written>>
        BY <1>20 DEF WaitRefused, Blocked, Inside
  <2> QED BY <1>3, <2>1, EndStep
<1>21. CASE UNCHANGED vars BY <1>0, <1>3, <1>21, InsideStep DEF vars, TypeOK
<1> QED BY <1>5, <1>6, <1>7, <1>8, <1>9, <1>10, <1>11, <1>12, <1>13, <1>15, <1>16, <1>17, <1>18,
           <1>19, <1>20, <1>21 DEF Next

LEMMA PromisesStep == ASSUME IInv, [Next]_vars PROVE Promises'
<1> USE DEF Return, Crash, Inside, server
<1>1. CASE Connect \/ IsConnected \/ Disconnect \/ Destroy
      BY <1>1, QuietStep DEF Connect, IsConnected, Disconnect, Destroy
<1>2. CASE Insert
  <2>1. CASE Crash("insert") BY <2>1, QuietStep
  <2>2. CASE ~ Crash("insert")
    <3>1. table' = table /\ pending' = pending BY <1>2, <2>2 DEF Insert
    <3>2. PICK b \in Batches :
             \/ /\ Return("insert", "false")
                /\ inserts' = Append(inserts, [batch |-> b, result |-> "false"])
             \/ /\ pc' = "begin"
                /\ inserts' = Append(inserts, [batch |-> b, result |-> "none"])
          BY <1>2, <2>2 DEF Insert
    <3>3. CASE pc' = "idle" /\ inserts' = Append(inserts, [batch |-> b, result |-> "false"])
          BY <3>1, <3>3, BeginStep
    <3>4. CASE pc' = "begin" /\ inserts' = Append(inserts, [batch |-> b, result |-> "none"])
          BY <3>1, <3>4, BeginStep
    <3> QED BY <3>2, <3>3, <3>4
  <2> QED BY <2>1, <2>2
<1>3. CASE BeginWork
  <2>1. CASE pc' = "stream" /\ UNCHANGED <<server, inserts>>
        BY <1>3, <2>1, QuietStep DEF BeginWork
  <2>2. CASE UNCHANGED server /\ \E r \in {"false", "thrown"} : Finish(r)
        BY <1>3, <2>2, RefuseStep DEF BeginWork
  <2> QED BY <1>3, <2>1, <2>2 DEF BeginWork, Broken
<1>4. CASE WriteValues
  <2>1. CASE UNCHANGED <<server, inserts, pc>>
        BY <2>1, QuietStep DEF WriteValues
  <2>2. CASE UNCHANGED server /\ Finish("thrown")
        BY <1>4, <2>2, RefuseStep DEF WriteValues
  <2> QED BY <1>4, <2>1, <2>2 DEF WriteValues, Broken
<1>5. CASE CompleteStream
  <2>1. CASE pc' = "commit" /\ UNCHANGED <<server, inserts>>
        BY <1>5, <2>1, QuietStep DEF CompleteStream
  <2>2. CASE UNCHANGED server /\ \E r \in {"false", "thrown"} : Finish(r)
        BY <1>5, <2>2, RefuseStep DEF CompleteStream
  <2> QED BY <1>5, <2>1, <2>2 DEF CompleteStream, Broken
<1>6. CASE Commit
  <2>0. pc = "commit" BY <1>6 DEF Commit, CommitEnds
  <2>1. CASE table' = table \cup Rows /\ pending' = pending /\ Finish("true")
        BY <2>0, <2>1, StoreStep
  <2>3. CASE table' = table /\ pending' = pending \cup Rows /\ Finish("thrown")
        BY <2>0, <2>3, DoubtStep
  <2>2. CASE UNCHANGED server /\ \E r \in {"false", "thrown"} : Finish(r)
        BY <2>0, <2>2, RefuseStep
  <2> QED BY <1>6, <2>1, <2>2, <2>3 DEF Commit, CommitEnds, Broken
<1>7. CASE FindRows \/ FindAddresses
  <2>1. UNCHANGED <<server, inserts>> /\ pc' \in {"idle", "gone"}
        BY <1>7 DEF FindRows, FindAddresses, FindQuery
  <2> QED BY <2>1, QuietStep
<1>8. CASE LoseSession BY <1>8, QuietStep DEF LoseSession
<1>9. CASE OtherInserts BY <1>9, OtherStep
<1>10. CASE TransactionEnds BY <1>10, ServerStep
<1>11. CASE WaitRefused BY <1>11, RefuseStep DEF WaitRefused, Blocked
<1>12. CASE UNCHANGED vars BY <1>12, QuietStep DEF vars
<1> QED BY <1>1, <1>2, <1>3, <1>4, <1>5, <1>6, <1>7, <1>8, <1>9, <1>10, <1>11, <1>12 DEF Next

-----------------------------------------------------------------------------
(* Every reachable state satisfies the inductive invariant: each step of a *)
(* call, and everything the server and other clients do between two of     *)
(* them.                                                                   *)
THEOREM Invariance == Spec => []IInv
<1>1. Init => IInv
  <2> SUFFICES ASSUME Init PROVE IInv OBVIOUS
  <2>1. inserts \in Seq(InsertType) /\ DOMAIN inserts = {} BY DEF Init
  <2>2. answer \in AnswerType BY DEF Init, AnswerType, Results, Calls
  <2>3. TypeOK BY <2>1, <2>2 DEF Init, TypeOK
  <2>4. AckedAreStored /\ RefusedAreNotStored /\ BatchesAreAtomic
        BY <2>1 DEF AckedAreStored, RefusedAreNotStored, BatchesAreAtomic
  <2>5. KnownWriters /\ NothingYet /\ InDoubt
        BY <2>1 DEF Init, KnownWriters, NothingYet, InDoubt, Inside
  <2> QED BY <2>3, <2>4, <2>5 DEF IInv, Promises
<1>2. IInv /\ [Next]_vars => IInv' BY TypeStep, PromisesStep DEF IInv
<1> QED BY <1>1, <1>2, PTL DEF Spec

(* Type correctness of the table and of its client.                        *)
THEOREM TypeCorrect == Spec => []TypeOK
<1>1. IInv => TypeOK BY DEF IInv
<1> QED BY <1>1, Invariance, PTL

(* insert answered TRUE: the whole batch is in the table and stays there.  *)
THEOREM AcknowledgedStays == Spec => []AckedAreStored
<1>1. IInv => AckedAreStored BY DEF IInv, Promises
<1> QED BY <1>1, Invariance, PTL

(* insert answered FALSE: nothing of the batch is in the table.            *)
THEOREM RefusedLeavesNothing == Spec => []RefusedAreNotStored
<1>1. IInv => RefusedAreNotStored BY DEF IInv, Promises
<1> QED BY <1>1, Invariance, PTL

(* A batch is stored whole or not at all, whatever breaks.                 *)
THEOREM Atomicity == Spec => []BatchesAreAtomic
<1>1. IInv => BatchesAreAtomic BY DEF IInv, Promises
<1> QED BY <1>1, Invariance, PTL
=============================================================================
