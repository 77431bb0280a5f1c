-------------------------- MODULE Logger_proofs --------------------------
(***************************************************************************)
(* What holds of the log for every number of days, of files kept and of    *)
(* companies: types, that records reach their file, and which files are    *)
(* kept and deleted.                                                       *)
(*                                                                         *)
(* At most one file sink is in use, and the invariant is about its queue   *)
(* of file names: it lists, oldest first, files that are on disk, all      *)
(* older than the next rotation, and every file from the day it started    *)
(* with on is in it or counted as leaked.                                  *)
(***************************************************************************)
EXTENDS Logger, FiniteSetTheorems, FunctionTheorems, SequenceTheorems, WellFoundedInduction, TLAPS

Ascending(q) == \A i, j \in 1 .. Len(q) : i < j => q[i] < q[j]

(* A sink whose file is closed tries again with the next record; an open   *)
(* file is the one of the day before the rotation, or of two days before   *)
(* when midnight passed while it was opened.                               *)
FileCurrent(s, d) ==
    /\ s.file <= d
    /\ ~ s.open => s.rotation <= d
    /\ s.open => s.rotation = s.file + (IF s.raced THEN 2 ELSE 1)

QueueOnDisk(s, fs) ==
    /\ Ascending(s.queue)
    /\ \A i \in 1 .. Len(s.queue) : s.queue[i] < s.rotation /\ <<s.company, s.queue[i]>> \in fs

Queued(s, e) == \E i \in 1 .. Len(s.queue) : s.queue[i] = e

NoneForgotten(s, fs) ==
    \A e \in Days : e >= s.since /\ <<s.company, e>> \in fs => e \in s.leaked \/ Queued(s, e)

SinkKept(s, d, fs) == FileCurrent(s, d) /\ QueueOnDisk(s, fs) /\ NoneForgotten(s, fs)

OneSink ==
    /\ ~ attached => sinks = <<>>
    /\ attached => /\ Len(sinks) = 1
                   /\ sinks[1].company = company
                   /\ SinkKept(sinks[1], day, files)

NoFileOfTomorrow == \A f \in files : f[2] <= day

IInv == TypeOK /\ OneSink /\ NoFileOfTomorrow /\ RecordsReachTheirFile

-----------------------------------------------------------------------------
(* Induction over the naturals in the form the provers can use.            *)
LEMMA LeastOfSet ==
    ASSUME NEW T \in SUBSET Nat, T # {}
    PROVE  \E m \in T : \A k \in T : m <= k
<1> DEFINE R == {ss \in Nat \X Nat : ss[1] < ss[2]}
<1>1. IsWellFoundedOn(R, Nat)
  BY NatLessThanWellFounded DEF OpToRel
<1>2. PICK m \in T : \A k \in T : ~ (<<k, m>> \in R)
  <2> HIDE DEF R
  <2> QED BY <1>1, WFMin
<1>3. \A k \in T : k < m => <<k, m>> \in R
  OBVIOUS
<1> HIDE DEF R
<1>4. \A k \in T : ~ (k < m)
  BY <1>2, <1>3, Zenon
<1>5. m \in Nat /\ \A k \in T : k \in Nat
  OBVIOUS
<1>6. \A k \in T : m <= k
  BY <1>4, <1>5
<1> QED BY <1>6

(* The clock never goes back, and a call sees at most one midnight.        *)
LEMMA ClockReadings ==
    ASSUME day \in Days, NEW d \in From(day), NEW now \in From(d)
    PROVE  /\ d \in Days /\ now \in Days /\ From(now) \subseteq Days
           /\ day <= d /\ d <= now /\ now <= day + 1
           /\ \A later \in From(now) : now <= later /\ later <= day + 1
           /\ MaxDay \in Nat
BY LoggerAssumption DEF From, Days

LEMMA RunExists ==
    ASSUME NEW c, NEW d \in Nat, NEW max \in Nat, NEW fs
    PROVE  \E n \in 0 .. max : HasRun(c, d, n, fs) /\ (n < max => ~ HasRun(c, d, n + 1, fs))
<1> DEFINE T == {n \in Nat : n >= max \/ ~ HasRun(c, d, n + 1, fs)}
<1>1. T \in SUBSET Nat /\ max \in T
  OBVIOUS
<1>2. PICK m \in T : \A k \in T : m <= k
  <2> HIDE DEF T
  <2> QED BY <1>1, LeastOfSet
<1>3. m \in 0 .. max
  <2>1. m <= max
    BY <1>1, <1>2
  <2> QED BY <2>1
<1>4. HasRun(c, d, m, fs)
  <2>1. CASE m = 0
    <3>1. (d - m + 1) .. d = {}
      BY <2>1
    <3> QED BY <3>1 DEF HasRun
  <2>2. CASE m # 0
    <3>1. m - 1 \in Nat /\ m - 1 + 1 = m
      BY <2>2
    <3>2. m - 1 \notin T
      BY <1>2, <3>1
    <3> QED BY <3>1, <3>2
  <2> QED BY <2>1, <2>2
<1>5. m < max => ~ HasRun(c, d, m + 1, fs)
  OBVIOUS
<1> QED BY <1>3, <1>4, <1>5

(* The queue a sink starts with: the last days up to d, all with files, or *)
(* none when d has no file.                                                *)
LEMMA QueueFound ==
    ASSUME NEW c, NEW d \in Days, NEW max \in Nat \ {0}, NEW fs \in SUBSET (Names \X Days)
    PROVE  LET q == InitFilenames(c, d, max, fs) IN
           /\ q \in Seq(Days) /\ Len(q) \in 0 .. max
           /\ \A i \in 1 .. Len(q) : q[i] = d - Len(q) + i /\ <<c, q[i]>> \in fs
           /\ q = <<>> => <<c, d>> \notin fs
<1> DEFINE n == CHOOSE n \in 0 .. max : HasRun(c, d, n, fs) /\ (n < max => ~ HasRun(c, d, n + 1, fs))
           q == [i \in 1 .. n |-> d - n + i]
<1>1. n \in 0 .. max /\ HasRun(c, d, n, fs) /\ (n < max => ~ HasRun(c, d, n + 1, fs))
  <2>1. d \in Nat
    BY DEF Days
  <2> QED BY <2>1, RunExists
<1>2. InitFilenames(c, d, max, fs) = q
  BY DEF InitFilenames
<1> HIDE DEF n
<1>3. n \in Nat /\ n <= max /\ d \in Nat
  BY <1>1 DEF Days
<1>4. \A i \in 1 .. n : <<c, d - n + i>> \in fs
  <2>1. \A i \in 1 .. n : d - n + i \in (d - n + 1) .. d
    BY <1>3
  <2> QED BY <1>1, <2>1 DEF HasRun
<1>5. \A i \in 1 .. n : d - n + i \in Days
  BY <1>4
<1>6. q \in Seq(Days) /\ Len(q) = n
  BY <1>3, <1>5
<1>7. \A i \in 1 .. n : q[i] = d - n + i
  OBVIOUS
<1>8. q = <<>> => <<c, d>> \notin fs
  <2> SUFFICES ASSUME n = 0 PROVE <<c, d>> \notin fs
    BY <1>6
  <2>1. ~ HasRun(c, d, 1, fs)
    BY <1>1
  <2>2. (d - 1 + 1) .. d = {d}
    BY <1>3
  <2> QED BY <2>1, <2>2 DEF HasRun
<1> HIDE DEF q
<1> QED BY <1>1, <1>2, <1>4, <1>6, <1>7, <1>8

LEMMA NewSinkKept ==
    ASSUME day \in Days, NEW c \in Names, NEW max \in {MaxLogFiles, CompanyFiles},
           NEW d \in From(day), NEW now \in From(d), NEW later \in From(now),
           NEW fs \in SUBSET (Names \X Days), <<c, d>> \in fs,
           \A f \in fs : f[2] <= day \/ f = <<c, d>>
    PROVE  LET s == NewSink(c, max, d, now, later, fs) IN
           /\ s \in SinkType /\ Len(s.queue) <= s.max /\ s.company = c
           /\ SinkKept(s, later, fs)
<1> DEFINE q == InitFilenames(c, later, max, fs)
           s == NewSink(c, max, d, now, later, fs)
<1>1. /\ d \in Days /\ now \in Days /\ later \in Days /\ MaxDay \in Nat /\ day \in Nat
      /\ day <= d /\ d <= now /\ now <= later /\ later <= day + 1
  BY ClockReadings DEF Days
<1>2. max \in Nat \ {0}
  BY LoggerAssumption
<1>3. /\ q \in Seq(Days) /\ Len(q) \in 0 .. max
      /\ \A i \in 1 .. Len(q) : q[i] = later - Len(q) + i /\ <<c, q[i]>> \in fs
      /\ q = <<>> => <<c, later>> \notin fs
  BY <1>1, <1>2, QueueFound
<1>4. /\ s.company = c /\ s.file = d /\ s.open = TRUE /\ s.rotation = now + 1 /\ s.max = max
      /\ s.queue = q /\ s.raced = (now # d)
      /\ s.since = (IF q = <<>> THEN d ELSE Head(q))
      /\ s.leaked = (IF later # d THEN {d} ELSE {})
      /\ s = [company |-> s.company, file |-> s.file, open |-> s.open, rotation |-> s.rotation,
              max |-> s.max, queue |-> s.queue, raced |-> s.raced, since |-> s.since,
              leaked |-> s.leaked]
  BY DEF NewSink, NextRotation
<1> HIDE DEF q, s
<1>5. d \in Nat /\ now \in Nat /\ later \in Nat /\ 1 <= d /\ later <= MaxDay /\ Len(q) \in Nat
  BY <1>1, <1>3 DEF Days
(* A queue that is not empty ends today, the day of the file.              *)
<1>6. q # <<>> => d = later /\ now = later
  <2> SUFFICES ASSUME q # <<>> PROVE d = later /\ now = later
    OBVIOUS
  <2>1. Len(q) \in 1 .. Len(q)
    BY <1>3, EmptySeq
  <2>2. <<c, later>> \in fs
    <3>1. q[Len(q)] = later - Len(q) + Len(q) /\ <<c, q[Len(q)]>> \in fs
      BY <1>3, <2>1
    <3>2. q[Len(q)] = later
      BY <1>5, <3>1
    <3> QED BY <3>1, <3>2
  <2>3. later <= day \/ later = d
    BY <2>2
  <2> QED BY <1>1, <1>5, <2>3
<1>7. q # <<>> => Head(q) = q[1] /\ Head(q) = later - Len(q) + 1 /\ Head(q) \in Days
  <2> SUFFICES ASSUME q # <<>> PROVE Head(q) = q[1] /\ q[1] = later - Len(q) + 1 /\ q[1] \in Days
    OBVIOUS
  <2>1. 1 \in 1 .. Len(q)
    BY <1>3, EmptySeq
  <2>2. q[1] = later - Len(q) + 1 /\ q[1] \in Days
    BY <1>3, <2>1, ElementOfSeq
  <2> QED BY <1>3, <2>2
<1>8. s \in SinkType
  <2>1. now + 1 \in 2 .. MaxDay + 1
    BY <1>1, <1>5
  <2>2. s.since \in Days /\ s.leaked \in SUBSET Days
    BY <1>1, <1>4, <1>7
  <2> QED BY <1>1, <1>3, <1>4, <2>1, <2>2 DEF SinkType
<1>9. Len(s.queue) <= s.max
  BY <1>2, <1>3, <1>4
<1>10. FileCurrent(s, later)
  <2>1. s.rotation = s.file + (IF s.raced THEN 2 ELSE 1)
    <3>1. CASE now = d
      BY <1>4, <1>5, <3>1
    <3>2. CASE now # d
      <4>1. now = d + 1
        BY <1>1, <1>5, <3>2
      <4>2. s.raced
        BY <1>4, <3>2, Zenon
      <4> QED BY <1>4, <1>5, <4>1, <4>2
    <3> QED BY <3>1, <3>2
  <2> QED BY <1>1, <1>4, <1>5, <2>1 DEF FileCurrent
<1>11. QueueOnDisk(s, fs)
  <2>1. Ascending(q)
    <3> SUFFICES ASSUME NEW i \in 1 .. Len(q), NEW j \in 1 .. Len(q), i < j
                 PROVE  q[i] < q[j]
      BY DEF Ascending
    <3>1. q[i] = later - Len(q) + i /\ q[j] = later - Len(q) + j
      BY <1>3
    <3> QED BY <1>5, <3>1
  <2>2. ASSUME NEW i \in 1 .. Len(q) PROVE q[i] < now + 1 /\ <<c, q[i]>> \in fs
    <3>1. q # <<>>
      BY <1>3
    <3>2. q[i] = later - Len(q) + i /\ now = later /\ <<c, q[i]>> \in fs
      BY <1>3, <1>6, <3>1
    <3> QED BY <1>5, <3>2
  <2> QED BY <1>4, <2>1, <2>2 DEF QueueOnDisk
<1>12. NoneForgotten(s, fs)
  <2> SUFFICES ASSUME NEW e \in Days, e >= s.since, <<c, e>> \in fs
               PROVE  e \in s.leaked \/ Queued(s, e)
    BY <1>4 DEF NoneForgotten
  <2>1. e \in Nat /\ (e <= day \/ e = d)
    BY DEF Days
  <2>2. CASE q = <<>>
    <3>1. e >= d
      BY <1>4, <2>2
    <3>2. e = d
      BY <1>1, <1>5, <2>1, <3>1
    <3>3. later # d
      BY <1>3, <2>2, <3>2
    <3> QED BY <1>4, <3>2, <3>3
  <2>3. CASE q # <<>>
    <3>1. d = later /\ Head(q) = later - Len(q) + 1 /\ e >= Head(q)
      BY <1>4, <1>6, <1>7, <2>3
    <3>2. e <= later
      BY <1>1, <1>5, <2>1, <3>1
    <3> DEFINE i == e - later + Len(q)
    <3>3. i \in 1 .. Len(q) /\ later - Len(q) + i = e
      BY <1>5, <2>1, <3>1, <3>2
    <3> HIDE DEF i
    <3>4. q[i] = e
      BY <1>3, <3>3
    <3> QED BY <1>4, <3>3, <3>4 DEF Queued
  <2> QED BY <2>2, <2>3
<1> QED BY <1>4, <1>8, <1>9, <1>10, <1>11, <1>12 DEF SinkKept, s

-----------------------------------------------------------------------------
(* A rotation puts the new day at the end of the queue, and takes the      *)
(* oldest one off when the queue is full.                                  *)
LEMMA QueueGrows ==
    ASSUME NEW q \in Seq(Days), Ascending(q), NEW d \in Days, \A i \in 1 .. Len(q) : q[i] < d
    PROVE  /\ Append(q, d) \in Seq(Days) /\ Len(Append(q, d)) = Len(q) + 1
           /\ Ascending(Append(q, d))
           /\ Append(q, d)[Len(q) + 1] = d
           /\ \A i \in 1 .. Len(q) : Append(q, d)[i] = q[i]
           /\ \A i \in 1 .. Len(Append(q, d)) : i \in 1 .. Len(q) \/ i = Len(q) + 1
<1> DEFINE p == Append(q, d)
<1>1. /\ p \in Seq(Days) /\ Len(p) = Len(q) + 1 /\ Len(q) \in Nat
      /\ p[Len(q) + 1] = d /\ \A i \in 1 .. Len(q) : p[i] = q[i]
  BY AppendProperties, LenProperties
<1> HIDE DEF p
<1>2. \A i \in 1 .. Len(p) : i \in 1 .. Len(q) \/ i = Len(q) + 1
  BY <1>1
<1>3. Ascending(p)
  <2> SUFFICES ASSUME NEW i \in 1 .. Len(p), NEW j \in 1 .. Len(p), i < j
               PROVE  p[i] < p[j]
    BY DEF Ascending
  <2>1. i \in 1 .. Len(q)
    BY <1>1
  <2>2. CASE j \in 1 .. Len(q)
    BY <1>1, <2>1, <2>2 DEF Ascending
  <2>3. CASE j = Len(q) + 1
    BY <1>1, <2>1, <2>3
  <2> QED BY <1>2, <2>2, <2>3
<1> QED BY <1>1, <1>2, <1>3 DEF p

LEMMA QueueLosesOldest ==
    ASSUME NEW q \in Seq(Days), Ascending(q), q # <<>>
    PROVE  /\ Tail(q) \in Seq(Days) /\ Len(Tail(q)) = Len(q) - 1 /\ Ascending(Tail(q))
           /\ Head(q) \in Days /\ Head(q) = q[1] /\ 1 \in 1 .. Len(q)
           /\ \A i \in 1 .. Len(Tail(q)) :
                 i + 1 \in 1 .. Len(q) /\ Tail(q)[i] = q[i + 1] /\ Head(q) < Tail(q)[i]
           /\ \A i \in 1 .. Len(q) : i # 1 => i - 1 \in 1 .. Len(Tail(q)) /\ Tail(q)[i - 1] = q[i]
<1> DEFINE t == Tail(q)
<1>1. /\ t \in Seq(Days) /\ Len(t) = Len(q) - 1 /\ Len(q) \in Nat /\ Len(q) >= 1
      /\ Head(q) \in Days /\ Head(q) = q[1] /\ 1 \in 1 .. Len(q)
      /\ \A i \in 1 .. Len(t) : t[i] = q[i + 1]
  <2>1. Len(q) \in Nat /\ Len(q) # 0
    BY EmptySeq, LenProperties
  <2>2. t \in Seq(Days) /\ Len(t) = Len(q) - 1 /\ \A i \in 1 .. Len(t) : t[i] = q[i + 1]
    BY HeadTailProperties
  <2>3. Head(q) = q[1] /\ Head(q) \in Days
    BY HeadTailProperties, <2>1
  <2> QED BY <2>1, <2>2, <2>3
<1> HIDE DEF t
<1>2. \A i \in 1 .. Len(t) : i + 1 \in 1 .. Len(q)
  BY <1>1
<1>3. \A i \in 1 .. Len(t) : q[1] < q[i + 1]
  BY <1>1, <1>2 DEF Ascending
<1>4. Ascending(t)
  <2> SUFFICES ASSUME NEW i \in 1 .. Len(t), NEW j \in 1 .. Len(t), i < j
               PROVE  t[i] < t[j]
    BY DEF Ascending
  <2>1. i + 1 \in 1 .. Len(q) /\ j + 1 \in 1 .. Len(q) /\ i + 1 < j + 1
    BY <1>2
  <2> DEFINE k == i + 1
             l == j + 1
  <2>2. t[i] = q[k] /\ t[j] = q[l] /\ k \in 1 .. Len(q) /\ l \in 1 .. Len(q) /\ k < l
    BY <1>1, <2>1
  <2> HIDE DEF k, l
  <2> QED BY <2>2 DEF Ascending
<1>5. ASSUME NEW i \in 1 .. Len(q), i # 1
      PROVE  i - 1 \in 1 .. Len(t) /\ t[i - 1] = q[i]
  <2>1. i - 1 \in 1 .. Len(t) /\ i - 1 + 1 = i
    BY <1>1, <1>5
  <2> QED BY <1>1, <2>1
<1> QED BY <1>1, <1>2, <1>3, <1>4, <1>5 DEF t

(* The sink on its new file, the record's day d, before old files go.      *)
Moved(s, d, now) ==
    [s EXCEPT !.open = TRUE, !.file = d, !.rotation = NextRotation(now), !.raced = now # d]

LEMMA MovedFields ==
    ASSUME day \in Days, NEW s \in SinkType, NEW d \in From(day), NEW now \in From(d)
    PROVE  LET m == Moved(s, d, now) IN
           /\ m \in SinkType
           /\ m.company = s.company /\ m.max = s.max /\ m.queue = s.queue
           /\ m.since = s.since /\ m.leaked = s.leaked
           /\ m.file = d /\ m.open = TRUE /\ m.rotation = now + 1
           /\ FileCurrent(m, now)
<1> DEFINE m == Moved(s, d, now)
<1>1. /\ d \in Days /\ now \in Days /\ day \in Nat /\ d \in Nat /\ now \in Nat /\ MaxDay \in Nat
      /\ day <= d /\ d <= now /\ now <= day + 1
  BY ClockReadings DEF Days
<1>2. now + 1 \in 2 .. MaxDay + 1
  BY <1>1 DEF Days
<1>3. /\ m.company = s.company /\ m.max = s.max /\ m.queue = s.queue
      /\ m.since = s.since /\ m.leaked = s.leaked
      /\ m.file = d /\ m.open = TRUE /\ m.rotation = now + 1
      /\ m.raced = (now # d) /\ m \in SinkType
  BY <1>1, <1>2 DEF Moved, NextRotation, SinkType
<1> HIDE DEF m
<1>4. m.rotation = m.file + (IF m.raced THEN 2 ELSE 1)
  <2>1. CASE now = d
    <3>1. ~ m.raced
      BY <1>3, <2>1, Zenon
    <3> QED BY <1>1, <1>3, <2>1, <3>1
  <2>2. CASE now # d
    <3>1. now = d + 1
      BY <1>1, <2>2
    <3>2. m.raced
      BY <1>3, <2>2, Zenon
    <3> QED BY <1>1, <1>3, <3>1, <3>2
  <2> QED BY <2>1, <2>2
<1>5. FileCurrent(m, now)
  BY <1>1, <1>3, <1>4 DEF FileCurrent
<1> QED BY <1>3, <1>5 DEF m

-----------------------------------------------------------------------------
(* What one record does to a sink and its files.  A file is deleted only   *)
(* when it is the oldest name of a full queue.                             *)
SinkResult(s, o, d, now, fs) ==
    /\ o.sink \in SinkType /\ Len(o.sink.queue) <= o.sink.max
    /\ o.sink.company = s.company /\ o.sink.max = s.max
    /\ o.threw \in BOOLEAN /\ o.wrote \in BOOLEAN
    /\ o.made \subseteq {<<s.company, d>>}
    /\ SinkKept(o.sink, now, (fs \cup o.made) \ o.removed)
    /\ ~ o.threw => o.wrote /\ (o.sink.file = d \/ (o.sink.file = d - 1 /\ o.sink.raced))
    /\ o.removed # {} => /\ o.removed = {<<s.company, Head(s.queue)>>}
                         /\ Len(s.queue) = s.max /\ Len(o.sink.queue) = s.max
                         /\ \A i \in 1 .. Len(o.sink.queue) : Head(s.queue) < o.sink.queue[i]

(* No rotation is due: the sink stays as it is.                            *)
LEMMA RecordWithoutRotation ==
    ASSUME day \in Days, NEW s \in SinkType, Len(s.queue) <= s.max,
           NEW fs \in SUBSET (Names \X Days), SinkKept(s, day, fs),
           NEW d \in From(day), NEW now \in From(d), NEW fault \in Faults,
           d < s.rotation
    PROVE  SinkResult(s, SinkIt(s, d, now, fault), d, now, fs)
<1> DEFINE o == SinkIt(s, d, now, fault)
<1>1. /\ d \in Days /\ now \in Days /\ day \in Nat /\ d \in Nat /\ now \in Nat
      /\ day <= d /\ d <= now /\ now <= day + 1
  BY ClockReadings DEF Days
<1>2. s.rotation \in Nat /\ s.file \in Nat /\ s.open \in BOOLEAN /\ s.raced \in BOOLEAN
  BY LoggerAssumption DEF SinkType, Days
<1>3. s.open
  BY <1>1, <1>2 DEF SinkKept, FileCurrent
<1>4. /\ o.sink = s /\ o.made = {} /\ o.removed = {}
      /\ o.wrote = (fault # "write") /\ o.threw = (fault = "write")
  <2>1. CASE fault # "write"
    <3>1. o = Outcome(s, {}, {}, s.open, FALSE)
      <4>1. d < s.rotation /\ ~ (d >= s.rotation)
        BY <1>1, <1>2
      <4> QED BY <2>1, <4>1, Zenon DEF SinkIt
    <3>2. o.sink = s /\ o.made = {} /\ o.removed = {} /\ o.wrote = s.open /\ o.threw = FALSE
      BY <3>1 DEF Outcome
    <3> HIDE DEF o
    <3> QED BY <1>2, <1>3, <2>1, <3>2, Zenon
  <2>2. CASE fault = "write"
    <3>1. o = Outcome(s, {}, {}, FALSE, s.open)
      <4>1. d < s.rotation /\ ~ (d >= s.rotation)
        BY <1>1, <1>2
      <4> QED BY <2>2, <4>1, Zenon DEF SinkIt
    <3>2. o.sink = s /\ o.made = {} /\ o.removed = {} /\ o.wrote = FALSE /\ o.threw = s.open
      BY <3>1 DEF Outcome
    <3> HIDE DEF o
    <3> QED BY <1>2, <1>3, <2>2, <3>2, Zenon
  <2> QED BY <2>1, <2>2
<1> HIDE DEF o
<1>5. SinkKept(o.sink, now, (fs \cup o.made) \ o.removed)
  <2>1. FileCurrent(s, now)
    BY <1>1, <1>2, <1>3 DEF SinkKept, FileCurrent
  <2>2. (fs \cup o.made) \ o.removed = fs
    BY <1>4
  <2> QED BY <1>4, <2>1, <2>2 DEF SinkKept
<1>6. s.file = d \/ (s.file = d - 1 /\ s.raced)
  <2>0. s.file <= day /\ s.rotation = s.file + (IF s.raced THEN 2 ELSE 1)
    BY <1>3 DEF SinkKept, FileCurrent
  <2>1. CASE s.raced
    BY <1>1, <1>2, <2>0, <2>1
  <2>2. CASE ~ s.raced
    <3>1. (IF s.raced THEN 2 ELSE 1) = 1
      BY <2>2, Zenon
    <3>2. s.rotation = s.file + 1 /\ s.file <= day
      BY <2>0, <3>1, Zenon
    <3>3. s.file = d
      BY <1>1, <1>2, <3>2
    <3> QED BY <3>3, Zenon
  <2> QED BY <2>1, <2>2
<1>7. o.threw \in BOOLEAN /\ o.wrote \in BOOLEAN /\ (~ o.threw => o.wrote)
  BY <1>4, Zenon
<1> QED BY <1>4, <1>5, <1>6, <1>7 DEF SinkResult, o

(* A rotation is due, but the new file cannot be opened, or its first      *)
(* record cannot be written.                                               *)
LEMMA RotationFails ==
    ASSUME day \in Days, NEW s \in SinkType, Len(s.queue) <= s.max,
           NEW fs \in SUBSET (Names \X Days), SinkKept(s, day, fs),
           NEW d \in From(day), NEW now \in From(d), NEW fault \in {"open", "write"},
           d >= s.rotation
    PROVE  SinkResult(s, SinkIt(s, d, now, fault), d, now, fs)
<1> DEFINE o == SinkIt(s, d, now, fault)
           m == Moved(s, d, now)
<1>1. /\ d \in Days /\ now \in Days /\ day \in Nat /\ d \in Nat /\ now \in Nat
      /\ day <= d /\ d <= now /\ now <= day + 1
  BY ClockReadings DEF Days
<1>2. s.rotation \in Nat
  BY LoggerAssumption DEF SinkType
<1>3. CASE fault = "open"
  <2> DEFINE r == [s EXCEPT !.open = FALSE, !.file = d]
  <2>1. o = Outcome(r, {}, {}, FALSE, TRUE)
    <3>1. d >= s.rotation /\ ~ (d < s.rotation)
      BY <1>1, <1>2
    <3> QED BY <1>3, <3>1, Zenon DEF SinkIt
  <2>2. o.sink = r /\ o.made = {} /\ o.removed = {} /\ o.wrote = FALSE /\ o.threw = TRUE
    BY <2>1 DEF Outcome
  <2>3. /\ r \in SinkType /\ r.company = s.company /\ r.max = s.max /\ r.queue = s.queue
        /\ r.since = s.since /\ r.leaked = s.leaked /\ r.rotation = s.rotation
        /\ r.file = d /\ r.open = FALSE
    BY <1>1 DEF SinkType
  <2> HIDE DEF r, o
  <2>4. FileCurrent(r, now)
    BY <1>1, <1>2, <2>3 DEF FileCurrent
  <2>5. QueueOnDisk(r, fs) /\ NoneForgotten(r, fs)
    BY <2>3 DEF SinkKept, QueueOnDisk, NoneForgotten, Queued
  <2>6. (fs \cup o.made) \ o.removed = fs
    BY <2>2
  <2>7. SinkKept(o.sink, now, (fs \cup o.made) \ o.removed)
    BY <2>2, <2>4, <2>5, <2>6 DEF SinkKept
  <2> QED BY <2>2, <2>3, <2>7 DEF SinkResult, o
<1>4. CASE fault = "write"
  <2> DEFINE r == [m EXCEPT !.leaked = @ \cup {d}]
  <2>1. o = Outcome(r, {<<s.company, d>>}, {}, FALSE, TRUE)
    <3>1. d >= s.rotation /\ ~ (d < s.rotation)
      BY <1>1, <1>2
    <3> QED BY <1>4, <3>1, Zenon DEF SinkIt, Moved
  <2>2. o.sink = r /\ o.made = {<<s.company, d>>} /\ o.removed = {} /\ o.wrote = FALSE /\ o.threw = TRUE
    BY <2>1 DEF Outcome
  <2>3. /\ m \in SinkType
        /\ m.company = s.company /\ m.max = s.max /\ m.queue = s.queue
        /\ m.since = s.since /\ m.leaked = s.leaked
        /\ m.file = d /\ m.open = TRUE /\ m.rotation = now + 1
        /\ FileCurrent(m, now)
    BY MovedFields
  <2> HIDE DEF m
  <2>4. /\ r \in SinkType /\ r.company = s.company /\ r.max = s.max /\ r.queue = s.queue
        /\ r.since = s.since /\ r.leaked = s.leaked \cup {d} /\ r.rotation = now + 1
        /\ r.file = m.file /\ r.open = m.open /\ r.rotation = m.rotation /\ r.raced = m.raced
    BY <1>1, <2>3 DEF SinkType
  <2> HIDE DEF r, o
  <2>5. FileCurrent(r, now)
    BY <2>3, <2>4 DEF FileCurrent
  <2>6. (fs \cup o.made) \ o.removed = fs \cup {<<s.company, d>>}
    BY <2>2
  <2>7. QueueOnDisk(r, fs \cup {<<s.company, d>>})
    <3>1. ASSUME NEW i \in 1 .. Len(s.queue)
          PROVE  s.queue[i] < now + 1 /\ <<s.company, s.queue[i]>> \in fs
      <4>1. s.queue[i] < s.rotation /\ <<s.company, s.queue[i]>> \in fs
        BY DEF SinkKept, QueueOnDisk
      <4>2. s.queue[i] \in Nat
        <5>1. s.queue \in Seq(Days)
          BY DEF SinkType
        <5>2. s.queue[i] \in Days
          BY <5>1, ElementOfSeq
        <5> QED BY <5>2 DEF Days
      <4> QED BY <1>1, <1>2, <4>1, <4>2
    <3> QED BY <2>4, <3>1 DEF SinkKept, QueueOnDisk
  <2>8. NoneForgotten(r, fs \cup {<<s.company, d>>})
    <3> SUFFICES ASSUME NEW e \in Days, e >= s.since, <<s.company, e>> \in fs \cup {<<s.company, d>>}
                 PROVE  e \in s.leaked \cup {d} \/ Queued(s, e)
      BY <2>4 DEF NoneForgotten, Queued
    <3>1. CASE e = d
      BY <3>1
    <3>2. CASE e # d
      <4>1. <<s.company, e>> \in fs
        BY <3>2
      <4> QED BY <4>1 DEF SinkKept, NoneForgotten
    <3> QED BY <3>1, <3>2
  <2>9. SinkKept(o.sink, now, (fs \cup o.made) \ o.removed)
    BY <2>2, <2>5, <2>6, <2>7, <2>8 DEF SinkKept
  <2> QED BY <2>2, <2>4, <2>9 DEF SinkResult, o
<1> QED BY <1>3, <1>4

(* A rotation with a queue that is not full, or whose oldest file goes, or *)
(* cannot be removed.                                                      *)
LEMMA RotationCleansUp ==
    ASSUME day \in Days, NEW s \in SinkType, Len(s.queue) <= s.max,
           NEW fs \in SUBSET (Names \X Days), SinkKept(s, day, fs),
           NEW d \in From(day), NEW now \in From(d), NEW fault \in {"none", "remove"},
           d >= s.rotation
    PROVE  SinkResult(s, SinkIt(s, d, now, fault), d, now, fs)
<1> DEFINE o == SinkIt(s, d, now, fault)
           m == Moved(s, d, now)
           cleaned == DeleteOld(m, fault # "remove")
           c == s.company
           q == s.queue
           full == Len(q) = s.max
           keep == IF full THEN Tail(q) ELSE q
           p == Append(keep, d)
           lost == IF full /\ fault = "remove" THEN {Head(q)} ELSE {}
           gone == IF full /\ fault = "none" THEN {<<c, Head(q)>>} ELSE {}
<1>1. /\ d \in Days /\ now \in Days /\ day \in Nat /\ d \in Nat /\ now \in Nat
      /\ day <= d /\ d <= now /\ now <= day + 1
  BY ClockReadings DEF Days
<1>2. s.rotation \in Nat /\ q \in Seq(Days) /\ c \in Names /\ s.max \in Nat \ {0} /\ Len(q) \in Nat
  BY LoggerAssumption, LenProperties DEF SinkType
<1>3. /\ m \in SinkType /\ m.company = c /\ m.max = s.max /\ m.queue = q
      /\ m.since = s.since /\ m.leaked = s.leaked
      /\ m.file = d /\ m.open = TRUE /\ m.rotation = now + 1 /\ FileCurrent(m, now)
  BY MovedFields
<1>4. o = Outcome(cleaned.sink, {<<c, d>>}, cleaned.removed, TRUE, cleaned.threw)
  <2>1. d >= s.rotation /\ ~ (d < s.rotation) /\ fault # "open" /\ fault # "write"
    BY <1>1, <1>2
  <2> QED BY <2>1, Zenon DEF SinkIt, Moved
<1>5. /\ o.sink = cleaned.sink /\ o.made = {<<c, d>>} /\ o.removed = cleaned.removed
      /\ o.wrote = TRUE /\ o.threw = cleaned.threw
  <2> HIDE DEF o, cleaned
  <2> QED BY <1>4 DEF Outcome
<1> DEFINE r == o.sink
<1>6. r = [m EXCEPT !.queue = Append(IF full THEN Tail(@) ELSE @, m.file),
                    !.leaked = IF full /\ fault = "remove" THEN @ \cup {Head(q)} ELSE @]
  <2> HIDE DEF o, m
  <2> QED BY <1>3, <1>5 DEF DeleteOld
<1>7. o.removed = gone
  <2> HIDE DEF o, m
  <2> QED BY <1>3, <1>5 DEF DeleteOld
<1>8. o.threw = (full /\ fault = "remove")
  <2> HIDE DEF o, m
  <2>1. o.threw = (Len(m.queue) = m.max /\ ~ (fault # "remove"))
    BY <1>5 DEF DeleteOld
  <2> QED BY <1>3, <2>1, Zenon
<1> HIDE DEF o, m, cleaned
<1>9. Ascending(q) /\ \A i \in 1 .. Len(q) : q[i] < d /\ <<c, q[i]>> \in fs
  <2>1. ASSUME NEW i \in 1 .. Len(q) PROVE q[i] < d /\ <<c, q[i]>> \in fs
    <3>1. q[i] < s.rotation /\ <<c, q[i]>> \in fs
      BY DEF SinkKept, QueueOnDisk
    <3>2. q[i] \in Days
      BY <1>2, ElementOfSeq
    <3>3. q[i] \in Nat
      BY <3>2 DEF Days
    <3> QED BY <1>1, <1>2, <3>1, <3>3
  <2> QED BY <2>1 DEF SinkKept, QueueOnDisk
<1>10. full => q # <<>>
  BY <1>2, EmptySeq
(* What is left of the queue: names of it, and all but the oldest.         *)
<1>11. /\ keep \in Seq(Days) /\ Ascending(keep) /\ Len(keep) < s.max
       /\ Len(keep) = (IF full THEN s.max - 1 ELSE Len(q))
       /\ \A i \in 1 .. Len(keep) :
             /\ keep[i] < d /\ <<c, keep[i]>> \in fs
             /\ full => Head(q) < keep[i]
       /\ \A i \in 1 .. Len(q) : (full /\ q[i] = Head(q)) \/ \E j \in 1 .. Len(keep) : keep[j] = q[i]
  <2>1. CASE ~ full
    <3>1. keep = q
      BY <2>1
    <3> HIDE DEF keep
    <3>2. Len(q) < s.max
      BY <1>2, <2>1
    <3> QED BY <1>2, <1>9, <2>1, <3>1, <3>2
  <2>2. CASE full
    <3> DEFINE t == Tail(q)
    <3>1. keep = t
      BY <2>2
    <3>2. /\ t \in Seq(Days) /\ Len(t) = Len(q) - 1 /\ Ascending(t)
          /\ Head(q) = q[1]
          /\ \A i \in 1 .. Len(t) : i + 1 \in 1 .. Len(q) /\ t[i] = q[i + 1] /\ Head(q) < t[i]
          /\ \A i \in 1 .. Len(q) : i # 1 => i - 1 \in 1 .. Len(t) /\ t[i - 1] = q[i]
      BY <1>2, <1>9, <1>10, <2>2, QueueLosesOldest
    <3> HIDE DEF t, keep
    <3>3. \A i \in 1 .. Len(t) : t[i] < d /\ <<c, t[i]>> \in fs
      BY <1>9, <3>2
    <3>4. \A i \in 1 .. Len(q) : q[i] = Head(q) \/ \E j \in 1 .. Len(t) : t[j] = q[i]
      BY <3>2
    <3>5. Len(t) = s.max - 1 /\ Len(t) < s.max
      BY <1>2, <2>2, <3>2
    <3> QED BY <2>2, <3>1, <3>2, <3>3, <3>4, <3>5
  <2> QED BY <2>1, <2>2
<1> HIDE DEF keep
<1>12. /\ p \in Seq(Days) /\ Len(p) = Len(keep) + 1 /\ Ascending(p)
       /\ p[Len(keep) + 1] = d
       /\ \A i \in 1 .. Len(keep) : p[i] = keep[i]
       /\ \A i \in 1 .. Len(p) : i \in 1 .. Len(keep) \/ i = Len(keep) + 1
  BY <1>1, <1>11, QueueGrows
<1> HIDE DEF p
<1>13. Len(keep) \in Nat /\ Len(p) \in Nat /\ Len(p) <= s.max /\ (full => Len(p) = s.max)
  <2>1. Len(keep) \in Nat
    BY <1>11, LenProperties
  <2> QED BY <1>2, <1>11, <1>12, <2>1
<1>14. full => Head(q) \in Days /\ Head(q) < d
  <2> SUFFICES ASSUME full PROVE Head(q) \in Days /\ Head(q) < d
    OBVIOUS
  <2>1. 1 \in 1 .. Len(q) /\ Head(q) = q[1]
    BY <1>2, <1>9, <1>10, QueueLosesOldest
  <2>2. q[1] \in Days /\ q[1] < d
    BY <1>2, <1>9, <2>1, ElementOfSeq
  <2> QED BY <2>1, <2>2
<1>15. /\ r.queue = p /\ r.leaked = s.leaked \cup lost
       /\ r.company = c /\ r.max = s.max /\ r.since = s.since
       /\ r.file = m.file /\ r.open = m.open /\ r.rotation = m.rotation /\ r.raced = m.raced
       /\ r \in SinkType
  <2> HIDE DEF r, q, c
  <2>1. s.leaked \in SUBSET Days /\ lost \in SUBSET Days
    BY <1>14 DEF SinkType
  <2>2. Append(IF full THEN Tail(q) ELSE q, d) = p
    BY DEF p, keep
  <2>3. (IF full /\ fault = "remove" THEN s.leaked \cup {Head(q)} ELSE s.leaked) = s.leaked \cup lost
    OBVIOUS
  <2> HIDE DEF lost
  <2>4. r = [m EXCEPT !.queue = p, !.leaked = s.leaked \cup lost]
    BY <1>3, <1>6, <2>2, <2>3
  <2> QED BY <1>3, <1>12, <2>1, <2>4 DEF SinkType
<1> HIDE DEF r
<1> DEFINE after == (fs \cup {<<c, d>>}) \ gone
<1>16. FileCurrent(r, now)
  BY <1>3, <1>15 DEF FileCurrent
<1>17. QueueOnDisk(r, after)
  <2>1. ASSUME NEW i \in 1 .. Len(p) PROVE p[i] < now + 1 /\ <<c, p[i]>> \in after
    <3>1. CASE i = Len(keep) + 1
      <4>1. p[i] = d /\ (full => Head(q) # d)
        BY <1>1, <1>12, <1>14, <3>1
      <4> QED BY <1>1, <4>1
    <3>2. CASE i \in 1 .. Len(keep)
      <4>1. p[i] = keep[i] /\ keep[i] \in Days /\ keep[i] < d /\ <<c, keep[i]>> \in fs
        BY <1>11, <1>12, <3>2, ElementOfSeq
      <4>2. keep[i] \in Nat
        BY <4>1 DEF Days
      <4>3. full => Head(q) # keep[i]
        <5> SUFFICES ASSUME full PROVE Head(q) # keep[i]
          OBVIOUS
        <5>1. Head(q) < keep[i]
          BY <1>11, <3>2
        <5>2. Head(q) \in Nat
          BY <1>14 DEF Days
        <5> QED BY <4>2, <5>1, <5>2
      <4>4. p[i] < now + 1
        BY <1>1, <4>1, <4>2
      <4> QED BY <4>1, <4>3, <4>4
    <3> QED BY <1>12, <3>1, <3>2
  <2> HIDE DEF after
  <2> QED BY <1>3, <1>12, <1>15, <2>1 DEF QueueOnDisk
<1>18. NoneForgotten(r, after)
  <2> SUFFICES ASSUME NEW e \in Days, e >= s.since, <<c, e>> \in after
               PROVE  e \in s.leaked \cup lost \/ \E i \in 1 .. Len(p) : p[i] = e
    BY <1>15 DEF NoneForgotten, Queued
  <2>1. CASE e = d
    <3>1. Len(keep) + 1 \in 1 .. Len(p)
      BY <1>12, <1>13
    <3> QED BY <1>12, <2>1, <3>1
  <2>2. CASE e # d
    <3>1. <<c, e>> \in fs
      BY <2>2
    <3>2. e \in s.leaked \/ \E i \in 1 .. Len(q) : q[i] = e
      BY <3>1 DEF SinkKept, NoneForgotten, Queued
    <3>3. ASSUME NEW i \in 1 .. Len(q), q[i] = e
          PROVE  e \in lost \/ \E j \in 1 .. Len(p) : p[j] = e
      <4>1. CASE full /\ e = Head(q)
        <5>1. fault = "remove"
          BY <2>2, <4>1
        <5> QED BY <4>1, <5>1
      <4>2. CASE ~ (full /\ e = Head(q))
        <5>1. PICK j \in 1 .. Len(keep) : keep[j] = e
          BY <1>11, <3>3, <4>2
        <5>2. j \in 1 .. Len(p) /\ p[j] = e
          BY <1>12, <1>13, <5>1
        <5> QED BY <5>2
      <4> QED BY <4>1, <4>2
    <3> QED BY <3>2, <3>3
  <2> QED BY <2>1, <2>2
<1>19. SinkKept(r, now, (fs \cup o.made) \ o.removed)
  BY <1>5, <1>7, <1>16, <1>17, <1>18 DEF SinkKept
<1>20. o.threw \in BOOLEAN /\ o.wrote \in BOOLEAN /\ o.wrote
  BY <1>5, <1>8, Zenon
<1>21. r.file = d
  BY <1>3, <1>15
<1>22. o.removed # {} => /\ o.removed = {<<c, Head(q)>>}
                         /\ Len(q) = s.max /\ Len(r.queue) = s.max
                         /\ \A i \in 1 .. Len(r.queue) : Head(q) < r.queue[i]
  <2> SUFFICES ASSUME full, o.removed = {<<c, Head(q)>>}
               PROVE  Len(p) = s.max /\ \A i \in 1 .. Len(p) : Head(q) < p[i]
    BY <1>7, <1>15
  <2>1. ASSUME NEW i \in 1 .. Len(p) PROVE Head(q) < p[i]
    BY <1>11, <1>12, <1>14
  <2> QED BY <1>13, <2>1
<1>23. o.made \subseteq {<<c, d>>} /\ Len(r.queue) <= r.max
  BY <1>5, <1>13, <1>15
<1>24. r = o.sink
  BY DEF r
<1> HIDE DEF c, q
<1>25. SinkResult(s, o, d, now, fs)
  <2>1. /\ o.sink \in SinkType /\ Len(o.sink.queue) <= o.sink.max
        /\ o.sink.company = s.company /\ o.sink.max = s.max
        /\ o.made \subseteq {<<s.company, d>>}
    BY <1>15, <1>23, <1>24 DEF c
  <2>2. SinkKept(o.sink, now, (fs \cup o.made) \ o.removed)
    BY <1>19, <1>24, Zenon
  <2>3. ~ o.threw => o.wrote /\ (o.sink.file = d \/ (o.sink.file = d - 1 /\ o.sink.raced))
    <3>1. o.sink.file = d
      BY <1>21, <1>24
    <3> QED BY <1>20, <3>1, Zenon
  <2>4. o.removed # {} => /\ o.removed = {<<s.company, Head(s.queue)>>}
                          /\ Len(s.queue) = s.max /\ Len(o.sink.queue) = s.max
                          /\ \A i \in 1 .. Len(o.sink.queue) : Head(s.queue) < o.sink.queue[i]
    BY <1>22, <1>24, Zenon DEF c, q
  <2> QED BY <1>20, <2>1, <2>2, <2>3, <2>4, Zenon DEF SinkResult
<1> QED BY <1>25 DEF o

LEMMA SinkItKept ==
    ASSUME day \in Days, NEW s \in SinkType, Len(s.queue) <= s.max,
           NEW fs \in SUBSET (Names \X Days), SinkKept(s, day, fs),
           NEW d \in From(day), NEW now \in From(d), NEW fault \in Faults
    PROVE  SinkResult(s, SinkIt(s, d, now, fault), d, now, fs)
<1>1. d \in Nat /\ s.rotation \in Nat
  BY ClockReadings, LoggerAssumption DEF Days, SinkType
<1>2. d < s.rotation \/ d >= s.rotation
  BY <1>1
<1>3. fault \in {"open", "write"} \/ fault \in {"none", "remove"}
  BY DEF Faults
<1> QED BY <1>2, <1>3, RecordWithoutRotation, RotationFails, RotationCleansUp

-----------------------------------------------------------------------------
(* The sinks, and what each action leaves of them.                         *)
SinksTyped == sinks \in Seq(SinkType) /\ \A i \in DOMAIN sinks : Len(sinks[i].queue) <= sinks[i].max

LastType ==
    [op: {"none", "Init", "setCompany", "log", "setLogLevel", "getLogLevel"}, level: Nat,
     day: 0 .. MaxDay, written: SUBSET (Nat \X Names \X Days), failed: BOOLEAN]

LEMMA LastTyped ==
    ASSUME NEW failed \in BOOLEAN,
           NEW op \in {"none", "Init", "setCompany", "log", "setLogLevel", "getLogLevel"}
    PROVE  /\ None \in LastType /\ [None EXCEPT !.op = op, !.failed = failed] \in LastType
           /\ None.op = "none" /\ [None EXCEPT !.op = op, !.failed = failed].op = op
<1>1. 0 \in 0 .. MaxDay /\ {} \in SUBSET (Nat \X Names \X Days) /\ FALSE \in BOOLEAN
  BY LoggerAssumption
<1>2. None \in LastType
  BY <1>1 DEF None, LastType
<1>3. None.op = "none"
  BY DEF None
<1> DEFINE n == None
<1>4. n \in LastType
  BY <1>2
<1> HIDE DEF n
<1>5. [n EXCEPT !.op = op, !.failed = failed] \in LastType
  BY <1>4 DEF LastType
<1>6. [n EXCEPT !.op = op, !.failed = failed].op = op
  BY <1>4 DEF LastType
<1> QED BY <1>2, <1>3, <1>5, <1>6 DEF n

LEMMA OneSinkInUse ==
    ASSUME TypeOK, OneSink, attached
    PROVE  /\ DOMAIN sinks = {1} /\ Len(sinks) = 1 /\ sinks[1] \in SinkType
           /\ Len(sinks[1].queue) <= sinks[1].max
           /\ sinks[1].company = company /\ SinkKept(sinks[1], day, files)
<1>1. sinks \in Seq(SinkType) /\ Len(sinks) = 1
  BY DEF TypeOK, OneSink
<1>2. DOMAIN sinks = {1}
  BY <1>1, LenProperties
<1>3. sinks[1] \in SinkType
  BY <1>1, ElementOfSeq
<1> QED BY <1>1, <1>2, <1>3 DEF TypeOK, OneSink

LEMMA NoneLeft ==
    ASSUME TypeOK, OneSink
    PROVE  Left = <<>>
<1>1. CASE attached
  <2>1. sinks \in Seq(SinkType) /\ Len(sinks) = 1
    BY <1>1, OneSinkInUse DEF TypeOK
  <2>2. SubSeq(sinks, 1, 0) = <<>>
    BY <2>1, SubSeqProperties, EmptySeq
  <2> QED BY <1>1, <2>1, <2>2 DEF Left
<1>2. CASE ~ attached
  BY <1>2 DEF Left, OneSink
<1> QED BY <1>1, <1>2

(* Time alone does not disturb a sink.                                     *)
LEMMA SinkKeptLater ==
    ASSUME NEW s \in SinkType, NEW d \in Nat, NEW e \in Nat, d <= e, NEW fs, SinkKept(s, d, fs)
    PROVE  SinkKept(s, e, fs)
<1>1. s.rotation \in Nat /\ s.file \in Nat
  BY LoggerAssumption DEF SinkType, Days
<1>2. FileCurrent(s, e)
  BY <1>1 DEF SinkKept, FileCurrent
<1> QED BY <1>2 DEF SinkKept

LEMMA AddSinkKeeps ==
    ASSUME TypeOK, NoFileOfTomorrow, NEW c \in Names, NEW max \in {MaxLogFiles, CompanyFiles},
           AddSink(c, max, <<>>)
    PROVE  /\ day' \in Days /\ files' \subseteq Names \X Days /\ SinksTyped'
           /\ attached' = TRUE /\ company' = c /\ files \subseteq files'
           /\ OneSink' /\ NoFileOfTomorrow'
<1>1. PICK d \in From(day) : \E now \in From(d) : \E later \in From(now) :
        /\ day' = later
        /\ files' = files \cup {<<c, d>>}
        /\ sinks' = Append(<<>>, NewSink(c, max, d, now, later, files'))
        /\ attached' = TRUE
        /\ company' = c
  BY DEF AddSink
<1>2. PICK now \in From(d) : \E later \in From(now) :
        /\ day' = later
        /\ files' = files \cup {<<c, d>>}
        /\ sinks' = Append(<<>>, NewSink(c, max, d, now, later, files'))
        /\ attached' = TRUE
        /\ company' = c
  BY <1>1
<1>3. PICK later \in From(now) :
        /\ day' = later
        /\ files' = files \cup {<<c, d>>}
        /\ sinks' = Append(<<>>, NewSink(c, max, d, now, later, files'))
        /\ attached' = TRUE
        /\ company' = c
  BY <1>2
<1>4. day \in Days /\ files \in SUBSET (Names \X Days)
  BY DEF TypeOK
<1>5. /\ d \in Days /\ now \in Days /\ later \in Days /\ day \in Nat
      /\ day <= d /\ d <= now /\ now <= later
  BY <1>4, ClockReadings DEF Days
<1>6. files' \in SUBSET (Names \X Days) /\ <<c, d>> \in files'
  BY <1>3, <1>4, <1>5
<1>7. \A f \in files' : f[2] <= day \/ f = <<c, d>>
  BY <1>3 DEF NoFileOfTomorrow
<1> DEFINE s == NewSink(c, max, d, now, later, files')
<1>8. s \in SinkType /\ Len(s.queue) <= s.max /\ s.company = c /\ SinkKept(s, later, files')
  <2> DEFINE fs == files'
  <2>1. fs \in SUBSET (Names \X Days) /\ <<c, d>> \in fs /\ \A f \in fs : f[2] <= day \/ f = <<c, d>>
    BY <1>6, <1>7
  <2> HIDE DEF fs
  <2>2. /\ NewSink(c, max, d, now, later, fs) \in SinkType
        /\ Len(NewSink(c, max, d, now, later, fs).queue) <= NewSink(c, max, d, now, later, fs).max
        /\ NewSink(c, max, d, now, later, fs).company = c
        /\ SinkKept(NewSink(c, max, d, now, later, fs), later, fs)
    BY <1>4, <2>1, NewSinkKept
  <2> QED BY <2>2 DEF fs
<1> HIDE DEF s
<1>9. sinks' = <<s>> /\ sinks' \in Seq(SinkType) /\ Len(sinks') = 1 /\ sinks'[1] = s
  <2>1. sinks' = Append(<<>>, s)
    BY <1>3 DEF s
  <2> QED BY <1>8, <2>1
<1>10. DOMAIN sinks' = {1}
  BY <1>9
<1>11. SinksTyped'
  BY <1>8, <1>9, <1>10 DEF SinksTyped
<1>12. OneSink'
  <2>1. SinkKept(sinks'[1], day', files')
    BY <1>3, <1>8, <1>9
  <2> QED BY <1>3, <1>8, <1>9, <2>1 DEF OneSink
<1>13. NoFileOfTomorrow'
  <2> SUFFICES ASSUME NEW f \in files' PROVE f[2] <= day'
    BY DEF NoFileOfTomorrow
  <2>1. CASE f \in files
    <3>1. f[2] <= day /\ f[2] \in Nat
      BY <1>4, <2>1 DEF NoFileOfTomorrow, Days
    <3> QED BY <1>3, <1>5, <3>1 DEF Days
  <2>2. CASE f = <<c, d>>
    BY <1>3, <1>5, <2>2 DEF Days
  <2> QED BY <1>3, <2>1, <2>2
<1> QED BY <1>3, <1>5, <1>6, <1>11, <1>12, <1>13

LEMMA NoSinkKeeps ==
    ASSUME TypeOK, NoFileOfTomorrow, NoSink(<<>>)
    PROVE  /\ day' \in Days /\ files' \subseteq Names \X Days /\ SinksTyped'
           /\ attached' = FALSE /\ company' = company /\ files' = files
           /\ OneSink' /\ NoFileOfTomorrow'
<1>1. /\ day' \in From(day) /\ sinks' = <<>> /\ attached' = FALSE /\ files' = files
      /\ company' = company /\ day \in Days /\ files \subseteq Names \X Days
  BY DEF NoSink, TypeOK
<1>2. day' \in Days /\ day <= day'
  BY <1>1, LoggerAssumption DEF From, Days
<1>3. SinksTyped'
  <2>1. <<>> \in Seq(SinkType) /\ DOMAIN <<>> = {}
    OBVIOUS
  <2> QED BY <1>1, <2>1 DEF SinksTyped
<1>4. NoFileOfTomorrow'
  <2> SUFFICES ASSUME NEW f \in files PROVE f[2] <= day'
    BY <1>1 DEF NoFileOfTomorrow
  <2>1. f[2] \in Nat /\ f[2] <= day
    BY <1>1 DEF NoFileOfTomorrow, Days
  <2> QED BY <1>1, <1>2, <2>1 DEF Days
<1> QED BY <1>1, <1>2, <1>3, <1>4 DEF OneSink

-----------------------------------------------------------------------------
(* IInv, in the parts in which the actions keep it.                        *)
LEMMA InvariantFromParts ==
    ASSUME day \in Days, pc \in {"fresh", "ready", "failed"}, files \subseteq Names \X Days,
           SinksTyped, attached \in BOOLEAN, company \in Names, level \in Nat,
           registry \in Nat \cup {NoValue}, logLevel \in Nat, last \in LastType,
           OneSink, NoFileOfTomorrow, RecordsReachTheirFile
    PROVE  IInv
BY DEF IInv, TypeOK, SinksTyped, LastType

LEMMA InvariantFromPartsNext ==
    ASSUME day' \in Days, pc' \in {"fresh", "ready", "failed"}, files' \subseteq Names \X Days,
           SinksTyped', attached' \in BOOLEAN, company' \in Names, level' \in Nat,
           registry' \in Nat \cup {NoValue}, logLevel' \in Nat, last' \in LastType,
           OneSink', NoFileOfTomorrow', RecordsReachTheirFile'
    PROVE  IInv'
BY DEF IInv, TypeOK, SinksTyped, LastType

LEMMA PartsOfInvariant ==
    ASSUME IInv
    PROVE  /\ day \in Days /\ pc \in {"fresh", "ready", "failed"} /\ files \subseteq Names \X Days
           /\ SinksTyped /\ attached \in BOOLEAN /\ company \in Names /\ level \in Nat
           /\ registry \in Nat \cup {NoValue} /\ logLevel \in Nat /\ last \in LastType
           /\ OneSink /\ NoFileOfTomorrow /\ TypeOK
BY DEF IInv, TypeOK, SinksTyped, LastType

LEMMA RegistryTyped ==
    ASSUME registry \in Nat \cup {NoValue}, NEW value \in Nat, NEW allowed \in BOOLEAN,
           SetRegistry(value, allowed)
    PROVE  registry' \in Nat \cup {NoValue}
BY LoggerAssumption DEF SetRegistry

LEMMA InitKeeps ==
    ASSUME Init
    PROVE  IInv
<1>1. day \in Days /\ NoCompany \in Names /\ DefaultLogLevel \in Nat /\ 0 \in Nat
  BY LoggerAssumption DEF Init, Days, Names
<1>2. SinksTyped
  <2>1. <<>> \in Seq(SinkType) /\ DOMAIN <<>> = {}
    OBVIOUS
  <2> QED BY <2>1 DEF SinksTyped, Init
<1>3. registry \in Nat \cup {NoValue}
  BY LoggerAssumption DEF Init
<1>4. last \in LastType
  BY LastTyped DEF Init
<1>5. OneSink /\ NoFileOfTomorrow
  BY DEF Init, OneSink, NoFileOfTomorrow
<1>6. RecordsReachTheirFile
  BY DEF Init, None, RecordsReachTheirFile
<1> QED BY <1>1, <1>2, <1>3, <1>4, <1>5, <1>6, InvariantFromParts DEF Init

(* Only a logged record can disturb RecordsReachTheirFile.                 *)
LEMMA NoRecord ==
    ASSUME last'.op # "log"
    PROVE  RecordsReachTheirFile'
BY DEF RecordsReachTheirFile

LEMMA CallDone ==
    ASSUME NEW op \in {"none", "Init", "setCompany", "setLogLevel", "getLogLevel"},
           NEW failed \in BOOLEAN, last' = None \/ Done(op, failed)
    PROVE  last' \in LastType /\ RecordsReachTheirFile'
<1>1. last' = None \/ last' = [None EXCEPT !.op = op, !.failed = failed]
  BY DEF Done
<1> DEFINE r == [None EXCEPT !.op = op, !.failed = failed]
<1>2. None \in LastType /\ r \in LastType /\ None.op = "none" /\ r.op = op
  BY LastTyped, Zenon
<1> HIDE DEF r
<1>3. last' \in LastType /\ last'.op # "log"
  <2>1. last' = None \/ last' = r
    BY <1>1 DEF r
  <2> QED BY <1>2, <2>1
<1> QED BY <1>3, NoRecord

(* What an action leaves alone stays as it was.                            *)
LEMMA SinksUntouched ==
    ASSUME SinksTyped, OneSink, NoFileOfTomorrow, UNCHANGED <<clockVars, sinkVars>>
    PROVE  SinksTyped' /\ OneSink' /\ NoFileOfTomorrow'
BY DEF SinksTyped, OneSink, NoFileOfTomorrow, clockVars, sinkVars

LEMMA StartKeeps ==
    ASSUME IInv, Start
    PROVE  IInv'
<1> USE PartsOfInvariant
<1>1. level' \in Nat /\ registry' \in Nat \cup {NoValue}
  <2>1. PICK l \in InitLevels, allowed \in BOOLEAN : level' = l /\ SetRegistry(l, allowed)
    BY DEF Start
  <2>2. l \in Nat /\ l \in Nat
    BY LoggerAssumption
  <2> QED BY <2>1, <2>2, RegistryTyped
<1>2. logLevel' = logLevel
  BY DEF Start
<1>3. CASE AddSink(NoCompany, MaxLogFiles, <<>>) /\ pc' = "ready" /\ Done("Init", FALSE)
  <2>1. NoCompany \in Names
    BY DEF Names
  <2>2. last' \in LastType /\ RecordsReachTheirFile'
    BY <1>3, CallDone
  <2>3. pc' \in {"fresh", "ready", "failed"}
    BY <1>3
  <2>4. /\ day' \in Days /\ files' \subseteq Names \X Days /\ SinksTyped'
        /\ attached' = TRUE /\ company' = NoCompany /\ OneSink' /\ NoFileOfTomorrow'
    BY <1>3, <2>1, AddSinkKeeps
  <2>5. company' \in Names /\ attached' \in BOOLEAN
    BY <2>1, <2>4
  <2> QED BY <1>1, <1>2, <2>2, <2>3, <2>4, <2>5, InvariantFromPartsNext
<1>4. CASE NoSink(<<>>) /\ pc' = "failed" /\ Done("Init", TRUE)
  <2>1. last' \in LastType /\ RecordsReachTheirFile'
    BY <1>4, CallDone
  <2>2. pc' \in {"fresh", "ready", "failed"}
    BY <1>4
  <2>3. /\ day' \in Days /\ files' \subseteq Names \X Days /\ SinksTyped'
        /\ attached' = FALSE /\ company' = company /\ OneSink' /\ NoFileOfTomorrow'
    BY <1>4, NoSinkKeeps
  <2>4. company' \in Names /\ attached' \in BOOLEAN
    BY <2>3
  <2> QED BY <1>1, <1>2, <2>1, <2>2, <2>3, <2>4, InvariantFromPartsNext
<1> QED BY <1>3, <1>4 DEF Start

LEMMA SetCompanyKeeps ==
    ASSUME IInv, SetCompany
    PROVE  IInv'
<1> USE PartsOfInvariant
<1>1. /\ pc' \in {"fresh", "ready", "failed"} /\ level' \in Nat
      /\ registry' \in Nat \cup {NoValue} /\ logLevel' \in Nat
  BY DEF SetCompany, levelVars
<1>2. Left = <<>>
  BY NoneLeft
<1>3. CASE Done("setCompany", TRUE) /\ UNCHANGED <<clockVars, sinkVars>>
  <2>1. last' \in LastType /\ RecordsReachTheirFile'
    BY <1>3, CallDone
  <2>2. day' = day /\ files' = files /\ attached' = attached /\ company' = company
    BY <1>3 DEF clockVars, sinkVars
  <2>3. SinksTyped' /\ OneSink' /\ NoFileOfTomorrow'
    BY <1>3, SinksUntouched
  <2>4. day' \in Days /\ files' \subseteq Names \X Days /\ attached' \in BOOLEAN /\ company' \in Names
    BY <2>2
  <2> QED BY <1>1, <2>1, <2>3, <2>4, InvariantFromPartsNext
<1>4. CASE NoSink(Left) /\ Done("setCompany", TRUE)
  <2>1. last' \in LastType /\ RecordsReachTheirFile'
    BY <1>4, CallDone
  <2>2. /\ day' \in Days /\ files' \subseteq Names \X Days /\ SinksTyped'
        /\ attached' = FALSE /\ company' = company /\ OneSink' /\ NoFileOfTomorrow'
    BY <1>2, <1>4, NoSinkKeeps
  <2>3. company' \in Names /\ attached' \in BOOLEAN
    BY <2>2
  <2> QED BY <1>1, <2>1, <2>2, <2>3, InvariantFromPartsNext
<1>5. ASSUME NEW c \in Companies, AddSink(c, CompanyFiles, Left), Done("setCompany", FALSE)
      PROVE  IInv'
  <2>1. last' \in LastType /\ RecordsReachTheirFile'
    BY <1>5, CallDone
  <2>2. c \in Names
    BY DEF Names
  <2>3. AddSink(c, CompanyFiles, <<>>)
    BY <1>2, <1>5
  <2>4. /\ day' \in Days /\ files' \subseteq Names \X Days /\ SinksTyped'
        /\ attached' = TRUE /\ company' = c /\ OneSink' /\ NoFileOfTomorrow'
    BY <2>2, <2>3, AddSinkKeeps
  <2>5. company' \in Names /\ attached' \in BOOLEAN
    BY <2>2, <2>4
  <2> QED BY <1>1, <2>1, <2>4, <2>5, InvariantFromPartsNext
<1> QED BY <1>3, <1>4, <1>5 DEF SetCompany

LEMMA SetLogLevelKeeps ==
    ASSUME IInv, SetLogLevel
    PROVE  IInv'
<1> USE PartsOfInvariant
<1>1. PICK value \in SettableLevels, allowed \in BOOLEAN :
        SetRegistry(value, allowed) /\ Done("setLogLevel", ~ allowed)
  BY DEF SetLogLevel
<1>2. registry' \in Nat \cup {NoValue}
  BY <1>1, LoggerAssumption, RegistryTyped
<1>3. last' \in LastType /\ RecordsReachTheirFile'
  <2>1. (~ allowed) \in BOOLEAN
    OBVIOUS
  <2> QED BY <1>1, <2>1, CallDone
<1>4. /\ UNCHANGED <<clockVars, sinkVars>> /\ day' = day /\ files' = files /\ pc' = pc
      /\ attached' = attached /\ company' = company /\ level' = level /\ logLevel' = logLevel
  BY DEF SetLogLevel, clockVars, sinkVars
<1>5. SinksTyped' /\ OneSink' /\ NoFileOfTomorrow'
  BY <1>4, SinksUntouched
<1>6. /\ day' \in Days /\ files' \subseteq Names \X Days /\ pc' \in {"fresh", "ready", "failed"}
      /\ attached' \in BOOLEAN /\ company' \in Names
      /\ level' \in Nat /\ logLevel' \in Nat
  BY <1>4
<1> QED BY <1>2, <1>3, <1>5, <1>6, InvariantFromPartsNext

LEMMA GetLogLevelKeeps ==
    ASSUME IInv, GetLogLevel
    PROVE  IInv'
<1> USE PartsOfInvariant
<1>1. logLevel' \in Nat
  BY LoggerAssumption DEF GetLogLevel, IsLogLevelValid
<1>2. last' \in LastType /\ RecordsReachTheirFile'
  <2>1. Done("getLogLevel", FALSE)
    BY DEF GetLogLevel
  <2> QED BY <2>1, CallDone
<1>3. /\ UNCHANGED <<clockVars, sinkVars>> /\ day' = day /\ files' = files /\ pc' = pc
      /\ attached' = attached /\ company' = company /\ level' = level /\ registry' = registry
  BY DEF GetLogLevel, clockVars, sinkVars
<1>4. SinksTyped' /\ OneSink' /\ NoFileOfTomorrow'
  BY <1>3, SinksUntouched
<1>5. /\ day' \in Days /\ files' \subseteq Names \X Days /\ pc' \in {"fresh", "ready", "failed"}
      /\ attached' \in BOOLEAN /\ company' \in Names
      /\ level' \in Nat /\ registry' \in Nat \cup {NoValue}
  BY <1>3
<1> QED BY <1>1, <1>2, <1>4, <1>5, InvariantFromPartsNext

LEMMA TickKeeps ==
    ASSUME IInv, Tick
    PROVE  IInv'
<1> USE PartsOfInvariant
<1>1. /\ day' = day + 1 /\ day < MaxDay /\ files' = files /\ pc' = pc /\ sinks' = sinks
      /\ attached' = attached /\ company' = company /\ level' = level
      /\ registry' = registry /\ logLevel' = logLevel
  BY DEF Tick, sinkVars, levelVars
<1>2. day' \in Days /\ day \in Nat /\ day' \in Nat /\ day <= day'
  BY <1>1, LoggerAssumption DEF Days
<1>3. last' \in LastType /\ RecordsReachTheirFile'
  BY CallDone DEF Tick
<1>4. SinksTyped'
  BY <1>1 DEF SinksTyped
<1>5. OneSink'
  <2>1. CASE attached
    <3>1. sinks[1] \in SinkType /\ SinkKept(sinks[1], day, files)
      BY <2>1, OneSinkInUse
    <3>2. SinkKept(sinks[1], day', files)
      BY <1>2, <3>1, SinkKeptLater
    <3> QED BY <1>1, <2>1, <3>2 DEF OneSink
  <2>2. CASE ~ attached
    BY <1>1, <2>2 DEF OneSink
  <2> QED BY <2>1, <2>2
<1>6. NoFileOfTomorrow'
  <2> SUFFICES ASSUME NEW f \in files PROVE f[2] <= day'
    BY <1>1 DEF NoFileOfTomorrow
  <2>1. f[2] \in Nat /\ f[2] <= day
    BY DEF NoFileOfTomorrow, Days
  <2> QED BY <1>2, <2>1
<1>7. /\ files' \subseteq Names \X Days /\ pc' \in {"fresh", "ready", "failed"}
      /\ attached' \in BOOLEAN /\ company' \in Names
      /\ level' \in Nat /\ registry' \in Nat \cup {NoValue}
      /\ logLevel' \in Nat
  BY <1>1
<1> QED BY <1>2, <1>3, <1>4, <1>5, <1>6, <1>7, InvariantFromPartsNext

LEMMA RestartKeeps ==
    ASSUME IInv, Restart
    PROVE  IInv'
<1> USE PartsOfInvariant
<1>1. /\ day' = day /\ files' = files /\ pc' = "fresh" /\ sinks' = <<>>
      /\ attached' = FALSE /\ company' = NoCompany /\ level' = DefaultLogLevel
      /\ logLevel' = 0 /\ registry' = registry
  BY DEF Restart, clockVars
<1>2. last' \in LastType /\ RecordsReachTheirFile'
  BY CallDone DEF Restart
<1>3. SinksTyped'
  <2>1. <<>> \in Seq(SinkType) /\ DOMAIN <<>> = {}
    OBVIOUS
  <2> QED BY <1>1, <2>1 DEF SinksTyped
<1>4. OneSink' /\ NoFileOfTomorrow'
  BY <1>1 DEF OneSink, NoFileOfTomorrow
<1>5. /\ day' \in Days /\ files' \subseteq Names \X Days /\ pc' \in {"fresh", "ready", "failed"}
      /\ attached' \in BOOLEAN /\ company' \in Names
      /\ level' \in Nat /\ registry' \in Nat \cup {NoValue}
      /\ logLevel' \in Nat
  <2>1. attached' \in BOOLEAN
    BY <1>1
  <2>2. NoCompany \in Names /\ DefaultLogLevel \in Nat /\ 0 \in Nat
    BY LoggerAssumption DEF Names
  <2> QED BY <1>1, <2>1, <2>2
<1> QED BY <1>2, <1>3, <1>4, <1>5, InvariantFromPartsNext

LEMMA StutterKeeps ==
    ASSUME IInv, UNCHANGED vars
    PROVE  IInv'
<1> USE PartsOfInvariant
<1>1. /\ day' = day /\ files' = files /\ pc' = pc /\ sinks' = sinks
      /\ attached' = attached /\ company' = company /\ level' = level
      /\ registry' = registry /\ logLevel' = logLevel /\ last' = last
  BY DEF vars, clockVars, sinkVars, levelVars
<1> QED BY <1>1 DEF IInv, TypeOK, OneSink, NoFileOfTomorrow, RecordsReachTheirFile

-----------------------------------------------------------------------------
(* A record below the level changes nothing but last; any other goes to    *)
(* the sink, if there is one, with the outcome SinkIt has for it.          *)
Ignored == last'.op = "log" /\ last'.level < level /\ last' \in LastType /\ UNCHANGED <<day, files, sinks>>

LoggedNowhere ==
    /\ ~ attached /\ last' \in LastType
    /\ day' \in From(day) /\ files' = files /\ sinks' = <<>>

Logged(o, d, now) ==
    /\ attached /\ last' \in LastType
    /\ day' = now /\ files' = (files \cup o.made) \ o.removed
    /\ sinks' = <<o.sink>>
    /\ last'.day = d
    /\ o.wrote => last'.written = {<<1, company, o.sink.file>>}
    /\ ~ last'.failed => ~ o.threw

(* The part of Log that hands a record to the sinks.                      *)
RecordSent(l, d, now, fault) ==
    LET out == [i \in DOMAIN sinks |-> SinkIt(sinks[i], d, now, fault)]
        reached == {i \in DOMAIN sinks : \A j \in 1 .. i - 1 : ~ out[j].threw}
    IN  /\ day' = now
        /\ files' = (files \cup UNION {out[i].made : i \in reached})
                      \ UNION {out[i].removed : i \in reached}
        /\ sinks' = [i \in DOMAIN sinks |-> IF i \in reached THEN out[i].sink ELSE sinks[i]]
        /\ last' = [op |-> "log", level |-> l, day |-> d,
                    written |-> {<<i, sinks[i].company, out[i].sink.file>> :
                                   i \in {i \in reached : out[i].wrote}},
                    failed |-> \E i \in reached : out[i].threw]

LEMMA OutcomeOfLog ==
    ASSUME IInv, Log
    PROVE  \/ Ignored
           \/ LoggedNowhere
           \/ \E d \in From(day), fault \in Faults : \E now \in From(d) :
                 Logged(SinkIt(sinks[1], d, now, fault), d, now)
<1> USE PartsOfInvariant
<1>1. PICK l \in RecordLevels :
        \/ /\ l < level
           /\ last' = [None EXCEPT !.op = "log", !.level = l]
           /\ UNCHANGED <<clockVars, sinks>>
        \/ /\ l >= level
           /\ \E d \in From(day), fault \in Faults : \E now \in From(d) : RecordSent(l, d, now, fault)
  BY DEF Log, RecordSent
<1>2. l \in Nat
  BY LoggerAssumption
<1>3. CASE l < level /\ last' = [None EXCEPT !.op = "log", !.level = l] /\ UNCHANGED <<clockVars, sinks>>
  <2>1. None \in LastType
    BY LastTyped
  <2> DEFINE n == None
  <2>2. n \in LastType
    BY <2>1
  <2> HIDE DEF n
  <2>3. [n EXCEPT !.op = "log", !.level = l] \in LastType
    BY <1>2, <2>2 DEF LastType
  <2>4. [n EXCEPT !.op = "log", !.level = l].op = "log" /\ [n EXCEPT !.op = "log", !.level = l].level = l
    BY <1>2, <2>2 DEF LastType
  <2>5. last' = [n EXCEPT !.op = "log", !.level = l]
    BY <1>3 DEF n
  <2> QED BY <1>3, <2>3, <2>4, <2>5 DEF Ignored, clockVars
<1>4. ASSUME NEW d \in From(day), NEW fault \in Faults, NEW now \in From(d),
             RecordSent(l, d, now, fault)
      PROVE  LoggedNowhere \/ Logged(SinkIt(sinks[1], d, now, fault), d, now)
  <2> DEFINE out == [i \in DOMAIN sinks |-> SinkIt(sinks[i], d, now, fault)]
             reached == {i \in DOMAIN sinks : \A j \in 1 .. i - 1 : ~ out[j].threw}
             written == {<<i, sinks[i].company, out[i].sink.file>> : i \in {i \in reached : out[i].wrote}}
             failed == \E i \in reached : out[i].threw
  <2>1. /\ day' = now
        /\ files' = (files \cup UNION {out[i].made : i \in reached})
                      \ UNION {out[i].removed : i \in reached}
        /\ sinks' = [i \in DOMAIN sinks |-> IF i \in reached THEN out[i].sink ELSE sinks[i]]
        /\ last' = [op |-> "log", level |-> l, day |-> d, written |-> written, failed |-> failed]
    BY <1>4 DEF RecordSent
  <2>2. d \in Days /\ now \in Days /\ day \in Nat /\ day <= d /\ d <= now /\ now <= day + 1 /\ d \in 0 .. MaxDay
    BY ClockReadings DEF Days
  <2>3. failed \in BOOLEAN
    OBVIOUS
  <2>4. \A i \in reached : i \in DOMAIN sinks
    OBVIOUS
  <2>5. ASSUME ~ attached
        PROVE  LoggedNowhere
    <3>1. sinks = <<>> /\ DOMAIN sinks = {}
      BY <2>5 DEF OneSink
    <3>2. reached = {}
      BY <3>1, <2>4
    <3> HIDE DEF reached, out
    <3>3. written = {}
      BY <3>2
    <3>4. files' = files
      BY <2>1, <3>2
    <3>5. sinks' = <<>>
      BY <2>1, <3>1
    <3> HIDE DEF written, failed
    <3>6. last' \in LastType
      BY <1>2, <2>1, <2>2, <2>3, <3>3 DEF LastType
    <3>7. day' \in From(day)
      BY <2>1, <2>2, LoggerAssumption DEF From, Days
    <3> QED BY <2>5, <3>4, <3>5, <3>6, <3>7 DEF LoggedNowhere
  <2>6. ASSUME attached
        PROVE  Logged(SinkIt(sinks[1], d, now, fault), d, now)
    <3> DEFINE o == SinkIt(sinks[1], d, now, fault)
    <3>1. /\ DOMAIN sinks = {1} /\ sinks[1].company = company
          /\ SinkResult(sinks[1], o, d, now, files)
      BY <2>6, OneSinkInUse, SinkItKept
    <3>2. out[1] = o
      BY <3>1
    <3>3. reached = {1}
      <4>1. \A j \in 1 .. 1 - 1 : ~ out[j].threw
        OBVIOUS
      <4> QED BY <3>1, <4>1
    <3> HIDE DEF out, reached, o
    <3>4. files' = (files \cup o.made) \ o.removed
      BY <2>1, <3>2, <3>3
    <3>5. sinks' = <<o.sink>>
      <4>1. sinks' = [i \in {1} |-> IF i \in reached THEN out[i].sink ELSE sinks[i]]
        BY <2>1, <3>1
      <4>2. \A i \in {1} : (IF i \in reached THEN out[i].sink ELSE sinks[i]) = o.sink
        BY <3>2, <3>3
      <4>3. sinks' = [i \in {1} |-> o.sink]
        BY <4>1, <4>2
      <4> QED BY <4>3
    <3>6. ASSUME o.wrote PROVE written = {<<1, company, o.sink.file>>}
      <4>1. {i \in reached : out[i].wrote} = {1}
        BY <3>2, <3>3, <3>6
      <4> QED BY <3>1, <3>2, <4>1
    <3>7. written \subseteq {<<1, company, o.sink.file>>}
      BY <3>1, <3>2, <3>3
    <3>8. ~ failed => ~ o.threw
      BY <3>2, <3>3
    <3> HIDE DEF written, failed
    <3>9. last' \in LastType
      <4>1. o.sink.file \in Days
        BY <3>1 DEF SinkResult, SinkType
      <4>2. written \in SUBSET (Nat \X Names \X Days)
        BY <3>7, <4>1
      <4> QED BY <1>2, <2>1, <2>2, <2>3, <4>2 DEF LastType
    <3>10. last'.day = d /\ last'.written = written
      BY <2>1
    <3>11. ~ last'.failed => ~ failed
      BY <2>1
    <3> QED BY <2>1, <2>6, <3>4, <3>5, <3>6, <3>8, <3>9, <3>10, <3>11 DEF Logged, o
  <2> QED BY <2>5, <2>6
<1>5. ASSUME \E d \in From(day), fault \in Faults : \E now \in From(d) : RecordSent(l, d, now, fault)
      PROVE  \/ LoggedNowhere
             \/ \E d \in From(day), fault \in Faults : \E now \in From(d) :
                   Logged(SinkIt(sinks[1], d, now, fault), d, now)
  BY <1>4, <1>5
<1> QED BY <1>1, <1>3, <1>5

LEMMA LogKeeps ==
    ASSUME IInv, Log
    PROVE  IInv'
<1> USE PartsOfInvariant
<1>1. /\ pc' = pc /\ attached' = attached /\ company' = company /\ level' = level
      /\ registry' = registry /\ logLevel' = logLevel
  BY DEF Log, levelVars
<1>2. /\ pc' \in {"fresh", "ready", "failed"} /\ attached' \in BOOLEAN /\ company' \in Names
      /\ level' \in Nat /\ registry' \in Nat \cup {NoValue}
      /\ logLevel' \in Nat
  BY <1>1
<1>3. CASE Ignored
  <2>1. day' = day /\ files' = files /\ sinks' = sinks /\ last' \in LastType /\ last'.level < level
    BY <1>3 DEF Ignored
  <2>2. SinksTyped' /\ OneSink' /\ NoFileOfTomorrow'
    BY <1>1, <2>1, SinksUntouched DEF clockVars, sinkVars
  <2>3. RecordsReachTheirFile'
    <3>1. last'.level \in Nat /\ level \in Nat
      BY <2>1, LoggerAssumption DEF LastType
    <3>2. ~ (last'.level >= level')
      BY <1>1, <2>1, <3>1
    <3> QED BY <3>2 DEF RecordsReachTheirFile
  <2>4. day' \in Days /\ files' \subseteq Names \X Days
    BY <2>1
  <2> QED BY <1>2, <2>1, <2>2, <2>3, <2>4, InvariantFromPartsNext
<1>4. CASE LoggedNowhere
  <2>1. /\ ~ attached /\ day' \in From(day) /\ files' = files /\ sinks' = <<>> /\ last' \in LastType
    BY <1>4 DEF LoggedNowhere
  <2>2. NoSink(<<>>)
    <3>1. attached' = FALSE
      BY <1>1, <1>2, <2>1
    <3> QED BY <1>1, <2>1, <3>1 DEF NoSink
  <2>3. day' \in Days /\ files' \subseteq Names \X Days /\ SinksTyped' /\ OneSink' /\ NoFileOfTomorrow'
    BY <2>2, NoSinkKeeps
  <2>4. RecordsReachTheirFile'
    BY <1>1, <2>1 DEF RecordsReachTheirFile
  <2> QED BY <1>2, <2>1, <2>3, <2>4, InvariantFromPartsNext
<1>5. ASSUME NEW d \in From(day), NEW fault \in Faults, NEW now \in From(d),
             Logged(SinkIt(sinks[1], d, now, fault), d, now)
      PROVE  IInv'
  <2> DEFINE o == SinkIt(sinks[1], d, now, fault)
  <2>1. /\ attached /\ last' \in LastType
        /\ day' = now /\ files' = (files \cup o.made) \ o.removed
        /\ sinks' = <<o.sink>> /\ last'.day = d
        /\ o.wrote => last'.written = {<<1, company, o.sink.file>>}
        /\ ~ last'.failed => ~ o.threw
    BY <1>5 DEF Logged
  <2>2. sinks[1].company = company /\ SinkResult(sinks[1], o, d, now, files)
    BY <2>1, OneSinkInUse, SinkItKept
  <2> HIDE DEF o
  <2>3. /\ o.sink \in SinkType /\ Len(o.sink.queue) <= o.sink.max
        /\ o.sink.company = company /\ o.made \subseteq {<<company, d>>}
        /\ SinkKept(o.sink, now, files')
        /\ ~ o.threw => o.wrote /\ (o.sink.file = d \/ (o.sink.file = d - 1 /\ o.sink.raced))
    BY <2>1, <2>2 DEF SinkResult
  <2>4. d \in Days /\ now \in Days /\ day \in Nat /\ day <= d /\ d <= now
    BY ClockReadings DEF Days
  <2>5. sinks' \in Seq(SinkType) /\ Len(sinks') = 1 /\ sinks'[1] = o.sink /\ DOMAIN sinks' = {1}
    BY <2>1, <2>3
  <2>6. SinksTyped'
    BY <2>3, <2>5 DEF SinksTyped
  <2>7. files' \subseteq Names \X Days
    BY <2>1, <2>3, <2>4
  <2>8. OneSink'
    <3>1. attached'
      BY <1>1, <2>1
    <3>2. SinkKept(sinks'[1], day', files') /\ sinks'[1].company = company'
      BY <1>1, <2>1, <2>3, <2>5
    <3> QED BY <2>5, <3>1, <3>2 DEF OneSink
  <2>9. NoFileOfTomorrow'
    <3> SUFFICES ASSUME NEW f \in files' PROVE f[2] <= day'
      BY DEF NoFileOfTomorrow
    <3>1. CASE f \in files
      <4>1. f[2] \in Nat /\ f[2] <= day
        BY <3>1 DEF NoFileOfTomorrow, Days
      <4> QED BY <2>1, <2>4, <4>1 DEF Days
    <3>2. CASE f \notin files
      <4>1. f = <<company, d>>
        BY <2>1, <2>3, <3>2
      <4> QED BY <2>1, <2>4, <4>1 DEF Days
    <3> QED BY <3>1, <3>2
  <2>10. RecordsReachTheirFile'
    <3> SUFFICES ASSUME ~ last'.failed
                 PROVE  \E e \in {last'.day - 1, last'.day} :
                           /\ last'.written = {<<1, company', e>>}
                           /\ e < last'.day => sinks'[1].raced
      BY DEF RecordsReachTheirFile
    <3>1. last'.written = {<<1, company', o.sink.file>>}
      BY <1>1, <2>1, <2>3
    <3>2. CASE o.sink.file = d
      <4>1. ~ (o.sink.file < d)
        BY <2>4, <3>2 DEF Days
      <4> QED BY <2>1, <3>1, <3>2, <4>1
    <3>3. CASE o.sink.file = d - 1 /\ o.sink.raced
      BY <2>1, <2>5, <3>1, <3>3
    <3> QED BY <2>1, <2>3, <3>2, <3>3
  <2>11. day' \in Days
    BY <2>1, <2>4
  <2> QED BY <1>2, <2>1, <2>6, <2>7, <2>8, <2>9, <2>10, <2>11, InvariantFromPartsNext
<1> QED BY <1>3, <1>4, <1>5, OutcomeOfLog

-----------------------------------------------------------------------------
(* IInv holds in every reachable state.                                    *)
LEMMA LoggerInvariance == Spec => []IInv
<1>1. Init => IInv
  BY InitKeeps
<1>2. IInv /\ [Next]_vars => IInv'
  <2> SUFFICES ASSUME IInv, [Next]_vars PROVE IInv'
    OBVIOUS
  <2> QED BY StartKeeps, SetCompanyKeeps, LogKeeps, SetLogLevelKeeps, GetLogLevelKeeps,
             TickKeeps, RestartKeeps, StutterKeeps DEF Next
<1> QED BY <1>1, <1>2, PTL DEF Spec

(* Every variable of the log holds a value of its type, and no queue of    *)
(* file names is longer than init_filenames_q_ makes it, whatever the sink *)
(* finds on the disk and whatever fails there.                             *)
THEOREM LoggerTypes == Spec => []TypeOK
<1>1. IInv => TypeOK
  BY DEF IInv
<1> QED BY <1>1, LoggerInvariance, PTL

(* A record that LOG_FMT hands on is written once, to the file of the      *)
(* company that setCompany set last and of the record's day, or of the day *)
(* before when midnight passed while the sink opened that file.            *)
THEOREM EveryRecordReachesItsFile == Spec => []RecordsReachTheirFile
<1>1. IInv => RecordsReachTheirFile
  BY DEF IInv
<1> QED BY <1>1, LoggerInvariance, PTL

-----------------------------------------------------------------------------
(* Counting files by the names in a queue.                                 *)
LEMMA AtMostQueueLength ==
    ASSUME NEW q \in Seq(Days), NEW S, \A e \in S : \E i \in 1 .. Len(q) : q[i] = e
    PROVE  Cardinality(S) <= Len(q)
<1> DEFINE n == Len(q)
           T == {q[i] : i \in 1 .. n}
<1>1. n \in Nat /\ q \in [1 .. n -> Days]
  BY LenProperties
<1> HIDE DEF n
<1>2. q \in Surjection(1 .. n, T)
  BY <1>1 DEF Surjection
<1>3. IsFiniteSet(1 .. n) /\ Cardinality(1 .. n) = n
  <2>1. 1 \in Int /\ n \in Int
    BY <1>1
  <2>2. IsFiniteSet(1 .. n) /\ Cardinality(1 .. n) = IF 1 > n THEN 0 ELSE n - 1 + 1
    BY <2>1, FS_Interval
  <2> QED BY <1>1, <2>2
<1>4. S \subseteq T
  BY DEF n
<1> HIDE DEF T
<1>5. IsFiniteSet(T) /\ Cardinality(T) <= n
  BY <1>2, <1>3, FS_Surjection
<1>6. IsFiniteSet(S) /\ Cardinality(S) <= Cardinality(T)
  BY <1>4, <1>5, FS_Subset
<1>7. Cardinality(S) \in Nat /\ Cardinality(T) \in Nat
  BY <1>5, <1>6, FS_CardinalityType
<1> QED BY <1>1, <1>5, <1>6, <1>7 DEF n

LEMMA AtLeastQueueLength ==
    ASSUME NEW q \in Seq(Days), Ascending(q), NEW c, NEW S, IsFiniteSet(S),
           \A i \in 1 .. Len(q) : <<c, q[i]>> \in S
    PROVE  Cardinality(S) >= Len(q)
<1> DEFINE n == Len(q)
           g == [i \in 1 .. n |-> <<c, q[i]>>]
<1>1. n \in Nat /\ \A i \in 1 .. n : q[i] \in Nat
  <2>1. \A i \in 1 .. Len(q) : q[i] \in Days
    BY ElementOfSeq
  <2> QED BY <2>1, LenProperties DEF Days
<1>2. \A i, j \in 1 .. n : q[i] = q[j] => i = j
  <2> SUFFICES ASSUME NEW i \in 1 .. n, NEW j \in 1 .. n, q[i] = q[j] PROVE i = j
    OBVIOUS
  <2>1. ~ (q[i] < q[j]) /\ ~ (q[j] < q[i])
    BY <1>1
  <2>2. ~ (i < j) /\ ~ (j < i)
    BY <2>1 DEF Ascending
  <2> QED BY <1>1, <2>2
<1>3. g \in Injection(1 .. n, S)
  <2>1. g \in [1 .. n -> S] /\ DOMAIN g = 1 .. n /\ \A i \in 1 .. n : g[i] = <<c, q[i]>>
    OBVIOUS
  <2> HIDE DEF g
  <2>2. \A i, j \in 1 .. n : g[i] = g[j] => i = j
    BY <1>2, <2>1
  <2> QED BY <2>1, <2>2 DEF Injection, IsInjective
<1> HIDE DEF g, n
<1>4. Cardinality(1 .. n) <= Cardinality(S)
  BY <1>3, FS_Injection
<1>5. Cardinality(1 .. n) = n
  <2>1. 1 \in Int /\ n \in Int
    BY <1>1
  <2>2. Cardinality(1 .. n) = IF 1 > n THEN 0 ELSE n - 1 + 1
    BY <2>1, FS_Interval
  <2> QED BY <1>1, <2>2
<1>6. Cardinality(S) \in Nat
  BY FS_CardinalityType
<1> QED BY <1>1, <1>4, <1>5, <1>6 DEF n

(* A daily sink leaves no more files than it is to keep from the day its   *)
(* queue starts with, apart from those its queue cannot know of or that    *)
(* delete_old_ could not remove.                                           *)
THEOREM DiskUseIsBounded == Spec => []AtMostMaxFiles
<1>1. ASSUME IInv PROVE AtMostMaxFiles
  <2> USE <1>1, PartsOfInvariant
  <2> SUFFICES ASSUME NEW i \in DOMAIN sinks
               PROVE  Cardinality({d \in Days : d >= sinks[i].since /\ <<sinks[i].company, d>> \in files}
                                    \ sinks[i].leaked) <= sinks[i].max
    BY DEF AtMostMaxFiles
  <2> DEFINE s == sinks[i]
             S == {d \in Days : d >= s.since /\ <<s.company, d>> \in files} \ s.leaked
  <2>1. attached
    BY DEF OneSink
  <2>2. s \in SinkType /\ Len(s.queue) <= s.max /\ SinkKept(s, day, files)
    BY <2>1, OneSinkInUse
  <2> HIDE DEF s
  <2>3. s.queue \in Seq(Days) /\ s.max \in Nat /\ Len(s.queue) \in Nat
    BY <2>2, LoggerAssumption, LenProperties DEF SinkType
  <2>4. \A e \in S : \E j \in 1 .. Len(s.queue) : s.queue[j] = e
    BY <2>2 DEF SinkKept, NoneForgotten, Queued
  <2>5. IsFiniteSet(S) => Cardinality(S) \in Nat
    BY FS_CardinalityType
  <2> HIDE DEF S
  <2>6. Cardinality(S) <= Len(s.queue)
    BY <2>3, <2>4, AtMostQueueLength
  <2>7. Cardinality(S) <= s.max
    <3>1. IsFiniteSet(S)
      <4>1. MaxDay \in Nat /\ IsFiniteSet(Days)
        BY LoggerAssumption, FS_Interval DEF Days
      <4> QED BY <4>1, FS_Subset DEF S
    <3> QED BY <2>2, <2>3, <2>5, <2>6, <3>1
  <2> QED BY <2>7 DEF S, s
<1> QED BY <1>1, LoggerInvariance, PTL

-----------------------------------------------------------------------------
(* A step that deletes a file.                                             *)
LEMMA OnlyLogDeletes ==
    ASSUME IInv, [Next]_vars, NEW f \in files, f \notin files'
    PROVE  Log
<1> USE PartsOfInvariant
<1>1. ASSUME Start PROVE FALSE
  <2>1. files \subseteq files'
    BY <1>1 DEF Start, AddSink, NoSink
  <2> QED BY <2>1
<1>2. ASSUME SetCompany PROVE FALSE
  <2>1. files \subseteq files'
    BY <1>2 DEF SetCompany, AddSink, NoSink, clockVars
  <2> QED BY <2>1
<1>3. CASE SetLogLevel
  BY <1>3 DEF SetLogLevel, clockVars
<1>4. CASE GetLogLevel
  BY <1>4 DEF GetLogLevel, clockVars
<1>5. CASE Tick
  BY <1>5 DEF Tick
<1>6. CASE Restart
  BY <1>6 DEF Restart, clockVars
<1>7. CASE UNCHANGED vars
  BY <1>7 DEF vars, clockVars
<1> QED BY <1>1, <1>2, <1>3, <1>4, <1>5, <1>6, <1>7 DEF Next

(* A log file is deleted only when the number of files its sink keeps are  *)
(* there that are newer, for every schedule of records, switches,          *)
(* restarts and failures.                                                  *)
THEOREM NewestFilesAreKept == Spec => KeepsNewestFiles
<1>1. ASSUME IInv, [Next]_vars, IInv', NEW f \in files \ files'
      PROVE  \E i \in DOMAIN sinks :
                sinks[i].company = f[1] /\ Cardinality(NewerFiles(f)') >= sinks[i].max
  <2> USE <1>1, PartsOfInvariant
  <2>1. Log
    BY OnlyLogDeletes
  <2>2. ~ Ignored /\ ~ LoggedNowhere
    BY DEF Ignored, LoggedNowhere
  <2>3. PICK d \in From(day), fault \in Faults :
          \E now \in From(d) : Logged(SinkIt(sinks[1], d, now, fault), d, now)
    BY <2>1, <2>2, OutcomeOfLog
  <2>4. PICK now \in From(d) : Logged(SinkIt(sinks[1], d, now, fault), d, now)
    BY <2>3
  <2> DEFINE o == SinkIt(sinks[1], d, now, fault)
             c == company
             h == Head(sinks[1].queue)
             q == o.sink.queue
             max == sinks[1].max
  <2>5. attached /\ files' = (files \cup o.made) \ o.removed
    BY <2>4 DEF Logged
  <2>6. DOMAIN sinks = {1} /\ sinks[1].company = c /\ SinkResult(sinks[1], o, d, now, files)
    BY <2>5, OneSinkInUse, SinkItKept
  <2> HIDE DEF o
  <2>7. f \in o.removed
    BY <2>5
  <2>8. /\ f = <<c, h>> /\ Len(q) = max /\ \A i \in 1 .. Len(q) : h < q[i]
        /\ q \in Seq(Days) /\ o.sink.company = c /\ SinkKept(o.sink, now, files')
    BY <2>5, <2>6, <2>7 DEF SinkResult, SinkType
  <2>9. Ascending(q) /\ \A i \in 1 .. Len(q) : <<c, q[i]>> \in files'
    BY <2>8 DEF SinkKept, QueueOnDisk
  <2> DEFINE S == {g \in files' : g[1] = f[1] /\ g[2] > f[2]}
  <2> HIDE DEF c, h, q
  <2>10. \A i \in 1 .. Len(q) : <<c, q[i]>> \in S
    <3> SUFFICES ASSUME NEW i \in 1 .. Len(q) PROVE <<c, q[i]>> \in S
      OBVIOUS
    <3>1. h < q[i] /\ <<c, q[i]>> \in files' /\ q[i] \in Days /\ h \in Days
      BY <2>8, <2>9, ElementOfSeq
    <3>2. q[i] > h
      BY <3>1 DEF Days
    <3> QED BY <2>8, <3>1, <3>2
  <2>11. IsFiniteSet(S)
    <3> DEFINE D == {<<c, e>> : e \in Days}
               g == [e \in Days |-> <<c, e>>]
    <3>1. S \in SUBSET D
      <4>1. files' \subseteq Names \X Days
        BY DEF IInv, TypeOK
      <4>2. f[1] = c
        BY <2>8
      <4>3. \A x \in S : x \in Names \X Days /\ x[1] = c
        BY <4>1, <4>2 DEF S
      <4>4. \A x \in S : x[2] \in Days /\ x = <<c, x[2]>>
        BY <4>3
      <4> QED BY <4>4
    <3>2. IsFiniteSet(Days)
      BY LoggerAssumption, FS_Interval DEF Days
    <3>3. g \in Surjection(Days, D)
      BY DEF Surjection
    <3> HIDE DEF D, g, S
    <3>4. IsFiniteSet(D)
      BY <3>2, <3>3, FS_Surjection
    <3> QED BY <3>1, <3>4, FS_Subset
  <2> HIDE DEF S
  <2>12. Cardinality(S) >= Len(q)
    BY <2>8, <2>9, <2>10, <2>11, AtLeastQueueLength
  <2>13. Cardinality(NewerFiles(f)') >= max
    BY <2>8, <2>12 DEF NewerFiles, S
  <2>14. sinks[1].company = f[1]
    BY <2>6, <2>8
  <2> QED BY <2>6, <2>13, <2>14
<1>2. IInv /\ IInv' /\ [Next]_vars =>
        [\A f \in files \ files' : \E i \in DOMAIN sinks :
            sinks[i].company = f[1] /\ Cardinality(NewerFiles(f)') >= sinks[i].max]_vars
  BY <1>1
<1> QED BY <1>2, LoggerInvariance, PTL DEF Spec, KeepsNewestFiles

=============================================================================
