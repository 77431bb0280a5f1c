------------------------------- MODULE Logger -------------------------------
(***************************************************************************)
(* Logger: the program's log, and the daily files behind it.               *)
(*                                                                         *)
(* The logger hands every record to a fan-out sink, and that to the        *)
(* console, which has no state here, and to a daily file sink of spdlog,   *)
(* which goes over to a new file at midnight and deletes old files.        *)
(* setCompany replaces the file sink by one for another file name.  A file *)
(* is named by company and day.  Midnight may pass between any two         *)
(* readings of the clock, within one call too, and opening, writing,       *)
(* flushing and removing a file may fail.  Local days have 24 hours.       *)
(***************************************************************************)
EXTENDS Integers, Sequences, FiniteSets

CONSTANTS
    Companies,       \* what setCompany is called with
    NoCompany,       \* the empty name, for the file of Init
    MaxLogFiles,     \* kMaxLogFiles: files the sink of Init keeps, 6 in the code
    CompanyFiles,    \* files a sink of setCompany keeps, 5 in the code
    InitLevels,      \* the levels Init is called with
    RecordLevels,    \* the levels records are logged at
    SettableLevels,  \* what setLogLevel is called with, or stands in the registry
    MaxLogTypes,     \* kMaxLogTypes, the number of LOG_TYPE_MAX
    DefaultLogLevel, \* kDefaultLogLevel
    NoValue,         \* the registry has no level
    MaxDay           \* bound: the days that are modelled

ASSUME LoggerAssumption ==
    /\ NoCompany \notin Companies
    /\ MaxLogFiles \in Nat \ {0} /\ CompanyFiles \in Nat \ {0}
    /\ MaxDay \in Nat \ {0} /\ MaxLogTypes \in Nat /\ DefaultLogLevel \in 0 .. MaxLogTypes
    /\ InitLevels \subseteq 0 .. MaxLogTypes /\ RecordLevels \subseteq Nat
    /\ SettableLevels \subseteq Nat /\ NoValue \notin Nat

VARIABLES
    day,        \* the local date
    pc,         \* "fresh": before Init, "ready", or "failed": Init returned false
    files,      \* the log files on disk: <<company, day>>
    sinks,      \* the file sinks of m_distSink, in order
    attached,   \* is m_fileSink set?  Then it is the last of sinks.
    level,      \* the level of m_logger and of its sinks, once Init has made them
    company,    \* the company last switched to with success
    registry,   \* the level in the registry
    logLevel,   \* m_logLevel, the level getLogLevel read last
    last        \* the last call: [op, level, day, written, failed]

clockVars == <<day, files>>
sinkVars == <<sinks, attached, company>>
levelVars == <<registry, logLevel>>
vars == <<clockVars, pc, sinkVars, level, levelVars, last>>

Faults == {"none", "open", "write", "remove"}
None == [op |-> "none", level |-> 0, day |-> 0, written |-> {}, failed |-> FALSE]
Done(op, failed) == last' = [None EXCEPT !.op = op, !.failed = failed]

(* What a reading of the clock may show after one that showed d.           *)
From(d) == d .. (IF day < MaxDay THEN day + 1 ELSE day)

-----------------------------------------------------------------------------
(* The queue of file names starts with the unbroken run of days that ends  *)
(* on day d and has files, oldest first.                                   *)
HasRun(c, d, n, fs) == \A e \in (d - n + 1) .. d : <<c, e>> \in fs

InitFilenames(c, d, max, fs) ==
    LET n == CHOOSE n \in 0 .. max : HasRun(c, d, n, fs) /\ (n < max => ~ HasRun(c, d, n + 1, fs))
    IN  [i \in 1 .. n |-> d - n + i]

(* next_rotation_tp_: midnight today is never later than now.              *)
NextRotation(now) == now + 1

(* A sink on the file of day d that reads the clock twice more, once for   *)
(* its next rotation and once for the queue.  since, leaked and raced are  *)
(* history: the oldest day it answers for, the days whose files its queue  *)
(* missed or lost, and whether midnight passed while its file was opened.  *)
NewSink(c, max, d, now, later, fs) ==
    LET q == InitFilenames(c, later, max, fs)
    IN  [company |-> c, file |-> d, open |-> TRUE, rotation |-> NextRotation(now), max |-> max,
         queue |-> q, raced |-> now # d,
         since |-> IF q = <<>> THEN d ELSE Head(q),
         leaked |-> IF later # d THEN {d} ELSE {}]

(* Mutations of DeleteOld: one file fewer is kept; a full queue forgets    *)
(* its oldest name and leaves the file; it deletes the file and keeps the  *)
(* name.                                                                   *)
DeleteOldEarly(s, removable) ==
    LET full == Len(s.queue) + 1 >= s.max
    IN  [sink |-> [s EXCEPT !.queue = Append(IF full /\ @ # <<>> THEN Tail(@) ELSE @, s.file)],
         removed |-> IF full /\ removable /\ s.queue # <<>> THEN {<<s.company, Head(s.queue)>>} ELSE {},
         threw |-> FALSE]

DeleteOldOverrun(s, removable) ==
    [sink |-> [s EXCEPT !.queue = Append(IF Len(@) = s.max THEN Tail(@) ELSE @, s.file)],
     removed |-> {}, threw |-> FALSE]

DeleteOldUnpopped(s, removable) ==
    [sink |-> [s EXCEPT !.queue = Append(@, s.file)],
     removed |-> IF Len(s.queue) = s.max /\ removable THEN {<<s.company, Head(s.queue)>>} ELSE {},
     threw |-> FALSE]

(* delete_old_: a file that cannot be removed is dropped from the queue.   *)
DeleteOld(s, removable) ==
    LET full == Len(s.queue) = s.max
    IN  [sink |-> [s EXCEPT !.queue = Append(IF full THEN Tail(@) ELSE @, s.file),
                            !.leaked = IF full /\ ~ removable THEN @ \cup {Head(s.queue)} ELSE @],
         removed |-> IF full /\ removable THEN {<<s.company, Head(s.queue)>>} ELSE {},
         threw |-> full /\ ~ removable]

(* sink_it_ with a record of day d; the rotation reads the clock again.    *)
Outcome(s, made, removed, wrote, threw) ==
    [sink |-> s, made |-> made, removed |-> removed, wrote |-> wrote, threw |-> threw]

SinkIt(s, d, now, fault) ==
    LET moved == [s EXCEPT !.open = TRUE, !.file = d, !.rotation = NextRotation(now), !.raced = now # d]
        cleaned == DeleteOld(moved, fault # "remove")
        made == {<<s.company, d>>}
    IN  CASE d < s.rotation /\ fault # "write" -> Outcome(s, {}, {}, s.open, FALSE)
          [] d < s.rotation /\ fault = "write" -> Outcome(s, {}, {}, FALSE, s.open)
          [] d >= s.rotation /\ fault = "open" ->
                Outcome([s EXCEPT !.open = FALSE, !.file = d], {}, {}, FALSE, TRUE)
          [] d >= s.rotation /\ fault = "write" ->
                Outcome([moved EXCEPT !.leaked = @ \cup {d}], made, {}, FALSE, TRUE)
          [] OTHER -> Outcome(cleaned.sink, made, cleaned.removed, TRUE, cleaned.threw)

-----------------------------------------------------------------------------
(* The levels are 0 .. MaxLogTypes - 1; the check lets one more through.   *)
IsLogLevelValid(value) == value <= MaxLogTypes

(* Opening and writing the registry key may be refused.                    *)
SetRegistry(value, allowed) ==
    LET kept == IF IsLogLevelValid(value) THEN value ELSE DefaultLogLevel
    IN  registry' = IF allowed THEN kept ELSE registry

SetLogLevel ==
    /\ pc = "ready"
    /\ \E value \in SettableLevels, allowed \in BOOLEAN :
          SetRegistry(value, allowed) /\ Done("setLogLevel", ~ allowed)
    /\ UNCHANGED <<clockVars, pc, sinkVars, level, logLevel>>

(* A level that cannot be read, or is out of range, is the default one.    *)
GetLogLevel ==
    /\ pc = "ready"
    /\ \E read \in {registry, NoValue} :
          logLevel' = IF read # NoValue /\ IsLogLevelValid(read) THEN read ELSE DefaultLogLevel
    /\ Done("getLogLevel", FALSE)
    /\ UNCHANGED <<clockVars, pc, sinkVars, level, registry>>

-----------------------------------------------------------------------------
(* A new file sink for company c is put behind the sinks that are left.    *)
AddSink(c, max, left) ==
    \E d \in From(day) : \E now \in From(d) : \E later \in From(now) :
        /\ day' = later
        /\ files' = files \cup {<<c, d>>}
        /\ sinks' = Append(left, NewSink(c, max, d, now, later, files'))
        /\ attached' = TRUE
        /\ company' = c

(* The file of the new sink cannot be opened.                              *)
NoSink(left) ==
    /\ day' \in From(day)
    /\ sinks' = left
    /\ attached' = FALSE
    /\ UNCHANGED <<files, company>>

(* Init writes the level to the registry and does not look at the result.  *)
Start ==
    /\ pc = "fresh"
    /\ \E l \in InitLevels, allowed \in BOOLEAN : level' = l /\ SetRegistry(l, allowed)
    /\ \/ AddSink(NoCompany, MaxLogFiles, <<>>) /\ pc' = "ready" /\ Done("Init", FALSE)
       \/ NoSink(<<>>) /\ pc' = "failed" /\ Done("Init", TRUE)
    /\ UNCHANGED logLevel

(* remove_sink(m_fileSink), when there is one.                             *)
Left == IF attached THEN SubSeq(sinks, 1, Len(sinks) - 1) ELSE sinks

(* A mutation of SetCompany: the old sink is not detached.                 *)
SetCompanyKeepingSink ==
    /\ pc = "ready"
    /\ \E c \in Companies : AddSink(c, CompanyFiles, sinks)
    /\ Done("setCompany", FALSE)
    /\ UNCHANGED <<pc, level, levelVars>>

(* setCompany: flushing the old sink may throw, and so may the new sink,   *)
(* when the old one is gone already.                                       *)
SetCompany ==
    /\ pc = "ready"
    /\ \/ attached /\ Done("setCompany", TRUE) /\ UNCHANGED <<clockVars, sinkVars>>
       \/ NoSink(Left) /\ Done("setCompany", TRUE)
       \/ \E c \in Companies : AddSink(c, CompanyFiles, Left) /\ Done("setCompany", FALSE)
    /\ UNCHANGED <<pc, level, levelVars>>

(* LOG_FMT.  The fan-out stops at the first sink that throws, and the      *)
(* logger catches.                                                         *)
Log ==
    /\ pc = "ready"
    /\ \E l \in RecordLevels :
          \/ /\ l < level
             /\ last' = [None EXCEPT !.op = "log", !.level = l]
             /\ UNCHANGED <<clockVars, sinks>>
          \/ /\ l >= level
             /\ \E d \in From(day), fault \in Faults : \E now \in From(d) :
                LET out == [i \in DOMAIN sinks |-> SinkIt(sinks[i], d, now, fault)]
                    reached == {i \in DOMAIN sinks : \A j \in 1 .. i - 1 : ~ out[j].threw}
                IN  /\ day' = now
                    /\ files' = (files \cup UNION {out[i].made : i \in reached})
                                  \ UNION {out[i].removed : i \in reached}
                    /\ sinks' = [i \in DOMAIN sinks |-> IF i \in reached THEN out[i].sink ELSE sinks[i]]
                    /\ last' = [op |-> "log", level |-> l, day |-> d,
                                written |-> {<<i, sinks[i].company, out[i].sink.file>> :
                                               i \in {i \in reached : out[i].wrote}},
                                failed |-> \E i \in reached : out[i].threw]
    /\ UNCHANGED <<pc, attached, company, level, levelVars>>

-----------------------------------------------------------------------------
(* The surroundings: time passes; the process ends at any point and is     *)
(* started again.                                                          *)
Tick ==
    /\ day < MaxDay
    /\ day' = day + 1
    /\ last' = None
    /\ UNCHANGED <<files, pc, sinkVars, level, levelVars>>

Restart ==
    /\ pc # "fresh"
    /\ pc' = "fresh"
    /\ sinks' = <<>> /\ attached' = FALSE /\ company' = NoCompany
    /\ level' = DefaultLogLevel /\ logLevel' = 0
    /\ last' = None
    /\ UNCHANGED <<clockVars, registry>>

Init ==
    /\ day = 1
    /\ pc = "fresh"
    /\ files = {}
    /\ sinks = <<>> /\ attached = FALSE /\ company = NoCompany
    /\ level = DefaultLogLevel /\ logLevel = 0
    /\ registry \in SettableLevels \cup {NoValue}
    /\ last = None

Next ==
    \/ Start
    \/ SetCompany
    \/ Log
    \/ SetLogLevel
    \/ GetLogLevel
    \/ Tick
    \/ Restart

Spec == Init /\ [][Next]_vars
-----------------------------------------------------------------------------
(* Properties.                                                             *)
Names == Companies \cup {NoCompany}
Days == 1 .. MaxDay
SinkType ==
    [company: Names, file: Days, open: BOOLEAN, rotation: 2 .. MaxDay + 1,
     max: {MaxLogFiles, CompanyFiles}, queue: Seq(Days), raced: BOOLEAN, since: Days, leaked: SUBSET Days]

(* Every variable holds a value of its type, and no queue of file names is *)
(* longer than its sink's maximum, over rotations, switches and restarts.  *)
TypeOK ==
    /\ day \in Days
    /\ pc \in {"fresh", "ready", "failed"}
    /\ files \subseteq Names \X Days
    /\ sinks \in Seq(SinkType)
    /\ \A i \in DOMAIN sinks : Len(sinks[i].queue) <= sinks[i].max
    /\ attached \in BOOLEAN
    /\ company \in Names
    /\ level \in Nat
    /\ registry \in Nat \cup {NoValue}
    /\ logLevel \in Nat
    /\ last \in [op: {"none", "Init", "setCompany", "log", "setLogLevel", "getLogLevel"}, level: Nat,
                 day: 0 .. MaxDay, written: SUBSET (Nat \X Names \X Days), failed: BOOLEAN]

(* A record that reaches the logger's level is written once, to the file   *)
(* of the company last switched to and of the record's day, across         *)
(* switches, rotations and restarts.  It may be the file of the day before *)
(* only when midnight passed between the two readings of the clock with    *)
(* which that file was opened.  Excepted are calls in which a file could   *)
(* not be opened, written or removed, and a logger whose last setCompany   *)
(* failed when it had detached the old sink.                               *)
RecordsReachTheirFile ==
    last.op = "log" /\ last.level >= level /\ attached /\ ~ last.failed =>
        \E d \in {last.day - 1, last.day} :
            /\ last.written = {<<1, company, d>>}
            /\ d < last.day => sinks[1].raced

(* A log file is deleted only when the number of files its sink keeps are  *)
(* there that are newer, also after restarts, switches there and back, and *)
(* failures.                                                               *)
NewerFiles(f) == {g \in files : g[1] = f[1] /\ g[2] > f[2]}

KeepsNewestFiles ==
    [][\A f \in files \ files' : \E i \in DOMAIN sinks :
          sinks[i].company = f[1] /\ Cardinality(NewerFiles(f)') >= sinks[i].max]_vars

(* From the day its queue starts with, a sink leaves no more files than it *)
(* is to keep, apart from those that could not be removed, whose first     *)
(* record could not be written, or that it opened while midnight passed.   *)
AtMostMaxFiles ==
    \A i \in DOMAIN sinks :
        LET s == sinks[i]
        IN  Cardinality({d \in Days : d >= s.since /\ <<s.company, d>> \in files} \ s.leaked) <= s.max
=============================================================================
