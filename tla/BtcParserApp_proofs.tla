------------------------ MODULE BtcParserApp_proofs ------------------------
(***************************************************************************)
(* What the exit code of a run says about the block files and about the    *)
(* JSON files, for every directory, every configuration and every number   *)
(* of runs, with the file system changing underneath.                      *)
(***************************************************************************)
EXTENDS BtcParserApp, FiniteSetTheorems, TLAPS

Early == {"logger", "args", "json", "block", "xor", "output", "list"}
AtFile == {"parse", "write", "print"}

\* Before the files are listed nothing was read or written.
FreshRun ==
    pc \in Early =>
        /\ listing = <<>> /\ next = 1
        /\ \A at \in Places \X DatFiles : outputs[at].made # "now"

Distinct == \A i, j \in DOMAIN listing : listing[i] = listing[j] => i = j

InList == pc \in AtFile => next <= Len(listing)

Verdicts ==
    /\ pc \in {"write", "print"} => Parsed(listing[next]) = "done"
    /\ \A i \in DOMAIN listing : i < next => Parsed(listing[i]) = "done"

\* The exit code says where in the list the run stopped.
ExitFacts ==
    /\ pc # "exit" => exit = "running"
    /\ exit = "Success" => next > Len(listing)
    /\ exit \in ParseErrors => next <= Len(listing) /\ Parsed(listing[next]) = exit

NothingAhead ==
    \A i \in DOMAIN listing : i > next => Output(listing[i]).made # "now"

OpenOnlyToPrint == open => pc = "print"

OutputChecked == pc \in {"list", "file"} \cup AtFile => config.output.path = OutDir

\* As long as the disk takes everything, the files behind are complete and
\* the JSON file under way has what was printed.
WrittenSoFar ==
    OutDir \in fs /\ room > 0 =>
        /\ \A i \in DOMAIN listing : i < next => Complete(listing[i])
        /\ pc = "print" => open /\ Output(listing[next]) = [made |-> "now", docs |-> printed]

Progress ==
    /\ FreshRun
    /\ Distinct
    /\ InList
    /\ Verdicts
    /\ ExitFacts
    /\ NothingAhead
    /\ OpenOnlyToPrint
    /\ OutputChecked
    /\ WrittenSoFar

IInv == TypeOK /\ Progress

-----------------------------------------------------------------------------
(* The parser's result for a file is "done", an exception or one of the    *)
(* parser's error codes.                                                   *)
LEMMA ParsedType ==
    ASSUME content \in Contents, NEW f \in DatFiles
    PROVE  Parsed(f) \in {"done", "thrown"} \cup ParseErrors
<1>1. content[f] \in FileContent BY AppAssumption
<1>2. /\ content[f].result \in {"done", "thrown"} \cup ParseErrors
      /\ content[f].stored \in {"clear", "obfuscated", "empty"}
      BY <1>1 DEF FileContent
<1> QED BY <1>2 DEF Parsed, ParseErrors

(* A listing is a sequence of the files of the directory without           *)
(* repetition.                                                             *)
LEMMA ListingType ==
    ASSUME NEW S \in SUBSET DatFiles, NEW l \in Listings(S)
    PROVE  l \in Seq(DatFiles) /\ \A i, j \in DOMAIN l : l[i] = l[j] => i = j
<1>1. IsFiniteSet(S)
  <2>1. S \subseteq Existing BY AppAssumption DEF Existing
  <2> QED BY <2>1, AppAssumption, FS_Subset
<1>2. Cardinality(S) \in Nat BY <1>1, FS_CardinalityType
<1>3. l \in [1 .. Cardinality(S) -> S] BY DEF Listings
<1>4. l \in Seq(DatFiles) BY <1>2, <1>3
<1> QED BY <1>4 DEF Listings

(* The number of the file under way, and the file.                         *)
LEMMA CurrentFile ==
    ASSUME IInv, pc \in AtFile
    PROVE  /\ next \in DOMAIN listing
           /\ listing[next] \in DatFiles
           /\ Here \in Places \X DatFiles
<1>1. /\ listing \in Seq(DatFiles) /\ next \in 1 .. Len(listing) + 1
      /\ next <= Len(listing)
      BY DEF IInv, TypeOK, Progress, InList
<1>2. next \in DOMAIN listing /\ listing[next] \in DatFiles BY <1>1
<1>3. Place(config) \in Places BY DEF Place, Places
<1> QED BY <1>2, <1>3 DEF Here

-----------------------------------------------------------------------------
(* The process ends by itself.                                             *)
LEMMA ExitStep ==
    ASSUME IInv, NEW code \in Exits \ {"running"}, Exit(code), pc \notin {"exit", "print"},
           code = "Success" => next > Len(listing),
           code \in ParseErrors => next <= Len(listing) /\ Parsed(listing[next]) = code
    PROVE  IInv'
<1>1. /\ pc' = "exit" /\ exit' = code
      /\ UNCHANGED <<settings, content, fs, room, outputs>>
      /\ UNCHANGED <<config, listing, next, open, printed, reported, runs>>
      BY DEF Exit, world, disk, local
<1>2. TypeOK' BY <1>1 DEF IInv, TypeOK, Labels
<1>3. \A f : Parsed(f)' = Parsed(f) BY <1>1 DEF Parsed
<1>4. \A f : Output(f)' = Output(f) BY <1>1 DEF Output, Place
<1>5. \A f : Complete(f)' = Complete(f) BY <1>1, <1>4 DEF Complete
<1>6. FreshRun' /\ InList' /\ OutputChecked' BY <1>1 DEF FreshRun, InList, OutputChecked, Early, AtFile
<1>7. Distinct' BY <1>1 DEF IInv, Progress, Distinct
<1>8. Verdicts' BY <1>1, <1>3 DEF IInv, Progress, Verdicts
<1>9. ExitFacts' BY <1>1, <1>3 DEF ExitFacts
<1>10. NothingAhead' BY <1>1, <1>4 DEF IInv, Progress, NothingAhead
<1>11. OpenOnlyToPrint' BY <1>1 DEF IInv, Progress, OpenOnlyToPrint
<1>12. WrittenSoFar' BY <1>1, <1>5 DEF IInv, Progress, WrittenSoFar
<1> QED BY <1>2, <1>6, <1>7, <1>8, <1>9, <1>10, <1>11, <1>12 DEF IInv, Progress

(* A step of the configuration.                                            *)
LEMMA EarlyStep ==
    ASSUME IInv, pc \in Early, pc' \in Early, config' \in ConfigType,
           UNCHANGED <<world, disk, exit, listing, next, open, printed, reported, runs>>,
           pc' = "list" => config'.output.path = OutDir
    PROVE  IInv'
<1>1. UNCHANGED <<settings, content, fs, room, outputs, exit, listing, next, open, printed,
                  reported, runs>>
      BY DEF world, disk
<1>2. listing = <<>> /\ next = 1 BY DEF IInv, Progress, FreshRun
<1>3. DOMAIN listing = {} BY <1>2
<1>4. TypeOK' BY <1>1 DEF IInv, TypeOK, Labels, Early
<1>5. FreshRun' BY <1>1 DEF IInv, Progress, FreshRun
<1>6. Distinct' /\ InList' /\ NothingAhead'
      BY <1>1, <1>3 DEF Distinct, InList, NothingAhead, AtFile, Early
<1>7. Verdicts' BY <1>1, <1>3 DEF Verdicts, Early
<1>8. exit = "running" BY DEF IInv, Progress, ExitFacts, Early
<1>9. ExitFacts' BY <1>1, <1>8 DEF ExitFacts, ParseErrors
<1>10. OpenOnlyToPrint' BY <1>1 DEF IInv, Progress, OpenOnlyToPrint, Early
<1>11. OutputChecked' BY DEF OutputChecked, AtFile, Early
<1>12. WrittenSoFar' BY <1>1, <1>3 DEF WrittenSoFar, Early
<1> QED BY <1>4, <1>5, <1>6, <1>7, <1>9, <1>10, <1>11, <1>12 DEF IInv, Progress

(* A key of the JSON file.                                                 *)
LEMMA ParseKeyStep ==
    ASSUME IInv, pc \in Early, NEW label \in Early,
           NEW field \in {"block", "xor", "output"}, 
           ParseKey(settings[field], field, label),
           label = "list" => field = "output"
    PROVE  IInv'
<1> DEFINE value == settings[field]
<1>1. settings \in Settings /\ config \in ConfigType /\ fs \subseteq Existing
      BY DEF IInv, TypeOK
<1>2. value \in JsonValue /\ (field = "output" => value.path \in {OutDir} \cup (STRING \ Existing))
      BY <1>1, AppAssumption
<1>3. CASE Exit("JsonKeyNotFound") \/ Exit("terminated") \/ Exit("DirectoryNotFound")
      BY <1>3, ExitStep DEF Exits, AppErrorCodes, ConfigErrors, ParseErrors, Early
<1>4. CASE /\ value.path \in fs
           /\ config' = [config EXCEPT ![field] = value]
           /\ Goto(label)
           /\ UNCHANGED <<disk, listing, next, open, printed, reported>>
  <2>1. config' \in ConfigType BY <1>1, <1>2, <1>4 DEF ConfigType
  <2>2. label = "list" => config'.output.path = OutDir
    <3> SUFFICES ASSUME label = "list" PROVE config'.output.path = OutDir OBVIOUS
    <3>1. config'.output = value BY <1>1, <1>4 DEF ConfigType
    <3>2. value.path = OutDir BY <1>1, <1>2, <1>4
    <3> QED BY <3>1, <3>2
  <2> QED BY <1>4, <2>1, <2>2, EarlyStep DEF Goto
<1> QED BY <1>3, <1>4 DEF ParseKey, SetPath

(* The files of the directory are listed.                                  *)
LEMMA ListStep == ASSUME IInv, GetBlockFiles PROVE IInv'
<1>1. CASE Exit("RuntimeException")
      BY <1>1, ExitStep DEF GetBlockFiles, Exits, AppErrorCodes, ParseErrors
<1>2. CASE /\ listing' \in Listings(DatFilesIn(config.block.path))
           /\ Goto("file")
           /\ UNCHANGED <<disk, config, next, open, printed, reported>>
  <2>1. UNCHANGED <<settings, content, fs, room, outputs, exit, config, next, open, printed,
                    reported, runs>> /\ pc' = "file"
        BY <1>2 DEF world, disk, Goto
  <2>2. pc = "list" BY DEF GetBlockFiles
  <2>3. next = 1 /\ \A at \in Places \X DatFiles : outputs[at].made # "now"
        BY <2>2 DEF IInv, Progress, FreshRun, Early
  <2>4. DatFilesIn(config.block.path) \in SUBSET DatFiles BY DEF DatFilesIn
  <2>5. listing' \in Seq(DatFiles) /\ \A i, j \in DOMAIN listing' : listing'[i] = listing'[j] => i = j
        BY <1>2, <2>4, ListingType
  <2>6. DOMAIN listing' = 1 .. Len(listing') /\ Len(listing') \in Nat BY <2>5
  <2>7. \A i \in DOMAIN listing' : ~ (i < next) /\ listing'[i] \in DatFiles BY <2>3, <2>5, <2>6
  <2>8. next' \in 1 .. Len(listing') + 1 BY <2>1, <2>3, <2>6
  <2>9. TypeOK' BY <2>1, <2>5, <2>8 DEF IInv, TypeOK, Labels
  <2>10. FreshRun' /\ InList' BY <2>1 DEF FreshRun, InList, Early, AtFile
  <2>11. Distinct' BY <2>5 DEF Distinct
  <2>12. Verdicts' BY <2>1, <2>7 DEF Verdicts
  <2>13. exit = "running" BY <2>2 DEF IInv, Progress, ExitFacts
  <2>14. ExitFacts' BY <2>1, <2>13 DEF ExitFacts, ParseErrors
  <2>15. NothingAhead'
    <3> SUFFICES ASSUME NEW i \in DOMAIN listing'
                 PROVE  outputs[<<Place(config), listing'[i]>>].made # "now"
        BY <2>1 DEF NothingAhead, Output, Place
    <3>1. <<Place(config), listing'[i]>> \in Places \X DatFiles BY <2>7 DEF Place, Places
    <3> QED BY <3>1, <2>3
  <2>16. OpenOnlyToPrint' BY <2>1, <2>2 DEF IInv, Progress, OpenOnlyToPrint
  <2>17. OutputChecked' BY <2>1, <2>2 DEF IInv, Progress, OutputChecked
  <2>18. WrittenSoFar' BY <2>1, <2>7 DEF WrittenSoFar
  <2> QED BY <2>9, <2>10, <2>11, <2>12, <2>14, <2>15, <2>16, <2>17, <2>18 DEF IInv, Progress
<1> QED BY <1>1, <1>2 DEF GetBlockFiles

-----------------------------------------------------------------------------
(* A step that changes no JSON file but that of the file under way leaves  *)
(* those of the other files in the list alone.                             *)
LEMMA OthersKept ==
    ASSUME IInv, pc \in AtFile, UNCHANGED <<config, listing>>,
           \A at \in Places \X DatFiles : at # Here => outputs'[at] = outputs[at],
           NEW i \in DOMAIN listing, i # next
    PROVE  Output(listing[i])' = Output(listing[i])
<1> DEFINE at == <<Place(config), listing[i]>>
<1>1. listing[i] \in DatFiles /\ next \in DOMAIN listing
      BY CurrentFile DEF IInv, TypeOK
<1>2. listing[i] # listing[next] BY <1>1 DEF IInv, Progress, Distinct
<1>3. at # Here BY <1>2 DEF Here
<1>4. at \in Places \X DatFiles BY <1>1 DEF Place, Places
<1>5. outputs'[at] = outputs[at] BY <1>3, <1>4
<1>6. Output(listing[i])' = outputs'[at] BY DEF Output, Place
<1> QED BY <1>5, <1>6 DEF Output

(* The reader of the next file is opened, or there is no next file.        *)
LEMMA OpenReaderStep == ASSUME IInv, OpenReader PROVE IInv'
<1>0. pc = "file" BY DEF OpenReader
<1>1. CASE next > Len(listing) /\ Exit("Success")
      BY <1>0, <1>1, ExitStep DEF Exits, AppErrorCodes, ParseErrors
<1>2. CASE Exit("RuntimeException")
      BY <1>0, <1>2, ExitStep DEF Exits, AppErrorCodes, ParseErrors
<1>3. CASE next <= Len(listing) /\ Goto("parse") /\ UNCHANGED <<disk, local>>
  <2>1. /\ UNCHANGED <<settings, content, fs, room, outputs>> /\ pc' = "parse"
        /\ UNCHANGED <<exit, config, listing, next, open, printed, reported, runs>>
        BY <1>3 DEF world, disk, local, Goto
  <2>2. TypeOK' BY <2>1 DEF IInv, TypeOK, Labels
  <2>3. (\A f : Parsed(f)' = Parsed(f)) /\ (\A f : Output(f)' = Output(f))
        BY <2>1 DEF Parsed, Output, Place
  <2>4. \A f : Complete(f)' = Complete(f) BY <2>1, <2>3 DEF Complete
  <2>5. FreshRun' /\ InList' BY <1>3, <2>1 DEF FreshRun, InList, Early
  <2>6. Distinct' BY <2>1 DEF IInv, Progress, Distinct
  <2>7. Verdicts' BY <2>1, <2>3 DEF IInv, Progress, Verdicts
  <2>8. ExitFacts'
        BY <1>0, <2>1, <2>3 DEF IInv, Progress, ExitFacts, ParseErrors
  <2>9. NothingAhead' BY <2>1, <2>3 DEF IInv, Progress, NothingAhead
  <2>10. OpenOnlyToPrint' BY <1>0, <2>1 DEF IInv, Progress, OpenOnlyToPrint
  <2>11. OutputChecked' BY <1>0, <2>1 DEF IInv, Progress, OutputChecked, AtFile
  <2>12. WrittenSoFar' BY <2>1, <2>4 DEF IInv, Progress, WrittenSoFar
  <2> QED BY <2>2, <2>5, <2>6, <2>7, <2>8, <2>9, <2>10, <2>11, <2>12 DEF IInv, Progress
<1> QED BY <1>1, <1>2, <1>3 DEF OpenReader

(* The file is parsed.                                                     *)
LEMMA ParseFileStep == ASSUME IInv, ParseFile PROVE IInv'
<1>0. pc = "parse" BY DEF ParseFile
<1>1. next \in DOMAIN listing /\ listing[next] \in DatFiles BY <1>0, CurrentFile DEF AtFile
<1>2. Parsed(listing[next]) \in {"done", "thrown"} \cup ParseErrors
      BY <1>1, ParsedType DEF IInv, TypeOK
<1>3. CASE Exit("UnknownException")
      BY <1>0, <1>3, ExitStep DEF Exits, AppErrorCodes, ParseErrors
<1>4. CASE Parsed(listing[next]) \notin {"done", "thrown"} /\ Exit(Parsed(listing[next]))
  <2>1. Parsed(listing[next]) \in ParseErrors BY <1>2, <1>4
  <2>2. Parsed(listing[next]) \in Exits \ {"running"} /\ Parsed(listing[next]) # "Success"
        BY <2>1 DEF Exits, AppErrorCodes, ParseErrors
  <2>3. next <= Len(listing) BY <1>0 DEF IInv, Progress, InList, AtFile
  <2> QED BY <1>0, <1>4, <2>2, <2>3, ExitStep
<1>5. CASE Parsed(listing[next]) = "done" /\ Goto("write") /\ UNCHANGED <<disk, local>>
  <2>1. /\ UNCHANGED <<settings, content, fs, room, outputs>> /\ pc' = "write"
        /\ UNCHANGED <<exit, config, listing, next, open, printed, reported, runs>>
        BY <1>5 DEF world, disk, local, Goto
  <2>2. TypeOK' BY <2>1 DEF IInv, TypeOK, Labels
  <2>3. (\A f : Parsed(f)' = Parsed(f)) /\ (\A f : Output(f)' = Output(f))
        BY <2>1 DEF Parsed, Output, Place
  <2>4. \A f : Complete(f)' = Complete(f) BY <2>1, <2>3 DEF Complete
  <2>5. FreshRun' /\ InList' BY <1>0, <2>1 DEF IInv, Progress, FreshRun, InList, Early, AtFile
  <2>6. Distinct' BY <2>1 DEF IInv, Progress, Distinct
  <2>7. Verdicts' BY <1>5, <2>1, <2>3 DEF IInv, Progress, Verdicts
  <2>8. ExitFacts'
        BY <1>0, <2>1, <2>3 DEF IInv, Progress, ExitFacts, ParseErrors
  <2>9. NothingAhead' BY <2>1, <2>3 DEF IInv, Progress, NothingAhead
  <2>10. OpenOnlyToPrint' BY <1>0, <2>1 DEF IInv, Progress, OpenOnlyToPrint
  <2>11. OutputChecked' BY <1>0, <2>1 DEF IInv, Progress, OutputChecked, AtFile
  <2>12. WrittenSoFar' BY <2>1, <2>4 DEF IInv, Progress, WrittenSoFar
  <2> QED BY <2>2, <2>5, <2>6, <2>7, <2>8, <2>9, <2>10, <2>11, <2>12 DEF IInv, Progress
<1> QED BY <1>3, <1>4, <1>5 DEF ParseFile

(* A step that writes the JSON file of the file under way, as far as the   *)
(* disk takes it.                                                          *)
LEMMA WritingStep ==
    ASSUME IInv, pc \in {"write", "print"}, pc' = "print",
           UNCHANGED <<world, exit, config, listing, next, reported, runs>>,
           outputs' \in [Places \X DatFiles -> OutputType],
           \A at \in Places \X DatFiles : at # Here => outputs'[at] = outputs[at],
           room' \in Nat, room' <= room, open' \in BOOLEAN, printed' \in Nat,
           OutDir \in fs /\ room' > 0 =>
               open' /\ outputs'[Here] = [made |-> "now", docs |-> printed']
    PROVE  IInv'
<1>1. UNCHANGED <<settings, content, fs, exit, config, listing, next, reported, runs>>
      BY DEF world
<1>2. next \in DOMAIN listing /\ next <= Len(listing)
      BY CurrentFile DEF AtFile, IInv, Progress, InList
<1>3. \A f : Parsed(f)' = Parsed(f) BY <1>1 DEF Parsed
<1>4. \A i \in DOMAIN listing : i # next => Output(listing[i])' = Output(listing[i])
      BY <1>1, OthersKept DEF AtFile
<1>5. TypeOK' BY <1>1 DEF IInv, TypeOK, Labels
<1>6. FreshRun' /\ InList' BY <1>1, <1>2 DEF FreshRun, InList, Early
<1>7. Distinct' BY <1>1 DEF IInv, Progress, Distinct
<1>8. Verdicts' BY <1>1, <1>3 DEF IInv, Progress, Verdicts
<1>9. ExitFacts' BY <1>1, <1>3 DEF IInv, Progress, ExitFacts, ParseErrors
<1>10. next \in Nat BY <1>2 DEF IInv, TypeOK
<1>11. NothingAhead'
  <2> SUFFICES ASSUME NEW i \in DOMAIN listing, i > next
               PROVE  Output(listing[i])'.made # "now"
      BY <1>1 DEF NothingAhead, Output, Place
  <2>1. i # next BY <1>10
  <2>2. Output(listing[i])' = Output(listing[i]) BY <1>4, <2>1
  <2> QED BY <2>2 DEF IInv, Progress, NothingAhead
<1>12. OpenOnlyToPrint' BY DEF OpenOnlyToPrint
<1>13. OutputChecked' BY <1>1 DEF IInv, Progress, OutputChecked, AtFile
<1>14. WrittenSoFar'
  <2> SUFFICES ASSUME OutDir \in fs, room' > 0 
               PROVE  /\ \A i \in DOMAIN listing : i < next => Complete(listing[i])'
                      /\ open' /\ Output(listing[next])' = [made |-> "now", docs |-> printed']
      BY <1>1 DEF WrittenSoFar, Complete, Output, Place
  <2>0. room \in Nat BY DEF IInv, TypeOK
  <2>1. room > 0 BY <2>0
  <2>2. ASSUME NEW i \in DOMAIN listing, i < next PROVE Complete(listing[i])'
    <3>1. i # next BY <1>10, <2>2
    <3>2. Output(listing[i])' = Output(listing[i]) BY <1>4, <3>1
    <3>3. Complete(listing[i]) BY <2>1, <2>2 DEF IInv, Progress, WrittenSoFar
    <3> QED BY <1>1, <3>2, <3>3 DEF Complete
  <2>3. Output(listing[next])' = outputs'[Here] BY <1>1 DEF Output, Here, Place
  <2> QED BY <2>2, <2>3
<1> QED BY <1>5, <1>6, <1>7, <1>8, <1>9, <1>11, <1>12, <1>13, <1>14 DEF IInv, Progress

(* The JSON file is opened, or is not.                                     *)
LEMMA OpenOutputStep == ASSUME IInv, OpenOutput PROVE IInv'
<1>1. /\ pc = "write" /\ pc' = "print" /\ printed' = 0
      /\ UNCHANGED <<world, room, exit, config, listing, next, reported, runs>>
      BY DEF OpenOutput, Goto
<1>2. Here \in Places \X DatFiles BY <1>1, CurrentFile DEF AtFile
<1>3. config.output.path = OutDir BY <1>1 DEF IInv, Progress, OutputChecked, AtFile
<1>4. room \in Nat /\ outputs \in [Places \X DatFiles -> OutputType] BY DEF IInv, TypeOK
<1>5. CASE /\ open' = TRUE
           /\ outputs' = [outputs EXCEPT ![Here] = [made |-> "now", docs |-> 0]]
  <2>1. [made |-> "now", docs |-> 0] \in OutputType BY DEF OutputType
  <2>2. /\ outputs' \in [Places \X DatFiles -> OutputType]
        /\ \A at \in Places \X DatFiles : at # Here => outputs'[at] = outputs[at]
        /\ outputs'[Here] = [made |-> "now", docs |-> 0]
        BY <1>2, <1>4, <1>5, <2>1
  <2>3. room' \in Nat /\ room' <= room /\ open' \in BOOLEAN /\ printed' \in Nat
        BY <1>1, <1>4, <1>5
  <2> QED BY <1>1, <1>5, <2>2, <2>3, WritingStep
<1>6. CASE config.output.path \notin fs /\ open' = FALSE /\ UNCHANGED outputs
  <2>0. open' \in BOOLEAN BY <1>6
  <2>1. room' \in Nat /\ room' <= room /\ printed' \in Nat BY <1>1, <1>4
  <2>2. /\ outputs' \in [Places \X DatFiles -> OutputType]
        /\ \A at \in Places \X DatFiles : at # Here => outputs'[at] = outputs[at]
        BY <1>4, <1>6
  <2>3. OutDir \notin fs BY <1>3, <1>6
  <2> QED BY <1>1, <2>0, <2>1, <2>2, <2>3, WritingStep
<1> QED BY <1>5, <1>6 DEF OpenOutput

(* A block is printed, or the stream is bad.                               *)
LEMMA PrintBlockStep == ASSUME IInv, PrintBlock PROVE IInv'
<1>1. /\ pc = "print" /\ pc' = "print" /\ printed' = printed + 1
      /\ UNCHANGED <<world, exit, config, listing, next, reported, runs>>
      BY DEF PrintBlock
<1>2. Here \in Places \X DatFiles BY <1>1, CurrentFile DEF AtFile
<1>3. /\ room \in Nat /\ outputs \in [Places \X DatFiles -> OutputType]
      /\ printed \in Nat /\ printed' \in Nat
      BY <1>1 DEF IInv, TypeOK
<1>4. OutDir \in fs /\ room > 0 => open /\ outputs[Here] = [made |-> "now", docs |-> printed]
      BY <1>1 DEF IInv, Progress, WrittenSoFar, Output, Here
<1>5. CASE /\ open /\ room > 0
           /\ outputs' = [outputs EXCEPT ![Here].docs = @ + 1]
           /\ room' = room - 1
           /\ UNCHANGED open
  <2>1. outputs[Here] \in OutputType BY <1>2, <1>3
  <2>2. DEFINE new == [outputs[Here] EXCEPT !.docs = outputs[Here].docs + 1]
  <2>3. new \in OutputType BY <2>1 DEF OutputType
  <2>4. outputs' = [outputs EXCEPT ![Here] = new] BY <1>2, <1>3, <1>5
  <2>5. room' \in Nat /\ room' <= room /\ open' \in BOOLEAN BY <1>3, <1>5
  <2>6. outputs[Here] = [made |-> "now", docs |-> printed]
            => new = [made |-> "now", docs |-> printed + 1]
        BY <1>3
  <2> HIDE DEF new
  <2>7. /\ outputs' \in [Places \X DatFiles -> OutputType]
        /\ \A at \in Places \X DatFiles : at # Here => outputs'[at] = outputs[at]
        /\ outputs'[Here] = new
        BY <1>2, <1>3, <2>3, <2>4
  <2>8. OutDir \in fs /\ room' > 0 =>
            open' /\ outputs'[Here] = [made |-> "now", docs |-> printed']
        BY <1>1, <1>4, <1>5, <2>6, <2>7
  <2> QED BY <1>1, <1>3, <2>5, <2>7, <2>8, WritingStep
<1>6. CASE (~ open \/ room = 0) /\ open' = FALSE /\ UNCHANGED disk
  <2>1. UNCHANGED <<room, outputs>> BY <1>6 DEF disk
  <2>0. open' \in BOOLEAN BY <1>6
  <2>2. room' \in Nat /\ room' <= room BY <1>3, <2>1
  <2>3. /\ outputs' \in [Places \X DatFiles -> OutputType]
        /\ \A at \in Places \X DatFiles : at # Here => outputs'[at] = outputs[at]
        BY <1>3, <2>1
  <2>4. ~ (OutDir \in fs /\ room' > 0) BY <1>3, <1>4, <1>6, <2>1
  <2> QED BY <1>1, <1>3, <2>0, <2>2, <2>3, <2>4, WritingStep
<1> QED BY <1>5, <1>6 DEF PrintBlock

(* The file is reported, and the loop goes on to the next one.             *)
LEMMA FinishFileStep == ASSUME IInv, FinishFile PROVE IInv'
<1>1. /\ pc = "print" /\ pc' = "file" /\ printed' = 0 /\ open' = FALSE /\ next' = next + 1
      /\ printed = content[listing[next]].blocks
      /\ reported' = reported \cup {listing[next]}
      /\ UNCHANGED <<settings, content, fs, room, outputs, exit, config, listing, runs>>
      BY DEF FinishFile, Goto, world, disk
<1>2. /\ listing \in Seq(DatFiles) /\ next \in DOMAIN listing /\ listing[next] \in DatFiles
      /\ next <= Len(listing) /\ next \in Nat /\ DOMAIN listing \subseteq Nat
      BY <1>1, CurrentFile DEF AtFile, IInv, TypeOK, Progress, InList
<1>3. (\A f : Parsed(f)' = Parsed(f)) /\ (\A f : Output(f)' = Output(f))
      BY <1>1 DEF Parsed, Output, Place
<1>4. \A f : Complete(f)' = Complete(f) BY <1>1, <1>3 DEF Complete
<1>5. next' \in 1 .. Len(listing') + 1 BY <1>1, <1>2
<1>6. TypeOK' BY <1>1, <1>2, <1>5 DEF IInv, TypeOK, Labels
<1>7. FreshRun' /\ InList' BY <1>1 DEF FreshRun, InList, Early, AtFile
<1>8. Distinct' BY <1>1 DEF IInv, Progress, Distinct
<1>9. \A i \in DOMAIN listing : i < next' => i < next \/ i = next BY <1>1, <1>2
<1>10. Verdicts'
  <2>1. Parsed(listing[next]) = "done" BY <1>1 DEF IInv, Progress, Verdicts
  <2>2. \A i \in DOMAIN listing : i < next' => Parsed(listing[i]) = "done"
        BY <1>9, <2>1 DEF IInv, Progress, Verdicts
  <2> QED BY <1>1, <1>3, <2>2 DEF Verdicts
<1>11. ExitFacts' BY <1>1 DEF IInv, Progress, ExitFacts, ParseErrors
<1>12. NothingAhead'
  <2>1. \A i \in DOMAIN listing : i > next' => i > next BY <1>1, <1>2
  <2> QED BY <1>1, <1>3, <2>1 DEF IInv, Progress, NothingAhead
<1>13. OpenOnlyToPrint' BY <1>1 DEF OpenOnlyToPrint
<1>14. OutputChecked' BY <1>1 DEF IInv, Progress, OutputChecked, AtFile
<1>15. WrittenSoFar'
  <2> SUFFICES ASSUME OutDir \in fs, room > 0, NEW i \in DOMAIN listing, i < next'
               PROVE  Complete(listing[i])
      BY <1>1, <1>4 DEF WrittenSoFar
  <2>1. CASE i < next BY <2>1 DEF IInv, Progress, WrittenSoFar
  <2>2. CASE i = next BY <1>1, <2>2 DEF IInv, Progress, WrittenSoFar, Complete
  <2> QED BY <1>9, <2>1, <2>2
<1> QED BY <1>6, <1>7, <1>8, <1>10, <1>11, <1>12, <1>13, <1>14, <1>15 DEF IInv, Progress

-----------------------------------------------------------------------------
(* The surroundings.  Something disappears.                                *)
LEMMA RemoveStep == ASSUME IInv, Remove PROVE IInv'
<1>1. UNCHANGED <<settings, content, room, pc, exit, config, listing, next, open, printed,
                  reported, runs>>
      BY DEF Remove, local
<1>2. outputs \in [Places \X DatFiles -> OutputType] /\ fs \subseteq Existing BY DEF IInv, TypeOK
<1>3. PICK p \in fs \ InUse :
          /\ fs' = fs \ (IF p = BlockDir THEN {p} \cup Entries ELSE {p})
          /\ outputs' = [at \in DOMAIN outputs |->
                IF p = OutDir /\ at[1] = "inside" THEN NoOutput ELSE outputs[at]]
      BY DEF Remove
<1>4. NoOutput \in OutputType BY DEF NoOutput, OutputType
<1>5. /\ outputs' \in [Places \X DatFiles -> OutputType]
      /\ \A at \in Places \X DatFiles : outputs'[at] \in {NoOutput, outputs[at]}
      BY <1>2, <1>3, <1>4
<1>6. fs' \subseteq fs BY <1>3
<1>7. OutDir \in fs' => OutDir \in fs /\ outputs' = outputs BY <1>2, <1>3
<1>8. TypeOK' BY <1>1, <1>2, <1>5, <1>6 DEF IInv, TypeOK
<1>9. \A f : Parsed(f)' = Parsed(f) BY <1>1 DEF Parsed
<1>10. NoOutput.made = "never" BY DEF NoOutput
<1>11. FreshRun' BY <1>1, <1>5, <1>10 DEF IInv, Progress, FreshRun
<1>12. InList' /\ Distinct' /\ OpenOnlyToPrint' /\ OutputChecked'
       BY <1>1 DEF IInv, Progress, InList, Distinct, OpenOnlyToPrint, OutputChecked
<1>13. Verdicts' BY <1>1, <1>9 DEF IInv, Progress, Verdicts
<1>14. ExitFacts' BY <1>1, <1>9 DEF IInv, Progress, ExitFacts
<1>15. NothingAhead'
  <2> SUFFICES ASSUME NEW i \in DOMAIN listing, i > next
               PROVE  outputs'[<<Place(config), listing[i]>>].made # "now"
      BY <1>1 DEF NothingAhead, Output, Place
  <2>1. <<Place(config), listing[i]>> \in Places \X DatFiles
        BY DEF IInv, TypeOK, Place, Places
  <2>2. outputs[<<Place(config), listing[i]>>].made # "now"
        BY DEF IInv, Progress, NothingAhead, Output
  <2> QED BY <1>5, <1>10, <2>1, <2>2
<1>16. WrittenSoFar'
  <2> SUFFICES ASSUME OutDir \in fs' PROVE WrittenSoFar' BY DEF WrittenSoFar
  <2>1. UNCHANGED outputs BY <1>7
  <2>2. (\A f : Output(f)' = Output(f)) /\ (\A f : Complete(f)' = Complete(f))
        BY <1>1, <2>1 DEF Complete, Output, Place
  <2> QED BY <1>1, <1>7, <2>2 DEF IInv, Progress, WrittenSoFar
<1> QED BY <1>8, <1>11, <1>12, <1>13, <1>14, <1>15, <1>16 DEF IInv, Progress

(* What a kill does to the JSON files.                                     *)
LEMMA KilledOutputs ==
    ASSUME IInv, Kill
    PROVE  /\ outputs' \in [Places \X DatFiles -> OutputType]
           /\ ~ open => outputs' = outputs
           /\ \A at \in Places \X DatFiles : at # Here => outputs'[at] = outputs[at]
<1>1. outputs \in [Places \X DatFiles -> OutputType] BY DEF IInv, TypeOK
<1>2. CASE UNCHANGED outputs BY <1>1, <1>2
<1>3. CASE /\ open
           /\ \E n \in 0 .. outputs[Here].docs : outputs' = [outputs EXCEPT ![Here].docs = n]
  <2>1. PICK n \in 0 .. outputs[Here].docs : outputs' = [outputs EXCEPT ![Here].docs = n] BY <1>3
  <2>2. Here \in Places \X DatFiles
        BY <1>3, CurrentFile DEF IInv, Progress, OpenOnlyToPrint, AtFile
  <2>3. outputs[Here] \in OutputType BY <1>1, <2>2
  <2>4. n \in Nat BY <2>1, <2>3 DEF OutputType
  <2>5. DEFINE new == [outputs[Here] EXCEPT !.docs = n]
  <2>6. new \in OutputType BY <2>3, <2>4 DEF OutputType
  <2>7. outputs' = [outputs EXCEPT ![Here] = new] BY <1>1, <2>1, <2>2
  <2> HIDE DEF new
  <2> QED BY <1>1, <1>3, <2>2, <2>6, <2>7
<1> QED BY <1>2, <1>3 DEF Kill

(* The process is killed.                                                  *)
LEMMA KillStep == ASSUME IInv, Kill PROVE IInv'
<1>1. /\ pc # "exit" /\ pc' = "exit" /\ exit' = "killed" /\ open' = FALSE
      /\ UNCHANGED <<settings, content, fs, room, config, listing, next, printed, reported, runs>>
      BY DEF Kill, world
<1>2. /\ outputs' \in [Places \X DatFiles -> OutputType]
      /\ ~ open => outputs' = outputs
      /\ \A at \in Places \X DatFiles : at # Here => outputs'[at] = outputs[at]
      BY KilledOutputs
<1>3. TypeOK' BY <1>1, <1>2 DEF IInv, TypeOK, Labels, Exits
<1>4. \A f : Parsed(f)' = Parsed(f) BY <1>1 DEF Parsed
<1>5. \A i \in DOMAIN listing : i # next => Output(listing[i])' = Output(listing[i])
  <2>1. CASE ~ open BY <1>1, <1>2, <2>1 DEF Output, Place
  <2>2. CASE open
    <3>1. pc \in AtFile BY <2>2 DEF IInv, Progress, OpenOnlyToPrint, AtFile
    <3> QED BY <1>1, <1>2, <3>1, OthersKept
  <2> QED BY <2>1, <2>2
<1>6. FreshRun' /\ InList' /\ OpenOnlyToPrint' /\ OutputChecked'
      BY <1>1 DEF FreshRun, InList, OpenOnlyToPrint, OutputChecked, Early, AtFile
<1>7. Distinct' BY <1>1 DEF IInv, Progress, Distinct
<1>8. Verdicts' BY <1>1, <1>4 DEF IInv, Progress, Verdicts
<1>9. ExitFacts' BY <1>1 DEF ExitFacts, ParseErrors
<1>10. listing \in Seq(DatFiles) /\ next \in 1 .. Len(listing) + 1 BY DEF IInv, TypeOK
<1>11. \A i \in DOMAIN listing : (i > next \/ i < next) => i # next BY <1>10
<1>12. NothingAhead' BY <1>1, <1>5, <1>11 DEF IInv, Progress, NothingAhead
<1>13. WrittenSoFar'
  <2> SUFFICES ASSUME OutDir \in fs, room > 0, NEW i \in DOMAIN listing, i < next
               PROVE  Complete(listing[i])'
      BY <1>1 DEF WrittenSoFar
  <2>1. Complete(listing[i]) BY DEF IInv, Progress, WrittenSoFar
  <2>2. Output(listing[i])' = Output(listing[i]) BY <1>5, <1>11
  <2> QED BY <1>1, <2>1, <2>2 DEF Complete
<1> QED BY <1>3, <1>6, <1>7, <1>8, <1>9, <1>12, <1>13 DEF IInv, Progress

(* What an earlier run left is that of an earlier run.                     *)
LEMMA AgedOutputs ==
    ASSUME IInv, RunAgain
    PROVE  /\ outputs' \in [Places \X DatFiles -> OutputType]
           /\ \A at \in Places \X DatFiles :
                 outputs'[at].made # "now" /\ outputs'[at].docs = outputs[at].docs
<1> DEFINE aged(at) == IF outputs[at].made = "now"
                       THEN [outputs[at] EXCEPT !.made = "earlier"] ELSE outputs[at]
<1>1. outputs \in [Places \X DatFiles -> OutputType] BY DEF IInv, TypeOK
<1>2. outputs' = [at \in Places \X DatFiles |-> aged(at)] BY <1>1 DEF RunAgain
<1>3. ASSUME NEW at \in Places \X DatFiles
      PROVE  /\ aged(at) \in OutputType
             /\ aged(at).made # "now" /\ aged(at).docs = outputs[at].docs
  <2>1. outputs[at] \in OutputType BY <1>1
  <2> QED BY <2>1 DEF OutputType
<1> HIDE DEF aged
<1> QED BY <1>2, <1>3

(* The program is run again.                                               *)
LEMMA RunAgainStep == ASSUME IInv, RunAgain PROVE IInv'
<1>1. /\ pc' = "logger" /\ exit' = "running" /\ config' = NoConfig /\ listing' = <<>>
      /\ next' = 1 /\ open' = FALSE /\ printed' = 0 /\ reported' = {} /\ runs' = runs + 1
      /\ runs < MaxRuns /\ settings' \in Settings
      /\ UNCHANGED <<content, fs, room>>
      BY DEF RunAgain
<1>2. /\ outputs' \in [Places \X DatFiles -> OutputType]
      /\ \A at \in Places \X DatFiles : outputs'[at].made # "now"
      BY AgedOutputs
<1>3. NoConfig \in ConfigType BY DEF NoConfig, ConfigType
<1>4. runs' \in 1 .. MaxRuns BY <1>1, AppAssumption DEF IInv, TypeOK
<1>5. listing' \in Seq(DatFiles) /\ next' \in 1 .. Len(listing') + 1 BY <1>1
<1>6. TypeOK' BY <1>1, <1>2, <1>3, <1>4, <1>5 DEF IInv, TypeOK, Labels, Exits
<1>7. FreshRun' BY <1>1, <1>2 DEF FreshRun
<1>8. DOMAIN listing' = {} BY <1>1
<1>9. InList' /\ OpenOnlyToPrint' /\ OutputChecked'
      BY <1>1 DEF InList, OpenOnlyToPrint, OutputChecked, AtFile
<1>10. Distinct' /\ NothingAhead' BY <1>8 DEF Distinct, NothingAhead
<1>11. Verdicts' BY <1>1, <1>8 DEF Verdicts
<1>12. ExitFacts' BY <1>1 DEF ExitFacts, ParseErrors
<1>13. WrittenSoFar' BY <1>1, <1>8 DEF WrittenSoFar
<1> QED BY <1>6, <1>7, <1>9, <1>10, <1>11, <1>12, <1>13 DEF IInv, Progress

-----------------------------------------------------------------------------
(* The steps before the files are listed.                                  *)
LEMMA ConfigurationStep ==
    ASSUME IInv,
           \/ SetLogger \/ HandleCommandArguments \/ ReadJson
           \/ ParseBlockDirectory \/ ParseXorDirectory \/ ParseOutputDirectory
    PROVE  IInv'
<1>0. pc \in Early
      BY DEF SetLogger, HandleCommandArguments, ReadJson, ParseBlockDirectory, ParseXorDirectory,
             ParseOutputDirectory, Early
<1>1. ASSUME NEW label \in Early \ {"list"}, Goto(label), UNCHANGED <<disk, local>>
      PROVE  IInv'
  <2>1. /\ UNCHANGED <<world, disk, exit, listing, next, open, printed, reported, runs>>
        /\ config' \in ConfigType /\ pc' = label
        BY <1>1 DEF Goto, local, IInv, TypeOK
  <2> QED BY <1>0, <1>1, <2>1, EarlyStep
<1>2. ASSUME NEW code \in ConfigErrors \cup {"terminated"}, Exit(code) PROVE IInv'
      BY <1>0, <1>2, ExitStep DEF Exits, AppErrorCodes, ConfigErrors, ParseErrors, Early
<1>3. CASE SetLogger \/ HandleCommandArguments \/ ReadJson
      BY <1>1, <1>2, <1>3
      DEF SetLogger, HandleCommandArguments, ReadJson, ConfigErrors, Early
<1>4. CASE ParseBlockDirectory
  <2>1. ParseKey(settings["block"], "block", "xor") BY <1>4 DEF ParseBlockDirectory
  <2> QED BY <1>0, <2>1, ParseKeyStep DEF Early
<1>5. CASE ParseXorDirectory
  <2>1. ParseKey(settings["xor"], "xor", "output") BY <1>5 DEF ParseXorDirectory
  <2> QED BY <1>0, <2>1, ParseKeyStep DEF Early
<1>6. CASE ParseOutputDirectory
  <2>1. ParseKey(settings["output"], "output", "list") BY <1>6 DEF ParseOutputDirectory
  <2> QED BY <1>0, <2>1, ParseKeyStep DEF Early
<1> QED BY <1>3, <1>4, <1>5, <1>6

(* Every step keeps the invariant.                                         *)
LEMMA NextStep == ASSUME IInv, Next PROVE IInv'
<1>1. CASE SetLogger \/ HandleCommandArguments \/ ReadJson
           \/ ParseBlockDirectory \/ ParseXorDirectory \/ ParseOutputDirectory
      BY <1>1, ConfigurationStep
<1>2. CASE GetBlockFiles BY <1>2, ListStep
<1>3. CASE OpenReader BY <1>3, OpenReaderStep
<1>4. CASE ParseFile BY <1>4, ParseFileStep
<1>5. CASE OpenOutput BY <1>5, OpenOutputStep
<1>6. CASE PrintBlock BY <1>6, PrintBlockStep
<1>7. CASE FinishFile BY <1>7, FinishFileStep
<1>8. CASE Remove BY <1>8, RemoveStep
<1>9. CASE Kill BY <1>9, KillStep
<1>10. CASE RunAgain BY <1>10, RunAgainStep
<1> QED BY <1>1, <1>2, <1>3, <1>4, <1>5, <1>6, <1>7, <1>8, <1>9, <1>10 DEF Next, Program

(* Nothing happens.                                                        *)
LEMMA Stutter == ASSUME IInv, UNCHANGED vars PROVE IInv'
<1>1. UNCHANGED <<settings, content, fs, room, outputs, pc, exit, config, listing, next, open,
                  printed, reported, runs>>
      BY DEF vars, world, disk, local
<1>2. TypeOK' BY <1>1 DEF IInv, TypeOK
<1>3. (\A f : Parsed(f)' = Parsed(f)) /\ (\A f : Output(f)' = Output(f))
      BY <1>1 DEF Parsed, Output, Place
<1>4. \A f : Complete(f)' = Complete(f) BY <1>1, <1>3 DEF Complete
<1>5. FreshRun' /\ Distinct' /\ InList' /\ OpenOnlyToPrint' /\ OutputChecked'
      BY <1>1
      DEF IInv, Progress, FreshRun, Distinct, InList, OpenOnlyToPrint, OutputChecked
<1>6. Verdicts' /\ ExitFacts' BY <1>1, <1>3 DEF IInv, Progress, Verdicts, ExitFacts
<1>7. NothingAhead' BY <1>1, <1>3 DEF IInv, Progress, NothingAhead
<1>8. WrittenSoFar' BY <1>1, <1>3, <1>4 DEF IInv, Progress, WrittenSoFar
<1> QED BY <1>2, <1>5, <1>6, <1>7, <1>8 DEF IInv, Progress

(* A run starts in the invariant.                                          *)
LEMMA Start == ASSUME Init PROVE IInv
<1>1. /\ settings \in Settings /\ content \in Contents /\ fs = Existing /\ room \in Rooms
      /\ outputs = [at \in Places \X DatFiles |-> NoOutput]
      /\ pc = "logger" /\ exit = "running" /\ config = NoConfig /\ listing = <<>>
      /\ next = 1 /\ open = FALSE /\ printed = 0 /\ reported = {} /\ runs = 1
      BY DEF Init
<1>2. NoOutput \in OutputType /\ NoOutput.made # "now" BY DEF NoOutput, OutputType
<1>3. /\ outputs \in [Places \X DatFiles -> OutputType]
      /\ \A at \in Places \X DatFiles : outputs[at].made # "now"
      BY <1>1, <1>2
<1>4. NoConfig \in ConfigType BY DEF NoConfig, ConfigType
<1>5. runs \in 1 .. MaxRuns /\ room \in Nat BY <1>1, AppAssumption
<1>6. listing \in Seq(DatFiles) /\ next \in 1 .. Len(listing) + 1 BY <1>1
<1>7. TypeOK BY <1>1, <1>3, <1>4, <1>5, <1>6 DEF TypeOK, Labels, Exits
<1>8. DOMAIN listing = {} BY <1>1
<1>9. FreshRun BY <1>1, <1>3 DEF FreshRun
<1>10. InList /\ OpenOnlyToPrint /\ OutputChecked
       BY <1>1 DEF InList, OpenOnlyToPrint, OutputChecked, AtFile
<1>11. Distinct /\ NothingAhead BY <1>8 DEF Distinct, NothingAhead
<1>12. Verdicts BY <1>1, <1>8 DEF Verdicts
<1>13. ExitFacts BY <1>1 DEF ExitFacts, ParseErrors
<1>14. WrittenSoFar BY <1>1, <1>8 DEF WrittenSoFar
<1> QED BY <1>7, <1>9, <1>10, <1>11, <1>12, <1>13, <1>14 DEF IInv, Progress

(* The inductive invariant holds in every state of every run.              *)
THEOREM Invariance == Spec => []IInv
<1>1. Init => IInv BY Start
<1>2. IInv /\ [Next]_vars => IInv' BY NextStep, Stutter
<1> QED BY <1>1, <1>2, PTL DEF Spec

(* Type correctness of a run of the program.                               *)
THEOREM TypeCorrect == Spec => []TypeOK
<1>1. IInv => TypeOK BY DEF IInv
<1> QED BY <1>1, Invariance, PTL

(* Exit code 0: every listed file parsed, and is complete on the disk      *)
(* unless the disk was full or the directory went away (wmain).            *)
THEOREM SuccessMeansComplete == Spec => []SuccessIsComplete
<1>1. IInv => SuccessIsComplete
  <2> SUFFICES ASSUME IInv, exit = "Success", NEW i \in 1 .. Len(listing)
               PROVE  /\ Parsed(listing[i]) = "done"
                      /\ OutDir \in fs /\ room > 0 => Complete(listing[i])
      BY DEF SuccessIsComplete
  <2>1. next > Len(listing) BY DEF IInv, Progress, ExitFacts
  <2>2. listing \in Seq(DatFiles) /\ next \in 1 .. Len(listing) + 1 BY DEF IInv, TypeOK
  <2>3. i \in DOMAIN listing /\ i < next BY <2>1, <2>2
  <2> QED BY <2>3 DEF IInv, Progress, Verdicts, WrittenSoFar
<1> QED BY <1>1, Invariance, PTL

(* The run stops at the first file that does not parse, with its error,    *)
(* and touches no file behind it (wmain).                                  *)
THEOREM FirstFailureStops == Spec => []StopsAtFirstFailure
<1>1. IInv => StopsAtFirstFailure
  <2> SUFFICES ASSUME IInv PROVE StopsAtFirstFailure OBVIOUS
  <2>1. listing \in Seq(DatFiles) BY DEF IInv, TypeOK
  <2>2. DOMAIN listing = 1 .. Len(listing) BY <2>1
  <2> QED BY <2>2 DEF StopsAtFirstFailure, IInv, Progress, ExitFacts, Verdicts, NothingAhead
<1> QED BY <1>1, Invariance, PTL

\* A JSON file loses documents.
Shrinks(at) == outputs'[at].docs < outputs[at].docs

\* ... and may.
MayShrink(at) ==
    \/ pc \in {"write", "print"} /\ at = Here /\ Parsed(at[2]) = "done"
    \/ OutDir \notin fs' /\ at[1] = "inside"

(* The steps that leave the JSON files alone.                              *)
LEMMA QuietStep ==
    ASSUME IInv,
           \/ SetLogger \/ HandleCommandArguments \/ ReadJson \/ ParseBlockDirectory
           \/ ParseXorDirectory \/ ParseOutputDirectory \/ GetBlockFiles \/ OpenReader
           \/ ParseFile \/ FinishFile
    PROVE  UNCHANGED outputs
BY DEF SetLogger, HandleCommandArguments, ReadJson, ParseBlockDirectory, ParseXorDirectory,
       ParseOutputDirectory, ParseKey, SetPath, GetBlockFiles, OpenReader, ParseFile, FinishFile,
       Exit, disk

(* A JSON file loses documents only when its block file, which parsed, is  *)
(* being written, or with its directory (wmain).                           *)
THEOREM OldResultsStay == Spec => OldResultsKept
<1>1. ASSUME IInv, [Next]_vars, NEW at \in DOMAIN outputs, Shrinks(at) PROVE MayShrink(at)
  <2>1. outputs \in [Places \X DatFiles -> OutputType] BY <1>1 DEF IInv, TypeOK
  <2>2. at \in Places \X DatFiles /\ outputs[at].docs \in Nat BY <2>1 DEF OutputType
  <2>3. ~ UNCHANGED outputs BY <1>1, <2>2 DEF Shrinks
  <2>4. Here[2] = listing[next] BY DEF Here
  <2>5. ASSUME pc \in {"write", "print"}, at = Here PROVE MayShrink(at)
        BY <1>1, <2>4, <2>5 DEF MayShrink, IInv, Progress, Verdicts
  <2>6. CASE OpenOutput
    <3>1. pc = "write" BY <2>6 DEF OpenOutput
    <3>2. outputs' = [outputs EXCEPT ![Here] = [made |-> "now", docs |-> 0]]
          BY <2>3, <2>6 DEF OpenOutput
    <3>3. at = Here BY <1>1, <2>1, <2>2, <3>2 DEF Shrinks
    <3> QED BY <2>5, <3>1, <3>3
  <2>7. CASE PrintBlock
    <3>1. pc = "print" BY <2>7 DEF PrintBlock
    <3>2. outputs' = [outputs EXCEPT ![Here].docs = @ + 1] BY <2>3, <2>7 DEF PrintBlock, disk
    <3>3. at = Here BY <1>1, <2>1, <2>2, <3>2 DEF Shrinks
    <3> QED BY <2>5, <3>1, <3>3
  <2>8. CASE Remove
    <3>1. PICK p \in fs \ InUse :
              /\ fs' = fs \ (IF p = BlockDir THEN {p} \cup Entries ELSE {p})
              /\ outputs' = [a \in DOMAIN outputs |->
                    IF p = OutDir /\ a[1] = "inside" THEN NoOutput ELSE outputs[a]]
          BY <2>8 DEF Remove
    <3>2. p = OutDir /\ at[1] = "inside" BY <1>1, <2>2, <3>1 DEF Shrinks
    <3> QED BY <3>1, <3>2 DEF MayShrink
  <2>9. CASE Kill
    <3>1. open /\ at = Here BY <1>1, <2>2, <2>3, <2>9, KilledOutputs DEF Shrinks
    <3> QED BY <1>1, <2>5, <3>1 DEF IInv, Progress, OpenOnlyToPrint
  <2>10. CASE RunAgain
    <3>1. outputs'[at].docs = outputs[at].docs BY <1>1, <2>2, <2>10, AgedOutputs
    <3> QED BY <1>1, <2>2, <3>1 DEF Shrinks
  <2>11. CASE UNCHANGED vars BY <2>3, <2>11 DEF vars, disk
  <2>12. CASE \/ SetLogger \/ HandleCommandArguments \/ ReadJson \/ ParseBlockDirectory
              \/ ParseXorDirectory \/ ParseOutputDirectory \/ GetBlockFiles \/ OpenReader
              \/ ParseFile \/ FinishFile
         BY <1>1, <2>3, <2>12, QuietStep
  <2> QED BY <1>1, <2>6, <2>7, <2>8, <2>9, <2>10, <2>11, <2>12 DEF Next, Program
<1>2. IInv /\ [Next]_vars =>
          [\A at \in DOMAIN outputs :
              outputs'[at].docs < outputs[at].docs =>
                  \/ /\ pc \in {"write", "print"} 
                     /\ at = Here /\ Parsed(at[2]) = "done"
                  \/ OutDir \notin fs' /\ at[1] = "inside"]_vars
      BY <1>1 DEF Shrinks, MayShrink
<1> QED BY <1>2, Invariance, PTL DEF Spec, OldResultsKept
=============================================================================
