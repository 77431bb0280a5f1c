---------------------------- MODULE BtcParserApp ----------------------------
(***************************************************************************)
(* A run of the program, from wmain to its exit code: the logger, the      *)
(* configuration (Config), the list of block files, and then for each      *)
(* file the reader, the parser and the JSON file it is printed to.         *)
(*                                                                         *)
(* The program shares the file system with others (Bitcoin Core prunes     *)
(* block files, users move directories), so what it checked at the start   *)
(* may be gone when it is used; it may be killed; and it is run again over *)
(* what an earlier run left.  What the parser does with one file is the    *)
(* subject of BlockFileParser; here it is the result Parsed.               *)
(***************************************************************************)
EXTENDS Naturals, Sequences, FiniteSets

CONSTANTS
    Entries,      \* names in the block directory ...
    DatFiles,     \* ... and those that end in .dat
    Paths,        \* the other paths of the disk
    Folders,      \* the paths and entries that are directories
    BlockDir,     \* the path of the block directory
    OutDir,       \* the path of the output directory
    ConfigFile,   \* argv[1]
    Keys,         \* what each .dat file is as a key: [path -> {"key", "zeros", "short"}]
    Settings,     \* what the command line and the JSON file may say
    Contents,     \* what the block files may hold
    Rooms,        \* how many JSON documents may fit on the output disk
    MaxRemovals,  \* bound: paths that disappear
    MaxRuns       \* bound: runs of the program

Existing == Paths \cup Entries

\* A value in the JSON object: absent, not a string, or a path with or
\* without a final separator.
JsonValue == [is: {"absent", "other", "string"}, path: STRING, slash: BOOLEAN]

ParseErrors == {"BlockWrongMagic", "BlockParsingFailure", "FileReadingFailure", "FileError",
                "EmptyBlockSize", "TooLargeBlockSize"}

\* The parser's verdict on a file read with the right key, the number of its
\* blocks, and how it is stored.
FileContent == [result: {"done", "thrown"} \cup ParseErrors, blocks: Nat,
                stored: {"clear", "obfuscated", "empty"}]

ASSUME AppAssumption ==
    /\ Existing \subseteq STRING /\ IsFiniteSet(Existing)
    /\ DatFiles \subseteq Entries
    /\ {BlockDir, OutDir} \subseteq Paths \cap Folders
    /\ ConfigFile \in Paths \ Folders
    /\ Keys \in [DOMAIN Keys -> {"key", "zeros", "short"}]
    /\ Settings \subseteq [argc: Nat, json: {"object", "malformed"},
                           block: JsonValue, xor: JsonValue, output: JsonValue]
    /\ \A s \in Settings : s.output.path \in {OutDir} \cup (STRING \ Existing)
    /\ Contents \subseteq [DatFiles -> FileContent]
    /\ Rooms \subseteq Nat /\ MaxRemovals \in Nat /\ MaxRuns \in Nat \ {0}

VARIABLES
    settings,     \* the command line and the JSON file of this run
    content,      \* what each block file holds
    fs,           \* the paths and entries that exist
    room,         \* JSON documents that still fit on the disk
    outputs,      \* for each place and block file, the JSON file there
    pc,           \* the function that runs next
    exit,         \* "running", how the process ended, or its exit code
    config,       \* the global Config
    listing,      \* blocksPath
    next,         \* index of kBlockPath in it
    open,         \* is outFile good
    printed,      \* blocks of the file gone through by the printing loop
    reported,     \* block files reported as finished successfully
    runs          \* runs begun

world == <<settings, content, fs>>
disk  == <<room, outputs>>
local == <<config, listing, next, open, printed, reported>>
vars  == <<world, disk, pc, exit, local, runs>>

\* Where a JSON file goes: kOutputPath + stem + ".json" is in the directory
\* only when the configured path ends with a separator.
Places == {"inside", "beside"}
Place(c) == IF c.output.slash THEN "inside" ELSE "beside"

None == [is |-> "absent", path |-> "", slash |-> FALSE]
NoConfig == [block |-> None, xor |-> None, output |-> None]
NoOutput == [made |-> "never", docs |-> 0]

Init ==
    /\ settings \in Settings
    /\ content \in Contents
    /\ fs = Existing
    /\ room \in Rooms
    /\ outputs = [at \in Places \X DatFiles |-> NoOutput]
    /\ pc = "logger"
    /\ exit = "running"
    /\ config = NoConfig
    /\ listing = <<>>
    /\ next = 1
    /\ open = FALSE
    /\ printed = 0
    /\ reported = {}
    /\ runs = 1

Exit(code) ==
    /\ exit' = code
    /\ pc' = "exit"
    /\ UNCHANGED <<world, disk, local, runs>>

Goto(label) == pc' = label /\ UNCHANGED <<world, exit, runs>>

-----------------------------------------------------------------------------
(* setLogger and Config::init, which run before the try block of wmain: an *)
(* exception there ends the process.                                       *)
SetLogger ==
    /\ pc = "logger"
    /\ \/ Goto("args") /\ UNCHANGED <<disk, local>>
       \/ Exit("LoggerInitFailure")

HandleCommandArguments ==
    /\ pc = "args"
    /\ \/ settings.argc # 2 /\ Exit("CommandArgumentsError")
       \/ settings.argc = 2 /\ ConfigFile \notin fs /\ Exit("FileNotFound")
       \/ settings.argc = 2 /\ ConfigFile \in fs /\ Goto("json") /\ UNCHANGED <<disk, local>>

\* A config file that disappeared since the check reads as an empty document.
ReadJson ==
    /\ pc = "json"
    /\ \/ /\ ConfigFile \in fs /\ settings.json = "object"
          /\ Goto("block")
          /\ UNCHANGED <<disk, local>>
       \/ (ConfigFile \notin fs \/ settings.json = "malformed") /\ Exit("terminated")

(* setBlockPath, setXorPath, setOutputPath                                 *)
SetPath(value, field, label) ==
    \/ value.path \notin fs /\ Exit("DirectoryNotFound")
    \/ /\ value.path \in fs
       /\ config' = [config EXCEPT ![field] = value]
       /\ Goto(label)
       /\ UNCHANGED <<disk, listing, next, open, printed, reported>>

(* parseWstringFromJson for one of the three keys                          *)
ParseKey(value, field, label) ==
    \/ value.is = "absent" /\ Exit("JsonKeyNotFound")
    \/ value.is = "other" /\ Exit("terminated")
    \/ value.is = "string" /\ SetPath(value, field, label)

ParseBlockDirectory  == pc = "block"  /\ ParseKey(settings.block, "block", "xor")
ParseXorDirectory    == pc = "xor"    /\ ParseKey(settings.xor, "xor", "output")
ParseOutputDirectory == pc = "output" /\ ParseKey(settings.output, "output", "list")

-----------------------------------------------------------------------------
(* The try block of wmain.                                                 *)

\* What a directory holds that ends in .dat, in the unspecified order of a
\* directory_iterator.
DatFilesIn(dir) == IF dir = BlockDir THEN DatFiles \cap fs ELSE {}

Listings(S) ==
    {l \in [1 .. Cardinality(S) -> S] : \A i, j \in DOMAIN l : l[i] = l[j] => i = j}

(* getBlockFilesInDirectory; iterating over what is no directory throws.   *)
GetBlockFiles ==
    /\ pc = "list"
    /\ \/ /\ config.block.path \in fs \cap Folders
          /\ listing' \in Listings(DatFilesIn(config.block.path))
          /\ Goto("file")
          /\ UNCHANGED <<disk, config, next, open, printed, reported>>
       \/ config.block.path \notin fs \cap Folders /\ Exit("RuntimeException")

(* FileReader's constructor wants an existing regular .dat file.           *)
Opens(p) == p \in fs \ Folders /\ p \in DatFiles \cup DOMAIN Keys

(* BitcoinReader's constructor, for the block file and then the key: both  *)
(* throw std::runtime_error or a class derived from it.                    *)
OpenReader ==
    /\ pc = "file"
    /\ \/ next > Len(listing) /\ Exit("Success")
       \/ /\ next <= Len(listing)
          /\ Opens(listing[next]) /\ Opens(config.xor.path) /\ Keys[config.xor.path] # "short"
          /\ Goto("parse")
          /\ UNCHANGED <<disk, local>>
       \/ /\ next <= Len(listing)
          /\ \/ ~ Opens(listing[next])
             \/ ~ Opens(config.xor.path)
             \/ Opens(config.xor.path) /\ Keys[config.xor.path] = "short"
          /\ Exit("RuntimeException")

(* What BlockFileParser::parse returns: with the wrong key the first magic *)
(* number is not recognised.  An empty file has no magic number.           *)
Parsed(f) ==
    LET c == content[f]
        key == Keys[config.xor.path]
    IN  CASE c.stored = "empty" -> "done"
          [] c.stored = "clear" -> IF key = "zeros" THEN c.result ELSE "BlockWrongMagic"
          [] c.stored = "obfuscated" -> IF key = "key" THEN c.result ELSE "BlockWrongMagic"

(* A mutation of ParseFile: a file that does not parse is skipped.         *)
ParseFileOrSkip ==
    /\ pc = "parse"
    /\ \/ Parsed(listing[next]) = "done" /\ Goto("write") /\ UNCHANGED <<disk, local>>
       \/ /\ Parsed(listing[next]) # "done"
          /\ next' = next + 1
          /\ Goto("file")
          /\ UNCHANGED <<disk, config, listing, open, printed, reported>>

(* A mutation of ParseFile: the JSON file is opened before the parser runs. *)
ParseFileLate ==
    /\ pc = "parse"
    /\ outputs' = [outputs EXCEPT ![<<Place(config), listing[next]>>] = [made |-> "now", docs |-> 0]]
    /\ IF Parsed(listing[next]) = "done"
       THEN pc' = "write" /\ exit' = exit
       ELSE pc' = "exit" /\ exit' = Parsed(listing[next])
    /\ UNCHANGED <<world, room, local, runs>>

(* Exceptions of the parser are no runtime_error: they come from vectors   *)
(* too large to allocate.                                                  *)
ParseFile ==
    /\ pc = "parse"
    /\ \/ Parsed(listing[next]) = "done" /\ Goto("write") /\ UNCHANGED <<disk, local>>
       \/ Parsed(listing[next]) = "thrown" /\ Exit("UnknownException")
       \/ Parsed(listing[next]) \notin {"done", "thrown"} /\ Exit(Parsed(listing[next]))

Here == <<Place(config), listing[next]>>

(* A mutation of OpenOutput: an older JSON file is written after its end.  *)
OpenOutputAtEnd ==
    /\ pc = "write"
    /\ config.output.path \in fs
    /\ open' = TRUE
    /\ printed' = 0
    /\ outputs' = [outputs EXCEPT ![Here].made = "now"]
    /\ Goto("print")
    /\ UNCHANGED <<room, config, listing, next, reported>>

(* std::ofstream outFile(kFilePath): truncates an older file; nobody looks *)
(* whether it succeeded.                                                   *)
OpenOutput ==
    /\ pc = "write"
    /\ \/ /\ config.output.path \in fs \/ Place(config) = "beside"
          /\ open' = TRUE
          /\ outputs' = [outputs EXCEPT ![Here] = [made |-> "now", docs |-> 0]]
       \/ /\ config.output.path \notin fs /\ Place(config) = "inside"
          /\ open' = FALSE
          /\ UNCHANGED outputs
    /\ printed' = 0
    /\ Goto("print")
    /\ UNCHANGED <<room, config, listing, next, reported>>

-----------------------------------------------------------------------------
(* A mutation of PrintBlock: the printer waits until the stream takes it.  *)
PrintBlockWaiting ==
    /\ pc = "print"
    /\ printed < content[listing[next]].blocks
    /\ open /\ room > 0
    /\ printed' = printed + 1
    /\ outputs' = [outputs EXCEPT ![Here].docs = @ + 1]
    /\ room' = room - 1
    /\ UNCHANGED <<world, pc, exit, config, listing, next, open, reported, runs>>

(* BlockPrinter::printBlock for the next block.  A document that does not  *)
(* fit makes the stream bad, and nothing more is printed to it.            *)
PrintBlock ==
    /\ pc = "print"
    /\ printed < content[listing[next]].blocks
    /\ printed' = printed + 1
    /\ \/ /\ open /\ room > 0
          /\ outputs' = [outputs EXCEPT ![Here].docs = @ + 1]
          /\ room' = room - 1
          /\ UNCHANGED open
       \/ (~ open \/ room = 0) /\ open' = FALSE /\ UNCHANGED disk
    /\ UNCHANGED <<world, pc, exit, config, listing, next, reported, runs>>

(* A mutation of FinishFile: the loop steps twice.                         *)
FinishFileTwice ==
    /\ pc = "print"
    /\ printed = content[listing[next]].blocks
    /\ reported' = reported \cup {listing[next]}
    /\ next' = next + 2
    /\ open' = FALSE
    /\ printed' = 0
    /\ Goto("file")
    /\ UNCHANGED <<disk, config, listing>>

(* The end of the loop body: LOG_INFO("Parsing is finished successfully... *)
(* and the destructors of outFile and reader.                              *)
FinishFile ==
    /\ pc = "print"
    /\ printed = content[listing[next]].blocks
    /\ reported' = reported \cup {listing[next]}
    /\ next' = next + 1
    /\ open' = FALSE
    /\ printed' = 0
    /\ Goto("file")
    /\ UNCHANGED <<disk, config, listing>>

Program ==
    \/ SetLogger
    \/ HandleCommandArguments
    \/ ReadJson
    \/ ParseBlockDirectory
    \/ ParseXorDirectory
    \/ ParseOutputDirectory
    \/ GetBlockFiles
    \/ OpenReader
    \/ ParseFile
    \/ OpenOutput
    \/ PrintBlock
    \/ FinishFile

-----------------------------------------------------------------------------
(* The surroundings.                                                       *)

\* Windows does not remove a file, or its directory, while it is open.
InUse ==
    (IF pc \in {"parse", "write", "print"} THEN {listing[next], BlockDir} ELSE {})
        \cup (IF open THEN {OutDir} ELSE {})

Remove ==
    /\ Cardinality(Existing \ fs) < MaxRemovals
    /\ \E p \in fs \ InUse : 
          /\ fs' = fs \ (IF p = BlockDir THEN {p} \cup Entries ELSE {p})
          /\ outputs' = [at \in DOMAIN outputs |->
                IF p = OutDir /\ at[1] = "inside" THEN NoOutput ELSE outputs[at]]
    /\ UNCHANGED <<settings, content, room, pc, exit, local, runs>>

(* The process is killed.  Documents still in the buffer of outFile are    *)
(* lost.                                                                   *)
Kill ==
    /\ pc # "exit"
    /\ pc' = "exit"
    /\ exit' = "killed"
    /\ open' = FALSE
    /\ \/ UNCHANGED outputs
       \/ /\ open
          /\ \E n \in 0 .. outputs[Here].docs : outputs' = [outputs EXCEPT ![Here].docs = n]
    /\ UNCHANGED <<world, room, config, listing, next, printed, reported, runs>>

(* The user runs the program again, perhaps with other settings.           *)
RunAgain ==
    /\ pc = "exit" /\ runs < MaxRuns
    /\ settings' \in Settings
    /\ outputs' = [at \in DOMAIN outputs |->
          IF outputs[at].made = "now" THEN [outputs[at] EXCEPT !.made = "earlier"] ELSE outputs[at]]
    /\ pc' = "logger"
    /\ exit' = "running"
    /\ config' = NoConfig
    /\ listing' = <<>>
    /\ next' = 1
    /\ open' = FALSE
    /\ printed' = 0
    /\ reported' = {}
    /\ runs' = runs + 1
    /\ UNCHANGED <<content, fs, room>>

Next ==
    \/ Program
    \/ Remove
    \/ Kill
    \/ RunAgain

Spec == Init /\ [][Next]_vars

(* The process is scheduled as long as it can run; nobody has to remove a  *)
(* file, kill the process or run it again.                                 *)
FairSpec == Spec /\ WF_vars(Program)
-----------------------------------------------------------------------------
(* Properties.                                                             *)

ConfigErrors == {"LoggerInitFailure", "CommandArgumentsError", "FileNotFound", "JsonKeyNotFound",
                 "DirectoryNotFound"}

AppErrorCodes == {"Success", "RuntimeException", "UnknownException"} \cup ConfigErrors \cup ParseErrors

Labels == {"logger", "args", "json", "block", "xor", "output", "list", "file", "parse", "write",
           "print", "exit"}
Exits == {"running", "terminated", "killed"} \cup AppErrorCodes

OutputType == [made: {"never", "earlier", "now"}, docs: Nat]

ConfigType ==
    [block: JsonValue \cup {None}, xor: JsonValue \cup {None}, output: JsonValue \cup {None}]

(* Every variable of a run holds a value of its type.                      *)
TypeOK ==
    /\ settings \in Settings
    /\ content \in Contents
    /\ fs \subseteq Existing
    /\ room \in Nat
    /\ outputs \in [Places \X DatFiles -> OutputType]
    /\ pc \in Labels
    /\ exit \in Exits
    /\ config \in ConfigType
    /\ listing \in Seq(DatFiles)
    /\ next \in 1 .. Len(listing) + 1
    /\ open \in BOOLEAN
    /\ printed \in Nat
    /\ reported \subseteq DatFiles
    /\ runs \in 1 .. MaxRuns

Output(f) == outputs[<<Place(config), f>>]
Complete(f) == Output(f) = [made |-> "now", docs |-> content[f].blocks]

(* Exit code 0 means that every file that was listed parsed, and, where    *)
(* the disk had room and the output directory stayed, that each has a JSON *)
(* file of this run with exactly its blocks, whatever an earlier run left  *)
(* there (wmain).                                                          *)
SuccessIsComplete ==
    exit = "Success" =>
        \A i \in 1 .. Len(listing) :
            /\ Parsed(listing[i]) = "done"
            /\ OutDir \in fs /\ room > 0 => Complete(listing[i])

(* The first file that does not parse ends the run with its error: the     *)
(* exit code is that of the file the run stopped at, and the files behind  *)
(* it are neither parsed nor written (wmain).                              *)
StopsAtFirstFailure ==
    /\ exit \in ParseErrors => next <= Len(listing) /\ Parsed(listing[next]) = exit
    /\ \A i \in 1 .. Len(listing) :
          /\ i < next => Parsed(listing[i]) = "done"
          /\ i > next => Output(listing[i]).made # "now"

(* No run spoils the JSON file of a block file it does not parse: a JSON   *)
(* file loses documents only while its own block file, just parsed, is     *)
(* written again, when the process is killed over it, or with its          *)
(* directory (wmain).                                                      *)
OldResultsKept ==
    [][\A at \in DOMAIN outputs :
          outputs'[at].docs < outputs[at].docs =>
              \/ /\ pc \in {"write", "print"} 
                 /\ at = Here /\ Parsed(at[2]) = "done"
              \/ OutDir \notin fs' /\ at[1] = "inside"]_vars

(* Once started, the program comes to an end, whatever it finds.           *)
Ends == pc # "exit" ~> pc = "exit"

(* "LOG_INFO("Parsing is finished successfully. Output results printed     *)
(* in: {}")" (main.cpp, at the end of the loop): a file reported so has    *)
(* all its blocks in its JSON file.                                        *)
ReportedMeansPrinted == exit = "Success" => \A f \in reported : Complete(f)
=============================================================================
