--------------------------- MODULE MCBtcParserApp ---------------------------
(***************************************************************************)
(* Small instance of BtcParserApp: a block directory with two block files  *)
(* and a text file, and key files that fit, are all zeros, or too short.   *)
(***************************************************************************)
EXTENDS BtcParserApp, TLC

MCPaths == {"blocks", "out", "config.json", "keys/xor.dat", "keys/short.dat", "keys/zeros.dat"}
MCEntries == {"blk0.dat", "blk1.dat", "notes.txt"}
MCDatFiles == {"blk0.dat", "blk1.dat"}
MCFolders == {"blocks", "out"}
MCKeys == ("keys/xor.dat" :> "key") @@ ("keys/zeros.dat" :> "zeros") @@ ("keys/short.dat" :> "short")

String(p, slash) == [is |-> "string", path |-> p, slash |-> slash]
Absent == [is |-> "absent", path |-> "", slash |-> FALSE]
Number == [is |-> "other", path |-> "", slash |-> FALSE]

GoodSettings == [argc |-> 2, json |-> "object", block |-> String("blocks", TRUE),
                 xor |-> String("keys/xor.dat", FALSE), output |-> String("out", TRUE)]

\* the good settings, and every way to get one of them wrong
MCSettings ==
    {GoodSettings, [GoodSettings EXCEPT !.argc = 1], [GoodSettings EXCEPT !.json = "malformed"]}
      \cup {[GoodSettings EXCEPT !.block = v] : v \in {Absent, Number, String("nowhere", TRUE),
                String("config.json", FALSE), String("out", TRUE)}}
      \cup {[GoodSettings EXCEPT !.xor = v] : v \in {Absent, Number, String("", FALSE),
                String("nowhere", FALSE), String("blocks", TRUE), String("config.json", FALSE),
                String("keys/short.dat", FALSE), String("keys/zeros.dat", FALSE)}}
      \cup {[GoodSettings EXCEPT !.output = v] : v \in {Absent, Number, String("nowhere", TRUE),
                String("out", FALSE)}}

File(result, blocks, stored) == [result |-> result, blocks |-> blocks, stored |-> stored]

GoodFile == File("done", 2, "obfuscated")

\* a good block file next to another: as good, in the clear, empty,
\* malformed, or with a count no vector can hold
MCContents ==
    {[f \in MCDatFiles |-> IF f = "blk0.dat" THEN GoodFile ELSE other] :
        other \in {GoodFile, File("done", 1, "clear"), File("done", 0, "empty"),
                   File("BlockParsingFailure", 1, "obfuscated"), File("thrown", 1, "obfuscated")}}
=============================================================================
