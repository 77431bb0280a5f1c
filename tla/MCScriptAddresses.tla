------------------------- MODULE MCScriptAddresses -------------------------
(***************************************************************************)
(* Small instance of ScriptAddresses: every template with two payloads,    *)
(* and scripts that miss a template by one byte; inputs that spend some of *)
(* these outputs, and inputs that are no signature and key at all.         *)
(***************************************************************************)
EXTENDS ScriptAddresses, SequencesExt

Fill(n, b) == [i \in 1 .. n |-> b]

\* 20 bytes that tell the keys of this instance apart
MCHash160(key) ==
    LET sum == FoldLeft(LAMBDA acc, b : (3 * acc + b) % 251, Len(key), key)
    IN  [i \in 1 .. 20 |-> (sum + i) % 256]

Sig == Fill(71, 48)
Compressed == <<2>> \o Fill(32, 9)
Uncompressed == <<4>> \o Fill(64, 9)
Redeem == <<Op0, OpPushBytes20>> \o MCHash160(Compressed)

Hashes == {MCHash160(Compressed), MCHash160(Uncompressed), MCHash160(Redeem)}
Programs == {Fill(32, 7), Fill(32, 8)}

P2shScript(hash) == <<OpHash160, OpPushBytes20>> \o hash \o <<OpEqual>>

MCOutputScripts ==
    {P2pkhScript(h) : h \in Hashes} \cup {P2shScript(h) : h \in Hashes}
      \cup {<<Op0, OpPushBytes20>> \o h \o tail : h \in Hashes, tail \in {<<>>, <<0>>}}
      \cup {<<v, OpPushBytes32>> \o w : v \in {Op0, Op1}, w \in Programs}
      \cup {<<>>, <<OpReturn>>, <<OpReturn, 1, 5>>, Fill(25, 0)}
      \cup {SubSeq(P2pkhScript(h), 1, 24) : h \in Hashes}
      \cup {[P2shScript(h) EXCEPT ![23] = OpEqualVerify] : h \in Hashes}
      \cup {[P2pkhScript(h) EXCEPT ![25] = OpEqual] : h \in Hashes}

MCInputScripts ==
    {Push(Sig) \o Push(k) : k \in {Compressed, Uncompressed, Redeem}}
      \cup {Push(Redeem), [Push(Redeem) EXCEPT ![3] = 21]}
      \cup {<<>>, <<255>>, <<0>>, <<0, 0>>, <<1, 7>>, Push(Sig)}
      \cup {SubSeq(Push(Sig) \o Push(Compressed), 1, n) : n \in {73, 105}}
      \cup {<<0>> \o Push(Sig) \o Push(Sig)}
=============================================================================
