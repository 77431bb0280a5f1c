--------------------------- MODULE ScriptAddresses ---------------------------
(***************************************************************************)
(* TransactionScriptParser: the address the program writes next to each    *)
(* output script and each input script of a transaction.                   *)
(*                                                                         *)
(* An address is represented by what its text says: the encoding, the      *)
(* version and the payload.  That the texts do say it is the subject of    *)
(* AddressCodec.  SHA-256 and RIPEMD-160 are external.                     *)
(***************************************************************************)
EXTENDS Bytes, FiniteSets

CONSTANTS
    OutputScripts,     \* the scriptPubKeys that occur
    InputScripts,      \* the scriptSigs that occur
    Hash160(_),        \* RIPEMD160(SHA256(key)), external
    MaxOutputs,        \* bound: outputs that are parsed
    MaxInputs          \* bound: inputs that are parsed

ASSUME ScriptsAssumption ==
    OutputScripts \subseteq Seq(Byte) /\ InputScripts \subseteq Seq(Byte)

VARIABLES
    outputs,     \* the outputs parsed so far: [script, address]
    inputs       \* the inputs parsed so far

vars == <<outputs, inputs>>

Op0 == 0
Op1 == 81
OpDup == 118
OpHash160 == 169
OpEqual == 135
OpEqualVerify == 136
OpCheckSig == 172
OpReturn == 106
OpPushBytes20 == 20
OpPushBytes22 == 22
OpPushBytes32 == 32

Text(kind, version, payload) == [kind |-> kind, version |-> version, payload |-> payload]

Unknown == Text("Unknown", 0, <<>>)
DataCarrier == Text("OP_RETURN", 0, <<>>)
Base58Check(version, payload) == Text("base58", version, payload)
Bech32Encode(version, program) == Text("bech32", version, program)

-----------------------------------------------------------------------------
(* The templates of standard scripts.  Positions count from 1.             *)
IsP2PKH(s) ==
    /\ Len(s) = 25
    /\ s[1] = OpDup /\ s[2] = OpHash160 /\ s[3] = OpPushBytes20
    /\ s[24] = OpEqualVerify /\ s[25] = OpCheckSig

(* A mutation of IsP2SH: the last opcode is not looked at.                 *)
IsP2SHPrefix(s) == Len(s) = 23 /\ s[1] = OpHash160 /\ s[2] = OpPushBytes20

IsP2SH(s) == Len(s) = 23 /\ s[1] = OpHash160 /\ s[2] = OpPushBytes20 /\ s[23] = OpEqual

(* A mutation of IsP2WPKH: a longer script is taken for the template.      *)
IsP2WPKHAtLeast(s) == Len(s) >= 22 /\ s[1] = Op0 /\ s[2] = OpPushBytes20

IsP2WPKH(s) == Len(s) = 22 /\ s[1] = Op0 /\ s[2] = OpPushBytes20

IsP2WSH(s) == Len(s) = 34 /\ s[1] = Op0 /\ s[2] = OpPushBytes32

IsTaproot(s) == Len(s) = 34 /\ s[1] = Op1 /\ s[2] = OpPushBytes32

IsP2shP2wpkhRedeem(s) ==
    Len(s) = 23 /\ s[1] = OpPushBytes22 /\ s[2] = Op0 /\ s[3] = OpPushBytes20

(* parseOutputScript                                                       *)
OutputAddress(s) ==
    CASE s = <<>>                          -> Unknown
      [] s # <<>> /\ s[1] = OpReturn       -> DataCarrier
      [] s # <<>> /\ IsP2PKH(s)            -> Base58Check(0, SubSeq(s, 4, 23))
      [] s # <<>> /\ IsP2SH(s)             -> Base58Check(5, SubSeq(s, 3, 22))
      [] s # <<>> /\ (IsP2WPKH(s) \/ IsP2WSH(s)) -> Bech32Encode(0, SubSeq(s, 3, Len(s)))
      [] s # <<>> /\ IsTaproot(s)          -> Bech32Encode(1, SubSeq(s, 3, Len(s)))
      [] OTHER                             -> Unknown

-----------------------------------------------------------------------------
(* decodeScriptSigP2PKH: the length byte of the second push, and where the *)
(* push ends.  The first byte is taken for the length of the signature.    *)
KeyLengthAt(s) == s[1] + 2
KeyEnd(s) == KeyLengthAt(s) + s[KeyLengthAt(s)]

(* A mutation of Key: one byte early, as if the end were inclusive.        *)
KeyOneEarly(s) == SubSeq(s, KeyLengthAt(s), KeyEnd(s) - 1)

Key(s) == SubSeq(s, KeyLengthAt(s) + 1, KeyEnd(s))

HasKey(s) == KeyLengthAt(s) <= Len(s) /\ KeyEnd(s) <= Len(s)

ASSUME Hash160Assumption ==
    \A s \in InputScripts : s # <<>> /\ HasKey(s) => Hash160(Key(s)) \in [1 .. 20 -> Byte]

DecodeScriptSigP2PKH(s) == IF HasKey(s) THEN Base58Check(0, Hash160(Key(s))) ELSE Unknown

(* parseInputScript                                                        *)
InputAddress(s) ==
    CASE s = <<>>                          -> Unknown
      [] s # <<>> /\ IsP2shP2wpkhRedeem(s) -> Bech32Encode(0, SubSeq(s, 4, 23))
      [] s # <<>> /\ ~ IsP2shP2wpkhRedeem(s) -> DecodeScriptSigP2PKH(s)

-----------------------------------------------------------------------------
(* parseTxOut and parseTxIn ask for the address of each script they read.  *)
Init == outputs = {} /\ inputs = {}

ParseOutputScript ==
    /\ Cardinality(outputs) < MaxOutputs
    /\ \E s \in OutputScripts :
          outputs' = outputs \cup {[script |-> s, address |-> OutputAddress(s)]}
    /\ UNCHANGED inputs

ParseInputScript ==
    /\ Cardinality(inputs) < MaxInputs
    /\ \E s \in InputScripts :
          inputs' = inputs \cup {[script |-> s, address |-> InputAddress(s)]}
    /\ UNCHANGED outputs

Next == ParseOutputScript \/ ParseInputScript

Spec == Init /\ [][Next]_vars
-----------------------------------------------------------------------------
(* Properties.                                                             *)

IsPayload(p, n) == p \in Seq(Byte) /\ Len(p) = n

IsAddress(a) ==
    \/ a \in {Unknown, DataCarrier}
    \/ a = Base58Check(a.version, a.payload) /\ a.version \in {0, 5} /\ IsPayload(a.payload, 20)
    \/ a = Bech32Encode(a.version, a.payload) /\ a.version = 0 /\ IsPayload(a.payload, 20)
    \/ a = Bech32Encode(a.version, a.payload) /\ a.version \in {0, 1} /\ IsPayload(a.payload, 32)

(* Every address written is the text of a hash of the right length for its *)
(* kind, or one of the two texts that are no address.                      *)
TypeOK ==
    /\ \A o \in outputs : o.script \in OutputScripts /\ IsAddress(o.address)
    /\ \A i \in inputs : i.script \in InputScripts /\ IsAddress(i.address)

(* Two outputs with the same address have the same script: no two ways to  *)
(* lock coins are reported as one (parseOutputScript).                     *)
AddressesTellScriptsApart ==
    \A o1, o2 \in outputs :
        o1.address = o2.address /\ o1.address.kind \in {"base58", "bech32"}
            => o1.script = o2.script

Push(data) == <<Len(data)>> \o data
P2pkhScript(hash) ==
    <<OpDup, OpHash160, OpPushBytes20>> \o hash \o <<OpEqualVerify, OpCheckSig>>

\* A signature and a key, each pushed with its length, that unlock coins
\* sent to the key's hash.
Unlocks(in, out) ==
    \E n \in 0 .. Len(in) - 2 :
        LET sig == SubSeq(in, 2, n + 1)
            key == SubSeq(in, n + 3, Len(in))
        IN  in = Push(sig) \o Push(key) /\ out = P2pkhScript(Hash160(key))

(* An input that spends a pay-to-public-key-hash output is reported with   *)
(* the address that output was reported with (parseInputScript against     *)
(* parseOutputScript).                                                     *)
SpenderHasSameAddress ==
    \A i \in inputs, o \in outputs : Unlocks(i.script, o.script) => i.address = o.address

=============================================================================
