------------------------ MODULE MCTransactionQueries ------------------------
(***************************************************************************)
(* Small instance of TransactionQueries: three hashes; rows with as many   *)
(* inputs as outputs and rows without, with addresses that are plain,      *)
(* empty, or need quotes; and every list of up to two texts of up to two   *)
(* characters, one of each kind.                                           *)
(***************************************************************************)
EXTENDS TransactionQueries

Row(hash, in, out, time, satoshi) ==
    [txHash |-> hash, txIn |-> in, txOut |-> out, time |-> time, satoshi |-> satoshi]

A == <<"a">>
B == <<"b">>
Spaced == <<"a", Blank, "b">>
Pair == <<"a", Comma, "b">>

MCRows ==
    {Row("h1", <<A>>, <<B>>, 1, 5), Row("h1", <<A>>, <<A, B>>, 2, 5),
     Row("h2", <<A, Spaced>>, <<B, A>>, 2, 6), Row("h2", <<>>, <<>>, 1, 5),
     Row("h3", <<<<>>>>, <<A>>, 2, 5), Row("h3", <<Pair>>, <<B>>, 3, 6)}

Letters == {"a"} \cup Special
Words == {<<>>} \cup {<<c>> : c \in Letters} \cup {<<c, d>> : c, d \in Letters}
MCLists == {<<>>} \cup {<<v>> : v \in Words} \cup {<<v, w>> : v, w \in Words}
MCAddresses == {A, B, <<"c">>}
=============================================================================
