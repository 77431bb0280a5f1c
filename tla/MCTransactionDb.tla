-------------------------- MODULE MCTransactionDb --------------------------
(***************************************************************************)
(* Small instance of TransactionDb: batches of no row, one and two rows,   *)
(* and one that holds the same key twice, over two keys.                   *)
(***************************************************************************)
EXTENDS TransactionDb

CONSTANTS h1, h2

MCBatches == {<<>>, <<h1>>, <<h1, h2>>, <<h2, h2>>}
=============================================================================
