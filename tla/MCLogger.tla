------------------------------ MODULE MCLogger ------------------------------
(***************************************************************************)
(* Small instance of Logger: one company besides none, and few files kept, *)
(* so that queues fill up and files are deleted within the days modelled.  *)
(***************************************************************************)
EXTENDS Logger

CONSTANTS none, acme, absent
=============================================================================
