---------------------------- MODULE TransactionDb ----------------------------
(***************************************************************************)
(* TransactionDbPostgreSql: the table of transactions, written and read    *)
(* through one libpqxx connection.                                         *)
(*                                                                         *)
(* The server, the network and other clients of the table are external:    *)
(* the connection may be lost at any time, also between the COMMIT that    *)
(* was sent and its answer, and others store rows.  A row whose            *)
(* transaction is still open keeps its key from everyone else until that   *)
(* transaction ends.  m_connection learns of a lost session only when it   *)
(* next uses it.  libpqxx reports a failed statement with sql_error, which *)
(* the class catches; a lost connection and a commit in doubt are other    *)
(* exceptions, which it does not.                                          *)
(***************************************************************************)
EXTENDS Naturals, Sequences, FiniteSets

CONSTANTS
    Hashes,       \* values of the primary key, transactionHash
    Batches,      \* what insert is called with: sequences of rows, here of keys
    MaxInserts    \* bound: calls of insert

ASSUME DbAssumption == Batches \subseteq Seq(Hashes) /\ MaxInserts \in Nat

VARIABLES
    conn,         \* m_connection: "null", "open" or "closed", as is_open() sees it
    session,      \* is the server's end of it alive
    table,        \* the committed rows: [hash, by], by the number of the insert, 0 for others
    pending,      \* rows of transactions still open at the server, without the insert under way
    pc,           \* "idle", a statement of insert, or "gone"
    inserts,      \* for each insert so far its batch and what came of it
    written,      \* rows streamed by the insert under way
    answer        \* what the last call returned: [op, result]

server == <<table, pending>>
vars == <<conn, session, server, pc, inserts, written, answer>>

Init ==
    /\ conn = "null"
    /\ session = FALSE
    /\ table = {}
    /\ pending = {}
    /\ pc = "idle"
    /\ inserts = <<>>
    /\ written = 0
    /\ answer = [op |-> "none", result |-> "none"]

Return(op, result) ==
    /\ pc' = "idle"
    /\ answer' = [op |-> op, result |-> result]

(* isConnected asks *m_connection, also when there is none yet.            *)
Crash(op) ==
    /\ conn = "null"
    /\ pc' = "gone"
    /\ answer' = [op |-> op, result |-> "crash"]
    /\ UNCHANGED <<conn, session, server, inserts, written>>

-----------------------------------------------------------------------------
(* connect: a connection that cannot be made is a broken_connection.  An   *)
(* earlier connection is closed only when the new one is there.            *)
Connect ==
    /\ pc = "idle"
    /\ \/ Return("connect", "true") /\ conn' = "open" /\ session' = TRUE
       \/ \E result \in {"false", "thrown"} :
             Return("connect", result) /\ UNCHANGED <<conn, session>>
    /\ UNCHANGED <<server, inserts, written>>

IsConnected ==
    /\ pc = "idle"
    /\ \/ Crash("isConnected")
       \/ /\ conn # "null"
          /\ Return("isConnected", IF conn = "open" THEN "true" ELSE "false")
          /\ UNCHANGED <<conn, session, server, inserts, written>>

Disconnect ==
    /\ pc = "idle"
    /\ \/ Crash("disconnect")
       \/ /\ conn # "null"
          /\ Return("disconnect", "none")
          /\ conn' = "closed"
          /\ session' = FALSE
          /\ UNCHANGED <<server, inserts, written>>

(* The destructor disconnects.                                             *)
Destroy ==
    /\ pc = "idle"
    /\ \/ Crash("destroy")
       \/ /\ conn # "null"
          /\ pc' = "gone"
          /\ conn' = "closed"
          /\ session' = FALSE
          /\ UNCHANGED <<server, inserts, written, answer>>

-----------------------------------------------------------------------------
(* insert, statement by statement.                                         *)
Current == Len(inserts)
Batch == inserts[Current].batch

(* The insert under way ends.                                              *)
Finish(result) ==
    /\ Return("insert", result)
    /\ inserts' = [inserts EXCEPT ![Current].result = result]

(* A call on a dead session throws, and is_open() says so from then on.    *)
Broken == ~ session /\ Finish("thrown") /\ conn' = "closed" /\ UNCHANGED <<session, server, written>>

Insert ==
    /\ pc = "idle"
    /\ \/ Crash("insert")
       \/ /\ conn # "null" /\ Len(inserts) < MaxInserts
          /\ \E b \in Batches :
             \/ /\ conn = "closed"
                /\ Return("insert", "false")
                /\ inserts' = Append(inserts, [batch |-> b, result |-> "false"])
             \/ /\ conn = "open"
                /\ pc' = "begin"
                /\ inserts' = Append(inserts, [batch |-> b, result |-> "none"])
                /\ UNCHANGED answer
          /\ written' = 0
          /\ UNCHANGED <<conn, session, server>>

(* A mutation of BeginWork: wait for the connection to come back.          *)
BeginWorkWaiting ==
    /\ pc = "begin" /\ session
    /\ pc' = "stream"
    /\ UNCHANGED <<conn, session, server, inserts, written, answer>>

(* pqxx::work and stream_to::raw_table: BEGIN and COPY, which may fail.    *)
BeginWork ==
    /\ pc = "begin"
    /\ \/ session /\ pc' = "stream" /\ UNCHANGED <<conn, session, server, inserts, written, answer>>
       \/ session /\ Finish("false") /\ UNCHANGED <<conn, session, server, written>>
       \/ Broken

(* A mutation of WriteValues: without a transaction every row is committed. *)
WriteValuesCommitted ==
    /\ pc = "stream" /\ written < Len(Batch)
    /\ \/ /\ session
          /\ written' = written + 1
          /\ table' = table \cup {[hash |-> Batch[written'], by |-> Current]}
          /\ UNCHANGED <<conn, session, pending, pc, inserts, answer>>
       \/ Broken

(* A mutation of WriteValues: the loop steps twice.                        *)
WriteValuesTwice ==
    /\ pc = "stream" /\ written < Len(Batch)
    /\ session
    /\ written' = written + 2
    /\ UNCHANGED <<conn, session, server, pc, inserts, answer>>

WriteValues ==
    /\ pc = "stream" /\ written < Len(Batch)
    /\ \/ /\ session
          /\ written' = written + 1
          /\ UNCHANGED <<conn, session, server, pc, inserts, answer>>
       \/ Broken

(* The primary key takes the rows of the batch in their order: one that is *)
(* there already is refused, one of an open transaction is waited for.     *)
Taken(i) ==
    \/ \E j \in 1 .. (i - 1) : Batch[j] = Batch[i]
    \/ \E row \in table : row.hash = Batch[i]
Held(i) == \E row \in pending : row.hash = Batch[i]

Conflict == \E i \in DOMAIN Batch : Taken(i) /\ \A j \in 1 .. i : ~ Held(j)
Waits == \E i \in DOMAIN Batch : Held(i) /\ \A j \in 1 .. (i - 1) : ~ Taken(j)

(* stream.complete(): the server has all the rows, or one of them failed.  *)
(* While a key of the batch is held by someone else there is no answer.    *)
CompleteStream ==
    /\ pc = "stream" /\ written = Len(Batch)
    /\ \/ /\ session /\ ~ Conflict /\ ~ Waits
          /\ pc' = "commit"
          /\ UNCHANGED <<conn, session, server, inserts, written, answer>>
       \/ session /\ Conflict /\ Finish("false") /\ UNCHANGED <<conn, session, server, written>>
       \/ Broken

Rows == {[hash |-> Batch[i], by |-> Current] : i \in DOMAIN Batch}

(* A mutation of Commit: the transaction is left to its destructor.        *)
CommitForgotten ==
    /\ pc = "commit"
    /\ Finish("true")
    /\ UNCHANGED <<conn, session, server, written>>

(* inserter.commit().  When the connection breaks the commit is in doubt:  *)
(* the server did not see it, or has it and ends it without us.            *)
CommitEnds(indoubt) ==
    /\ pc = "commit"
    /\ \/ session /\ Finish("true") /\ table' = table \cup Rows
          /\ UNCHANGED <<conn, session, pending, written>>
       \/ session /\ Finish("false") /\ UNCHANGED <<conn, session, server, written>>
       \/ /\ session /\ Finish(indoubt)
          /\ pending' = pending \cup Rows
          /\ session' = FALSE
          /\ conn' = "closed"
          /\ UNCHANGED <<table, written>>
       \/ Broken

(* A mutation of Commit: every exception is caught.                        *)
CommitCaught == CommitEnds("false")

Commit == CommitEnds("thrown")

InsertStep == BeginWork \/ WriteValues \/ CompleteStream \/ Commit

-----------------------------------------------------------------------------
(* findQuery on an existing connection: no row when it is closed or when   *)
(* the statement fails; a lost session throws.                             *)
FindQuery(op, found) ==
    \/ /\ conn = "closed" \/ session
       /\ Return(op, IF conn = "open" /\ found THEN "row" ELSE "none")
       /\ UNCHANGED conn
    \/ conn = "open" /\ session /\ Return(op, "none") /\ UNCHANGED conn
    \/ conn = "open" /\ ~ session /\ Return(op, "thrown") /\ conn' = "closed"

(* The find functions that return whole rows.                              *)
FindRows ==
    /\ pc = "idle"
    /\ \/ Crash("find")
       \/ /\ conn # "null"
          /\ \E h \in Hashes : FindQuery("find", \E row \in table : row.hash = h)
          /\ UNCHANGED <<session, server, inserts, written>>

(* The findInputs and findOutputs functions quote the column's name first, *)
(* which needs an open connection.                                         *)
FindAddresses ==
    /\ pc = "idle"
    /\ \/ Crash("findAddresses")
       \/ /\ conn # "null"
          /\ \/ conn = "closed" /\ Return("findAddresses", "thrown") /\ UNCHANGED conn
             \/ /\ conn = "open"
                /\ \E h \in Hashes : FindQuery("findAddresses", \E row \in table : row.hash = h)
          /\ UNCHANGED <<session, server, inserts, written>>

-----------------------------------------------------------------------------
(* The surroundings: the session is lost, and with it a transaction whose  *)
(* COMMIT the server does not have.                                        *)
LoseSession ==
    /\ session
    /\ session' = FALSE
    /\ UNCHANGED <<conn, server, pc, inserts, written, answer>>

(* Another client inserts a row.  Its key is free: it waits for one that   *)
(* the insert under way holds.                                             *)
OtherInserts ==
    /\ \E h \in Hashes :
          /\ \A row \in table \cup pending : row.hash # h
          /\ pc = "commit" /\ session => \A i \in DOMAIN Batch : Batch[i] # h
          /\ pending' = pending \cup {[hash |-> h, by |-> 0]}
    /\ UNCHANGED <<conn, session, table, pc, inserts, written, answer>>

(* An open transaction ends, and its rows are stored or forgotten.         *)
TransactionEnds ==
    /\ \E row \in pending :
          LET whole == IF row.by = 0 THEN {row} ELSE {r \in pending : r.by = row.by} IN
          /\ pending' = pending \ whole
          /\ table' \in {table, table \cup whole}
    /\ UNCHANGED <<conn, session, pc, inserts, written, answer>>

(* stream.complete() is waiting, for a row of an open transaction.         *)
Blocked == pc = "stream" /\ written = Len(Batch) /\ session /\ Waits

(* The server may refuse a waiting statement, say to end a deadlock; this  *)
(* class sets no limit to the time it waits.                               *)
WaitRefused == Blocked /\ Finish("false") /\ UNCHANGED <<conn, session, server, written>>

Next ==
    \/ Connect
    \/ IsConnected
    \/ Disconnect
    \/ Destroy
    \/ Insert
    \/ BeginWork
    \/ WriteValues
    \/ CompleteStream
    \/ Commit
    \/ FindRows
    \/ FindAddresses
    \/ LoseSession
    \/ OtherInserts
    \/ TransactionEnds
    \/ WaitRefused

Spec == Init /\ [][Next]_vars

(* A call that was made runs on until it returns, but for the time it      *)
(* waits for a key.  Nothing is assumed of the others.                     *)
FairSpec == Spec /\ WF_vars(InsertStep)
-----------------------------------------------------------------------------
(* Properties.                                                             *)
Results == {"true", "false", "thrown", "none", "row", "crash"}

InsertType == [batch: Batches, result: {"true", "false", "thrown", "none"}]
Calls == {"none", "connect", "isConnected", "disconnect", "destroy", "insert", "find",
          "findAddresses"}
AnswerType == [op: Calls, result: Results]

(* Every variable holds a value of its type; no more rows are streamed     *)
(* than insert was given.                                                  *)
TypeOK ==
    /\ conn \in {"null", "open", "closed"}
    /\ session \in BOOLEAN
    /\ table \subseteq [hash: Hashes, by: Nat]
    /\ pending \subseteq [hash: Hashes, by: Nat]
    /\ pc \in {"idle", "begin", "stream", "commit", "gone"}
    /\ inserts \in Seq(InsertType)
    /\ written \in Nat
    /\ pc \in {"begin", "stream", "commit"} => inserts # <<>> /\ written <= Len(Batch)
    /\ answer \in AnswerType

StoredBy(n) == {row \in table : row.by = n}
AllRows(n) == {[hash |-> inserts[n].batch[i], by |-> n] : i \in DOMAIN inserts[n].batch}

(* A batch that insert answered TRUE for is in the table for good, whatever *)
(* happens to the connection afterwards.                                   *)
AckedAreStored ==
    \A n \in DOMAIN inserts : inserts[n].result = "true" => AllRows(n) \subseteq table

(* A batch that insert answered FALSE for left no row: it can be tried     *)
(* again.  Only an exception leaves it open whether it is stored.          *)
RefusedAreNotStored ==
    \A n \in DOMAIN inserts : inserts[n].result = "false" => StoredBy(n) = {}

(* A batch is stored as a whole or not at all, also when the connection    *)
(* breaks in the middle of the stream.                                     *)
BatchesAreAtomic ==
    \A n \in DOMAIN inserts : StoredBy(n) \in {{}, AllRows(n)}

(* insert returns, or throws, also when the server is gone, unless it      *)
(* waits for ever for a key that an open transaction holds.                *)
InsertReturns ==
    <>[](~ Blocked) => (pc \in {"begin", "stream", "commit"} ~> pc = "idle")
=============================================================================
