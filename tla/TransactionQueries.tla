------------------------- MODULE TransactionQueries -------------------------
(***************************************************************************)
(* The find functions of TransactionDbPostgreSql: which rows the query     *)
(* texts of PostgreQueryCommands select, and how the answer of the server  *)
(* becomes rows and lists of addresses again.                              *)
(*                                                                         *)
(* The address columns are arrays of text, which the server sends as one   *)
(* text per row.  The rows of an answer come in any order.  A statement    *)
(* that the server refuses, or that is not sent because the connection is  *)
(* closed, answers as if there were no row; TransactionDb has the          *)
(* connection itself.                                                      *)
(***************************************************************************)
EXTENDS Integers, Sequences, SequencesExt, FiniteSets

CONSTANTS
    Rows,       \* the rows that clients store: [txHash, txIn, txOut, time, satoshi]
    Addresses,  \* the wallets that are asked for
    Amounts,    \* the amounts that are asked for
    Times,      \* the ends of the ranges that are asked for
    Lists       \* the arrays of text that are read back

(* A text is a sequence of characters, here of strings of length one.      *)
Comma == ","
Quote == "\""
Backslash == "\\"
Open == "{"
Close == "}"
Blank == " "
Special == {Comma, Quote, Backslash, Open, Close, Blank}
Texts == Seq(STRING)

RowType == [txHash: STRING, txIn: Seq(Texts), txOut: Seq(Texts), time: Nat, satoshi: Nat]

ASSUME RowsAssumption == Rows \subseteq RowType
ASSUME ListsAssumption == Lists \subseteq Seq(Texts)

VARIABLES
    table,      \* the rows of the table
    answer      \* the last call: [call, arg, result, outcome]

vars == <<table, answer>>

None == [call |-> "none", arg |-> <<>>, result |-> <<>>, outcome |-> "ok"]

-----------------------------------------------------------------------------
(* array_out: an element that is empty or has a special character is put   *)
(* in quotes, with a backslash before quotes and backslashes.  (So is the  *)
(* word NULL, which is read back in the same way.)                         *)
Escaped(text) ==
    FlattenSeq([i \in DOMAIN text |->
        IF text[i] \in {Quote, Backslash} THEN <<Backslash, text[i]>> ELSE <<text[i]>>])

Element(text) ==
    IF text = <<>> \/ ToSet(text) \cap Special # {}
    THEN <<Quote>> \o Escaped(text) \o <<Quote>>
    ELSE text

ArrayText(list) ==
    <<Open>> \o FlattenSeq([i \in DOMAIN list |->
        IF i = 1 THEN Element(list[i]) ELSE <<Comma>> \o Element(list[i])]) \o <<Close>>

(* std::getline up to each comma: nothing follows the last one.            *)
LineEnd(text, p) == Min({q \in p .. Len(text) + 1 : q > Len(text) \/ text[q] = Comma})

Pieces(text) ==
    LET from[p \in 1 .. Len(text) + 2] ==
            IF p > Len(text) THEN <<>>
            ELSE <<SubSeq(text, p, LineEnd(text, p) - 1)>> \o from[LineEnd(text, p) + 1]
    IN  from[1]

(* A mutation of Unquoted: the quotes are left as they are.                *)
Quoted(item) == item

(* One quote in front and one behind are taken off, each by itself.        *)
Unquoted(item) ==
    LET rest == IF item # <<>> /\ Head(item) = Quote THEN Tail(item) ELSE item
    IN  IF rest # <<>> /\ Last(rest) = Quote THEN Front(rest) ELSE rest

(* Refused only when both braces are missing.                              *)
ParseTextArray(row) ==
    IF row \in {<<>>, <<Open, Close>>} \/ (Head(row) # Open /\ Last(row) # Close)
    THEN <<>>
    ELSE LET items == Pieces(SubSeq(row, 2, Len(row) - 1)) IN [i \in DOMAIN items |-> Unquoted(items[i])]

-----------------------------------------------------------------------------
(* What is sent for a row of the table: SELECT * has the columns in the    *)
(* order of TransactionColumns.                                            *)
Columns(row) == <<row.txHash, ArrayText(row.txIn), ArrayText(row.txOut), row.time, row.satoshi>>
InAddress == 2
OutAddress == 3

ParseRow(sent) ==
    [txHash |-> sent[1], txIn |-> ParseTextArray(sent[InAddress]),
     txOut |-> ParseTextArray(sent[OutAddress]), time |-> sent[4], satoshi |-> sent[5]]

(* A mutation of ParseRows: the vector is resized instead of reserved.     *)
ParseRowsResized(sent) ==
    [i \in DOMAIN sent |-> [txHash |-> "", txIn |-> <<>>, txOut |-> <<>>, time |-> 0, satoshi |-> 0]]
        \o [i \in DOMAIN sent |-> ParseRow(sent[i])]

ParseRows(sent) == [i \in DOMAIN sent |-> ParseRow(sent[i])]

ParseTextArrayColumn(sent, column) ==
    FlattenSeq([i \in DOMAIN sent |-> ParseTextArray(sent[i][column])])

(* What the server may send for these rows: in any order.                  *)
Orders(rows) == {s \in [1 .. Cardinality(rows) -> rows] : ToSet(s) = rows}
Sent(rows) == {[i \in DOMAIN s |-> Columns(s[i])] : s \in Orders(rows)}

Answers(call, arg, result) == answer' = [call |-> call, arg |-> arg, result |-> result, outcome |-> "ok"]

(* The answer to a call whose statement failed: "down" when there was no   *)
(* server to run it, "error" when it refused the statement.                *)
Fails(call, arg, outcome) ==
    answer' = [call |-> call, arg |-> arg, result |-> <<>>, outcome |-> outcome]

FindQuery(call, arg, results) ==
    \/ \E result \in results : Answers(call, arg, result)
    \/ Fails(call, arg, "down")

Inputs(sent) == ParseTextArrayColumn(sent, InAddress)
Outputs(sent) == ParseTextArrayColumn(sent, OutAddress)

(* one_row throws unless there is exactly one.                             *)
OneRow(sent) == IF Len(sent) = 1 THEN ParseRows(sent) ELSE <<>>

-----------------------------------------------------------------------------
(* The conditions of the queries.                                          *)
HashIs(row, hash) == row.txHash = hash
SatoshiIs(row, satoshi) == row.satoshi = satoshi

(* A mutation of Between: the end of the range is left out.                *)
BetweenHalfOpen(row, range) == range[1] <= row.time /\ row.time < range[2]

Between(row, range) == range[1] <= row.time /\ row.time <= range[2]

Ranges == Times \X Times

(* ANY over the array of the two address columns.  PostgreSQL cannot make  *)
(* one array of two whose lengths differ, and refuses the statement.       *)
AnyIs(row, address) == address \in ToSet(row.txIn) \cup ToSet(row.txOut)
Uneven(row) == Len(row.txIn) # Len(row.txOut)

FindByTransactionHash ==
    \E row \in Rows :
        LET found == {r \in table : HashIs(r, row.txHash)}
            arg == <<row.txHash>>
        IN  \/ FindQuery("row by hash", arg, {OneRow(sent) : sent \in Sent(found)})
            \/ FindQuery("inputs by hash", arg, {Inputs(sent) : sent \in Sent(found)})
            \/ FindQuery("outputs by hash", arg, {Outputs(sent) : sent \in Sent(found)})

FindByTimeRange ==
    \E range \in Ranges :
        LET found == {r \in table : Between(r, range)}
        IN  \/ FindQuery("rows by time", range, {ParseRows(sent) : sent \in Sent(found)})
            \/ FindQuery("inputs by time", range, {Inputs(sent) : sent \in Sent(found)})
            \/ FindQuery("outputs by time", range, {Outputs(sent) : sent \in Sent(found)})

FindBySatoshi ==
    \E n \in Amounts :
        LET found == {r \in table : SatoshiIs(r, n)}
        IN  \/ FindQuery("rows by satoshi", <<n>>, {ParseRows(sent) : sent \in Sent(found)})
            \/ FindQuery("inputs by satoshi", <<n>>, {Inputs(sent) : sent \in Sent(found)})
            \/ FindQuery("outputs by satoshi", <<n>>, {Outputs(sent) : sent \in Sent(found)})

FindBySatoshiTimeRange ==
    \E n \in Amounts, range \in Ranges :
        LET found == {r \in table : SatoshiIs(r, n) /\ Between(r, range)}
            arg == range \o <<n>>
        IN  \/ FindQuery("rows by satoshi and time", arg, {ParseRows(sent) : sent \in Sent(found)})
            \/ FindQuery("inputs by satoshi and time", arg, {Inputs(sent) : sent \in Sent(found)})
            \/ FindQuery("outputs by satoshi and time", arg, {Outputs(sent) : sent \in Sent(found)})

FindByWallet ==
    \E address \in Addresses :
        \/ /\ \E r \in table : Uneven(r)
           /\ Fails("rows by wallet", <<address>>, "error")
        \/ /\ \A r \in table : ~ Uneven(r)
           /\ FindQuery("rows by wallet", <<address>>,
                        {ParseRows(sent) : sent \in Sent({r \in table : AnyIs(r, address)})})

(* The server may look at the time first, and then spare a row outside the *)
(* range the other condition.                                              *)
FindByWalletTimeRange ==
    \E address \in Addresses, range \in Ranges :
        LET arg == range \o <<address>>
            call == "rows by wallet and time"
        IN  \/ /\ \E r \in table : Uneven(r)
               /\ Fails(call, arg, "error")
            \/ /\ \A r \in table : Between(r, range) => ~ Uneven(r)
               /\ FindQuery(call, arg, {ParseRows(sent) : sent \in
                      Sent({r \in table : AnyIs(r, address) /\ Between(r, range)})})

Find ==
    /\ \/ FindByTransactionHash
       \/ FindByTimeRange
       \/ FindBySatoshi
       \/ FindBySatoshiTimeRange
       \/ FindByWallet
       \/ FindByWalletTimeRange
    /\ UNCHANGED table

(* Rows arrive, through insert or from other clients; the hash is the key. *)
Store ==
    /\ \E row \in Rows :
          /\ \A r \in table : r.txHash # row.txHash
          /\ table' = table \cup {row}
    /\ answer' = None

Init == table = {} /\ answer = None

Next == Store \/ Find

Spec == Init /\ [][Next]_vars
-----------------------------------------------------------------------------
(* Properties.                                                             *)
Hashes == {row.txHash : row \in Rows}
RowCalls == {"row by hash", "rows by wallet", "rows by wallet and time", "rows by time",
             "rows by satoshi", "rows by satoshi and time"}
InputCalls == {"inputs by hash", "inputs by time", "inputs by satoshi", "inputs by satoshi and time"}
OutputCalls == {"outputs by hash", "outputs by time", "outputs by satoshi", "outputs by satoshi and time"}

(* The table has each hash once, and an answer consists of rows with       *)
(* hashes that were stored, or of texts; a call that fails has none.       *)
TypeOK ==
    /\ table \subseteq Rows
    /\ \A r1, r2 \in table : r1.txHash = r2.txHash => r1 = r2
    /\ answer.call \in RowCalls \cup InputCalls \cup OutputCalls \cup {"none"}
    /\ answer.outcome \in {"ok", "error", "down"}
    /\ answer.outcome # "ok" => answer.result = <<>>
    /\ answer.call \in RowCalls =>
          \A i \in DOMAIN answer.result : answer.result[i].txHash \in Hashes
    /\ answer.call = "row by hash" => Len(answer.result) <= 1

(* What each find function is documented to look for (ITransactionDatabase). *)
Asked(r) ==
    LET a == answer.arg
        during == a[1] <= r.time /\ r.time <= a[2]
        pays(address) == \E text \in ToSet(r.txIn \o r.txOut) : text = address
    IN  CASE answer.call \in {"row by hash", "inputs by hash", "outputs by hash"} -> r.txHash = a[1]
          [] answer.call \in {"rows by time", "inputs by time", "outputs by time"} -> during
          [] answer.call \in {"rows by satoshi", "inputs by satoshi", "outputs by satoshi"} ->
                r.satoshi = a[1]
          [] answer.call \in {"rows by satoshi and time", "inputs by satoshi and time",
                              "outputs by satoshi and time"} -> r.satoshi = a[3] /\ during
          [] answer.call = "rows by wallet" -> pays(a[1])
          [] answer.call = "rows by wallet and time" -> pays(a[3]) /\ during

(* Does an array of these texts survive being sent as one text?            *)
Readable(list) == \A i \in DOMAIN list : ToSet(list[i]) \cap {Comma, Quote, Backslash} = {}

Concatenations(rows, List(_)) ==
    {FlattenSeq([i \in DOMAIN s |-> List(s[i])]) : s \in Orders(rows)}

(* An answer that is not a failure has the rows asked for, each once and   *)
(* as it was stored, or their addresses, none lost, split or added, in     *)
(* whatever order the server sent the rows; as long as no address in them  *)
(* has a comma, a quote or a backslash.  No address the parser makes has.  *)
FindsExactly ==
    LET asked == {r \in table : Asked(r)}
        TxIn(r) == r.txIn
        TxOut(r) == r.txOut
    IN  answer.call # "none" /\ answer.outcome = "ok"
          /\ (\A r \in asked : Readable(r.txIn) /\ Readable(r.txOut)) =>
        /\ answer.call \in RowCalls => answer.result \in Orders(asked)
        /\ answer.call \in InputCalls => answer.result \in Concatenations(asked, TxIn)
        /\ answer.call \in OutputCalls => answer.result \in Concatenations(asked, TxOut)

(* Whatever arrays a stored row is given, it is read back as it is, empty  *)
(* texts and texts with blanks or braces included, exactly when none of    *)
(* its texts has a comma, a quote or a backslash.                          *)
ArraysReadBack ==
    answer = None =>
        \A row \in table, list \in Lists :
            LET paid == [row EXCEPT !.txOut = list]
            IN  (ParseRow(Columns(paid)) = paid) <=> Readable(row.txIn) /\ Readable(list)

(* "Retrieves all transaction records for the specified wallet address"    *)
(* (ITransactionDatabase.h, above findByWallet): with a server that runs   *)
(* the statement, no row of the wallet is missing.                         *)
WalletFindsAll ==
    answer.call = "rows by wallet" /\ answer.outcome # "down" =>
        \A r \in table : Asked(r) => \E i \in DOMAIN answer.result : answer.result[i].txHash = r.txHash
=============================================================================
