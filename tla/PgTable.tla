------------------------------ MODULE PgTable ------------------------------
(***************************************************************************)
(* PostgreSQL as the dashboard's request handlers see it.  Every handler   *)
(* of app.py opens its own connection (get_db, app.py:16) and runs its     *)
(* statements in one transaction at psycopg2's default level, READ         *)
(* COMMITTED.  PostgreSQL itself is external to the repository; only what  *)
(* the handlers depend on is stated here:                                  *)
(*                                                                         *)
(*  - a SELECT sees the rows committed when it starts and the writes of    *)
(*    its own transaction;                                                 *)
(*  - an UPDATE or a DELETE fixes the rows it is about when it starts      *)
(*    (want), then locks them one after the other, waiting for a row that  *)
(*    another transaction has written; a row is written from its newest    *)
(*    committed version, and skipped when it is gone by then;              *)
(*  - the written rows stay locked and invisible to others until the       *)
(*    transaction commits; a rollback forgets them.                        *)
(*                                                                         *)
(* The order in which one statement reaches its rows is left open.         *)
(***************************************************************************)
EXTENDS Naturals

CONSTANTS
    Worker,     \* the server's request threads, one transaction each
    Row,        \* the primary keys a row can have
    Absent,     \* the value of a row that does not exist
    Clean       \* the mark of a row a transaction has not written

ASSUME MarkAssumption == Absent # Clean

VARIABLES
    table,      \* the committed rows
    buf,        \* the rows written, and locked, by each open transaction
    want        \* the rows each running statement has still to lock

pgVars == <<table, buf, want>>

Held(w) == {r \in Row : buf[w][r] # Clean}

Free(w, r) == \A v \in Worker \ {w} : r \notin Held(v)

\* Row r as a statement of w reads it.
Seen(w, r) == IF buf[w][r] = Clean THEN table[r] ELSE buf[w][r]

SeenRows(w) == {r \in Row : Seen(w, r) # Absent}

LiveRows == {r \in Row : table[r] # Absent}

NoWrites == [r \in Row |-> Clean]

Put(w, r, x) == buf' = [buf EXCEPT ![w][r] = x]

\* COMMIT publishes everything the transaction wrote.
Publish(w) ==
    /\ table' = [r \in Row |-> Seen(w, r)]
    /\ buf' = [buf EXCEPT ![w] = NoWrites]
    /\ UNCHANGED want

\* ROLLBACK, also what closing the connection without a COMMIT does.
Discard(w) ==
    /\ buf' = [buf EXCEPT ![w] = NoWrites]
    /\ want' = [want EXCEPT ![w] = {}]
    /\ UNCHANGED table

WaitsFor(v, w) == v # w /\ want[v] \cap Held(w) # {}

\* The deadlock detector may pick w as its victim.
Deadlocked(w) ==
    \E S \in SUBSET Worker :
        /\ w \in S
        /\ \A v \in S : \E u \in S : WaitsFor(v, u)

PgInit(rows) ==
    /\ table = rows
    /\ buf = [w \in Worker |-> NoWrites]
    /\ want = [w \in Worker |-> {}]

PgTypeOK(Value) ==
    /\ table \in [Row -> Value \cup {Absent}]
    /\ buf \in [Worker -> [Row -> Value \cup {Absent, Clean}]]
    /\ want \in [Worker -> SUBSET Row]

\* No row is written by two open transactions.
RowLocksExclusive ==
    \A v, w \in Worker : v # w => Held(v) \cap Held(w) = {}
=============================================================================
