------------------------------ MODULE D1Bridge ------------------------------
(***************************************************************************)
(* The akamata_d1 imports of src/deploy/worker/index.mjs and their guest   *)
(* side, src/src/db/d1.zig: statements kept in a registry of the isolate,  *)
(* one suspended query per statement, and the meta of the last d1_exec.    *)
(*                                                                         *)
(* A task has one statement at a time, with one parameter.  The database   *)
(* answers a query with rows that echo the parameter, and gives rowids in  *)
(* the order of the d1_exec calls.                                         *)
(***************************************************************************)
EXTENDS Integers, Sequences, IsolateTasks

CONSTANTS
    Ints,      \* integers a handler binds
    Texts,     \* byte lengths of the texts it binds
    SafeInt,   \* scaled 2^53 - 1: beyond it a JS number has even values only
    MaxRows    \* bound: rows of a result

ASSUME D1Assumption == /\ Ints \subseteq Nat /\ Texts \subseteq Nat
                       /\ SafeInt \in Nat /\ MaxRows \in Nat

VARIABLES
    d1stmts,     \* the registry: handle -> entry
    nextStmtId,
    lastD1Meta,  \* last_row_id of the last d1_exec, -1 before the first
    rowid,       \* the database's own counter
    stmt,        \* per task: its StmtBackend
    inserted,    \* per task: the rowid D1 gave a d1_exec whose id it has yet to read, or 0
    orphans      \* for the properties only: handles of statements a trap left behind

d1Vars == <<d1stmts, nextStmtId, lastD1Meta, rowid, stmt, inserted, orphans>>

Null   == [type |-> "null"]
Values == {Null} \cup {[type |-> "int", n |-> i] : i \in Ints}
                 \cup {[type |-> "text", n |-> b] : b \in Texts}
NoRow  == [value |-> Null, nth |-> 0]
NoRows == <<NoRow>>   \* rows: null

\* A guest's statement: its handle, whether d1_run has run it since the last
\* reset, and, for the properties only, what was bound last, what was bound when
\* it ran, and the rows it was given since.
NoStmt == [handle |-> 0, ran |-> FALSE, bound |-> Null, asked |-> Null, seen |-> 0]

D1Init ==
    /\ d1stmts = <<>> /\ nextStmtId = 1
    /\ lastD1Meta = -1 /\ rowid = 0
    /\ stmt = [t \in Tasks |-> NoStmt]
    /\ inserted = [t \in Tasks |-> 0]
    /\ orphans = {}

Entry(t) == d1stmts[stmt[t].handle]
Drop(f, k) == [x \in DOMAIN f \ {k} |-> f[x]]

\* d1_prepare and prepareBackend, with a database (a failure changes nothing).
D1Prepare(t) ==
    /\ stmt[t] = NoStmt
    /\ d1stmts' = [h \in DOMAIN d1stmts \cup {nextStmtId} |->
                      IF h = nextStmtId
                      THEN [arg |-> Null, rows |-> NoRows, cursor |-> 0, row |-> NoRow]
                      ELSE d1stmts[h]]
    /\ nextStmtId' = nextStmtId + 1
    /\ stmt' = [stmt EXCEPT ![t].handle = nextStmtId]
    /\ UNCHANGED <<lastD1Meta, rowid, inserted, orphans>>

\* Number(val): what d1_bind_int64 makes of a 64-bit integer.  Beyond SafeInt
\* only even numbers exist; ties go to the multiple of four.
AsNumber(v) ==
    IF v.type # "int" \/ v.n <= SafeInt \/ v.n % 2 = 0 THEN v
    ELSE [v EXCEPT !.n = IF v.n % 4 = 1 THEN v.n - 1 ELSE v.n + 1]

\* d1_bind_*: the arguments survive a reset, as in SQLite.
D1Bind(t, v) ==
    /\ stmt[t] # NoStmt
    /\ d1stmts' = [d1stmts EXCEPT ![stmt[t].handle].arg = AsNumber(v)]
    /\ stmt' = [stmt EXCEPT ![t].bound = v]
    /\ UNCHANGED <<nextStmtId, lastD1Meta, rowid, inserted, orphans>>

\* The end of d1_run: rows materialised, cursor at the first, and stepStmt
\* remembers that it ran.  A failed query changes nothing.
D1Ran(t, count) ==
    /\ d1stmts' = [d1stmts EXCEPT ![stmt[t].handle] =
                      [@ EXCEPT !.rows = [i \in 1..count |-> [value |-> Entry(t).arg, nth |-> i]],
                                !.cursor = 0]]
    /\ stmt' = [stmt EXCEPT ![t].ran = TRUE, ![t].asked = stmt[t].bound]
    /\ UNCHANGED <<nextStmtId, lastD1Meta, rowid, inserted, orphans>>

\* d1_step: the next row, or none.
D1Step(t) ==
    /\ stmt[t].ran
    /\ LET e == Entry(t) IN
       IF e.cursor >= Len(e.rows)
       THEN /\ d1stmts' = [d1stmts EXCEPT ![stmt[t].handle].row = NoRow]
            /\ UNCHANGED stmt
       ELSE /\ d1stmts' = [d1stmts EXCEPT ![stmt[t].handle] =
                              [e EXCEPT !.row = e.rows[e.cursor + 1], !.cursor = @ + 1]]
            /\ stmt' = [stmt EXCEPT ![t].seen = @ + 1]
    /\ UNCHANGED <<nextStmtId, lastD1Meta, rowid, inserted, orphans>>

\* d1_reset drops the rows, resetStmt forgets that it ran.
\* (Faulty variant: the registry keeps the rows.)
D1ResetGuestOnly(t) ==
    /\ stmt[t] # NoStmt
    /\ stmt' = [stmt EXCEPT ![t].ran = FALSE, ![t].seen = 0]
    /\ UNCHANGED <<d1stmts, nextStmtId, lastD1Meta, rowid, inserted, orphans>>
D1Reset(t) ==
    /\ stmt[t] # NoStmt
    /\ d1stmts' = [d1stmts EXCEPT ![stmt[t].handle] =
                      [@ EXCEPT !.rows = NoRows, !.cursor = 0, !.row = NoRow]]
    /\ stmt' = [stmt EXCEPT ![t].ran = FALSE, ![t].seen = 0]
    /\ UNCHANGED <<nextStmtId, lastD1Meta, rowid, inserted, orphans>>

\* deinitStmt and d1_finalize.
D1Finalize(t) ==
    /\ stmt[t] # NoStmt
    /\ d1stmts' = Drop(d1stmts, stmt[t].handle)
    /\ stmt' = [stmt EXCEPT ![t] = NoStmt]
    /\ UNCHANGED <<nextStmtId, lastD1Meta, rowid, inserted, orphans>>

\* A trap: deinitStmt never runs, the entry stays.
D1Trap(t) ==
    /\ orphans' = orphans \cup ({stmt[t].handle} \ {0})
    /\ stmt' = [stmt EXCEPT ![t] = NoStmt]
    /\ UNCHANGED <<d1stmts, nextStmtId, lastD1Meta, rowid, inserted>>

\* The end of a successful d1_exec, on the JS side ...
D1Executed(t) ==
    /\ rowid' = rowid + 1
    /\ lastD1Meta' = rowid + 1
    /\ inserted' = [inserted EXCEPT ![t] = rowid + 1]
    /\ UNCHANGED <<d1stmts, nextStmtId, stmt, orphans>>

\* ... and execResultBackend, which reads lastD1Meta when it is resumed.
D1LastInsertId(t) ==
    /\ inserted' = [inserted EXCEPT ![t] = 0]
    /\ UNCHANGED <<d1stmts, nextStmtId, lastD1Meta, rowid, stmt, orphans>>

-----------------------------------------------------------------------------
\* What d1_column_int64 and d1_column_text_len/copy give the guest for a value:
\* a null reads as 0 or "", a text of n bytes as no number, a number as its digits.
ColumnInt(v) == IF v.type = "int" THEN v.n ELSE 0
ColumnTextLen(v) == IF v.type = "text" THEN v.n ELSE 0
ColumnTextCopy(v, cap) == IF ColumnTextLen(v) < cap THEN ColumnTextLen(v) ELSE cap

\* What a handler reads is what it asked for: the current row of its statement
\* is the next one of the query it ran with the parameter it had bound, never a
\* row of an earlier run, another statement or another request, and the value
\* survives the two conversions (integers up to 2^53 - 1, as
\* docs/en/portable-backend.md says).  And the insert id that follows a d1_exec
\* is that statement's own, although the meta is one variable of the isolate.
ReadsOwnAnswers ==
    \A t \in Tasks :
        /\ inserted[t] # 0 => lastD1Meta = inserted[t]
        /\ stmt[t] # NoStmt /\ Entry(t).row # NoRow =>
              LET row == Entry(t).row IN
              /\ row.nth = stmt[t].seen
              /\ CASE stmt[t].asked.type = "text" ->
                        ColumnTextCopy(row.value, ColumnTextLen(row.value)) = stmt[t].asked.n
                   [] stmt[t].asked.type = "int" /\ stmt[t].asked.n <= SafeInt ->
                        ColumnInt(row.value) = stmt[t].asked.n
                   [] OTHER -> TRUE
=============================================================================
