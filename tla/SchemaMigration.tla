-------------------------- MODULE SchemaMigration --------------------------
(***************************************************************************)
(* How a ReviewStore brings an old candidate_assertions table forward      *)
(* (pipeline/store.py, _initialize and _migrate_candidate_assertions_      *)
(* schema).  Every service that is constructed runs it.                    *)
(*                                                                         *)
(* The columns are looked up once, then one statement follows the other.   *)
(* Python's sqlite3 opens a transaction before an UPDATE, not before an    *)
(* ALTER: an ALTER commits at once unless an UPDATE came before it, and    *)
(* what follows the first UPDATE commits together, at the end.             *)
(***************************************************************************)
EXTENDS Naturals

CONSTANTS
    Processes,      \* the processes that construct a ReviewStore
    OldIds,         \* candidates of the table from before the migration
    NewIds,         \* candidates submitted afterwards
    OldStatus,      \* OldStatus[i]: candidate_status of old candidate i
    Verdict,        \* Verdict[i]: validation status a new candidate comes with
    OldTables,      \* the columns an old table may have; {} when there is none
    Nobody          \* no process

VARIABLES
    table,          \* the committed table: its columns, and a row per candidate
    starter,        \* starter[p]: where p's construction of the store is
    writer,         \* the process in a transaction
    work,           \* the table as the writer has changed it
    failed          \* a construction has failed or was cut off

migrationVars == <<table, starter, writer, work, failed>>

\* The columns of today, with the default a missing one is added with.
Default == [validation_status |-> "needs_review", review_status |-> "pending_review",
            source_kind |-> "legacy_bootstrap", source_ref |-> "legacy:unspecified",
            source_label |-> "", source_metadata_json |-> "{}",
            source_text |-> "", claim_text |-> "", trace_id |-> ""]
Columns == DOMAIN Default
Created == Columns \ {"trace_id"}
Copied == {"valid", "invalid", "needs_review"}

\* An old table has one of the two status columns, and none has trace_id: that
\* one is never created, always added.
ASSUME MigrationAssumption ==
    /\ Nobody \notin Processes /\ OldIds \cap NewIds = {}
    /\ \A columns \in OldTables :
          /\ columns \subseteq Created \cup {"candidate_status"}
          /\ columns = {} \/ ("candidate_status" \in columns <=> "validation_status" \notin columns)

(***************************************************************************)
(* The statements, in order; each is due or not by what was looked up.     *)
(***************************************************************************)
Alter(column) == [do |-> "alter", column |-> column]
Fill(column) == [do |-> "fill", column |-> column]
Copy == [do |-> "copy", column |-> "candidate_status"]

Statements ==
    <<Alter("validation_status"), Alter("review_status"), Alter("source_kind"),
      Alter("source_ref"), Fill("source_ref"), Alter("source_label"),
      Alter("source_metadata_json"), Fill("source_metadata_json"),
      Alter("source_text"), Alter("claim_text"), Alter("trace_id"), Copy>>

\* Mutants: a missing column is added but not filled in; only a table of the
\* first phase is brought forward.
DueUnfilled(statement, existing) ==
    CASE statement.do = "alter" -> statement.column \notin existing
      [] statement.do = "fill"  -> FALSE
      [] statement.do = "copy"  -> statement.column \in existing
DueOfPhase1(statement, existing) ==
    /\ "candidate_status" \in existing
    /\ statement.do = "copy" \/ statement.column \notin existing

\* A column is filled in only by the process that adds it.
Due(statement, existing) ==
    IF statement.do = "copy" THEN statement.column \in existing ELSE statement.column \notin existing

\* The row with one more column, or another value in it.
With(row, column, value) ==
    [c \in DOMAIN row \cup {column} |-> IF c = column THEN value ELSE row[c]]

\* The reference made up is 'legacy:' with the candidate's own id behind it.
Filled(row, column) ==
    IF column = "source_ref"
    THEN IF row.source_ref = Default.source_ref THEN With(row, column, "legacy:candidate_id") ELSE row
    ELSE IF row.source_kind = Default.source_kind /\ row.source_metadata_json = "{}"
         THEN With(row, column, "migrated_from_phase1") ELSE row

\* Mutant: every legacy status is copied, one of today or not.
CopyOfAny(row) == With(row, "validation_status", row.candidate_status)
CopyOf(row) ==
    IF row.candidate_status \in Copied THEN With(row, "validation_status", row.candidate_status) ELSE row

Applied(t, statement) ==
    LET Row(i) == CASE statement.do = "alter" -> With(t.rows[i], statement.column, Default[statement.column])
                    [] statement.do = "fill"  -> Filled(t.rows[i], statement.column)
                    [] statement.do = "copy"  -> CopyOf(t.rows[i])
    IN  [columns |-> IF statement.do = "alter" THEN t.columns \cup {statement.column} ELSE t.columns,
         rows    |-> [i \in DOMAIN t.rows |-> Row(i)]]

(***************************************************************************)
(* Constructing the store.                                                 *)
(***************************************************************************)
NoWork == [columns |-> {}, rows |-> <<>>]
Down == [at |-> "down", todo |-> {}]
Ready(p) == starter[p].at = "ready"
Seen(p) == IF writer = p THEN work ELSE table

\* CREATE TABLE IF NOT EXISTS.
Open(p) ==
    /\ starter[p].at = "down"
    /\ starter' = [starter EXCEPT ![p].at = "opened"]
    /\ table' = IF table.columns = {} THEN [table EXCEPT !.columns = Created] ELSE table
    /\ UNCHANGED <<writer, work, failed>>

\* PRAGMA table_info, once; all that follows is decided by it.
LookUpColumns(p) ==
    /\ starter[p].at = "opened"
    /\ starter' = [starter EXCEPT ![p] = [at |-> "migrating", todo |-> {k \in DOMAIN Statements : Due(Statements[k], table.columns)}]]
    /\ UNCHANGED <<table, writer, work, failed>>

\* Statement k is p's next.
IsNext(p, k) ==
    /\ starter[p].at = "migrating"
    /\ k \in starter[p].todo /\ \A j \in starter[p].todo : k <= j
Done(p, k) == starter' = [starter EXCEPT ![p].todo = @ \ {k}]
Exists(p, k) == Statements[k].do = "alter" /\ Statements[k].column \in Seen(p).columns

\* An ALTER outside a transaction.
AlterCommitted(p, k) ==
    /\ IsNext(p, k) /\ Statements[k].do = "alter" /\ ~Exists(p, k)
    /\ writer = Nobody
    /\ table' = Applied(table, Statements[k])
    /\ Done(p, k)
    /\ UNCHANGED <<writer, work, failed>>

\* An UPDATE begins a transaction; an ALTER after it is part of it.
ChangeInTransaction(p, k) ==
    /\ IsNext(p, k) /\ ~Exists(p, k)
    /\ \/ writer = p
       \/ writer = Nobody /\ Statements[k].do # "alter"
    /\ writer' = p /\ work' = Applied(Seen(p), Statements[k])
    /\ Done(p, k)
    /\ UNCHANGED <<table, failed>>

\* The transaction of p, if it is in one, ends.
EndTransaction(p) ==
    /\ writer' = IF writer = p THEN Nobody ELSE writer
    /\ work' = IF writer = p THEN NoWork ELSE work

\* The column is there by now: "duplicate column name".
FailOnDuplicate(p, k) ==
    /\ IsNext(p, k) /\ Exists(p, k)
    /\ starter' = [starter EXCEPT ![p] = Down]
    /\ failed' = TRUE
    /\ EndTransaction(p)
    /\ UNCHANGED table

\* The script that makes the indexes commits first.
FinishMigration(p) ==
    /\ starter[p].at = "migrating" /\ starter[p].todo = {}
    /\ starter' = [starter EXCEPT ![p].at = "ready"]
    /\ table' = Seen(p)
    /\ EndTransaction(p)
    /\ UNCHANGED failed

\* The process dies or waits too long for the lock; SQLite rolls back.
CutOff(p) ==
    /\ starter[p].at # "down"
    /\ starter' = [starter EXCEPT ![p] = Down]
    /\ failed' = (failed \/ ~Ready(p))
    /\ EndTransaction(p)
    /\ UNCHANGED table

\* insert_candidate names every column; a legacy column is left empty.
SubmittedRow(i) ==
    [c \in table.columns |->
        CASE c = "validation_status" -> Verdict[i]
          [] c = "source_metadata_json" -> "{}"
          [] c = "review_status" -> "pending_review"
          [] OTHER -> ""]

Submit(p, i) ==
    /\ Ready(p) /\ writer = Nobody /\ Columns \subseteq table.columns
    /\ i \in NewIds \ DOMAIN table.rows
    /\ table' = [table EXCEPT !.rows = [j \in DOMAIN @ \cup {i} |-> IF j = i THEN SubmittedRow(i) ELSE @[j]]]
    /\ UNCHANGED <<starter, writer, work, failed>>

\* An old row: what a column said then is of no further interest.
OldRow(i, columns) ==
    [c \in columns |-> IF c = "candidate_status" THEN OldStatus[i]
                       ELSE IF c = "validation_status" THEN "valid" ELSE "old"]

MigrationInit ==
    /\ \E columns \in OldTables :
          table = [columns |-> columns,
                   rows |-> [i \in IF columns = {} THEN {} ELSE OldIds |-> OldRow(i, columns)]]
    /\ starter = [p \in Processes |-> Down]
    /\ writer = Nobody /\ work = NoWork /\ failed = FALSE

Start(p) ==
    \/ Open(p) \/ LookUpColumns(p) \/ FinishMigration(p) \/ CutOff(p)
    \/ \E k \in DOMAIN Statements :
          AlterCommitted(p, k) \/ ChangeInTransaction(p, k) \/ FailOnDuplicate(p, k)

MigrationNext == \E p \in Processes : Start(p) \/ \E i \in NewIds : Submit(p, i)

-----------------------------------------------------------------------------
\* A store that was constructed finds every column its INSERT names, however
\* many processes started at once or died halfway.
ReadyOnWholeTable ==
    \A p \in Processes : Ready(p) => Columns \subseteq table.columns

\* No verdict is lost or made up: once a store is ready an old candidate has
\* the status its legacy column says, where that is a status of today, and a
\* new one keeps the status it came with through every later start.
StatusSurvives ==
    (\E p \in Processes : Ready(p)) =>
        \A i \in DOMAIN table.rows :
            table.rows[i].validation_status =
                IF i \in NewIds THEN Verdict[i]
                ELSE IF "candidate_status" \notin table.columns THEN "valid"
                ELSE IF OldStatus[i] \in Copied THEN OldStatus[i] ELSE "needs_review"

\* When every start is over and none has failed, an old candidate is told
\* apart from a new one by its source, and by its metadata unless its table
\* said what kind of source it has.  (One that failed, if only because two ran
\* at once, may leave the placeholders for good: the next one finds the column
\* and does not fill it in.)
OldRowsMarked ==
    /\ \E p \in Processes : Ready(p)
    /\ \A p \in Processes : starter[p].at # "migrating"
    /\ ~failed
    =>
        \A i \in DOMAIN table.rows \cap OldIds :
            /\ table.rows[i].source_ref # Default.source_ref
            /\ \/ table.rows[i].source_metadata_json # "{}"
               \/ table.rows[i].source_kind # Default.source_kind
=============================================================================
