------------------------ MODULE ReviewStorage_proofs ------------------------
(***************************************************************************)
(* A constructed store finds a whole table with every status and every     *)
(* mark it should have, and the evidence recorded in it only grows and     *)
(* holds, for any processes, candidates and artifacts.                     *)
(***************************************************************************)
EXTENDS ReviewStorage, FiniteSetTheorems, NaturalsInduction, WellFoundedInduction, TLAPS

AllColumns == Columns \cup {"candidate_status"}

(***************************************************************************)
(* The inductive invariant of the migration.                               *)
(***************************************************************************)
\* A table is a record of columns and rows.
IsTable(t) ==
    /\ t = [columns |-> t.columns, rows |-> t.rows]
    /\ t.columns \subseteq AllColumns
    /\ t.rows = [i \in DOMAIN t.rows |-> t.rows[i]]

StarterType ==
    starter \in [Processes -> [at : {"down", "opened", "migrating", "ready"}, todo : SUBSET (1..12)]]

\* The writer is migrating, and has changed the table but lost none of it.
WriterHolds ==
    /\ writer \in Processes \cup {Nobody}
    /\ writer # Nobody => /\ starter[writer].at = "migrating"
                          /\ IsTable(work)
                          /\ table.columns \subseteq work.columns
                          /\ DOMAIN work.rows = DOMAIN table.rows

\* What p has not yet added it is still going to add.
ToBeAdded(p) ==
    starter[p].at = "migrating" =>
        \A c \in Columns : \/ c \in Seen(p).columns
                           \/ \E k \in starter[p].todo : Statements[k] = Alter(c)

MigrationInv ==
    /\ IsTable(table) /\ StarterType /\ WriterHolds
    /\ \A p \in Processes : starter[p].at # "down" => table.columns # {}
    /\ \A p \in Processes : ToBeAdded(p)
    /\ ReadyOnWholeTable

(***************************************************************************)
(* Tables and statements.                                                  *)
(***************************************************************************)
LEMMA StatementsNumbered == DOMAIN Statements = 1..12
BY DEF Statements

LEMMA EveryColumnIsAdded ==
    ASSUME NEW c \in Columns
    PROVE  \E k \in 1..12 : Statements[k] = Alter(c)
<1>1. /\ Statements[1] = Alter("validation_status") /\ Statements[2] = Alter("review_status")
      /\ Statements[3] = Alter("source_kind") /\ Statements[4] = Alter("source_ref")
      /\ Statements[6] = Alter("source_label") /\ Statements[7] = Alter("source_metadata_json")
      /\ Statements[9] = Alter("source_text") /\ Statements[10] = Alter("claim_text")
      /\ Statements[11] = Alter("trace_id")
  BY DEF Statements
<1>2. c \in {"validation_status", "review_status", "source_kind", "source_ref", "source_label",
             "source_metadata_json", "source_text", "claim_text", "trace_id"}
  BY DEF Columns, Default
<1>. QED  BY <1>1, <1>2

LEMMA StatementKinds ==
    ASSUME NEW k \in 1..12
    PROVE  Statements[k].do = "alter" => /\ Statements[k].column \in Columns
                                         /\ Statements[k] = Alter(Statements[k].column)
BY DEF Statements, Alter, Fill, Copy, Columns, Default

\* A statement keeps the rows and the columns there are; an ALTER adds its own.
LEMMA AppliedTable ==
    ASSUME NEW t, IsTable(t), NEW k \in 1..12
    PROVE  LET u == Applied(t, Statements[k])
           IN  /\ IsTable(u) /\ t.columns \subseteq u.columns /\ DOMAIN u.rows = DOMAIN t.rows
               /\ Statements[k].do = "alter" => Statements[k].column \in u.columns
<1>. DEFINE u == Applied(t, Statements[k])
<1>. DEFINE s == Statements[k]
            columns == IF s.do = "alter" THEN t.columns \cup {s.column} ELSE t.columns
            Row(i) == CASE s.do = "alter" -> With(t.rows[i], s.column, Default[s.column])
                        [] s.do = "fill"  -> Filled(t.rows[i], s.column)
                        [] s.do = "copy"  -> CopyOf(t.rows[i])
<1>1. u = [columns |-> columns, rows |-> [i \in DOMAIN t.rows |-> Row(i)]]
  BY DEF Applied
<1>2. columns \subseteq AllColumns /\ t.columns \subseteq columns
  BY StatementKinds DEF IsTable, AllColumns
<1>3. s.do = "alter" => s.column \in columns
  OBVIOUS
<1>. HIDE DEF u, Row, columns, s
<1>4. u.columns = columns /\ u.rows = [i \in DOMAIN t.rows |-> Row(i)]
  BY <1>1
<1>5. DOMAIN u.rows = DOMAIN t.rows /\ u.rows = [i \in DOMAIN u.rows |-> u.rows[i]]
  BY <1>4
<1>6. IsTable(u)
  BY <1>1, <1>2, <1>4, <1>5 DEF IsTable
<1>. QED  BY <1>2, <1>3, <1>4, <1>5, <1>6 DEF u, s

LEMMA MigrationInitInv == MigrationInit => MigrationInv
<1>. SUFFICES ASSUME MigrationInit PROVE MigrationInv
  OBVIOUS
<1>1. PICK columns \in OldTables :
          table = [columns |-> columns,
                   rows |-> [i \in IF columns = {} THEN {} ELSE OldIds |-> OldRow(i, columns)]]
  BY DEF MigrationInit
<1>2. columns \subseteq AllColumns
  BY MigrationAssumption DEF AllColumns, Created
<1>3. IsTable(table)
  BY <1>1, <1>2 DEF IsTable
<1>4. StarterType /\ \A p \in Processes : starter[p].at = "down"
  BY DEF MigrationInit, StarterType, Down
<1>. QED  BY <1>3, <1>4 DEF MigrationInit, MigrationInv, WriterHolds, ToBeAdded, ReadyOnWholeTable, Ready

\* What other processes rely on stays true when the table only gains columns
\* and rows and nobody else's start moves.
LEMMA OthersUndisturbed ==
    ASSUME MigrationInv, NEW p \in Processes,
           table.columns \subseteq table'.columns,
           \A q \in Processes : q # p => starter'[q] = starter[q],
           \A q \in Processes : q # p => Seen(q).columns \subseteq Seen(q)'.columns
    PROVE  \A q \in Processes : q # p =>
              /\ starter'[q].at # "down" => table'.columns # {}
              /\ ToBeAdded(q)'
              /\ Ready(q)' => Columns \subseteq table'.columns
<1>. SUFFICES ASSUME NEW q \in Processes, q # p
              PROVE  /\ starter'[q].at # "down" => table'.columns # {}
                     /\ ToBeAdded(q)'
                     /\ Ready(q)' => Columns \subseteq table'.columns
  OBVIOUS
<1>1. starter'[q].at # "down" => table'.columns # {}
  BY DEF MigrationInv
<1>2. ToBeAdded(q)'
  BY DEF MigrationInv, ToBeAdded
<1>3. Ready(q)' => Columns \subseteq table'.columns
  BY DEF MigrationInv, ReadyOnWholeTable, Ready
<1>. QED  BY <1>1, <1>2, <1>3

LEMMA OpenKeepsInv ==
    ASSUME MigrationInv, NEW p \in Processes, Open(p)
    PROVE  MigrationInv'
<1>1. /\ IsTable(table)' /\ table.columns \subseteq table'.columns /\ table'.columns # {}
      /\ DOMAIN table'.rows = DOMAIN table.rows
      /\ table.columns # {} => table' = table
  <2>1. CASE table.columns # {}
    BY <2>1 DEF Open, MigrationInv, IsTable
  <2>2. CASE table.columns = {}
    <3>1. table' = [columns |-> Created, rows |-> table.rows]
      BY <2>2 DEF Open, MigrationInv, IsTable
    <3>2. "source_ref" \in Created /\ Created \subseteq AllColumns
      BY DEF Created, AllColumns, Columns, Default
    <3>. QED  BY <2>2, <3>1, <3>2 DEF MigrationInv, IsTable
  <2>. QED  BY <2>1, <2>2
<1>2. StarterType' /\ starter'[p].at = "opened" /\ starter[p].at = "down"
      /\ \A q \in Processes : q # p => starter'[q] = starter[q]
  BY DEF Open, MigrationInv, StarterType
<1>3. writer' = writer /\ work' = work /\ writer # p
  BY <1>2, MigrationAssumption DEF Open, MigrationInv, WriterHolds
<1>4. writer # Nobody => table' = table
  BY <1>1 DEF MigrationInv, WriterHolds
<1>5. WriterHolds'
  BY <1>2, <1>3, <1>4 DEF MigrationInv, WriterHolds, IsTable
<1>6. \A q \in Processes : Seen(q).columns \subseteq Seen(q)'.columns
  BY <1>1, <1>3 DEF Seen
<1>7. ToBeAdded(p)' /\ ~Ready(p)'
  BY <1>2 DEF ToBeAdded, Ready
<1>. QED  BY <1>1, <1>2, <1>5, <1>6, <1>7, OthersUndisturbed DEF MigrationInv, ReadyOnWholeTable

LEMMA LookUpKeepsInv ==
    ASSUME MigrationInv, NEW p \in Processes, LookUpColumns(p)
    PROVE  MigrationInv'
<1>1. /\ starter[p].at = "opened" /\ table' = table /\ writer' = writer /\ work' = work
      /\ starter'[p] = [at |-> "migrating", todo |-> {k \in 1..12 : Due(Statements[k], table.columns)}]
      /\ \A q \in Processes : q # p => starter'[q] = starter[q]
      /\ StarterType'
  BY StatementsNumbered DEF LookUpColumns, MigrationInv, StarterType
<1>2. writer # p
  BY <1>1, MigrationAssumption DEF MigrationInv, WriterHolds
<1>3. WriterHolds'
  BY <1>1, <1>2 DEF MigrationInv, WriterHolds, IsTable
<1>4. ToBeAdded(p)'
  <2>. SUFFICES ASSUME NEW c \in Columns, c \notin table.columns
                PROVE  \E k \in starter'[p].todo : Statements[k] = Alter(c)
    BY <1>1, <1>2 DEF ToBeAdded, Seen
  <2>1. PICK k \in 1..12 : Statements[k] = Alter(c)
    BY EveryColumnIsAdded
  <2>2. Due(Statements[k], table.columns)
    BY <2>1 DEF Due, Alter
  <2>. QED  BY <1>1, <2>1, <2>2
<1>5. ~Ready(p)' /\ table'.columns # {}
  BY <1>1 DEF Ready, MigrationInv
<1>6. \A q \in Processes : Seen(q).columns \subseteq Seen(q)'.columns
  BY <1>1 DEF Seen
<1>. QED  BY <1>1, <1>3, <1>4, <1>5, <1>6, OthersUndisturbed DEF MigrationInv, ReadyOnWholeTable, IsTable

\* Statement k is executed on what p sees.
LEMMA StepAdds ==
    ASSUME MigrationInv, NEW p \in Processes, NEW k \in 1..12, IsNext(p, k), Done(p, k),
           Seen(p)' = Applied(Seen(p), Statements[k]), IsTable(Seen(p))
    PROVE  /\ StarterType' /\ starter'[p].at = "migrating"
           /\ \A q \in Processes : q # p => starter'[q] = starter[q]
           /\ ToBeAdded(p)'
<1>1. /\ StarterType' /\ starter'[p].at = "migrating" /\ starter'[p].todo = starter[p].todo \ {k}
      /\ \A q \in Processes : q # p => starter'[q] = starter[q]
  BY DEF Done, IsNext, MigrationInv, StarterType
<1>2. /\ Seen(p).columns \subseteq Seen(p)'.columns
      /\ Statements[k].do = "alter" => Statements[k].column \in Seen(p)'.columns
  BY AppliedTable
<1>3. ASSUME NEW c \in Columns, c \notin Seen(p)'.columns
      PROVE  \E j \in starter'[p].todo : Statements[j] = Alter(c)
  <2>1. PICK j \in starter[p].todo : Statements[j] = Alter(c)
    BY <1>2, <1>3 DEF MigrationInv, ToBeAdded, IsNext
  <2>2. j # k
    BY <1>2, <1>3, <2>1 DEF Alter
  <2>. QED  BY <1>1, <2>1, <2>2
<1>. QED  BY <1>1, <1>3 DEF ToBeAdded

LEMMA AlterKeepsInv ==
    ASSUME MigrationInv, NEW p \in Processes, NEW k \in 1..12, AlterCommitted(p, k)
    PROVE  MigrationInv'
<1>1. /\ writer = Nobody /\ writer' = Nobody
      /\ IsTable(table)' /\ table.columns \subseteq table'.columns /\ DOMAIN table'.rows = DOMAIN table.rows
  BY AppliedTable DEF AlterCommitted, MigrationInv
<1>2. \A q \in Processes : Seen(q) = table /\ Seen(q)' = table'
  BY <1>1, MigrationAssumption DEF Seen
<1>3. /\ StarterType' /\ starter'[p].at = "migrating"
      /\ \A q \in Processes : q # p => starter'[q] = starter[q]
      /\ ToBeAdded(p)'
  BY <1>2, StepAdds DEF AlterCommitted, MigrationInv
<1>4. table'.columns # {} /\ ~Ready(p)'
  BY <1>1, <1>3 DEF MigrationInv, AlterCommitted, IsNext, Ready
<1>5. WriterHolds'
  BY <1>1 DEF WriterHolds
<1>. QED  BY <1>1, <1>2, <1>3, <1>4, <1>5, OthersUndisturbed DEF MigrationInv, ReadyOnWholeTable

LEMMA ChangeKeepsInv ==
    ASSUME MigrationInv, NEW p \in Processes, NEW k \in 1..12, ChangeInTransaction(p, k)
    PROVE  MigrationInv'
<1>1. /\ writer \in {p, Nobody} /\ writer' = p /\ table' = table
      /\ work' = Applied(Seen(p), Statements[k])
  BY DEF ChangeInTransaction
<1>2. /\ IsTable(Seen(p)) /\ table.columns \subseteq Seen(p).columns
      /\ DOMAIN Seen(p).rows = DOMAIN table.rows
  BY <1>1, MigrationAssumption DEF MigrationInv, WriterHolds, Seen
<1>3. Seen(p)' = Applied(Seen(p), Statements[k])
  BY <1>1 DEF Seen
<1>4. /\ IsTable(work)' /\ table'.columns \subseteq work'.columns /\ DOMAIN work'.rows = DOMAIN table'.rows
  <2>1. /\ IsTable(Applied(Seen(p), Statements[k]))
        /\ Seen(p).columns \subseteq Applied(Seen(p), Statements[k]).columns
        /\ DOMAIN Applied(Seen(p), Statements[k]).rows = DOMAIN Seen(p).rows
    BY <1>2, AppliedTable
  <2>2. IsTable(work)'
    BY <1>1, <2>1 DEF IsTable
  <2>. QED  BY <1>1, <1>2, <2>1, <2>2
<1>5. /\ StarterType' /\ starter'[p].at = "migrating"
      /\ \A q \in Processes : q # p => starter'[q] = starter[q]
      /\ ToBeAdded(p)'
  BY <1>2, <1>3, StepAdds DEF ChangeInTransaction
<1>6. WriterHolds'
  BY <1>1, <1>4, <1>5 DEF WriterHolds
<1>7. \A q \in Processes : q # p => Seen(q) = table /\ Seen(q)' = table'
  BY <1>1, MigrationAssumption DEF Seen
<1>8. table'.columns # {} /\ ~Ready(p)' /\ IsTable(table)'
  BY <1>1, <1>5 DEF MigrationInv, ChangeInTransaction, IsNext, Ready, IsTable
<1>. QED  BY <1>1, <1>5, <1>6, <1>7, <1>8, OthersUndisturbed DEF MigrationInv, ReadyOnWholeTable

\* A start that ends, one way or the other, ends its transaction.
LEMMA EndKeepsWriter ==
    ASSUME MigrationInv, NEW p \in Processes, EndTransaction(p), IsTable(table'),
           \A q \in Processes : q # p => starter'[q] = starter[q],
           writer # p => table' = table
    PROVE  /\ WriterHolds'
           /\ \A q \in Processes : q # p /\ table.columns \subseteq table'.columns
                                    => Seen(q).columns \subseteq Seen(q)'.columns
<1>1. CASE writer = p
  <2>1. writer' = Nobody /\ Nobody # p
    BY <1>1, MigrationAssumption DEF EndTransaction
  <2>. QED  BY <1>1, <2>1, MigrationAssumption DEF WriterHolds, Seen
<1>2. CASE writer # p
  <2>1. writer' = writer /\ work' = work /\ table' = table
    BY <1>2 DEF EndTransaction
  <2>2. writer # Nobody => starter'[writer] = starter[writer]
    BY <1>2 DEF MigrationInv, WriterHolds
  <2>. QED  BY <2>1, <2>2 DEF MigrationInv, WriterHolds, Seen, IsTable
<1>. QED  BY <1>1, <1>2

LEMMA GivingUpKeepsInv ==
    ASSUME MigrationInv, NEW p \in Processes, EndTransaction(p), table' = table,
           starter' = [starter EXCEPT ![p] = Down]
    PROVE  MigrationInv'
<1>1. /\ StarterType' /\ starter'[p].at = "down"
      /\ \A q \in Processes : q # p => starter'[q] = starter[q]
  BY DEF MigrationInv, StarterType, Down
<1>2. IsTable(table)' /\ IsTable(table')
  BY DEF MigrationInv, IsTable
<1>3. WriterHolds' /\ \A q \in Processes : q # p => Seen(q).columns \subseteq Seen(q)'.columns
  BY <1>1, <1>2, EndKeepsWriter
<1>4. ToBeAdded(p)' /\ ~Ready(p)'
  BY <1>1 DEF ToBeAdded, Ready
<1>. QED  BY <1>1, <1>2, <1>3, <1>4, OthersUndisturbed DEF MigrationInv, ReadyOnWholeTable

LEMMA FinishKeepsInv ==
    ASSUME MigrationInv, NEW p \in Processes, FinishMigration(p)
    PROVE  MigrationInv'
<1>1. /\ StarterType' /\ starter[p].at = "migrating" /\ starter[p].todo = {} /\ starter'[p].at = "ready"
      /\ \A q \in Processes : q # p => starter'[q] = starter[q]
  BY DEF FinishMigration, MigrationInv, StarterType
<1>2. Columns \subseteq Seen(p).columns
  BY <1>1 DEF MigrationInv, ToBeAdded
<1>3. table' = Seen(p) /\ EndTransaction(p) /\ (writer # p => table' = table)
  BY DEF FinishMigration, Seen
<1>4. IsTable(table') /\ table.columns \subseteq table'.columns
  BY <1>3, MigrationAssumption DEF MigrationInv, WriterHolds, Seen
<1>5. WriterHolds' /\ \A q \in Processes : q # p => Seen(q).columns \subseteq Seen(q)'.columns
  BY <1>1, <1>3, <1>4, EndKeepsWriter
<1>6. ToBeAdded(p)' /\ Columns \subseteq table'.columns /\ table'.columns # {} /\ IsTable(table)'
  BY <1>1, <1>2, <1>3, <1>4 DEF ToBeAdded, Columns, Default, IsTable
<1>. QED  BY <1>1, <1>4, <1>5, <1>6, OthersUndisturbed DEF MigrationInv, ReadyOnWholeTable

LEMMA SubmitKeepsInv ==
    ASSUME MigrationInv, NEW p \in Processes, NEW i \in NewIds, Submit(p, i)
    PROVE  MigrationInv' /\ DOMAIN table.rows \subseteq DOMAIN table'.rows
<1>1. /\ table'.columns = table.columns /\ IsTable(table)' /\ DOMAIN table'.rows = DOMAIN table.rows \cup {i}
      /\ starter' = starter /\ writer = Nobody /\ writer' = Nobody
  BY DEF Submit, MigrationInv, IsTable
<1>2. \A q \in Processes : Seen(q) = table /\ Seen(q)' = table'
  BY <1>1, MigrationAssumption DEF Seen
<1>3. StarterType' /\ WriterHolds'
  BY <1>1 DEF MigrationInv, StarterType, WriterHolds
<1>4. \A q \in Processes : ToBeAdded(q)'
  BY <1>1, <1>2 DEF MigrationInv, ToBeAdded
<1>5. ReadyOnWholeTable' /\ \A q \in Processes : starter'[q].at # "down" => table'.columns # {}
  BY <1>1 DEF MigrationInv, ReadyOnWholeTable, Ready
<1>. QED  BY <1>1, <1>3, <1>4, <1>5 DEF MigrationInv

\* A start keeps the invariant and the candidates.
LEMMA StartKeepsInv ==
    ASSUME MigrationInv, NEW p \in Processes, Start(p)
    PROVE  MigrationInv' /\ DOMAIN table'.rows = DOMAIN table.rows
<1>1. CASE Open(p)
  BY <1>1, OpenKeepsInv DEF Open, MigrationInv, IsTable
<1>2. CASE LookUpColumns(p)
  BY <1>2, LookUpKeepsInv DEF LookUpColumns
<1>3. CASE FinishMigration(p)
  <2>1. DOMAIN table'.rows = DOMAIN table.rows
    BY <1>3, MigrationAssumption DEF FinishMigration, Seen, MigrationInv, WriterHolds
  <2>. QED  BY <1>3, <2>1, FinishKeepsInv
<1>4. CASE CutOff(p)
  BY <1>4, GivingUpKeepsInv DEF CutOff
<1>5. ASSUME NEW k \in 1..12, AlterCommitted(p, k) \/ ChangeInTransaction(p, k) \/ FailOnDuplicate(p, k)
      PROVE  MigrationInv' /\ DOMAIN table'.rows = DOMAIN table.rows
  <2>1. CASE AlterCommitted(p, k)
    <3>1. DOMAIN table'.rows = DOMAIN table.rows
      BY <2>1, AppliedTable DEF AlterCommitted, MigrationInv
    <3>. QED  BY <2>1, <3>1, AlterKeepsInv
  <2>2. CASE ChangeInTransaction(p, k)
    BY <2>2, ChangeKeepsInv DEF ChangeInTransaction
  <2>3. CASE FailOnDuplicate(p, k)
    BY <2>3, GivingUpKeepsInv DEF FailOnDuplicate
  <2>. QED  BY <1>5, <2>1, <2>2, <2>3
<1>. QED  BY <1>1, <1>2, <1>3, <1>4, <1>5, StatementsNumbered DEF Start

(***************************************************************************)
(* The rows.  What is said of them is said of the committed table and of   *)
(* the writer's work alike.                                                *)
(***************************************************************************)
Old(t) == DOMAIN t.rows \cap OldIds
New(t) == DOMAIN t.rows \cap NewIds
HasLegacy(t) == "candidate_status" \in t.columns
HasStatus(t) == "validation_status" \in t.columns

\* The status that a legacy one becomes.
Brought(i) == IF OldStatus[i] \in Copied THEN OldStatus[i] ELSE "needs_review"

\* An old row has its legacy status for good, and beside it the default or
\* what the legacy status becomes; or it had a status of today.
OldRowHolds(t, i) ==
    /\ HasLegacy(t) => /\ t.rows[i].candidate_status = OldStatus[i]
                       /\ HasStatus(t) => t.rows[i].validation_status \in {"needs_review", Brought(i)}
    /\ ~HasLegacy(t) => HasStatus(t) /\ t.rows[i].validation_status = "valid"

\* A new row has the status it came with, and no legacy status to be copied.
NewRowHolds(t, i) ==
    /\ HasStatus(t) /\ t.rows[i].validation_status = Verdict[i]
    /\ HasLegacy(t) => t.rows[i].candidate_status = ""

RowsHold(t) ==
    /\ DOMAIN t.rows \subseteq OldIds \cup NewIds
    /\ t.columns = {} => DOMAIN t.rows = {}
    /\ \A i \in DOMAIN t.rows : DOMAIN t.rows[i] = t.columns
    /\ \A i \in Old(t) : OldRowHolds(t, i)
    /\ \A i \in New(t) : NewRowHolds(t, i)

\* Every legacy status has been copied.
AllCopied(t) ==
    HasLegacy(t) => HasStatus(t) /\ \A i \in Old(t) : t.rows[i].validation_status = Brought(i)

\* A start that found the legacy column copies it before it is done.
CopyNo == 12
ToBeCopied(p) ==
    starter[p].at = "migrating" =>
        /\ CopyNo \in starter[p].todo => HasLegacy(table)
        /\ CopyNo \in starter[p].todo \/ AllCopied(Seen(p))

(***************************************************************************)
(* The two columns that are filled in.                                     *)
(***************************************************************************)
FilledIn == {"source_ref", "source_metadata_json"}
AlterNo(c) == IF c = "source_ref" THEN 4 ELSE 7
FillNo(c) == IF c = "source_ref" THEN 5 ELSE 8

\* Row i has more than the placeholder in column c.
Told(t, i, c) ==
    \/ t.rows[i][c] # Default[c]
    \/ /\ c = "source_metadata_json"
       /\ "source_kind" \in t.columns /\ t.rows[i].source_kind # Default.source_kind

AllTold(t, c) == \A i \in Old(t) : Told(t, i, c)

\* Some start is still going to fill column c in.
WillFill(p, c) == starter[p].at = "migrating" /\ FillNo(c) \in starter[p].todo

\* The start that adds a column fills it in.
FillFollows(p, c) ==
    starter[p].at = "migrating" /\ AlterNo(c) \in starter[p].todo => FillNo(c) \in starter[p].todo

\* While no start fails, a placeholder in the table is one that a start is
\* going to replace, or has replaced in its transaction.
ToBeTold(c) ==
    ~failed =>
        /\ c \in table.columns => \/ AllTold(table, c)
                                  \/ \E p \in Processes : WillFill(p, c)
                                  \/ writer # Nobody /\ AllTold(work, c)
        /\ writer # Nobody /\ c \in work.columns => \/ AllTold(work, c)
                                                    \/ \E p \in Processes : WillFill(p, c)

RowsInv ==
    /\ RowsHold(table)
    /\ writer # Nobody => RowsHold(work)
    /\ \A p \in Processes : Ready(p) => AllCopied(table)
    /\ \A p \in Processes : ToBeCopied(p)
    /\ \A p \in Processes, c \in FilledIn : FillFollows(p, c)
    /\ \A c \in FilledIn : ToBeTold(c)

\* Statement k can be executed on t as it is meant to.
Fits(t, k) ==
    CASE Statements[k].do = "alter" -> Statements[k].column \notin t.columns
      [] Statements[k].do = "fill"  -> {Statements[k].column, "source_kind"} \subseteq t.columns
      [] Statements[k].do = "copy"  -> HasLegacy(t) /\ HasStatus(t)

LEMMA StatementsListed ==
    ASSUME NEW k \in 1..12
    PROVE  \/ /\ Statements[k].do = "alter" /\ Statements[k].column \in Columns
              /\ k \notin {5, 8, CopyNo}
              /\ \A c \in FilledIn : Statements[k].column = c <=> k = AlterNo(c)
           \/ /\ Statements[k].do = "fill" /\ Statements[k].column \in FilledIn
              /\ k = FillNo(Statements[k].column) /\ k \notin {4, 7, CopyNo}
           \/ Statements[k].do = "copy" /\ k = CopyNo
BY DEF Statements, Alter, Fill, Copy, Columns, Default, CopyNo, FilledIn, AlterNo, FillNo

LEMMA ColumnNames ==
    /\ "validation_status" \in Columns /\ "candidate_status" \notin Columns
    /\ FilledIn \cup {"source_kind"} \subseteq Columns /\ "validation_status" \notin FilledIn
    /\ "source_kind" \notin FilledIn
    /\ Default["validation_status"] = "needs_review" /\ Default["source_ref"] = "legacy:unspecified"
    /\ Default["source_metadata_json"] = "{}"
    /\ Columns # {} /\ "validation_status" \in Created /\ "candidate_status" \notin Created
BY DEF Columns, Default, FilledIn, Created

LEMMA AppliedFields ==
    ASSUME NEW t, NEW k \in 1..12
    PROVE  LET u == Applied(t, Statements[k])
               s == Statements[k]
           IN  /\ u.columns = IF s.do = "alter" THEN t.columns \cup {s.column} ELSE t.columns
               /\ DOMAIN u.rows = DOMAIN t.rows
               /\ \A i \in DOMAIN t.rows :
                     /\ s.do = "alter" => u.rows[i] = With(t.rows[i], s.column, Default[s.column])
                     /\ s.do = "fill" => u.rows[i] = Filled(t.rows[i], s.column)
                     /\ s.do = "copy" => u.rows[i] = CopyOf(t.rows[i])
BY DEF Applied

\* What a statement makes of a row: it touches its own column only.
RowAfter(t, s, u, i) ==
    /\ DOMAIN u.rows[i] = u.columns
    /\ \A c \in t.columns :
          \/ u.rows[i][c] = t.rows[i][c]
          \/ s.do = "fill" /\ c = s.column /\ u.rows[i][c] # Default[c]
          \/ /\ s.do = "copy" /\ c = "validation_status"
             /\ t.rows[i].candidate_status \in Copied /\ u.rows[i][c] = t.rows[i].candidate_status
    /\ s.do = "alter" => u.rows[i][s.column] = Default[s.column]
    /\ s.do = "fill" => \/ u.rows[i][s.column] # Default[s.column]
                        \/ s.column = "source_metadata_json" /\ u.rows[i].source_kind # Default.source_kind
    /\ s.do = "copy" /\ t.rows[i].candidate_status \in Copied
          => u.rows[i].validation_status = t.rows[i].candidate_status

LEMMA AppliedRow ==
    ASSUME NEW t, NEW k \in 1..12, Fits(t, k),
           NEW i \in DOMAIN t.rows, DOMAIN t.rows[i] = t.columns
    PROVE  RowAfter(t, Statements[k], Applied(t, Statements[k]), i)
<1>. DEFINE u == Applied(t, Statements[k])
            s == Statements[k]
            row == t.rows[i]
            new == u.rows[i]
<1>1. CASE s.do = "alter"
  <2>1. new = With(row, s.column, Default[s.column]) /\ u.columns = t.columns \cup {s.column}
    BY <1>1, AppliedFields
  <2>2. s.column \notin t.columns
    BY <1>1 DEF Fits
  <2>. HIDE DEF u, new
  <2>3. /\ DOMAIN new = t.columns \cup {s.column} /\ new[s.column] = Default[s.column]
        /\ \A c \in t.columns : c # s.column => new[c] = row[c]
    BY <2>1 DEF With
  <2>. QED  BY <1>1, <2>1, <2>2, <2>3 DEF u, new, RowAfter
<1>2. CASE s.do = "fill"
  <2>1. new = Filled(row, s.column) /\ u.columns = t.columns
    BY <1>2, AppliedFields
  <2>2. s.column \in t.columns /\ "source_kind" \in t.columns
    BY <1>2 DEF Fits
  <2>3. s.column \in FilledIn
    BY <1>2, StatementsListed
  <2>4. PICK value \in {"legacy:candidate_id", "migrated_from_phase1"} :
          \/ new = With(row, s.column, value)
          \/ /\ new = row
             /\ \/ new[s.column] # Default[s.column]
                \/ s.column = "source_metadata_json" /\ new.source_kind # Default.source_kind
    <3>1. CASE s.column = "source_ref"
      BY <2>1, <3>1 DEF Filled
    <3>2. CASE s.column = "source_metadata_json"
      BY <2>1, <3>2, ColumnNames DEF Filled
    <3>. QED  BY <2>3, <3>1, <3>2 DEF FilledIn
  <2>5. value # Default[s.column]
    BY <2>3, ColumnNames DEF FilledIn
  <2>. HIDE DEF u, new
  <2>6. CASE new = With(row, s.column, value)
    <3>1. /\ DOMAIN new = t.columns \cup {s.column} /\ new[s.column] = value
          /\ \A c \in t.columns : c # s.column => new[c] = row[c]
      BY <2>6 DEF With
    <3>. QED  BY <1>2, <2>1, <2>2, <2>5, <3>1 DEF u, new, RowAfter
  <2>7. CASE new # With(row, s.column, value)
    BY <1>2, <2>1, <2>4, <2>7 DEF u, new, RowAfter
  <2>. QED  BY <2>6, <2>7
<1>3. CASE s.do = "copy"
  <2>1. new = CopyOf(row) /\ u.columns = t.columns
    BY <1>3, AppliedFields
  <2>2. "validation_status" \in t.columns
    BY <1>3 DEF Fits, HasStatus
  <2>. HIDE DEF u, new
  <2>3. CASE row.candidate_status \in Copied
    <3>1. /\ DOMAIN new = t.columns \cup {"validation_status"} /\ new.validation_status = row.candidate_status
          /\ \A c \in t.columns : c # "validation_status" => new[c] = row[c]
      BY <2>1, <2>3 DEF With, CopyOf
    <3>. QED  BY <1>3, <2>1, <2>2, <2>3, <3>1 DEF u, new, RowAfter
  <2>4. CASE row.candidate_status \notin Copied
    BY <1>3, <2>1, <2>4 DEF CopyOf, u, new, RowAfter
  <2>. QED  BY <2>3, <2>4
<1>. QED  BY <1>1, <1>2, <1>3, StatementsListed

LEMMA AppliedHolds ==
    ASSUME NEW t, RowsHold(t), NEW k \in 1..12, Fits(t, k)
    PROVE  LET u == Applied(t, Statements[k])
           IN  /\ RowsHold(u)
               /\ AllCopied(t) \/ k = CopyNo => AllCopied(u)
               /\ \A c \in t.columns \cap FilledIn : AllTold(t, c) \/ k = FillNo(c) => AllTold(u, c)
<1>. DEFINE u == Applied(t, Statements[k])
            s == Statements[k]
<1>1. /\ u.columns = IF s.do = "alter" THEN t.columns \cup {s.column} ELSE t.columns
      /\ DOMAIN u.rows = DOMAIN t.rows /\ Old(u) = Old(t) /\ New(u) = New(t)
  BY AppliedFields DEF Old, New
<1>2. HasLegacy(u) <=> HasLegacy(t)
  BY <1>1, StatementsListed, ColumnNames DEF HasLegacy
<1>3. HasStatus(t) => HasStatus(u)
  BY <1>1 DEF HasStatus
<1>4. \A i \in DOMAIN t.rows : DOMAIN t.rows[i] = t.columns
  BY DEF RowsHold
<1>. HIDE DEF u
<1>5. ASSUME NEW i \in DOMAIN t.rows
      PROVE  /\ DOMAIN u.rows[i] = u.columns
             /\ HasLegacy(t) => u.rows[i].candidate_status = t.rows[i].candidate_status
             /\ HasStatus(t) => \/ u.rows[i].validation_status = t.rows[i].validation_status
                                \/ /\ k = CopyNo /\ t.rows[i].candidate_status \in Copied
                                   /\ u.rows[i].validation_status = t.rows[i].candidate_status
             /\ ~HasStatus(t) /\ HasStatus(u) => u.rows[i].validation_status = "needs_review"
             /\ k = CopyNo => /\ HasLegacy(t) /\ HasStatus(t)
                              /\ t.rows[i].candidate_status \in Copied
                                     => u.rows[i].validation_status = t.rows[i].candidate_status
             /\ \A c \in t.columns \cap FilledIn : Told(t, i, c) \/ k = FillNo(c) => Told(u, i, c)
  <2>0. RowAfter(t, s, u, i)
    BY <1>4, AppliedRow DEF u
  <2>1. DOMAIN u.rows[i] = u.columns
    BY <2>0 DEF RowAfter
  <2>2. \A c \in t.columns :
           \/ u.rows[i][c] = t.rows[i][c]
           \/ s.do = "fill" /\ c = s.column /\ u.rows[i][c] # Default[c]
           \/ /\ s.do = "copy" /\ c = "validation_status"
              /\ t.rows[i].candidate_status \in Copied /\ u.rows[i][c] = t.rows[i].candidate_status
    BY <2>0 DEF RowAfter
  <2>3. /\ s.do = "alter" => u.rows[i][s.column] = Default[s.column]
        /\ s.do = "fill" => \/ u.rows[i][s.column] # Default[s.column]
                            \/ s.column = "source_metadata_json" /\ u.rows[i].source_kind # Default.source_kind
        /\ s.do = "copy" /\ t.rows[i].candidate_status \in Copied
              => u.rows[i].validation_status = t.rows[i].candidate_status
    BY <2>0 DEF RowAfter
  <2>4. HasLegacy(t) => u.rows[i].candidate_status = t.rows[i].candidate_status
    BY <2>2, StatementsListed, ColumnNames DEF HasLegacy
  <2>5. HasStatus(t) => \/ u.rows[i].validation_status = t.rows[i].validation_status
                        \/ /\ k = CopyNo /\ t.rows[i].candidate_status \in Copied
                           /\ u.rows[i].validation_status = t.rows[i].candidate_status
    BY <2>2, StatementsListed, ColumnNames DEF HasStatus
  <2>6. ~HasStatus(t) /\ HasStatus(u) => u.rows[i].validation_status = "needs_review"
    BY <1>1, <2>3, ColumnNames DEF HasStatus
  <2>7. k = CopyNo => /\ HasLegacy(t) /\ HasStatus(t)
                      /\ t.rows[i].candidate_status \in Copied
                             => u.rows[i].validation_status = t.rows[i].candidate_status
    BY <2>3, StatementsListed DEF Fits, CopyNo
  <2>8. ASSUME NEW c \in t.columns \cap FilledIn, Told(t, i, c) \/ k = FillNo(c)
        PROVE  Told(u, i, c)
    <3>1. CASE k = FillNo(c)
      <4>1. s.do = "fill" /\ s.column = c
        BY <3>1, <2>8, StatementsListed DEF FilledIn, FillNo, CopyNo
      <4>2. "source_kind" \in u.columns
        BY <4>1, <1>1 DEF Fits
      <4>. QED  BY <4>1, <4>2, <2>3 DEF Told
    <3>2. CASE Told(t, i, c) /\ k # FillNo(c)
      <4>1. u.rows[i][c] = t.rows[i][c]
        BY <3>2, <2>2, <2>8, StatementsListed, ColumnNames DEF FilledIn, FillNo
      <4>2. "source_kind" \in t.columns => u.rows[i].source_kind = t.rows[i].source_kind /\ "source_kind" \in u.columns
        BY <2>2, <1>1, StatementsListed, ColumnNames
      <4>. QED  BY <3>2, <4>1, <4>2 DEF Told
    <3>. QED  BY <2>8, <3>1, <3>2
  <2>. QED  BY <2>1, <2>4, <2>5, <2>6, <2>7, <2>8
<1>6. \A i \in Old(u) : OldRowHolds(u, i)
  <2>. SUFFICES ASSUME NEW i \in Old(t) PROVE OldRowHolds(u, i)
    BY <1>1
  <2>1. OldRowHolds(t, i) /\ i \in DOMAIN t.rows
    BY DEF RowsHold, Old
  <2>. QED  BY <1>2, <1>3, <1>5, <2>1 DEF OldRowHolds, Brought
<1>7. \A i \in New(u) : NewRowHolds(u, i)
  <2>. SUFFICES ASSUME NEW i \in New(t) PROVE NewRowHolds(u, i)
    BY <1>1
  <2>1. NewRowHolds(t, i) /\ i \in DOMAIN t.rows
    BY DEF RowsHold, New
  <2>2. "" \notin Copied
    BY DEF Copied
  <2>. QED  BY <1>2, <1>3, <1>5, <2>1, <2>2 DEF NewRowHolds
<1>8. RowsHold(u)
  <2>1. u.columns = {} => t.columns = {}
    BY <1>1
  <2>. QED  BY <1>1, <1>5, <1>6, <1>7, <2>1 DEF RowsHold
<1>9. AllCopied(t) \/ k = CopyNo => AllCopied(u)
  <2>. SUFFICES ASSUME AllCopied(t) \/ k = CopyNo, HasLegacy(t)
                PROVE  HasStatus(u) /\ \A i \in Old(t) : u.rows[i].validation_status = Brought(i)
    BY <1>1, <1>2 DEF AllCopied
  <2>1. HasStatus(t) /\ HasStatus(u)
    BY <1>3, StatementsListed DEF AllCopied, Fits, CopyNo
  <2>2. ASSUME NEW i \in Old(t)
        PROVE  u.rows[i].validation_status = Brought(i)
    <3>1. /\ i \in DOMAIN t.rows /\ t.rows[i].candidate_status = OldStatus[i]
          /\ t.rows[i].validation_status \in {"needs_review", Brought(i)}
      BY <2>1 DEF RowsHold, OldRowHolds, Old
    <3>2. CASE AllCopied(t)
      BY <1>5, <2>1, <3>1, <3>2 DEF AllCopied, Brought
    <3>3. CASE k = CopyNo
      BY <1>5, <2>1, <3>1, <3>3 DEF Brought
    <3>. QED  BY <3>2, <3>3
  <2>. QED  BY <2>1, <2>2
<1>10. ASSUME NEW c \in t.columns \cap FilledIn, AllTold(t, c) \/ k = FillNo(c)
       PROVE  AllTold(u, c)
  BY <1>1, <1>5, <1>10 DEF AllTold, Old
<1>. QED  BY <1>8, <1>9, <1>10 DEF u

\* When a filling or copying statement is next, its columns have been added.
LEMMA AddedBefore ==
    ASSUME NEW k \in 1..12, NEW j \in 1..12, NEW c, Statements[j] = Alter(c),
           \/ Statements[k].do = "fill" /\ c \in {Statements[k].column, "source_kind"}
           \/ Statements[k].do = "copy" /\ c = "validation_status"
    PROVE  j < k
BY DEF Statements, Alter, Fill, Copy

LEMMA NextFits ==
    ASSUME MigrationInv, NEW p \in Processes, ToBeCopied(p),
           NEW k \in 1..12, IsNext(p, k), ~Exists(p, k)
    PROVE  Fits(Seen(p), k)
<1>1. ASSUME NEW c \in Columns,
             \/ Statements[k].do = "fill" /\ c \in {Statements[k].column, "source_kind"}
             \/ Statements[k].do = "copy" /\ c = "validation_status"
      PROVE  c \in Seen(p).columns
  <2>. SUFFICES ASSUME NEW j \in starter[p].todo, Statements[j] = Alter(c) PROVE FALSE
    BY DEF MigrationInv, ToBeAdded, IsNext
  <2>1. j \in 1..12 /\ k <= j
    BY DEF MigrationInv, StarterType, IsNext
  <2>. QED  BY <1>1, <2>1, AddedBefore
<1>2. CASE Statements[k].do = "alter"
  BY <1>2 DEF Fits, Exists
<1>3. CASE Statements[k].do = "fill"
  BY <1>1, <1>3, StatementsListed, ColumnNames DEF Fits
<1>4. CASE Statements[k].do = "copy"
  <2>1. "candidate_status" \in table.columns
    BY <1>4, StatementsListed DEF ToBeCopied, IsNext, HasLegacy
  <2>2. table.columns \subseteq Seen(p).columns
    BY MigrationAssumption DEF MigrationInv, WriterHolds, Seen
  <2>. QED  BY <1>1, <1>4, <2>1, <2>2, ColumnNames DEF Fits, HasLegacy, HasStatus
<1>. QED  BY <1>2, <1>3, <1>4, StatementsListed

\* The part of the invariant that is about the starts other than p's.
LEMMA OtherStartsKeep ==
    ASSUME RowsInv, NEW p \in Processes,
           table.columns \subseteq table'.columns,
           \A q \in Processes : q # p => starter'[q] = starter[q],
           \A q \in Processes : q # p /\ AllCopied(Seen(q)) => AllCopied(Seen(q)'),
           AllCopied(table) => AllCopied(table')
    PROVE  \A q \in Processes : q # p =>
              /\ Ready(q)' => AllCopied(table')
              /\ ToBeCopied(q)'
              /\ \A c \in FilledIn : FillFollows(q, c)'
<1>. SUFFICES ASSUME NEW q \in Processes, q # p
              PROVE  /\ Ready(q)' => AllCopied(table')
                     /\ ToBeCopied(q)'
                     /\ \A c \in FilledIn : FillFollows(q, c)'
  OBVIOUS
<1>1. Ready(q)' => AllCopied(table')
  BY DEF RowsInv, Ready
<1>2. ToBeCopied(q)'
  <2>1. ToBeCopied(q) /\ (HasLegacy(table) => HasLegacy(table'))
    BY DEF RowsInv, HasLegacy
  <2>. QED  BY <2>1 DEF ToBeCopied
<1>3. \A c \in FilledIn : FillFollows(q, c)'
  BY DEF RowsInv, FillFollows
<1>. QED  BY <1>1, <1>2, <1>3

\* Steps that leave the table and the transaction alone.
LEMMA SameTableKeepsRows ==
    ASSUME RowsInv, NEW p \in Processes,
           table' = table, writer' = writer, work' = work, failed => failed',
           \A q \in Processes : q # p => starter'[q] = starter[q],
           ~Ready(p)', ToBeCopied(p)', \A c \in FilledIn : FillFollows(p, c)',
           failed' \/ starter[p].at # "migrating"
    PROVE  RowsInv'
<1>1. \A q \in Processes : Seen(q)' = Seen(q)
  BY DEF Seen
<1>2. \A q \in Processes : q # p =>
              /\ Ready(q)' => AllCopied(table')
              /\ ToBeCopied(q)'
              /\ \A c \in FilledIn : FillFollows(q, c)'
  BY <1>1, OtherStartsKeep
<1>3. ASSUME NEW c \in FilledIn PROVE ToBeTold(c)'
  <2>1. CASE failed'
    BY <2>1 DEF ToBeTold
  <2>2. CASE ~failed'
    <3>1. \A q \in Processes : WillFill(q, c) => WillFill(q, c)'
      BY <2>2 DEF WillFill
    <3>2. ToBeTold(c) /\ ~failed
      BY <2>2 DEF RowsInv
    <3>. QED  BY <3>1, <3>2 DEF ToBeTold
  <2>. QED  BY <2>1, <2>2
<1>4. RowsHold(table') /\ (writer' # Nobody => RowsHold(work'))
  BY DEF RowsInv
<1>. QED  BY <1>2, <1>3, <1>4 DEF RowsInv

LEMMA OpenKeepsRows ==
    ASSUME MigrationInv, RowsInv, NEW p \in Processes, Open(p)
    PROVE  RowsInv'
<1>1. /\ writer' = writer /\ work' = work /\ failed' = failed
      /\ starter[p].at = "down" /\ starter'[p].at = "opened"
      /\ \A q \in Processes : q # p => starter'[q] = starter[q]
  BY DEF Open, MigrationInv, StarterType
<1>2. ~Ready(p)' /\ ToBeCopied(p)' /\ \A c \in FilledIn : FillFollows(p, c)'
  BY <1>1 DEF Ready, ToBeCopied, FillFollows
<1>3. CASE table.columns # {}
  <2>1. table' = table
    BY <1>3 DEF Open
  <2>. QED  BY <1>1, <1>2, <2>1, SameTableKeepsRows
<1>4. CASE table.columns = {}
  <2>1. /\ \A q \in Processes : starter[q].at = "down"
        /\ writer = Nobody
    BY <1>4 DEF MigrationInv, WriterHolds
  <2>2. table'.columns = Created /\ table'.rows = table.rows /\ DOMAIN table.rows = {}
    BY <1>4 DEF Open, MigrationInv, IsTable, RowsInv, RowsHold
  <2>3. RowsHold(table') /\ \A c \in FilledIn : AllTold(table', c)
    BY <2>2, ColumnNames DEF RowsHold, AllTold, Old, New
  <2>4. \A q \in Processes : starter'[q].at \in {"down", "opened"}
    BY <1>1, <2>1
  <2>5. \A q \in Processes : /\ ~Ready(q)' /\ ToBeCopied(q)'
                             /\ \A c \in FilledIn : FillFollows(q, c)'
    BY <2>4 DEF Ready, ToBeCopied, FillFollows
  <2>6. \A c \in FilledIn : ToBeTold(c)'
    BY <1>1, <2>1, <2>3 DEF ToBeTold
  <2>. QED  BY <1>1, <2>1, <2>3, <2>5, <2>6 DEF RowsInv
<1>. QED  BY <1>3, <1>4

LEMMA LookUpKeepsRows ==
    ASSUME MigrationInv, RowsInv, NEW p \in Processes, LookUpColumns(p)
    PROVE  RowsInv'
<1>1. /\ starter[p].at = "opened" /\ table' = table /\ writer' = writer /\ work' = work /\ failed' = failed
      /\ starter'[p].at = "migrating"
      /\ starter'[p].todo = {k \in 1..12 : Due(Statements[k], table.columns)}
      /\ \A q \in Processes : q # p => starter'[q] = starter[q]
  BY StatementsNumbered DEF LookUpColumns, MigrationInv, StarterType
<1>2. Seen(p)' = table
  BY <1>1, MigrationAssumption DEF Seen, MigrationInv, WriterHolds
<1>3. ToBeCopied(p)'
  <2>1. Due(Statements[CopyNo], table.columns) <=> HasLegacy(table)
    BY DEF Due, Statements, Alter, Fill, Copy, CopyNo, HasLegacy
  <2>2. CopyNo \in starter'[p].todo <=> HasLegacy(table)
    BY <1>1, <2>1 DEF CopyNo
  <2>. QED  BY <1>1, <1>2, <2>2 DEF ToBeCopied, AllCopied
<1>4. ASSUME NEW c \in FilledIn PROVE FillFollows(p, c)'
  <2>1. Due(Statements[AlterNo(c)], table.columns) <=> Due(Statements[FillNo(c)], table.columns)
    BY DEF Due, Statements, Alter, Fill, Copy, AlterNo, FillNo, FilledIn
  <2>2. FillNo(c) \in 1..12
    BY DEF FillNo
  <2>. QED  BY <1>1, <2>1, <2>2 DEF FillFollows
<1>. QED  BY <1>1, <1>3, <1>4, SameTableKeepsRows DEF Ready

\* Statement k of p is executed on what p sees.
LEMMA StepCopies ==
    ASSUME MigrationInv, RowsInv, NEW p \in Processes, NEW k \in 1..12, IsNext(p, k), Done(p, k),
           ~Exists(p, k), RowsHold(Seen(p)),
           table.columns \subseteq table'.columns,
           Seen(p)' = Applied(Seen(p), Statements[k])
    PROVE  /\ starter'[p].at = "migrating" /\ starter'[p].todo = starter[p].todo \ {k}
           /\ \A q \in Processes : q # p => starter'[q] = starter[q]
           /\ ToBeCopied(p)' /\ \A c \in FilledIn : FillFollows(p, c)'
<1>1. /\ starter'[p].at = "migrating" /\ starter'[p].todo = starter[p].todo \ {k}
      /\ \A q \in Processes : q # p => starter'[q] = starter[q]
  BY DEF Done, IsNext, MigrationInv, StarterType
<1>2. starter[p].at = "migrating" /\ ToBeCopied(p)
  BY DEF IsNext, RowsInv
<1>3. AllCopied(Seen(p)) \/ k = CopyNo => AllCopied(Seen(p)')
  BY <1>2, NextFits, AppliedHolds
<1>4. ToBeCopied(p)'
  <2>1. HasLegacy(table) => HasLegacy(table')
    BY DEF HasLegacy
  <2>. QED  BY <1>1, <1>2, <1>3, <2>1 DEF ToBeCopied
<1>5. ASSUME NEW c \in FilledIn PROVE FillFollows(p, c)'
  <2>1. FillFollows(p, c) /\ AlterNo(c) < FillNo(c)
    BY DEF RowsInv, AlterNo, FillNo
  <2>2. AlterNo(c) \in starter'[p].todo => k # FillNo(c)
    BY <1>1, <2>1 DEF IsNext, AlterNo, FillNo
  <2>. QED  BY <1>1, <1>2, <2>1, <2>2 DEF FillFollows
<1>. QED  BY <1>1, <1>4, <1>5

\* Column c of u, which p's statement k makes of t: still told, or being told.
LEMMA StepTells ==
    ASSUME NEW p \in Processes, NEW k \in 1..12, IsNext(p, k), Done(p, k), NEW c \in FilledIn,
           FillFollows(p, c), starter'[p].at = "migrating", starter'[p].todo = starter[p].todo \ {k},
           \A q \in Processes : q # p => starter'[q] = starter[q],
           NEW t, RowsHold(t), Fits(t, k), NEW u, u = Applied(t, Statements[k]),
           c \in t.columns => AllTold(t, c) \/ \E q \in Processes : WillFill(q, c)
    PROVE  c \in u.columns => AllTold(u, c) \/ \E q \in Processes : WillFill(q, c)'
<1>1. ASSUME NEW q \in Processes, WillFill(q, c)
      PROVE  k = FillNo(c) \/ WillFill(q, c)'
  BY <1>1 DEF WillFill
<1>2. ASSUME c \in u.columns
      PROVE  AllTold(u, c) \/ \E q \in Processes : WillFill(q, c)'
  <2>1. CASE c \in t.columns
    <3>1. AllTold(t, c) \/ k = FillNo(c) => AllTold(u, c)
      BY <2>1, AppliedHolds
    <3>. QED  BY <1>1, <2>1, <3>1
  <2>2. CASE c \notin t.columns
    <3>1. Statements[k].do = "alter" /\ Statements[k].column = c
      <4>1. u.columns = IF Statements[k].do = "alter" THEN t.columns \cup {Statements[k].column} ELSE t.columns
        BY AppliedFields
      <4>. QED  BY <1>2, <2>2, <4>1
    <3>2. k = AlterNo(c)
      BY <3>1, StatementsListed
    <3>3. FillNo(c) \in starter[p].todo /\ FillNo(c) # k
      BY <3>2 DEF FillFollows, IsNext, AlterNo, FillNo
    <3>4. WillFill(p, c)'
      BY <3>3 DEF WillFill
    <3>. QED  BY <3>4
  <2>. QED  BY <2>1, <2>2
<1>. QED  BY <1>2

LEMMA AlterKeepsRows ==
    ASSUME MigrationInv, RowsInv, NEW p \in Processes, NEW k \in 1..12, AlterCommitted(p, k)
    PROVE  RowsInv'
<1>1. /\ IsNext(p, k) /\ Done(p, k) /\ ~Exists(p, k)
      /\ writer = Nobody /\ writer' = Nobody /\ failed' = failed
      /\ table' = Applied(table, Statements[k]) /\ Statements[k].do = "alter"
  BY DEF AlterCommitted
<1>2. \A q \in Processes : Seen(q) = table /\ Seen(q)' = table'
  BY <1>1, MigrationAssumption DEF Seen
<1>3. RowsHold(table) /\ Fits(table, k)
  BY <1>1, <1>2, NextFits DEF RowsInv
<1>4. /\ RowsHold(table') /\ (AllCopied(table) => AllCopied(table'))
      /\ table.columns \subseteq table'.columns
  BY <1>1, <1>3, AppliedHolds, AppliedFields
<1>5. /\ starter'[p].at = "migrating" /\ starter'[p].todo = starter[p].todo \ {k}
      /\ \A q \in Processes : q # p => starter'[q] = starter[q]
      /\ ToBeCopied(p)' /\ \A c \in FilledIn : FillFollows(p, c)'
  BY <1>1, <1>2, <1>3, <1>4, StepCopies
<1>6. ASSUME NEW c \in FilledIn PROVE ToBeTold(c)'
  <2>. SUFFICES ASSUME ~failed, c \in table'.columns
                PROVE  AllTold(table', c) \/ \E q \in Processes : WillFill(q, c)'
    BY <1>1 DEF ToBeTold
  <2>1. c \in table.columns => AllTold(table, c) \/ \E q \in Processes : WillFill(q, c)
    BY <1>1 DEF RowsInv, ToBeTold
  <2>2. FillFollows(p, c)
    BY DEF RowsInv
  <2>. QED  BY <1>1, <1>3, <1>5, <2>1, <2>2, StepTells
<1>7. ~Ready(p)'
  BY <1>5 DEF Ready
<1>8. \A q \in Processes : q # p =>
              /\ Ready(q)' => AllCopied(table')
              /\ ToBeCopied(q)'
              /\ \A c \in FilledIn : FillFollows(q, c)'
  BY <1>2, <1>4, <1>5, OtherStartsKeep
<1>. QED  BY <1>1, <1>4, <1>5, <1>6, <1>7, <1>8 DEF RowsInv

LEMMA ChangeKeepsRows ==
    ASSUME MigrationInv, RowsInv, NEW p \in Processes, NEW k \in 1..12, ChangeInTransaction(p, k)
    PROVE  RowsInv'
<1>1. /\ IsNext(p, k) /\ Done(p, k) /\ ~Exists(p, k)
      /\ writer \in {p, Nobody} /\ writer' = p /\ failed' = failed /\ table' = table
      /\ work' = Applied(Seen(p), Statements[k])
      /\ writer = Nobody => Statements[k].do # "alter"
  BY MigrationAssumption DEF ChangeInTransaction
<1>2. Seen(p)' = work' /\ p # Nobody /\ \A q \in Processes : q # p => Seen(q) = table /\ Seen(q)' = table
  BY <1>1, MigrationAssumption DEF Seen
<1>3. RowsHold(Seen(p)) /\ Fits(Seen(p), k)
  BY <1>1, <1>2, NextFits DEF RowsInv, Seen
<1>4. RowsHold(work') /\ RowsHold(table')
  BY <1>1, <1>3, AppliedHolds DEF RowsInv
<1>5. /\ starter'[p].at = "migrating" /\ starter'[p].todo = starter[p].todo \ {k}
      /\ \A q \in Processes : q # p => starter'[q] = starter[q]
      /\ ToBeCopied(p)' /\ \A c \in FilledIn : FillFollows(p, c)'
  BY <1>1, <1>2, <1>3, StepCopies
<1>6. ASSUME NEW c \in FilledIn PROVE ToBeTold(c)'
  <2>. SUFFICES ASSUME ~failed
                PROVE  /\ c \in table.columns => \/ AllTold(table, c)
                                                 \/ \E q \in Processes : WillFill(q, c)'
                                                 \/ AllTold(work', c)
                       /\ c \in work'.columns => AllTold(work', c) \/ \E q \in Processes : WillFill(q, c)'
    BY <1>1, <1>2 DEF ToBeTold
  <2>1. ToBeTold(c) /\ FillFollows(p, c)
    BY DEF RowsInv
  <2>2. c \in Seen(p).columns => AllTold(Seen(p), c) \/ \E q \in Processes : WillFill(q, c)
    <3>1. CASE writer = p
      BY <1>2, <2>1, <3>1 DEF ToBeTold, Seen
    <3>2. CASE writer = Nobody
      BY <1>2, <2>1, <3>2 DEF ToBeTold, Seen
    <3>. QED  BY <1>1, <3>1, <3>2
  <2>3. c \in work'.columns => AllTold(work', c) \/ \E q \in Processes : WillFill(q, c)'
    BY <1>1, <1>3, <1>5, <2>1, <2>2, StepTells
  <2>4. ASSUME c \in table.columns, ~AllTold(table, c)
        PROVE  AllTold(work', c) \/ \E q \in Processes : WillFill(q, c)'
    <3>1. table.columns \subseteq Seen(p).columns
      BY MigrationAssumption DEF MigrationInv, WriterHolds, Seen
    <3>2. AllTold(Seen(p), c) \/ k = FillNo(c) => AllTold(work', c)
      BY <1>1, <1>3, <2>4, <3>1, AppliedHolds
    <3>3. ASSUME NEW q \in Processes, WillFill(q, c), k # FillNo(c)
          PROVE  WillFill(q, c)'
      BY <1>5, <3>3 DEF WillFill
    <3>4. CASE writer = p
      BY <1>2, <2>1, <2>4, <3>2, <3>3, <3>4 DEF ToBeTold, Seen
    <3>5. CASE writer = Nobody
      BY <1>2, <2>1, <2>4, <3>2, <3>3, <3>5 DEF ToBeTold
    <3>. QED  BY <1>1, <3>4, <3>5
  <2>. QED  BY <2>3, <2>4
<1>7. ~Ready(p)'
  BY <1>5 DEF Ready
<1>8. \A q \in Processes : q # p =>
              /\ Ready(q)' => AllCopied(table')
              /\ ToBeCopied(q)'
              /\ \A c \in FilledIn : FillFollows(q, c)'
  BY <1>1, <1>2, <1>5, OtherStartsKeep
<1>. QED  BY <1>1, <1>4, <1>5, <1>6, <1>7, <1>8 DEF RowsInv

\* A start that gives up has failed, or was ready and not in a transaction.
LEMMA GivingUpKeepsRows ==
    ASSUME MigrationInv, RowsInv, NEW p \in Processes, EndTransaction(p), table' = table,
           starter' = [starter EXCEPT ![p] = Down], failed => failed', failed' \/ Ready(p)
    PROVE  RowsInv'
<1>1. /\ starter'[p].at = "down"
      /\ \A q \in Processes : q # p => starter'[q] = starter[q]
  BY DEF MigrationInv, StarterType, Down
<1>2. ~Ready(p)' /\ ToBeCopied(p)' /\ \A c \in FilledIn : FillFollows(p, c)'
  BY <1>1 DEF Ready, ToBeCopied, FillFollows
<1>3. CASE writer # p
  <2>1. writer' = writer /\ work' = work
    BY <1>3 DEF EndTransaction
  <2>2. failed' \/ starter[p].at # "migrating"
    BY DEF Ready
  <2>. QED  BY <1>1, <1>2, <2>1, <2>2, SameTableKeepsRows
<1>4. CASE writer = p
  <2>1. writer' = Nobody /\ failed'
    BY <1>4, MigrationAssumption DEF EndTransaction, MigrationInv, WriterHolds, Ready
  <2>2. \A q \in Processes : q # p => Seen(q) = table /\ Seen(q)' = table
    BY <1>4, <2>1, MigrationAssumption DEF Seen
  <2>3. \A q \in Processes : q # p =>
                /\ Ready(q)' => AllCopied(table')
                /\ ToBeCopied(q)'
                /\ \A c \in FilledIn : FillFollows(q, c)'
    BY <1>1, <2>2, OtherStartsKeep
  <2>4. RowsHold(table')
    BY DEF RowsInv
  <2>. QED  BY <1>2, <2>1, <2>3, <2>4 DEF RowsInv, ToBeTold
<1>. QED  BY <1>3, <1>4

LEMMA FinishKeepsRows ==
    ASSUME MigrationInv, RowsInv, NEW p \in Processes, FinishMigration(p)
    PROVE  RowsInv'
<1>1. /\ starter[p].at = "migrating" /\ starter[p].todo = {} /\ starter'[p].at = "ready"
      /\ \A q \in Processes : q # p => starter'[q] = starter[q]
      /\ table' = Seen(p) /\ EndTransaction(p) /\ failed' = failed
  BY DEF FinishMigration, MigrationInv, StarterType
<1>2. /\ RowsHold(table') /\ AllCopied(table') /\ table.columns \subseteq table'.columns
  BY <1>1, MigrationAssumption DEF RowsInv, ToBeCopied, Seen, MigrationInv, WriterHolds
<1>3. ToBeCopied(p)' /\ \A c \in FilledIn : FillFollows(p, c)'
  BY <1>1 DEF ToBeCopied, FillFollows
<1>4. ASSUME NEW q \in Processes, q # p, AllCopied(Seen(q))
      PROVE  AllCopied(Seen(q)')
  <2>1. CASE writer = p
    <3>1. Seen(q)' = table'
      BY <1>1, <2>1, MigrationAssumption DEF EndTransaction, Seen
    <3>. QED  BY <1>2, <3>1
  <2>2. CASE writer # p
    <3>1. Seen(q)' = Seen(q)
      BY <1>1, <2>2 DEF EndTransaction, Seen
    <3>. QED  BY <1>4, <3>1
  <2>. QED  BY <2>1, <2>2
<1>5. \A q \in Processes : q # p =>
              /\ Ready(q)' => AllCopied(table')
              /\ ToBeCopied(q)'
              /\ \A c \in FilledIn : FillFollows(q, c)'
  BY <1>1, <1>2, <1>4, OtherStartsKeep
<1>6. writer' # Nobody => RowsHold(work')
  BY <1>1 DEF EndTransaction, RowsInv
<1>7. ASSUME NEW c \in FilledIn PROVE ToBeTold(c)'
  <2>1. \A q \in Processes : WillFill(q, c) => WillFill(q, c)'
    BY <1>1 DEF WillFill
  <2>2. ToBeTold(c)
    BY DEF RowsInv
  <2>3. CASE writer = p
    <3>1. writer' = Nobody /\ table' = work /\ writer # Nobody
      BY <1>1, <2>3, MigrationAssumption DEF EndTransaction, Seen
    <3>. QED  BY <1>1, <2>1, <2>2, <3>1 DEF ToBeTold
  <2>4. CASE writer # p
    <3>1. writer' = writer /\ table' = table /\ work' = work
      BY <1>1, <2>4 DEF EndTransaction, Seen
    <3>. QED  BY <1>1, <2>1, <2>2, <3>1 DEF ToBeTold
  <2>. QED  BY <2>3, <2>4
<1>. QED  BY <1>2, <1>3, <1>5, <1>6, <1>7 DEF RowsInv

LEMMA SubmitKeepsRows ==
    ASSUME MigrationInv, RowsInv, NEW p \in Processes, NEW i \in NewIds, Submit(p, i)
    PROVE  RowsInv'
<1>1. /\ writer = Nobody /\ writer' = Nobody /\ starter' = starter /\ failed' = failed
      /\ Columns \subseteq table.columns /\ i \notin DOMAIN table.rows
      /\ table'.columns = table.columns
      /\ DOMAIN table'.rows = DOMAIN table.rows \cup {i}
      /\ table'.rows[i] = SubmittedRow(i)
      /\ \A j \in DOMAIN table.rows : table'.rows[j] = table.rows[j]
  BY DEF Submit, MigrationInv, IsTable
<1>2. Old(table') = Old(table) /\ New(table') = New(table) \cup {i}
  BY <1>1, MigrationAssumption DEF Old, New
<1>3. /\ HasLegacy(table') <=> HasLegacy(table)
      /\ HasStatus(table') /\ HasStatus(table)
  BY <1>1, ColumnNames DEF HasLegacy, HasStatus
<1>4. RowsHold(table')
  <2>1. /\ DOMAIN SubmittedRow(i) = table.columns
        /\ SubmittedRow(i).validation_status = Verdict[i]
        /\ HasLegacy(table) => SubmittedRow(i).candidate_status = ""
    BY <1>3 DEF SubmittedRow, HasLegacy, HasStatus
  <2>2. ASSUME NEW j \in New(table') PROVE NewRowHolds(table', j)
    BY <1>1, <1>2, <1>3, <2>1 DEF NewRowHolds, RowsHold, RowsInv, New
  <2>3. ASSUME NEW j \in Old(table') PROVE OldRowHolds(table', j)
    BY <1>1, <1>2, <1>3 DEF OldRowHolds, RowsHold, RowsInv, Old
  <2>4. ASSUME NEW j \in DOMAIN table'.rows PROVE DOMAIN table'.rows[j] = table'.columns
    BY <1>1, <2>1 DEF RowsHold, RowsInv
  <2>5. table'.columns # {}
    BY <1>1, ColumnNames
  <2>. QED  BY <1>1, <2>2, <2>3, <2>4, <2>5 DEF RowsHold, RowsInv
<1>5. AllCopied(table) => AllCopied(table')
  BY <1>1, <1>2, <1>3 DEF AllCopied, Old
<1>6. \A c \in FilledIn : AllTold(table, c) => AllTold(table', c)
  BY <1>1, <1>2 DEF AllTold, Told, Old
<1>7. \A q \in Processes : Seen(q) = table /\ Seen(q)' = table'
  BY <1>1, MigrationAssumption DEF Seen
<1>8. ASSUME NEW q \in Processes
      PROVE  /\ Ready(q)' => AllCopied(table')
             /\ ToBeCopied(q)'
             /\ \A c \in FilledIn : FillFollows(q, c)'
  <2>1. Ready(q)' => AllCopied(table')
    BY <1>1, <1>5 DEF RowsInv, Ready
  <2>2. ToBeCopied(q)'
    BY <1>1, <1>3, <1>5, <1>7 DEF RowsInv, ToBeCopied
  <2>3. \A c \in FilledIn : FillFollows(q, c)'
    BY <1>1 DEF RowsInv, FillFollows
  <2>. QED  BY <2>1, <2>2, <2>3
<1>9. ASSUME NEW c \in FilledIn PROVE ToBeTold(c)'
  <2>1. \A q \in Processes : WillFill(q, c) => WillFill(q, c)'
    BY <1>1 DEF WillFill
  <2>. QED  BY <1>1, <1>6, <2>1 DEF RowsInv, ToBeTold
<1>. QED  BY <1>1, <1>4, <1>8, <1>9 DEF RowsInv

LEMMA StartKeepsRows ==
    ASSUME MigrationInv, RowsInv, NEW p \in Processes, Start(p)
    PROVE  RowsInv'
<1>1. CASE Open(p)
  BY <1>1, OpenKeepsRows
<1>2. CASE LookUpColumns(p)
  BY <1>2, LookUpKeepsRows
<1>3. CASE FinishMigration(p)
  BY <1>3, FinishKeepsRows
<1>4. CASE CutOff(p)
  BY <1>4, GivingUpKeepsRows DEF CutOff
<1>5. ASSUME NEW k \in 1..12, AlterCommitted(p, k) \/ ChangeInTransaction(p, k) \/ FailOnDuplicate(p, k)
      PROVE  RowsInv'
  <2>1. CASE FailOnDuplicate(p, k)
    BY <2>1, GivingUpKeepsRows DEF FailOnDuplicate
  <2>. QED  BY <1>5, <2>1, AlterKeepsRows, ChangeKeepsRows
<1>. QED  BY <1>1, <1>2, <1>3, <1>4, <1>5, StatementsNumbered DEF Start

LEMMA RowsInit == MigrationInit => RowsInv
<1>. SUFFICES ASSUME MigrationInit PROVE RowsInv
  OBVIOUS
<1>1. PICK columns \in OldTables :
          table = [columns |-> columns,
                   rows |-> [i \in IF columns = {} THEN {} ELSE OldIds |-> OldRow(i, columns)]]
  BY DEF MigrationInit
<1>2. /\ columns \subseteq Created \cup {"candidate_status"}
      /\ columns = {} \/ ("candidate_status" \in columns <=> "validation_status" \notin columns)
  BY MigrationAssumption
<1>3. /\ table.columns = columns /\ DOMAIN table.rows \subseteq OldIds
      /\ columns = {} => DOMAIN table.rows = {}
      /\ \A i \in DOMAIN table.rows : table.rows[i] = OldRow(i, columns)
  BY <1>1
<1>4. New(table) = {} /\ \A i \in Old(table) : i \in DOMAIN table.rows /\ columns # {}
  BY <1>3, MigrationAssumption DEF New, Old
<1>5. ASSUME NEW i \in Old(table) PROVE OldRowHolds(table, i)
  <2>1. i \in DOMAIN table.rows /\ columns # {} /\ table.rows[i] = OldRow(i, columns)
    BY <1>3, <1>4
  <2>2. CASE "candidate_status" \in columns
    <3>1. OldRow(i, columns).candidate_status = OldStatus[i] /\ "validation_status" \notin columns
      BY <1>2, <2>1, <2>2 DEF OldRow
    <3>. QED  BY <1>3, <2>1, <2>2, <3>1 DEF OldRowHolds, HasLegacy, HasStatus
  <2>3. CASE "candidate_status" \notin columns
    <3>1. OldRow(i, columns).validation_status = "valid" /\ "validation_status" \in columns
      BY <1>2, <2>1, <2>3 DEF OldRow
    <3>. QED  BY <1>3, <2>1, <2>3, <3>1 DEF OldRowHolds, HasLegacy, HasStatus
  <2>. QED  BY <2>2, <2>3
<1>6. RowsHold(table)
  BY <1>3, <1>4, <1>5 DEF RowsHold, OldRow
<1>7. \A p \in Processes : starter[p].at = "down"
  BY DEF MigrationInit, Down
<1>8. ASSUME NEW c \in FilledIn, c \in table.columns PROVE AllTold(table, c)
  <2>1. ASSUME NEW i \in Old(table) PROVE Told(table, i, c)
    <3>1. OldRow(i, columns)[c] = "old"
      BY <1>3, <1>8 DEF OldRow, FilledIn
    <3>2. Default[c] # "old"
      BY <1>8, ColumnNames DEF FilledIn
    <3>. QED  BY <1>3, <1>4, <2>1, <3>1, <3>2 DEF Told
  <2>. QED  BY <2>1 DEF AllTold
<1>9. writer = Nobody
  BY DEF MigrationInit
<1>. QED  BY <1>6, <1>7, <1>8, <1>9 DEF RowsInv, Ready, ToBeCopied, FillFollows, ToBeTold

(***************************************************************************)
(* The evidence.                                                           *)
(***************************************************************************)
Stored == DOMAIN table.rows

\* What a link in the table, or about to be stored, refers to.
Supported(key, detail) ==
    /\ key.candidate \in Stored /\ key.artifact \in DOMAIN artifacts
    /\ artifacts[key.artifact] = Supports[key.support]
    /\ detail \in Details

Connected == [parent : DOMAIN artifacts, child : DOMAIN artifacts, type : Relationships]

\* What a call has checked and is going to write still holds.
CallsHold ==
    /\ calls = [p \in Processes |-> calls[p]]
    /\ \A p \in Processes :
          /\ calls[p].op = "edge" => calls[p].edge \in Connected
          /\ calls[p].op = "link" => Supported(calls[p].key, calls[p].detail)

EvidenceInv == LinksHold /\ CallsHold

\* One step of the evidence: it only grows.
Grows ==
    /\ edges \subseteq edges'
    /\ \A k \in DOMAIN links : k \in DOMAIN links' /\ links'[k] = links[k]
    /\ \A a \in DOMAIN artifacts : a \in DOMAIN artifacts' /\ artifacts'[a] = artifacts[a]

LEMMA LinksHoldMeans ==
    LinksHold <=> edges \subseteq Connected /\ \A k \in DOMAIN links : Supported(k, links[k])
BY DEF LinksHold, L!LinksHold, Connected, Supported, Stored

\* Candidates and artifacts may be added, calls may end: nothing checked
\* becomes wrong.
LEMMA MoreEvidence ==
    ASSUME EvidenceInv, Stored \subseteq Stored', edges' = edges, links' = links,
           calls' = [p \in Processes |-> calls'[p]],
           \A p \in Processes : calls'[p] \in {calls[p], L!NoCall},
           \A a \in DOMAIN artifacts : a \in DOMAIN artifacts' /\ artifacts'[a] = artifacts[a]
    PROVE  EvidenceInv' /\ Grows
<1>1. Connected \subseteq Connected'
  BY DEF Connected
<1>2. \A k, d : Supported(k, d) => Supported(k, d)'
  BY DEF Supported
<1>3. LinksHold'
  <2>1. edges' \subseteq Connected' /\ \A k \in DOMAIN links' : Supported(k, links[k])
    BY <1>1, LinksHoldMeans DEF EvidenceInv
  <2>2. \A k \in DOMAIN links' : Supported(k, links[k])'
    BY <1>2, <2>1
  <2>. QED  BY <2>1, <2>2 DEF LinksHold, L!LinksHold, Connected, Supported, Stored
<1>4. CallsHold'
  <2>. SUFFICES ASSUME NEW p \in Processes
                PROVE  /\ calls'[p].op = "edge" => calls'[p].edge \in Connected'
                       /\ calls'[p].op = "link" => Supported(calls[p].key, calls[p].detail)' /\ calls'[p] = calls[p]
    BY DEF CallsHold
  <2>1. CASE calls'[p] = calls[p]
    BY <2>1, <1>1, <1>2 DEF EvidenceInv, CallsHold
  <2>2. CASE calls'[p] = L!NoCall
    BY <2>2 DEF L!NoCall
  <2>. QED  BY <2>1, <2>2
<1>5. Grows
  BY DEF Grows
<1>. QED  BY <1>3, <1>4, <1>5 DEF EvidenceInv

LEMMA RegisterKeeps ==
    ASSUME EvidenceInv, Stored' = Stored, NEW p, NEW a, NEW kind, L!RegisterArtifact(p, a, kind)
    PROVE  EvidenceInv' /\ Grows
<1>1. /\ edges' = edges /\ links' = links /\ calls' = calls
      /\ \A b \in DOMAIN artifacts : b \in DOMAIN artifacts' /\ artifacts'[b] = artifacts[b]
  BY DEF L!RegisterArtifact
<1>. QED  BY <1>1, MoreEvidence DEF EvidenceInv, CallsHold

LEMMA EdgeKeeps ==
    ASSUME EvidenceInv, table' = table, NEW p \in Processes,
           (\E e \in L!Edge : L!EdgeRead(p, e)) \/ L!EdgeCommit(p)
    PROVE  EvidenceInv' /\ Grows
<1>1. CASE \E e \in L!Edge : L!EdgeRead(p, e)
  <2>1. PICK e \in L!Edge : L!EdgeRead(p, e)
    BY <1>1
  <2>2. /\ e \in Connected /\ artifacts' = artifacts /\ edges' = edges /\ links' = links
        /\ calls' = [calls EXCEPT ![p] = [op |-> "edge", edge |-> e]]
    BY <2>1 DEF L!EdgeRead, L!Edge, Connected
  <2>3. CallsHold'
    BY <2>2 DEF EvidenceInv, CallsHold, Connected, Supported, Stored
  <2>. QED  BY <2>2, <2>3 DEF EvidenceInv, Grows, LinksHold, L!LinksHold
<1>2. CASE L!EdgeCommit(p)
  <2>1. /\ calls[p].op = "edge" /\ edges' = edges \cup {calls[p].edge}
        /\ artifacts' = artifacts /\ links' = links /\ calls' = [calls EXCEPT ![p] = L!NoCall]
    BY <1>2 DEF L!EdgeCommit, L!Return
  <2>2. edges' \subseteq Connected
    BY <2>1, LinksHoldMeans DEF EvidenceInv, CallsHold
  <2>3. CallsHold'
    BY <2>1 DEF EvidenceInv, CallsHold, Connected, Supported, Stored, L!NoCall
  <2>4. LinksHold'
    BY <2>1, <2>2 DEF EvidenceInv, LinksHold, L!LinksHold, Connected
  <2>. QED  BY <2>1, <2>3, <2>4 DEF EvidenceInv, Grows
<1>. QED  BY <1>1, <1>2

LEMMA LinkKeeps ==
    ASSUME EvidenceInv, table' = table, NEW p \in Processes,
           \/ \E c \in Cited, a \in Artifacts, s \in DOMAIN Supports, d \in Details :
                 L!LinkRead(p, c, a, s, d)
           \/ L!LinkCommit(p)
    PROVE  EvidenceInv' /\ Grows
<1>1. CASE \E c \in Cited, a \in Artifacts, s \in DOMAIN Supports, d \in Details : L!LinkRead(p, c, a, s, d)
  <2>1. PICK c \in Cited, a \in Artifacts, s \in DOMAIN Supports, d \in Details : L!LinkRead(p, c, a, s, d)
    BY <1>1
  <2>2. /\ Supported(L!Key(c, a, s), d) /\ artifacts' = artifacts /\ edges' = edges /\ links' = links
        /\ calls' = [calls EXCEPT ![p] = [op |-> "link", key |-> L!Key(c, a, s), detail |-> d]]
    BY <2>1 DEF L!LinkRead, L!SupportValid, L!Key, Supported, Stored
  <2>3. CallsHold'
    BY <2>2 DEF EvidenceInv, CallsHold, Connected, Supported, Stored
  <2>. QED  BY <2>2, <2>3 DEF EvidenceInv, Grows, LinksHold, L!LinksHold
<1>2. CASE L!LinkCommit(p)
  <2>1. /\ calls[p].op = "link" /\ links' = L!Inserted(calls[p].key, calls[p].detail)
        /\ artifacts' = artifacts /\ edges' = edges /\ calls' = [calls EXCEPT ![p] = L!NoCall]
    BY <1>2 DEF L!LinkCommit, L!Return
  <2>2. /\ \A k \in DOMAIN links : k \in DOMAIN links' /\ links'[k] = links[k]
        /\ \A k \in DOMAIN links' : k \in DOMAIN links \/ (k = calls[p].key /\ links'[k] = calls[p].detail)
    BY <2>1 DEF L!Inserted
  <2>3. \A k \in DOMAIN links' : Supported(k, links'[k])
    BY <2>1, <2>2, LinksHoldMeans DEF EvidenceInv, CallsHold
  <2>4. CallsHold'
    BY <2>1 DEF EvidenceInv, CallsHold, Connected, Supported, Stored, L!NoCall
  <2>5. LinksHold'
    BY <2>1, <2>3 DEF EvidenceInv, LinksHold, L!LinksHold, Supported, Stored
  <2>. QED  BY <2>1, <2>2, <2>4, <2>5 DEF EvidenceInv, Grows
<1>. QED  BY <1>1, <1>2

\* A report and the end of a call write nothing.
LEMMA ReportKeeps ==
    ASSUME EvidenceInv, table' = table, NEW p \in Processes,
           \/ \E c \in Cited : L!ReportLinks(p, c)
           \/ L!ReportEdges(p) \/ L!ReportArtifacts(p) \/ L!EndCall(p)
    PROVE  EvidenceInv' /\ Grows
<1>1. /\ artifacts' = artifacts /\ edges' = edges /\ links' = links
      /\ calls' = [calls EXCEPT ![p] = calls'[p]] /\ calls'[p].op \notin {"edge", "link"}
  <2>1. p \in DOMAIN calls
    BY DEF EvidenceInv, CallsHold
  <2>2. ASSUME NEW c \in Cited, L!ReportLinks(p, c)
        PROVE  calls' = [calls EXCEPT ![p] = calls'[p]] /\ calls'[p].op = "links"
    BY <2>1, <2>2 DEF L!ReportLinks
  <2>3. CASE L!ReportEdges(p)
    BY <2>1, <2>3 DEF L!ReportEdges
  <2>4. CASE L!ReportArtifacts(p)
    BY <2>1, <2>4 DEF L!ReportArtifacts
  <2>5. CASE L!EndCall(p)
    BY <2>1, <2>5 DEF L!EndCall, L!Return, L!NoCall
  <2>6. artifacts' = artifacts /\ edges' = edges /\ links' = links
    BY DEF L!ReportLinks, L!ReportEdges, L!ReportArtifacts, L!EndCall
  <2>. QED  BY <2>2, <2>3, <2>4, <2>5, <2>6
<1>2. CallsHold'
  BY <1>1 DEF EvidenceInv, CallsHold, Connected, Supported, Stored
<1>. QED  BY <1>1, <1>2 DEF EvidenceInv, Grows, LinksHold, L!LinksHold

LEMMA ServeKeeps ==
    ASSUME EvidenceInv, table' = table, NEW p \in Processes, L!Serve(p)
    PROVE  EvidenceInv' /\ Grows
<1>1. Stored' = Stored
  BY DEF Stored
<1>. QED  BY <1>1, RegisterKeeps, EdgeKeeps, LinkKeeps, ReportKeeps DEF L!Serve

(***************************************************************************)
(* The recursive query for the ancestors of an artifact.                   *)
(***************************************************************************)
LEMMA LeastNatural ==
    ASSUME NEW T \in SUBSET Nat, T # {}
    PROVE  \E n \in T : \A m \in T : n <= m
<1>. DEFINE Less == {ss \in Nat \X Nat : ss[1] < ss[2]}
<1>1. IsWellFoundedOn(Less, Nat)
  BY NatLessThanWellFounded DEF OpToRel
<1>. HIDE DEF Less
<1>2. PICK n \in T : \A m \in T : <<m, n>> \notin Less
  BY <1>1, WFMin
<1>3. \A m \in T : <<m, n>> \notin Less => n <= m
  BY DEF Less
<1>. QED  BY <1>2, <1>3

\* What holds of 0 and of the next number, whenever of one, holds of all.
LEMMA ByCounting ==
    ASSUME NEW N \in Nat, NEW T, 0 \in T,
           \A n \in 0..N : n > 0 /\ n - 1 \in T => n \in T
    PROVE  0..N \subseteq T
<1>. SUFFICES ASSUME 0..N \ T # {} PROVE FALSE
  OBVIOUS
<1>1. PICK n \in 0..N \ T : \A m \in 0..N \ T : n <= m
  <2>1. 0..N \ T \in SUBSET Nat
    OBVIOUS
  <2>. QED  BY <2>1, LeastNatural
<1>2. n > 0 /\ n - 1 \in 0..N
  BY <1>1
<1>. QED  BY <1>1, <1>2

\* The edges that start the query, and those that found leads on to.
FirstEdges(direct) == {e \in edges : e.child \in direct}
Further(found) == found \cup {e \in edges : \E f \in found : e.child = f.parent}

\* found holds the answers of the query up to depth m.
Layers(direct, m, found) ==
    found = [n \in 0..m |-> IF n = 0 THEN FirstEdges(direct) ELSE Further(found[n - 1])]

LEMMA LayersExist ==
    ASSUME NEW direct, NEW N \in Nat
    PROVE  \E found : Layers(direct, N, found)
<1>. DEFINE T == {m \in 0..N : \E found : Layers(direct, m, found)}
<1>1. 0 \in T
  <2>. DEFINE found == [n \in 0..0 |-> FirstEdges(direct)]
  <2>1. Layers(direct, 0, found)
    BY DEF Layers
  <2>. QED  BY <2>1
<1>2. ASSUME NEW m \in 0..N, m > 0, m - 1 \in T
      PROVE  m \in T
  <2>1. PICK found : Layers(direct, m - 1, found)
    BY <1>2
  <2>. DEFINE longer == [n \in 0..m |-> IF n = m THEN Further(found[m - 1]) ELSE found[n]]
  <2>2. /\ DOMAIN longer = 0..m /\ longer[m] = Further(found[m - 1])
        /\ \A n \in 0..m - 1 : longer[n] = found[n]
    OBVIOUS
  <2>3. longer = [n \in DOMAIN longer |-> longer[n]]
    OBVIOUS
  <2>. HIDE DEF longer
  <2>4. \A n \in 0..m - 1 : found[n] = IF n = 0 THEN FirstEdges(direct) ELSE Further(found[n - 1])
    BY <2>1 DEF Layers
  <2>5. \A n \in 0..m : longer[n] = IF n = 0 THEN FirstEdges(direct) ELSE Further(longer[n - 1])
    <3>1. ASSUME NEW n \in 0..m - 1
          PROVE  longer[n] = IF n = 0 THEN FirstEdges(direct) ELSE Further(longer[n - 1])
      BY <2>2, <2>4, <1>2
    <3>2. longer[m] = Further(longer[m - 1])
      BY <2>2, <1>2
    <3>. QED  BY <3>1, <3>2, <1>2
  <2>6. Layers(direct, m, longer)
    BY <2>2, <2>3, <2>5 DEF Layers
  <2>. QED  BY <2>6
<1>. HIDE DEF T
<1>3. 0..N \subseteq T
  BY <1>1, <1>2, ByCounting
<1>. QED  BY <1>3 DEF T

LEMMA SameCardinality == ASSUME NEW S PROVE L!Cardinality(S) = Cardinality(S)
BY DEF L!Cardinality, Cardinality

\* The query is the last of its layers.
LEMMA QueryLayers ==
    ASSUME NEW direct, IsFiniteSet(edges)
    PROVE  \E found : /\ Layers(direct, Cardinality(edges), found)
                      /\ L!AncestorEdges(direct) = found[Cardinality(edges)]
<1>. DEFINE N == Cardinality(edges)
            answer == CHOOSE found : Layers(direct, N, found)
<1>1. N \in Nat
  BY FS_CardinalityType
<1>2. Layers(direct, N, answer)
  BY <1>1, LayersExist
<1>3. L!AncestorEdges(direct) = answer[N]
  <2>1. L!Cardinality(edges) = N
    BY SameCardinality
  <2>. HIDE DEF N
  <2>. QED  BY <2>1 DEF L!AncestorEdges, Layers, FirstEdges, Further
<1>. QED  BY <1>2, <1>3

LEMMA AncestryClosed ==
    ASSUME NEW direct \in SUBSET Artifacts, NEW es
    PROVE  /\ direct \subseteq L!Ancestry(direct, es)
           /\ \A e \in es : e.child \in L!Ancestry(direct, es) /\ e.parent \in Artifacts
                                => e.parent \in L!Ancestry(direct, es)
BY DEF L!Ancestry

LEMMA AncestryLeast ==
    ASSUME NEW direct, NEW es, NEW s \in SUBSET Artifacts, direct \subseteq s,
           \A e \in es : e.child \in s => e.parent \in s
    PROVE  L!Ancestry(direct, es) \subseteq s
BY DEF L!Ancestry

LEMMA AncestryGrows ==
    ASSUME NEW direct, NEW es, NEW fs, es \subseteq fs
    PROVE  L!Ancestry(direct, es) \subseteq L!Ancestry(direct, fs)
BY DEF L!Ancestry

\* The edges into the ancestry.
Into(direct, es) == {e \in es : e.child \in L!Ancestry(direct, es)}

LEMMA IntoGrows ==
    ASSUME NEW direct, NEW es, NEW fs, es \subseteq fs
    PROVE  Into(direct, es) \subseteq Into(direct, fs)
BY AncestryGrows DEF Into

\* The query finds no edge that is not of the ancestry.
LEMMA LayersWithin ==
    ASSUME NEW direct \in SUBSET Artifacts, \A e \in edges : e.parent \in Artifacts,
           NEW N \in Nat, NEW found, Layers(direct, N, found)
    PROVE  \A n \in 0..N : found[n] \subseteq Into(direct, edges)
<1>. DEFINE T == {n \in 0..N : found[n] \subseteq Into(direct, edges)}
<1>1. 0 \in T
  <2>1. found[0] = FirstEdges(direct)
    BY DEF Layers
  <2>2. direct \subseteq L!Ancestry(direct, edges)
    BY AncestryClosed
  <2>3. found[0] \subseteq Into(direct, edges)
    BY <2>1, <2>2 DEF FirstEdges, Into
  <2>. QED  BY <2>3
<1>2. ASSUME NEW n \in 0..N, n > 0, n - 1 \in T
      PROVE  n \in T
  <2>1. found[n] = Further(found[n - 1])
    BY <1>2 DEF Layers
  <2>2. found[n - 1] \subseteq Into(direct, edges)
    BY <1>2
  <2>3. ASSUME NEW f \in found[n - 1], NEW e \in edges, e.child = f.parent
        PROVE  e \in Into(direct, edges)
    <3>1. f \in edges /\ f.child \in L!Ancestry(direct, edges)
      BY <2>2 DEF Into
    <3>2. f.parent \in L!Ancestry(direct, edges)
      BY <3>1, AncestryClosed
    <3>. QED  BY <2>3, <3>2 DEF Into
  <2>. QED  BY <2>1, <2>2, <2>3 DEF Further
<1>. HIDE DEF T
<1>3. 0..N \subseteq T
  BY <1>1, <1>2, ByCounting
<1>. QED  BY <1>3 DEF T

\* Every layer has an edge more than the one before, or there is none to add.
LEMMA LayersGrow ==
    ASSUME NEW direct, IsFiniteSet(edges),
           NEW N \in Nat, NEW found, Layers(direct, N, found)
    PROVE  \A n \in 0..N : /\ found[n] \subseteq edges /\ FirstEdges(direct) \subseteq found[n]
                           /\ Further(found[n]) = found[n] \/ Cardinality(found[n]) > n
<1>. DEFINE Grown(n) == /\ found[n] \subseteq edges /\ FirstEdges(direct) \subseteq found[n]
                        /\ Further(found[n]) = found[n] \/ Cardinality(found[n]) > n
            T == {n \in 0..N : Grown(n)}
<1>1. 0 \in T
  <2>1. found[0] = FirstEdges(direct) /\ found[0] \subseteq edges
    BY DEF Layers, FirstEdges
  <2>2. CASE found[0] = {}
    BY <2>1, <2>2 DEF Further
  <2>3. CASE found[0] # {}
    <3>1. IsFiniteSet(found[0]) /\ Cardinality(found[0]) \in Nat /\ Cardinality(found[0]) # 0
      BY <2>1, <2>3, FS_Subset, FS_EmptySet, FS_CardinalityType
    <3>. QED  BY <2>1, <3>1
  <2>. QED  BY <2>2, <2>3
<1>2. ASSUME NEW n \in 0..N, n > 0, n - 1 \in T
      PROVE  n \in T
  <2>1. found[n] = Further(found[n - 1])
    BY <1>2 DEF Layers
  <2>2. Grown(n - 1)
    BY <1>2
  <2>3. found[n - 1] \subseteq found[n] /\ found[n] \subseteq edges
    BY <2>1, <2>2 DEF Further
  <2>4. CASE found[n] = found[n - 1]
    BY <2>1, <2>2, <2>4
  <2>5. CASE found[n] # found[n - 1]
    <3>1. Cardinality(found[n - 1]) > n - 1
      BY <2>1, <2>2, <2>5
    <3>2. IsFiniteSet(found[n]) /\ IsFiniteSet(found[n - 1])
      BY <2>2, <2>3, FS_Subset
    <3>3. Cardinality(found[n - 1]) <= Cardinality(found[n]) /\ Cardinality(found[n - 1]) # Cardinality(found[n])
      BY <2>3, <2>5, <3>2, FS_Subset
    <3>4. Cardinality(found[n - 1]) \in Nat /\ Cardinality(found[n]) \in Nat
      BY <3>2, FS_CardinalityType
    <3>5. Cardinality(found[n]) > n
      BY <3>1, <3>3, <3>4
    <3>. QED  BY <2>2, <2>3, <3>5
  <2>. QED  BY <2>4, <2>5
<1>. HIDE DEF T
<1>3. 0..N \subseteq T
  BY <1>1, <1>2, ByCounting
<1>. QED  BY <1>3 DEF T

\* As deep as there are edges, the query has found all of the ancestry and
\* nothing else (list_ancestor_edges), lineage that runs in a circle included.
THEOREM QueryIsAncestry ==
    ASSUME IsFiniteSet(edges), \A e \in edges : e.parent \in Artifacts,
           NEW direct \in SUBSET Artifacts
    PROVE  L!AncestorEdges(direct) = Into(direct, edges)
<1>. DEFINE N == Cardinality(edges)
            answer == L!AncestorEdges(direct)
<1>1. N \in Nat
  BY FS_CardinalityType
<1>2. PICK found : Layers(direct, N, found) /\ answer = found[N]
  BY QueryLayers
<1>. HIDE DEF N, answer
<1>3. answer \subseteq Into(direct, edges)
  BY <1>1, <1>2, LayersWithin
<1>4. /\ answer \subseteq edges /\ FirstEdges(direct) \subseteq answer
      /\ Further(answer) = answer
  <2>1. /\ answer \subseteq edges /\ FirstEdges(direct) \subseteq answer
        /\ Further(answer) = answer \/ Cardinality(answer) > N
    BY <1>1, <1>2, LayersGrow
  <2>2. IsFiniteSet(answer) /\ Cardinality(answer) <= N /\ Cardinality(answer) \in Nat
    BY <2>1, FS_Subset, FS_CardinalityType DEF N
  <2>. QED  BY <1>1, <2>1, <2>2
<1>5. Into(direct, edges) \subseteq answer
  <2>. DEFINE s == direct \cup {e.parent : e \in answer}
  <2>1. s \in SUBSET Artifacts
    BY <1>4
  <2>2. ASSUME NEW e \in edges, e.child \in s
        PROVE  e \in answer
    BY <1>4, <2>2 DEF FirstEdges, Further
  <2>3. L!Ancestry(direct, edges) \subseteq s
    <3>1. direct \subseteq s /\ \A e \in edges : e.child \in s => e.parent \in s
      BY <2>2
    <3>. HIDE DEF s
    <3>. QED  BY <2>1, <3>1, AncestryLeast
  <2>. QED  BY <2>2, <2>3 DEF Into
<1>. QED  BY <1>3, <1>5 DEF answer

(***************************************************************************)
(* Reports.                                                                *)
(***************************************************************************)
\* What a report has read so far: all of the ancestry there was when it was
\* begun, and nothing that is not of the ancestry there is.
Reading(p) ==
    /\ calls[p].op \in {"links", "edges", "report"} =>
          calls[p].direct \subseteq DOMAIN artifacts /\ calls[p].since \subseteq edges
    /\ calls[p].op \in {"edges", "report"} =>
          /\ Into(calls[p].direct, calls[p].since) \subseteq calls[p].edges
          /\ calls[p].edges \subseteq Into(calls[p].direct, edges)
    /\ calls[p].op = "report" =>
          calls[p].artifacts = calls[p].direct \cup L!Ends(calls[p].edges)

ReportInv ==
    /\ DOMAIN artifacts \subseteq Artifacts /\ IsFiniteSet(edges)
    /\ \A p \in Processes : Reading(p)

\* More evidence makes nothing that was read wrong.
LEMMA ReadingStays ==
    ASSUME Grows, NEW p \in Processes, Reading(p), calls'[p] = calls[p]
    PROVE  Reading(p)'
<1>1. DOMAIN artifacts \subseteq DOMAIN artifacts' /\ edges \subseteq edges'
  BY DEF Grows
<1>2. Into(calls[p].direct, edges) \subseteq Into(calls[p].direct, edges')
  BY <1>1, IntoGrows
<1>. QED  BY <1>1, <1>2 DEF Reading

\* A call that is no report has read nothing that matters here.
LEMMA NoReading ==
    ASSUME NEW p \in Processes, calls'[p].op \notin {"links", "edges", "report"}
    PROVE  Reading(p)'
BY DEF Reading

LEMMA ServeKeepsReports ==
    ASSUME EvidenceInv, ReportInv, Grows, NEW p \in Processes, L!Serve(p)
    PROVE  ReportInv'
<1>1. DOMAIN calls = Processes /\ \A e \in edges : {e.parent, e.child} \subseteq DOMAIN artifacts
  BY LinksHoldMeans DEF EvidenceInv, CallsHold, Connected
<1>2. /\ DOMAIN artifacts \subseteq Artifacts /\ IsFiniteSet(edges)
      /\ \A e \in edges : e.parent \in Artifacts
  BY <1>1 DEF ReportInv
<1>3. SUFFICES /\ DOMAIN artifacts' \subseteq Artifacts /\ IsFiniteSet(edges')
               /\ \A q \in Processes : q # p => calls'[q] = calls[q]
               /\ Reading(p)'
  BY ReadingStays DEF ReportInv
<1>4. CASE \E a \in Artifacts, kind \in ArtifactKinds : L!RegisterArtifact(p, a, kind)
  <2>1. PICK a \in Artifacts, kind \in ArtifactKinds : L!RegisterArtifact(p, a, kind)
    BY <1>4
  <2>2. DOMAIN artifacts' = DOMAIN artifacts \cup {a} /\ edges' = edges /\ calls' = calls
    BY <2>1 DEF L!RegisterArtifact
  <2>. QED  BY <1>2, <2>2, ReadingStays DEF ReportInv
<1>5. CASE (\E e \in L!Edge : L!EdgeRead(p, e)) \/ L!EdgeCommit(p)
  <2>1. /\ artifacts' = artifacts /\ (edges' = edges \/ edges' = edges \cup {calls[p].edge})
        /\ calls' = [calls EXCEPT ![p] = calls'[p]] /\ calls'[p].op \in {"edge", "none"}
    BY <1>1, <1>5 DEF L!EdgeRead, L!EdgeCommit, L!Return, L!NoCall
  <2>2. /\ calls'[p].op \in {"edge", "none"}
        /\ \A q \in Processes : q # p => calls'[q] = calls[q]
    BY <1>1, <2>1
  <2>3. IsFiniteSet(edges')
    BY <1>2, <2>1, FS_AddElement
  <2>. QED  BY <1>2, <2>1, <2>2, <2>3, NoReading
<1>6. CASE \/ \E c \in Cited, a \in Artifacts, s \in DOMAIN Supports, d \in Details : L!LinkRead(p, c, a, s, d)
           \/ L!LinkCommit(p)
  <2>1. /\ artifacts' = artifacts /\ edges' = edges
        /\ calls' = [calls EXCEPT ![p] = calls'[p]] /\ calls'[p].op \in {"link", "none"}
    BY <1>1, <1>6 DEF L!LinkRead, L!LinkCommit, L!Return, L!NoCall
  <2>2. /\ calls'[p].op \in {"link", "none"}
        /\ \A q \in Processes : q # p => calls'[q] = calls[q]
    BY <1>1, <2>1
  <2>. QED  BY <1>2, <2>1, <2>2, NoReading
<1>7. CASE \E c \in Cited : L!ReportLinks(p, c)
  <2>1. PICK c \in Cited : L!ReportLinks(p, c)
    BY <1>7
  <2>. DEFINE direct == {k.artifact : k \in {l \in DOMAIN links : l.candidate = c}}
  <2>2. /\ artifacts' = artifacts /\ edges' = edges
        /\ calls' = [calls EXCEPT ![p] = [op |-> "links", direct |-> direct, since |-> edges]]
    BY <2>1 DEF L!ReportLinks
  <2>3. direct \subseteq DOMAIN artifacts
    BY LinksHoldMeans DEF EvidenceInv, Supported
  <2>. HIDE DEF direct
  <2>4. calls'[p] = [op |-> "links", direct |-> direct, since |-> edges]
        /\ \A q \in Processes : q # p => calls'[q] = calls[q]
    BY <1>1, <2>2
  <2>. QED  BY <1>2, <2>2, <2>3, <2>4 DEF Reading
<1>8. CASE L!ReportEdges(p)
  <2>. DEFINE direct == calls[p].direct
              found == L!AncestorEdges(direct)
  <2>1. /\ artifacts' = artifacts /\ edges' = edges /\ calls[p].op = "links"
        /\ calls' = [calls EXCEPT ![p] = [op |-> "edges", direct |-> direct, since |-> calls[p].since,
                                          edges |-> found]]
    BY <1>8 DEF L!ReportEdges
  <2>2. direct \subseteq DOMAIN artifacts /\ calls[p].since \subseteq edges
    BY <2>1 DEF ReportInv, Reading
  <2>3. found = Into(direct, edges)
    BY <1>2, <2>2, QueryIsAncestry
  <2>4. Into(direct, calls[p].since) \subseteq found
    BY <2>2, <2>3, IntoGrows
  <2>. HIDE DEF found
  <2>5. calls'[p] = [op |-> "edges", direct |-> direct, since |-> calls[p].since, edges |-> found]
        /\ \A q \in Processes : q # p => calls'[q] = calls[q]
    BY <1>1, <2>1
  <2>. QED  BY <1>2, <2>1, <2>2, <2>3, <2>4, <2>5 DEF Reading
<1>9. CASE L!ReportArtifacts(p)
  <2>. DEFINE r == calls[p]
              told == (r.direct \cup L!Ends(r.edges)) \cap DOMAIN artifacts
  <2>1. /\ artifacts' = artifacts /\ edges' = edges /\ r.op = "edges"
        /\ calls' = [calls EXCEPT ![p] = [op |-> "report", direct |-> r.direct, since |-> r.since,
                                          edges |-> r.edges, artifacts |-> told]]
    BY <1>9 DEF L!ReportArtifacts
  <2>2. /\ r.direct \subseteq DOMAIN artifacts /\ r.since \subseteq edges
        /\ Into(r.direct, r.since) \subseteq r.edges /\ r.edges \subseteq Into(r.direct, edges)
    BY <2>1 DEF ReportInv, Reading
  <2>3. told = r.direct \cup L!Ends(r.edges)
    BY <1>1, <2>2 DEF L!Ends, Into
  <2>. HIDE DEF told
  <2>4. calls'[p] = [op |-> "report", direct |-> r.direct, since |-> r.since,
                     edges |-> r.edges, artifacts |-> told]
        /\ \A q \in Processes : q # p => calls'[q] = calls[q]
    BY <1>1, <2>1
  <2>. QED  BY <1>2, <2>1, <2>2, <2>3, <2>4 DEF Reading
<1>10. CASE L!EndCall(p)
  <2>1. /\ artifacts' = artifacts /\ edges' = edges /\ calls' = [calls EXCEPT ![p] = L!NoCall]
    BY <1>10 DEF L!EndCall, L!Return
  <2>2. calls'[p].op = "none" /\ \A q \in Processes : q # p => calls'[q] = calls[q]
    BY <1>1, <2>1 DEF L!NoCall
  <2>. QED  BY <1>2, <2>1, <2>2, NoReading
<1>. QED  BY <1>4, <1>5, <1>6, <1>7, <1>8, <1>9, <1>10 DEF L!Serve

\* Starts and submissions leave reports alone, or end them.
LEMMA OthersKeepReports ==
    ASSUME ReportInv, Grows, artifacts' = artifacts, edges' = edges,
           \A p \in Processes : calls'[p] \in {calls[p], L!NoCall}
    PROVE  ReportInv'
<1>1. ASSUME NEW p \in Processes PROVE Reading(p)'
  <2>1. CASE calls'[p] = calls[p]
    BY <2>1, ReadingStays DEF ReportInv
  <2>2. CASE calls'[p] = L!NoCall
    BY <2>2, NoReading DEF L!NoCall
  <2>. QED  BY <2>1, <2>2
<1>. QED  BY <1>1 DEF ReportInv

(***************************************************************************)
(* The theorems.                                                           *)
(***************************************************************************)
StorageInv == MigrationInv /\ RowsInv /\ EvidenceInv /\ ReportInv

LEMMA InitInv == Init => StorageInv
<1>. SUFFICES ASSUME Init PROVE StorageInv
  OBVIOUS
<1>1. MigrationInv /\ RowsInv
  BY MigrationInitInv, RowsInit DEF Init
<1>2. EvidenceInv
  BY DEF Init, L!LineageInit, L!NoCall, EvidenceInv, LinksHold, L!LinksHold, CallsHold
<1>3. ReportInv
  BY FS_EmptySet DEF Init, L!LineageInit, L!NoCall, ReportInv, Reading
<1>. QED  BY <1>1, <1>2, <1>3 DEF StorageInv

LEMMA IdleKeepsInv ==
    ASSUME MigrationInv, RowsInv, UNCHANGED migrationVars
    PROVE  MigrationInv' /\ RowsInv'
<1>1. MigrationInv'
  BY DEF migrationVars, MigrationInv, IsTable, StarterType, WriterHolds, ToBeAdded, Seen,
         ReadyOnWholeTable, Ready
<1>2. RowsInv'
  <2>1. \A p \in Processes : ToBeCopied(p)'
    BY DEF migrationVars, RowsInv, ToBeCopied, Seen
  <2>2. \A p \in Processes, c \in FilledIn : FillFollows(p, c)'
    BY DEF migrationVars, RowsInv, FillFollows
  <2>3. \A c \in FilledIn : ToBeTold(c)'
    BY DEF migrationVars, RowsInv, ToBeTold, WillFill
  <2>. QED  BY <2>1, <2>2, <2>3 DEF migrationVars, RowsInv, Ready
<1>. QED  BY <1>1, <1>2

LEMMA NextInv == StorageInv /\ Next => StorageInv' /\ Grows
<1>. SUFFICES ASSUME StorageInv, NEW p \in Processes, Construct(p) \/ SubmitCandidate(p) \/ Serve(p)
              PROVE  StorageInv' /\ Grows
  BY DEF Next
<1>1. CASE Construct(p)
  <2>1. MigrationInv' /\ RowsInv' /\ Stored' = Stored
    BY <1>1, StartKeepsInv, StartKeepsRows DEF Construct, StorageInv, Stored
  <2>2. /\ artifacts' = artifacts /\ edges' = edges /\ links' = links
        /\ calls' \in {[calls EXCEPT ![p] = L!NoCall], calls}
    BY <1>1 DEF Construct
  <2>3. calls' = [q \in Processes |-> calls'[q]] /\ \A q \in Processes : calls'[q] \in {calls[q], L!NoCall}
    BY <2>2 DEF StorageInv, EvidenceInv, CallsHold
  <2>4. EvidenceInv' /\ Grows
    BY <2>1, <2>2, <2>3, MoreEvidence DEF StorageInv
  <2>. QED  BY <2>1, <2>2, <2>3, <2>4, OthersKeepReports DEF StorageInv
<1>2. CASE SubmitCandidate(p)
  <2>1. MigrationInv' /\ RowsInv' /\ Stored \subseteq Stored' /\ UNCHANGED <<artifacts, edges, links, calls>>
    BY <1>2, SubmitKeepsInv, SubmitKeepsRows DEF SubmitCandidate, StorageInv, Stored
  <2>2. calls' = [q \in Processes |-> calls'[q]]
    BY <2>1 DEF StorageInv, EvidenceInv, CallsHold
  <2>3. EvidenceInv' /\ Grows
    BY <2>1, <2>2, MoreEvidence DEF StorageInv
  <2>. QED  BY <2>1, <2>3, OthersKeepReports DEF StorageInv
<1>3. CASE Serve(p)
  <2>1. UNCHANGED migrationVars /\ table' = table
    BY <1>3 DEF Serve, migrationVars
  <2>2. MigrationInv' /\ RowsInv'
    BY <2>1, IdleKeepsInv DEF StorageInv
  <2>3. EvidenceInv' /\ Grows
    BY <1>3, <2>1, ServeKeeps DEF Serve, StorageInv
  <2>. QED  BY <1>3, <2>2, <2>3, ServeKeepsReports DEF Serve, StorageInv
<1>. QED  BY <1>1, <1>2, <1>3

LEMMA StutterInv == StorageInv /\ UNCHANGED vars => StorageInv'
<1>. SUFFICES ASSUME StorageInv, UNCHANGED vars PROVE StorageInv'
  OBVIOUS
<1>1. MigrationInv' /\ RowsInv'
  BY IdleKeepsInv DEF vars, StorageInv
<1>2. EvidenceInv'
  BY DEF vars, migrationVars, StorageInv, EvidenceInv, LinksHold, L!LinksHold, CallsHold, Connected, Supported, Stored
<1>3. ReportInv'
  <2>1. Grows
    BY DEF vars, Grows
  <2>. QED  BY <2>1, OthersKeepReports DEF vars, StorageInv
<1>. QED  BY <1>1, <1>2, <1>3 DEF StorageInv

\* The invariant of the storage holds from the first start on.
THEOREM Inductive == Spec => []StorageInv
<1>1. StorageInv /\ [Next]_vars => StorageInv'
  BY NextInv, StutterInv
<1>. QED  BY InitInv, <1>1, PTL DEF Spec

\* No store is handed out over a table that lacks a column
\* (_migrate_candidate_assertions_schema), for any number of processes.
THEOREM StoresSeeAllColumns == Spec => []ReadyOnWholeTable
<1>1. StorageInv => ReadyOnWholeTable
  BY DEF StorageInv, MigrationInv
<1>. QED  BY Inductive, <1>1, PTL

\* No verdict is lost or made up on the way through any number of starts that
\* overlap, fail or die (_migrate_candidate_assertions_schema), whatever the
\* legacy statuses of the old candidates and the verdicts of the new ones are.
THEOREM StatusAlwaysSurvives == Spec => []StatusSurvives
<1>1. StorageInv => StatusSurvives
  <2>. SUFFICES ASSUME MigrationInv, RowsInv, NEW p \in Processes, Ready(p),
                       NEW i \in DOMAIN table.rows
                PROVE  table.rows[i].validation_status =
                           IF i \in NewIds THEN Verdict[i]
                           ELSE IF "candidate_status" \notin table.columns THEN "valid"
                           ELSE IF OldStatus[i] \in Copied THEN OldStatus[i] ELSE "needs_review"
    BY DEF StorageInv, StatusSurvives
  <2>1. AllCopied(table) /\ RowsHold(table)
    BY DEF RowsInv
  <2>2. CASE i \in NewIds
    BY <2>1, <2>2 DEF RowsHold, New, NewRowHolds
  <2>3. CASE i \notin NewIds
    <3>1. i \in Old(table)
      BY <2>1, <2>3 DEF RowsHold, Old
    <3>. QED  BY <2>1, <2>3, <3>1 DEF RowsHold, OldRowHolds, AllCopied, Brought, HasLegacy
  <2>. QED  BY <2>2, <2>3
<1>. QED  BY Inductive, <1>1, PTL

\* When all starts are over and none has failed, no placeholder is left in the
\* table by which an old candidate would pass for a new one
\* (_migrate_candidate_assertions_schema), although ALTER and UPDATE commit apart.
THEOREM OldRowsAlwaysMarked == Spec => []OldRowsMarked
<1>1. StorageInv => OldRowsMarked
  <2>. SUFFICES ASSUME MigrationInv, RowsInv, NEW p \in Processes, Ready(p), ~failed,
                       \A q \in Processes : starter[q].at # "migrating",
                       NEW i \in DOMAIN table.rows \cap OldIds
                PROVE  /\ table.rows[i].source_ref # Default.source_ref
                       /\ \/ table.rows[i].source_metadata_json # "{}"
                          \/ table.rows[i].source_kind # Default.source_kind
    BY DEF StorageInv, OldRowsMarked
  <2>1. writer = Nobody /\ Columns \subseteq table.columns
    BY DEF MigrationInv, WriterHolds, ReadyOnWholeTable
  <2>2. ASSUME NEW c \in FilledIn PROVE Told(table, i, c)
    <3>1. AllTold(table, c)
      BY <2>1, ColumnNames DEF RowsInv, ToBeTold, WillFill
    <3>. QED  BY <3>1 DEF AllTold, Old
  <2>3. Told(table, i, "source_ref") /\ Told(table, i, "source_metadata_json")
    BY <2>2 DEF FilledIn
  <2>. QED  BY <2>3, ColumnNames DEF Told
<1>. QED  BY Inductive, <1>1, PTL

\* Every link joins a stored candidate to an artifact of the right kind
\* (link_candidate_artifact), although its check and its INSERT are apart.
THEOREM LinksAlwaysHold == Spec => []LinksHold
<1>1. StorageInv => LinksHold
  BY DEF StorageInv, EvidenceInv
<1>. QED  BY Inductive, <1>1, PTL

\* A report, read in three SELECTs while evidence is added, has all of the
\* ancestry there was when it was begun, nothing that is not there, and
\* describes every artifact it mentions (build_candidate_lineage_report).
THEOREM ReportsAlwaysSound == Spec => []ReportSound
<1>1. StorageInv => ReportSound
  BY DEF StorageInv, ReportInv, Reading, ReportSound, L!ReportSound, Into
<1>. QED  BY Inductive, <1>1, PTL

\* No step takes evidence back or changes it (insert_candidate_artifact_link,
\* insert_lineage_edge).
THEOREM EvidenceNeverShrinks == Spec => EvidenceOnlyGrows
<1>1. StorageInv /\ [Next]_vars =>
        [Grows]_<<artifacts, edges, links>>
  BY NextInv DEF vars
<1>2. Spec => [][Grows]_<<artifacts, edges, links>>
  BY Inductive, <1>1, PTL DEF Spec
<1>. QED  BY <1>2 DEF EvidenceOnlyGrows, L!EvidenceOnlyGrows, Grows
=============================================================================
