--------------------------- MODULE ReviewStorage ---------------------------
(***************************************************************************)
(* The lineage service on a review database that is being brought forward: *)
(* ArtifactLineageService constructs a ReviewStore first, which migrates   *)
(* the candidate table, and serves calls once that is done.                *)
(***************************************************************************)
EXTENDS SchemaMigration

CONSTANTS Artifacts, ArtifactKinds, Supports, Relationships, Details, Cited

VARIABLES artifacts, edges, links, calls

L == INSTANCE Lineage WITH stored <- DOMAIN table.rows

vars == <<migrationVars, artifacts, edges, links, calls>>

Init == MigrationInit /\ L!LineageInit

\* A process that goes down takes its call with it.
Construct(p) ==
    /\ Start(p)
    /\ calls' = IF starter'[p].at = "down" THEN [calls EXCEPT ![p] = L!NoCall] ELSE calls
    /\ UNCHANGED <<artifacts, edges, links>>

SubmitCandidate(p) ==
    /\ L!Idle(p) /\ \E i \in NewIds : Submit(p, i)
    /\ UNCHANGED <<artifacts, edges, links, calls>>

Serve(p) == Ready(p) /\ L!Serve(p) /\ UNCHANGED migrationVars

Next == \E p \in Processes : Construct(p) \/ SubmitCandidate(p) \/ Serve(p)

Spec == Init /\ [][Next]_vars

-----------------------------------------------------------------------------
\* The properties of Lineage, over the migrating table.
LinksHold == L!LinksHold
EvidenceOnlyGrows == L!EvidenceOnlyGrows
ReportSound == L!ReportSound
=============================================================================
