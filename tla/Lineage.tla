------------------------------ MODULE Lineage ------------------------------
(***************************************************************************)
(* Artifacts, the edges between them and their links to candidates         *)
(* (artifacts/service.py over artifacts/store.py).  A call reads outside a *)
(* transaction and takes the write lock with its INSERT, which commits: a  *)
(* call that writes is a read step and a commit step.  A report is three   *)
(* SELECTs with nothing to keep them together.                             *)
(***************************************************************************)
EXTENDS Naturals, FiniteSets

CONSTANTS
    Processes,      \* the processes that call the service
    Artifacts,      \* artifact ids a registration may draw
    ArtifactKinds,  \* source, derived_dataset, analysis_result
    Supports,       \* Supports[s]: the artifact kind support kind s goes with
    Relationships,  \* of an edge: derived_from and the like
    Details,        \* reference details of a link
    Cited           \* the candidates that calls ask about

VARIABLES
    stored,         \* the candidates of the review database
    artifacts,      \* artifacts[a]: the kind of registered artifact a
    edges,          \* the artifact_lineage table
    links,          \* candidate_artifact_links: key to reference detail
    calls           \* calls[p]: what p's call has read so far

lineageVars == <<artifacts, edges, links, calls>>

Edge == [parent : Artifacts, child : Artifacts, type : Relationships]
Key(c, a, s) == [candidate |-> c, artifact |-> a, support |-> s]

NoCall == [op |-> "none"]
Idle(p) == calls[p].op = "none"
Return(p) == calls' = [calls EXCEPT ![p] = NoCall]

(***************************************************************************)
(* Writing.                                                                *)
(***************************************************************************)
\* Every registration is a new artifact, the same file registered twice too.
RegisterArtifact(p, a, kind) ==
    /\ Idle(p) /\ a \notin DOMAIN artifacts
    /\ artifacts' = [b \in DOMAIN artifacts \cup {a} |-> IF b = a THEN kind ELSE artifacts[b]]
    /\ UNCHANGED <<edges, links, calls>>

EdgeRead(p, e) ==
    /\ Idle(p) /\ {e.parent, e.child} \subseteq DOMAIN artifacts
    /\ e.parent # e.child
    /\ e \notin edges
    /\ calls' = [calls EXCEPT ![p] = [op |-> "edge", edge |-> e]]
    /\ UNCHANGED <<artifacts, edges, links>>

\* The primary key refuses an edge that another call stored meanwhile.
EdgeCommit(p) ==
    /\ calls[p].op = "edge"
    /\ edges' = edges \cup {calls[p].edge}
    /\ Return(p)
    /\ UNCHANGED <<artifacts, links>>

\* Mutant: the link refers to whatever artifact it is given.
SupportUnchecked(support, kind) == TRUE

\* Only a source is quoted, only a dataset or an analysis supports as such.
SupportValid(support, kind) == kind = Supports[support]

\* A link that is there is returned, or refused when the detail differs.
LinkRead(p, c, a, support, detail) ==
    /\ Idle(p) /\ c \in stored /\ a \in DOMAIN artifacts
    /\ SupportValid(support, artifacts[a])
    /\ Key(c, a, support) \notin DOMAIN links
    /\ calls' = [calls EXCEPT ![p] = [op |-> "link", key |-> Key(c, a, support), detail |-> detail]]
    /\ UNCHANGED <<artifacts, edges, links>>

\* The primary key refuses a link that another call stored meanwhile.
Inserted(key, detail) ==
    IF key \in DOMAIN links THEN links
    ELSE [k \in DOMAIN links \cup {key} |-> IF k = key THEN detail ELSE links[k]]

LinkCommit(p) ==
    /\ calls[p].op = "link"
    /\ links' = Inserted(calls[p].key, calls[p].detail)
    /\ Return(p)
    /\ UNCHANGED <<artifacts, edges>>

(***************************************************************************)
(* The report of a candidate.                                              *)
(***************************************************************************)
\* Mutant: the parents of the linked artifacts and no further.
ParentEdges(direct) == {e \in edges : e.child \in direct}

\* The recursive query: edges into the given artifacts, then edges into the
\* parents of those found so far, until nothing new turns up.
AncestorEdges(direct) ==
    LET found[n \in 0..Cardinality(edges)] ==
            IF n = 0 THEN {e \in edges : e.child \in direct}
            ELSE found[n - 1] \cup {e \in edges : \E f \in found[n - 1] : e.child = f.parent}
    IN  found[Cardinality(edges)]

Ends(es) == {e.parent : e \in es} \cup {e.child : e \in es}

\* since is not of the code: the edges there were when the report was begun.
ReportLinks(p, c) ==
    /\ Idle(p) /\ c \in stored
    /\ calls' = [calls EXCEPT ![p] =
            [op |-> "links", direct |-> {k.artifact : k \in {l \in DOMAIN links : l.candidate = c}},
             since |-> edges]]
    /\ UNCHANGED <<artifacts, edges, links>>

ReportEdges(p) ==
    /\ calls[p].op = "links"
    /\ calls' = [calls EXCEPT ![p] =
            [op |-> "edges", direct |-> calls[p].direct, since |-> calls[p].since,
             edges |-> AncestorEdges(calls[p].direct)]]
    /\ UNCHANGED <<artifacts, edges, links>>

ReportArtifacts(p) ==
    /\ calls[p].op = "edges"
    /\ calls' = [calls EXCEPT ![p] =
            [op |-> "report", direct |-> calls[p].direct, since |-> calls[p].since,
             edges |-> calls[p].edges,
             artifacts |-> (calls[p].direct \cup Ends(calls[p].edges)) \cap DOMAIN artifacts]]
    /\ UNCHANGED <<artifacts, edges, links>>

\* The report is handed over; or a call fails, or its process dies.
EndCall(p) ==
    /\ ~Idle(p)
    /\ Return(p)
    /\ UNCHANGED <<artifacts, edges, links>>

LineageInit ==
    /\ artifacts = [a \in {} |-> ""] /\ edges = {} /\ links = [k \in {} |-> ""]
    /\ calls = [p \in Processes |-> NoCall]

Serve(p) ==
    \/ \E a \in Artifacts, kind \in ArtifactKinds : RegisterArtifact(p, a, kind)
    \/ \E e \in Edge : EdgeRead(p, e)
    \/ \E c \in Cited, a \in Artifacts, s \in DOMAIN Supports, d \in Details : LinkRead(p, c, a, s, d)
    \/ \E c \in Cited : ReportLinks(p, c)
    \/ EdgeCommit(p) \/ LinkCommit(p) \/ ReportEdges(p) \/ ReportArtifacts(p) \/ EndCall(p)

-----------------------------------------------------------------------------
\* What a link says holds: candidate and artifact are stored and of kinds
\* that go together, whatever was written between its check and its INSERT.
LinksHold ==
    /\ edges \subseteq [parent : DOMAIN artifacts, child : DOMAIN artifacts, type : Relationships]
    /\ \A k \in DOMAIN links : /\ k.candidate \in stored /\ k.artifact \in DOMAIN artifacts
                               /\ artifacts[k.artifact] = Supports[k.support]
                               /\ links[k] \in Details

\* The evidence of a candidate is only added to: no link changes its detail,
\* no artifact its kind, and nothing disappears.
EvidenceOnlyGrows ==
    [][/\ edges \subseteq edges'
       /\ \A k \in DOMAIN links : k \in DOMAIN links' /\ links'[k] = links[k]
       /\ \A a \in DOMAIN artifacts : a \in DOMAIN artifacts' /\ artifacts'[a] = artifacts[a]
      ]_<<artifacts, edges, links>>

\* Artifacts that direct leads back to, as the least set closed under parents.
Ancestry(direct, es) ==
    {a \in Artifacts : \A s \in SUBSET Artifacts :
        direct \subseteq s /\ (\A e \in es : e.child \in s => e.parent \in s) => a \in s}

\* A report tells all of the ancestry that was there when it was begun and
\* nothing that is not there when it ends, lineage may run in a circle too;
\* it describes every artifact that it mentions.
ReportSound ==
    \A p \in Processes : calls[p].op = "report" =>
        LET r == calls[p]
            Into(es) == {e \in es : e.child \in Ancestry(r.direct, es)}
        IN  /\ Into(r.since) \subseteq r.edges /\ r.edges \subseteq Into(edges)
            /\ r.artifacts = r.direct \cup Ends(r.edges)
=============================================================================
