--------------------------- MODULE EpistemicReport ---------------------------
(***************************************************************************)
(* build_promoted_assertion_collection_report: which promoted assertions   *)
(* corroborate each other and which are in tension.                        *)
(*                                                                         *)
(* The report selects the promoted assertions, then the dispositions and   *)
(* the supersession of each, one SELECT after the other and none of them   *)
(* in a transaction: other processes write in between.  It writes nothing, *)
(* so one report at a time is as good as many.                             *)
(***************************************************************************)
EXTENDS Epistemic, FiniteSetsExt

CONSTANTS
  Bodies,    \* Bodies: what the normalized bodies may be, per candidate
  NoRoles    \* the roles of a statement that has none

VARIABLES
  reading,   \* a report is under way
  current,   \* whose dispositions are read but whose supersession is not
  status,    \* status[c]: what the report knows of c
  stood      \* the assertions that stood when the report began

reportVars == <<reading, current, status, stood>>

Unlisted == [c \in CandidateId |-> "unlisted"]

ReportInit ==
  /\ Init
  /\ reading = FALSE
  /\ current = NoCandidate
  /\ status = Unlisted
  /\ stood = {}

Standing == {"active", "weakened"}

-----------------------------------------------------------------------------
(* Corroboration and tension among S, the assertions the report takes to    *)
(* stand, of the given bodies                                               *)

CorroborationGroups(S, body) ==
  {G \in {{d \in S : body[d] = body[c]} : c \in S} : Cardinality(G) >= 2}

HasEntityAnchor(fillers) == \E i \in DOMAIN fillers : fillers[i].kind = "entity"

AnchorRoles(a, b) ==
  {r \in DOMAIN a.roles \cap DOMAIN b.roles :
     a.roles[r] = b.roles[r] /\ HasEntityAnchor(a.roles[r])}

DifferingRoles(a, b) ==
  {r \in DOMAIN a.roles \cup DOMAIN b.roles :
     ~(r \in DOMAIN a.roles \cap DOMAIN b.roles /\ a.roles[r] = b.roles[r])}

\* Pairs whose roles are compared; what is no mapping of roles raises.
Rivals(S, body) ==
  {p \in kSubset(2, S) : \A c, d \in p :
     c # d => body[c].predicate = body[d].predicate /\ body[c] # body[d]}

Comparable(S, body) ==
  \A p \in Rivals(S, body) : \A c \in p : body[c].roles # NoRoles

Tensions(S, body) ==
  {p \in Rivals(S, body) : \A c, d \in p :
     c # d => /\ AnchorRoles(body[c], body[d]) # {}
              /\ DifferingRoles(body[c], body[d]) # {}}

\* What the collection report relates: its groups, and its tensions as pairs.
\* A report that raises relates nothing.
Related(S, body) ==
  IF Comparable(S, body) THEN CorroborationGroups(S, body) \cup Tensions(S, body) ELSE {}

-----------------------------------------------------------------------------
(* The report *)

ListAssertions ==
  /\ ~reading
  /\ reading' = TRUE
  /\ status' = [c \in CandidateId |-> IF c \in promoted THEN "listed" ELSE "unlisted"]
  /\ stood' = {c \in promoted : EpistemicStatus(c) \in Standing}
  /\ UNCHANGED <<current, vars>>

ReadDispositions(c) ==
  /\ reading
  /\ current = NoCandidate
  /\ status[c] = "listed"
  /\ current' = c
  /\ status' = [status EXCEPT ![c] = Latest(c)]
  /\ UNCHANGED <<reading, stood, vars>>

\* Mutant: supersession is looked up for assertions without a disposition only.
StatusOfDisposed(c, latest) ==
  IF latest = "active" /\ SupersededInGraph(c) THEN "superseded" ELSE latest

StatusOf(c, latest) ==
  IF latest # "retracted" /\ SupersededInGraph(c) THEN "superseded" ELSE latest

ReadSupersession ==
  /\ reading
  /\ current # NoCandidate
  /\ status' = [status EXCEPT ![current] = StatusOf(current, @)]
  /\ current' = NoCandidate
  /\ UNCHANGED <<reading, stood, vars>>

Eligible == {c \in CandidateId : status[c] \in Standing}

ReadToEnd ==
  /\ reading
  /\ current = NoCandidate
  /\ \A c \in CandidateId : status[c] # "listed"

\* What the report relates is derived from what it read, and returned.
ReturnReport ==
  /\ ReadToEnd
  /\ reading' = FALSE
  /\ status' = Unlisted
  /\ stood' = {}
  /\ UNCHANGED <<current, vars>>

ReportStep ==
  \/ ListAssertions
  \/ \E c \in CandidateId : ReadDispositions(c)
  \/ ReadSupersession
  \/ ReturnReport

ReportNext ==
  \/ Next /\ UNCHANGED reportVars
  \/ ReportStep

ReportSpec == ReportInit /\ [][ReportNext]_<<vars, reportVars>>

-----------------------------------------------------------------------------
\* With writing calls made one at a time, a report that was overtaken by some
\* of them still relates only assertions that stood side by side: all that it
\* groups, and both sides of every tension, stood when it began.
RelatedStoodTogether ==
  ReadToEnd => \A body \in Bodies : UNION Related(Eligible, body) \subseteq stood
=============================================================================
