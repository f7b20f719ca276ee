---------------------------- MODULE ReviewWorkflow ----------------------------
(***************************************************************************)
(* The review workflow of pipeline/: candidate submission, candidate and   *)
(* proposal review, and application of accepted predicate proposals to the *)
(* local overlay file.  Any number of processes (command-line invocations, *)
(* tool-server handlers) share one SQLite database and one overlay tree.   *)
(*                                                                         *)
(* A service call runs "with conn:" over a connection in sqlite3's default *)
(* isolation mode.  Every SELECT before the first INSERT is therefore its  *)
(* own autocommitted read; the write lock is taken by the first INSERT and *)
(* held until the commit.  A call is modelled accordingly: a read step     *)
(* takes what the call will act on into task[w], and a commit step writes  *)
(* all tables at once.  Between the two, other processes run.  What stands *)
(* between a stale read and the tables are the UNIQUE constraints of the   *)
(* schema, the guards of the commit steps.                                 *)
(***************************************************************************)
EXTENDS Sequences, SequencesExt

CONSTANTS
  Worker,           \* concurrent processes
  CandidateId,      \* identifiers insert_candidate may draw
  Profile,          \* loadable profiles
  Predicate,        \* predicate names
  Pack,             \* overlay packs, one per base pack
  Mode,             \* Mode[p]: ontology mode of profile p
  BaseAllowed,      \* BaseAllowed[p]: predicates declared by p or by its pack
  OverlayTarget,    \* OverlayTarget[p]: p's overlay pack, or NoPack
  PermissiveReview, \* configuration flag pipeline.permissive_review
  NoPack,
  NoRow             \* a primary key without a row

ASSUME ProfileAssumption ==
  /\ Mode \in [Profile -> {"open", "mixed", "closed"}]
  /\ BaseAllowed \in [Profile -> SUBSET Predicate]
  /\ OverlayTarget \in [Profile -> Pack \cup {NoPack}]
  /\ NoPack \notin Pack
  \* open mode is only loadable with proposal_policy "reject"
  /\ \A p \in Profile : Mode[p] = "open" => OverlayTarget[p] = NoPack

ASSUME PermissiveAssumption == PermissiveReview \in BOOLEAN

ValidationStatus == {"valid", "needs_review", "invalid"}
Decision == {"accepted", "rejected"}
Policy == {"record_only", "apply_to_overlay"}
ApplicationStatus ==
  {"not_requested", "recorded", "pending_overlay_apply", "applied_to_overlay"}

\* Findings of the payload checks that do not depend on the overlay:
\* "malformed" stops the profile rules from running at all.
Flaw == {"none", "soft", "hard", "malformed"}

\* proposal_key digests value, profile and target pack, and the target pack is
\* a function of the profile, so the pair identifies the proposal.
ProposalId == [profile : Profile, value : Predicate]

CandidateRow ==
  [profile : Profile, predicate : Predicate,
   validation : ValidationStatus, review : {"pending_review"} \cup Decision]

ProposalRow ==
  [status : {"pending"} \cup Decision, application : ApplicationStatus]

CandidateReview == [candidate : CandidateId, decision : Decision]

ProposalReview ==
  [proposal : ProposalId, decision : Decision, application : ApplicationStatus]

Idle == [op |-> "idle"]

SubmitTask ==
  [op : {"submit"}, profile : Profile, predicate : Predicate,
   validation : ValidationStatus, requests : SUBSET ProposalId]
CandidateReviewTask ==
  [op : {"reviewCandidate"}, candidate : CandidateId, decision : Decision]
ProposalReviewTask ==
  [op : {"reviewProposal"}, proposal : ProposalId, decision : Decision,
   application : ApplicationStatus]
ApplyTask == [op : {"scan", "append", "record"}, proposal : ProposalId]

Task ==
  {Idle} \cup SubmitTask \cup CandidateReviewTask \cup ProposalReviewTask
         \cup ApplyTask

ASSUME NoRowAssumption == NoRow \notin CandidateRow \cup ProposalRow

VARIABLES
  candidates,       \* candidate_assertions, by primary key
  proposals,        \* ontology_proposals, by primary key
  links,            \* candidate_proposal_links
  candidateReviews, \* candidate_reviews (UNIQUE candidate_id)
  proposalReviews,  \* proposal_reviews (UNIQUE proposal_id)
  applications,     \* proposals with a row in overlay_applications (UNIQUE)
  overlay,          \* overlay[k]: lines of pack k's predicate_additions.jsonl
  task              \* task[w]: the call process w is in, and what it read

tables == <<candidates, proposals, links, candidateReviews, proposalReviews,
            applications>>
vars == <<candidates, proposals, links, candidateReviews, proposalReviews,
          applications, overlay, task>>

TypeOK ==
  /\ candidates \in [CandidateId -> CandidateRow \cup {NoRow}]
  /\ proposals \in [ProposalId -> ProposalRow \cup {NoRow}]
  /\ links \subseteq CandidateId \X ProposalId
  /\ candidateReviews \subseteq CandidateReview
  /\ proposalReviews \subseteq ProposalReview
  /\ applications \subseteq ProposalId
  /\ overlay \in [Pack -> Seq(ProposalId)]
  /\ task \in [Worker -> Task]

Init ==
  /\ candidates = [c \in CandidateId |-> NoRow]
  /\ proposals = [q \in ProposalId |-> NoRow]
  /\ links = {}
  /\ candidateReviews = {}
  /\ proposalReviews = {}
  /\ applications = {}
  /\ overlay = [k \in Pack |-> <<>>]
  /\ task = [w \in Worker |-> Idle]

-----------------------------------------------------------------------------
(* Profile loading and validation *)

Lines(k) == ToSet(overlay[k])

OverlayPredicates(p) ==
  IF OverlayTarget[p] = NoPack THEN {} ELSE {q.value : q \in Lines(OverlayTarget[p])}

\* Mutant: the overlay, once it has lines, stands in for the declared predicates.
EffectiveAllowedReplaced(p) ==
  IF OverlayPredicates(p) = {} THEN BaseAllowed[p] ELSE OverlayPredicates(p)

EffectiveAllowed(p) == BaseAllowed[p] \cup OverlayPredicates(p)

\* An unknown predicate is let through in open mode, and reported otherwise.
UnknownReported(p, v) == Mode[p] # "open" /\ v \notin EffectiveAllowed(p)

Severities(p, v, flaw) ==
  {flaw} \cup (IF ~UnknownReported(p, v) THEN {}
               ELSE IF Mode[p] = "closed" THEN {"hard"} ELSE {"soft"})

DeriveValidationStatus(severities) ==
  IF severities \cap {"malformed", "hard"} # {} THEN "invalid"
  ELSE IF "soft" \in severities THEN "needs_review"
  ELSE "valid"

ProposalRequests(p, v, flaw) ==
  IF flaw # "malformed" /\ Mode[p] = "mixed" /\ v \notin EffectiveAllowed(p)
  THEN {[profile |-> p, value |-> v]}
  ELSE {}

-----------------------------------------------------------------------------
(* submit_candidate_import *)

\* The effective profile is read from disk and the payload validated before
\* the transaction is opened.
SubmitValidate(w, p, v, flaw) ==
  /\ task[w] = Idle
  /\ task' = [task EXCEPT ![w] =
       [op |-> "submit", profile |-> p, predicate |-> v,
        validation |-> DeriveValidationStatus(Severities(p, v, flaw)),
        requests |-> ProposalRequests(p, v, flaw)]]
  /\ UNCHANGED <<tables, overlay>>

\* upsert_proposal reuses a proposal whatever has since been decided about it.
UpsertProposals(requests) ==
  proposals' = [q \in ProposalId |->
    IF q \in requests /\ proposals[q] = NoRow
    THEN [status |-> "pending", application |-> "not_requested"]
    ELSE proposals[q]]

\* Mutant: the candidate row is lost, its links are kept.
InsertCandidateNothing(c, t) == UNCHANGED candidates

InsertCandidate(c, t) ==
  candidates' = [candidates EXCEPT ![c] =
    [profile |-> t.profile, predicate |-> t.predicate,
     validation |-> t.validation, review |-> "pending_review"]]

\* Mutant: only proposals this submission created are linked.
LinkNewProposals(c, requests) ==
  links' = links \cup ({c} \X {q \in requests : proposals[q] = NoRow})

LinkProposals(c, requests) == links' = links \cup ({c} \X requests)

SubmitCommit(w, c) ==
  /\ task[w].op = "submit"
  /\ candidates[c] = NoRow
  /\ InsertCandidate(c, task[w])
  /\ UpsertProposals(task[w].requests)
  /\ LinkProposals(c, task[w].requests)
  /\ task' = [task EXCEPT ![w] = Idle]
  /\ UNCHANGED <<candidateReviews, proposalReviews, applications, overlay>>

-----------------------------------------------------------------------------
(* review_candidate *)

\* Mutant: validation treated as an annotation whatever the flag says.
CandidateTransitionPermissive(row, d) == row.review = "pending_review"

CandidateTransitionAllowed(row, d) ==
  /\ row.review = "pending_review"
  /\ d = "accepted" => row.validation # "invalid" \/ PermissiveReview

CandidateReviewRead(w, c, d) ==
  /\ task[w] = Idle
  /\ candidates[c] # NoRow
  /\ CandidateTransitionAllowed(candidates[c], d)
  /\ task' = [task EXCEPT ![w] =
       [op |-> "reviewCandidate", candidate |-> c, decision |-> d]]
  /\ UNCHANGED <<tables, overlay>>

CandidateReviewed(c) == \E r \in candidateReviews : r.candidate = c

\* Mutant: candidate_reviews.candidate_id without its UNIQUE constraint.
InsertCandidateReviewUnconstrained(c, d) ==
  /\ candidateReviews' = candidateReviews \cup {[candidate |-> c, decision |-> d]}
  /\ candidates' = [candidates EXCEPT ![c].review = d]

InsertCandidateReview(c, d) ==
  /\ ~CandidateReviewed(c)
  /\ candidateReviews' = candidateReviews \cup {[candidate |-> c, decision |-> d]}
  /\ candidates' = [candidates EXCEPT ![c].review = d]

\* The second of two concurrent reviews fails on the constraint and rolls back.
CandidateReviewCommit(w) ==
  /\ task[w].op = "reviewCandidate"
  /\ \/ InsertCandidateReview(task[w].candidate, task[w].decision)
     \/ /\ CandidateReviewed(task[w].candidate)
        /\ UNCHANGED <<candidates, candidateReviews>>
  /\ task' = [task EXCEPT ![w] = Idle]
  /\ UNCHANGED <<proposals, links, proposalReviews, applications, overlay>>

-----------------------------------------------------------------------------
(* review_proposal *)

ResolveApplicationStatus(d, pol) ==
  IF d = "rejected" THEN "not_requested"
  ELSE IF pol = "record_only" THEN "recorded"
  ELSE "pending_overlay_apply"

ProposalReviewed(q) == \E r \in proposalReviews : r.proposal = q

\* Accepting under apply_to_overlay needs a target pack (ValueError otherwise).
ProposalReviewRead(w, q, d, pol) ==
  /\ task[w] = Idle
  /\ proposals[q] # NoRow
  /\ ~ProposalReviewed(q)
  /\ d = "accepted" /\ pol = "apply_to_overlay" => OverlayTarget[q.profile] # NoPack
  /\ task' = [task EXCEPT ![w] =
       [op |-> "reviewProposal", proposal |-> q, decision |-> d,
        application |-> ResolveApplicationStatus(d, pol)]]
  /\ UNCHANGED <<tables, overlay>>

\* Mutant: proposal_reviews.proposal_id without its UNIQUE constraint.
InsertProposalReviewUnconstrained(q, d, app) ==
  /\ proposalReviews' = proposalReviews \cup
       {[proposal |-> q, decision |-> d, application |-> app]}
  /\ proposals' = [proposals EXCEPT ![q] = [status |-> d, application |-> app]]

InsertProposalReview(q, d, app) ==
  /\ ~ProposalReviewed(q)
  /\ proposalReviews' = proposalReviews \cup
       {[proposal |-> q, decision |-> d, application |-> app]}
  /\ proposals' = [proposals EXCEPT ![q] = [status |-> d, application |-> app]]

ProposalReviewCommit(w) ==
  /\ task[w].op = "reviewProposal"
  /\ \/ InsertProposalReview(task[w].proposal, task[w].decision, task[w].application)
     \/ /\ ProposalReviewed(task[w].proposal)
        /\ UNCHANGED <<proposals, proposalReviews>>
  /\ task' = [task EXCEPT ![w] = Idle]
  /\ UNCHANGED <<candidates, links, candidateReviews, applications, overlay>>

-----------------------------------------------------------------------------
(* apply_proposal_to_overlay *)

\* Mutant: acceptance is enough, whatever the acceptance policy was.
AcceptedAtAll(q) == proposals[q] # NoRow /\ proposals[q].status = "accepted"

AwaitsOverlay(q) ==
  /\ proposals[q] # NoRow
  /\ proposals[q].status = "accepted"
  /\ proposals[q].application = "pending_overlay_apply"

\* An already applied proposal returns its audit row and changes nothing.
ApplyRead(w, q) ==
  /\ task[w] = Idle
  /\ q \notin applications
  /\ AwaitsOverlay(q)
  /\ OverlayTarget[q.profile] # NoPack
  /\ task' = [task EXCEPT ![w] = [op |-> "scan", proposal |-> q]]
  /\ UNCHANGED <<tables, overlay>>

\* Mutant: the file is not looked at, the line is taken to be there.
LineAssumed(q) == TRUE

LineFound(q) == q \in Lines(OverlayTarget[q.profile])

\* Mutant: a line already there is refused, the call stays where it is.
AfterScanRefusing(found) == IF found THEN "scan" ELSE "append"

AfterScan(found) == IF found THEN "record" ELSE "append"

\* write_overlay_predicate_addition reads the file for the proposal's line ...
ApplyScan(w) ==
  /\ task[w].op = "scan"
  /\ task' = [task EXCEPT ![w].op = AfterScan(LineFound(task[w].proposal))]
  /\ UNCHANGED <<tables, overlay>>

\* ... and appends it when it was not there, outside any lock.
ApplyAppend(w) ==
  /\ task[w].op = "append"
  /\ LET q == task[w].proposal
     IN  overlay' = [overlay EXCEPT ![OverlayTarget[q.profile]] = Append(@, q)]
  /\ task' = [task EXCEPT ![w].op = "record"]
  /\ UNCHANGED tables

\* upsert_overlay_application: the row is inserted or found already there, and
\* the status set either way.  A row that appears between the look-up and the
\* INSERT fails the call and leaves the same tables.
ApplyCommit(w) ==
  /\ task[w].op = "record"
  /\ applications' = applications \cup {task[w].proposal}
  /\ proposals' = [proposals EXCEPT ![task[w].proposal].application = "applied_to_overlay"]
  /\ task' = [task EXCEPT ![w] = Idle]
  /\ UNCHANGED <<candidates, links, candidateReviews, proposalReviews, overlay>>

-----------------------------------------------------------------------------
\* The process dies, or its write waits out the busy timeout ("database is
\* locked"), or raises: the open transaction is rolled back.  What was appended
\* to the overlay file stays.
Abandon(w) ==
  /\ task[w] # Idle
  /\ task' = [task EXCEPT ![w] = Idle]
  /\ UNCHANGED <<tables, overlay>>

ApplySteps(w) ==
  \/ \E q \in ProposalId : ApplyRead(w, q)
  \/ ApplyScan(w)
  \/ ApplyAppend(w)
  \/ ApplyCommit(w)

Step(w) ==
  \/ \E p \in Profile, v \in Predicate, flaw \in Flaw : SubmitValidate(w, p, v, flaw)
  \/ \E c \in CandidateId : SubmitCommit(w, c)
  \/ \E c \in CandidateId, d \in Decision : CandidateReviewRead(w, c, d)
  \/ CandidateReviewCommit(w)
  \/ \E q \in ProposalId, d \in Decision, pol \in Policy : ProposalReviewRead(w, q, d, pol)
  \/ ProposalReviewCommit(w)
  \/ ApplySteps(w)
  \/ Abandon(w)

Next == \E w \in Worker : Step(w)

Spec == Init /\ [][Next]_vars

\* Somebody keeps asking for pending applications until they are recorded, and
\* a call is eventually carried through without being abandoned.
ApplyFairness ==
  \A w \in Worker :
    /\ \A q \in ProposalId : SF_vars(ApplyRead(w, q))
    /\ SF_vars(ApplyScan(w))
    /\ SF_vars(ApplyAppend(w))
    /\ SF_vars(ApplyCommit(w))
    /\ WF_vars(Abandon(w))

FairSpec == Spec /\ ApplyFairness

-----------------------------------------------------------------------------
(* Properties *)

\* Each submitted candidate and each proposal carries exactly the verdict of
\* its one review row, and is undecided exactly when it has none, although
\* status column and review table are written from separately read snapshots.
ReviewsAgree ==
  /\ \A c \in CandidateId :
       {r.decision : r \in {s \in candidateReviews : s.candidate = c}} =
         IF candidates[c] = NoRow \/ candidates[c].review = "pending_review"
         THEN {} ELSE {candidates[c].review}
  /\ \A q \in ProposalId :
       {r.decision : r \in {s \in proposalReviews : s.proposal = q}} =
         IF proposals[q] = NoRow \/ proposals[q].status = "pending"
         THEN {} ELSE {proposals[q].status}

\* No candidate that failed validation is ever accepted unless the permissive
\* flag is set, whoever raced whom to review it.
NoInvalidAccepted ==
  PermissiveReview \/
    \A c \in CandidateId : candidates[c] # NoRow =>
      ~(candidates[c].validation = "invalid" /\ candidates[c].review = "accepted")

\* A line stands in an overlay file only for a proposal of that pack whose one
\* review accepted it for application: a crash may leave a line the database
\* has not recorded, never one that nobody approved.
OverlayGoverned ==
  \A k \in Pack : \A q \in Lines(k) :
    /\ OverlayTarget[q.profile] = k
    /\ \E r \in proposalReviews :
         /\ r.proposal = q
         /\ r.decision = "accepted"
         /\ r.application = "pending_overlay_apply"

\* The database calls a proposal applied, by its audit row and by its status
\* column alike, only when its line is in the overlay file every validation
\* will read.
AppliedIsWritten ==
  \A q \in ProposalId :
    /\ q \in applications <=>
         proposals[q] # NoRow /\ proposals[q].application = "applied_to_overlay"
    /\ q \in applications =>
         OverlayTarget[q.profile] \in Pack /\ q \in Lines(OverlayTarget[q.profile])

\* Every proposal was raised by a stored candidate of the same profile and
\* predicate, and links never dangle.
ProposalsGrounded ==
  /\ \A q \in ProposalId : proposals[q] # NoRow => \E c \in CandidateId : <<c, q>> \in links
  /\ \A l \in links :
       /\ candidates[l[1]] # NoRow
       /\ proposals[l[2]] # NoRow
       /\ l[2] = [profile |-> candidates[l[1]].profile, value |-> candidates[l[1]].predicate]

\* No predicate unknown to a governed profile slips past governance: what was
\* stored as not invalid is allowed by the profile as it stands now, overlay
\* included, or its novelty is on record as a linked proposal.  The validation
\* is from before the transaction and the overlay may have grown since.
NoUngovernedPredicate ==
  \A c \in CandidateId :
    LET row == candidates[c]
    IN  candidates[c] # NoRow /\ Mode[row.profile] # "open" /\ row.validation # "invalid"
        => \/ row.predicate \in EffectiveAllowed(row.profile)
           \/ <<c, [profile |-> row.profile, value |-> row.predicate]>> \in links

\* The workflow implements two decide-once ledgers, one for candidates, which
\* have no publication, and one for proposals.
CandidateVerdict(c) ==
  IF candidates[c] = NoRow THEN "unfiled"
  ELSE IF candidates[c].review = "pending_review" THEN "open"
  ELSE IF candidates[c].review = "accepted" THEN "recorded"
  ELSE "rejected"

ProposalVerdict(q) ==
  IF proposals[q] = NoRow THEN "unfiled"
  ELSE IF proposals[q].status = "pending" THEN "open"
  ELSE IF proposals[q].status = "rejected" THEN "rejected"
  ELSE IF proposals[q].application = "recorded" THEN "recorded"
  ELSE "granted"

CandidateLedger == INSTANCE ReviewLedger WITH
  Item <- CandidateId, verdict <- [c \in CandidateId |-> CandidateVerdict(c)],
  published <- {}, settled <- {}

ProposalLedger == INSTANCE ReviewLedger WITH
  Item <- ProposalId, verdict <- [q \in ProposalId |-> ProposalVerdict(q)],
  published <- UNION {Lines(k) : k \in Pack}, settled <- applications

\* Whatever processes interleave, a candidate is decided at most once.
ImplementsCandidateLedger == CandidateLedger!Spec

\* Whatever processes interleave or crash, a proposal is decided at most once,
\* only a granted one is published in an overlay, only a published one is
\* recorded as applied, and nothing is taken back.
ImplementsProposalLedger == ProposalLedger!Spec

\* An application that crashed between the file and the database is completed
\* by asking again: what is pending application does not stay pending.
PendingGetsApplied ==
  \A q \in ProposalId :
    (proposals[q] # NoRow /\ proposals[q].application = "pending_overlay_apply")
      ~> q \in applications

\* The docstring's claim that writing to the overlay is idempotent by
\* proposal_id: one line per proposal.
OneLinePerProposal ==
  \A k \in Pack : \A i, j \in DOMAIN overlay[k] : overlay[k][i] = overlay[k][j] => i = j

-----------------------------------------------------------------------------
(* The inductive invariant: what a call in flight still knows, although other
   processes have moved on since it read. *)

AcceptedForOverlay(q) ==
  /\ OverlayTarget[q.profile] # NoPack
  /\ proposals[q] # NoRow
  /\ proposals[q].status = "accepted"
  /\ proposals[q].application \in {"pending_overlay_apply", "applied_to_overlay"}

SubmitKnows(t) ==
  /\ t.requests \subseteq {[profile |-> t.profile, value |-> t.predicate]}
  /\ Mode[t.profile] # "open" /\ t.validation # "invalid" =>
       t.predicate \in EffectiveAllowed(t.profile) \/ t.requests # {}

CandidateReviewKnows(t) ==
  /\ candidates[t.candidate] # NoRow
  /\ t.decision = "accepted" =>
       candidates[t.candidate].validation # "invalid" \/ PermissiveReview

ProposalReviewKnows(t) ==
  /\ proposals[t.proposal] # NoRow
  /\ \E pol \in Policy :
       /\ t.application = ResolveApplicationStatus(t.decision, pol)
       /\ t.decision = "accepted" /\ pol = "apply_to_overlay" =>
            OverlayTarget[t.proposal.profile] # NoPack

Knows(t) ==
  /\ t.op = "submit" => SubmitKnows(t)
  /\ t.op = "reviewCandidate" => CandidateReviewKnows(t)
  /\ t.op = "reviewProposal" => ProposalReviewKnows(t)
  /\ t.op \in {"scan", "append", "record"} => AcceptedForOverlay(t.proposal)
  /\ t.op = "record" => LineFound(t.proposal)

TasksKnow == \A w \in Worker : Knows(task[w])

\* Status columns of a proposal row against its review row.
ApplicationsAgree ==
  \A q \in ProposalId : proposals[q] # NoRow =>
    /\ proposals[q].status = "pending" => proposals[q].application = "not_requested"
    /\ \A r \in proposalReviews : r.proposal = q =>
         /\ (r.decision = "rejected") <=> (r.application = "not_requested")
         /\ r.application # "applied_to_overlay"
         /\ \/ r.application = proposals[q].application
            \/ /\ r.application = "pending_overlay_apply"
               /\ proposals[q].application = "applied_to_overlay"

IInv ==
  /\ TypeOK
  /\ ReviewsAgree
  /\ ApplicationsAgree
  /\ NoInvalidAccepted
  /\ OverlayGoverned
  /\ AppliedIsWritten
  /\ ProposalsGrounded
  /\ NoUngovernedPredicate
  /\ TasksKnow
=============================================================================
