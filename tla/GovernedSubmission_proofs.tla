---------------------- MODULE GovernedSubmission_proofs ----------------------
(***************************************************************************)
(* Proofs about ReviewWorkflow for every set of processes, candidates,     *)
(* profiles, predicates and packs, and about GovernedSubmission for every  *)
(* payload: validating payloads implements ReviewWorkflow, whose theorems  *)
(* therefore hold of it, and a stored validation errs to one side only.    *)
(***************************************************************************)
EXTENDS GovernedSubmission, TLAPS

USE ProfileAssumption, PermissiveAssumption, NoRowAssumption

-----------------------------------------------------------------------------
(* Types *)

\* A task of each shape has the fields its shape promises.
LEMMA TaskFields ==
  ASSUME NEW t \in Task
  PROVE  /\ t.op \in {"idle", "submit", "reviewCandidate", "reviewProposal",
                      "scan", "append", "record"}
         /\ t.op = "idle" => t = Idle
         /\ t.op = "submit" => t \in SubmitTask
         /\ t.op = "reviewCandidate" => t \in CandidateReviewTask
         /\ t.op = "reviewProposal" => t \in ProposalReviewTask
         /\ t.op \in {"scan", "append", "record"} => t \in ApplyTask
  BY DEF Task, Idle, SubmitTask, CandidateReviewTask, ProposalReviewTask, ApplyTask

LEMMA TypeInit == Init => TypeOK
  BY DEF Init, TypeOK, Task

\* Every step keeps the tables, the overlay files and the calls well typed; a
\* commit updates a row its call has seen.
LEMMA TypeStep == TypeOK /\ TasksKnow /\ [Next]_vars => TypeOK'
<1> SUFFICES ASSUME TypeOK, TasksKnow, [Next]_vars PROVE TypeOK'
  OBVIOUS
<1> USE DEF TypeOK
<1>1. ASSUME NEW w \in Worker, NEW p \in Profile, NEW v \in Predicate, NEW flaw \in Flaw,
             SubmitValidate(w, p, v, flaw)
      PROVE  TypeOK'
  <2>1. DeriveValidationStatus(Severities(p, v, flaw)) \in ValidationStatus
    BY DEF DeriveValidationStatus, ValidationStatus
  <2>2. ProposalRequests(p, v, flaw) \subseteq ProposalId
    BY DEF ProposalRequests, ProposalId
  <2> QED
    BY <1>1, <2>1, <2>2 DEF SubmitValidate, tables, Task, SubmitTask
<1>2. ASSUME NEW w \in Worker, NEW c \in CandidateId, SubmitCommit(w, c)
      PROVE  TypeOK'
  <2>1. task[w] \in SubmitTask
    BY <1>2, TaskFields DEF SubmitCommit
  <2>2. candidates' \in [CandidateId -> CandidateRow \cup {NoRow}]
    BY <1>2, <2>1 DEF SubmitCommit, InsertCandidate, CandidateRow, SubmitTask
  <2>3. proposals' \in [ProposalId -> ProposalRow \cup {NoRow}]
    BY <1>2 DEF SubmitCommit, UpsertProposals, ProposalRow, ApplicationStatus
  <2>4. links' \subseteq CandidateId \X ProposalId
    BY <1>2, <2>1 DEF SubmitCommit, LinkProposals, SubmitTask
  <2> QED
    BY <1>2, <2>2, <2>3, <2>4 DEF SubmitCommit, Task
<1>3. ASSUME NEW w \in Worker, NEW c \in CandidateId, NEW d \in Decision,
             CandidateReviewRead(w, c, d)
      PROVE  TypeOK'
  BY <1>3 DEF CandidateReviewRead, tables, Task, CandidateReviewTask
<1>4. ASSUME NEW w \in Worker, CandidateReviewCommit(w)
      PROVE  TypeOK'
  <2>1. task[w] \in CandidateReviewTask
    BY <1>4, TaskFields DEF CandidateReviewCommit
  <2>2. CASE InsertCandidateReview(task[w].candidate, task[w].decision)
    <3> DEFINE c == task[w].candidate
               d == task[w].decision
    <3>1. c \in CandidateId /\ d \in Decision
      BY <2>1 DEF CandidateReviewTask
    <3>3. candidates[c] \in CandidateRow
      BY <1>4, <3>1 DEF CandidateReviewCommit, TasksKnow, Knows, CandidateReviewKnows
    <3>4. candidates' = [candidates EXCEPT ![c] = [candidates[c] EXCEPT !.review = d]]
      BY <2>2 DEF InsertCandidateReview
    <3>5. [candidates[c] EXCEPT !.review = d] \in CandidateRow
      BY <3>1, <3>3 DEF CandidateRow
    <3>2. candidateReviews' \subseteq CandidateReview
      BY <2>2, <3>1 DEF InsertCandidateReview, CandidateReview
    <3> QED
      BY <1>4, <3>1, <3>2, <3>4, <3>5 DEF CandidateReviewCommit, Task
  <2>3. CASE UNCHANGED <<candidates, candidateReviews>>
    BY <1>4, <2>3 DEF CandidateReviewCommit, Task
  <2> QED
    BY <1>4, <2>2, <2>3 DEF CandidateReviewCommit
<1>5. ASSUME NEW w \in Worker, NEW q \in ProposalId, NEW d \in Decision, NEW pol \in Policy,
             ProposalReviewRead(w, q, d, pol)
      PROVE  TypeOK'
  BY <1>5 DEF ProposalReviewRead, tables, Task, ProposalReviewTask, ResolveApplicationStatus,
              ApplicationStatus
<1>6. ASSUME NEW w \in Worker, ProposalReviewCommit(w)
      PROVE  TypeOK'
  <2>1. task[w] \in ProposalReviewTask
    BY <1>6, TaskFields DEF ProposalReviewCommit
  <2>2. CASE InsertProposalReview(task[w].proposal, task[w].decision, task[w].application)
    <3>1. proposalReviews' \subseteq ProposalReview
      BY <2>1, <2>2 DEF InsertProposalReview, ProposalReviewTask, ProposalReview
    <3>2. proposals' \in [ProposalId -> ProposalRow \cup {NoRow}]
      BY <2>1, <2>2 DEF InsertProposalReview, ProposalReviewTask, ProposalRow
    <3> QED
      BY <1>6, <3>1, <3>2 DEF ProposalReviewCommit, Task
  <2>3. CASE UNCHANGED <<proposals, proposalReviews>>
    BY <1>6, <2>3 DEF ProposalReviewCommit, Task
  <2> QED
    BY <1>6, <2>2, <2>3 DEF ProposalReviewCommit
<1>7. ASSUME NEW w \in Worker, NEW q \in ProposalId, ApplyRead(w, q)
      PROVE  TypeOK'
  BY <1>7 DEF ApplyRead, tables, Task, ApplyTask
<1>8. ASSUME NEW w \in Worker, ApplyScan(w)
      PROVE  TypeOK'
  <2>1. task[w] \in ApplyTask
    BY <1>8, TaskFields DEF ApplyScan
  <2> QED
    BY <1>8, <2>1 DEF ApplyScan, AfterScan, tables, Task, ApplyTask
<1>9. ASSUME NEW w \in Worker, ApplyAppend(w)
      PROVE  TypeOK'
  <2>1. task[w] \in ApplyTask
    BY <1>9, TaskFields DEF ApplyAppend
  <2>2. task[w].proposal \in ProposalId
    BY <2>1 DEF ApplyTask
  <2>3. overlay' \in [Pack -> Seq(ProposalId)]
    <3> DEFINE k == OverlayTarget[task[w].proposal.profile]
    <3>1. overlay' = [overlay EXCEPT ![k] = Append(overlay[k], task[w].proposal)]
      BY <1>9 DEF ApplyAppend
    <3>2. CASE k \in Pack
      <4>1. Append(overlay[k], task[w].proposal) \in Seq(ProposalId)
        BY <2>2, <3>2
      <4> QED
        BY <3>1, <4>1
    <3>3. CASE k \notin Pack
      BY <3>1, <3>3
    <3> QED
      BY <3>2, <3>3
  <2>4. task' \in [Worker -> Task]
    <3>1. [task[w] EXCEPT !.op = "record"] \in ApplyTask
      BY <2>1 DEF ApplyTask
    <3> QED
      BY <1>9, <3>1 DEF ApplyAppend, Task
  <2> QED
    BY <1>9, <2>3, <2>4 DEF ApplyAppend, tables
<1>10. ASSUME NEW w \in Worker, ApplyCommit(w)
       PROVE  TypeOK'
  <2>1. task[w].proposal \in ProposalId
    BY <1>10, TaskFields DEF ApplyCommit, ApplyTask
  <2>2. proposals[task[w].proposal] \in ProposalRow
    BY <1>10, <2>1 DEF ApplyCommit, TasksKnow, Knows, AcceptedForOverlay
  <2>3. [proposals[task[w].proposal] EXCEPT !.application = "applied_to_overlay"] \in ProposalRow
    BY <2>2 DEF ProposalRow, ApplicationStatus
  <2> QED
    BY <1>10, <2>1, <2>3 DEF ApplyCommit, Task
<1>11. ASSUME NEW w \in Worker, Abandon(w)
       PROVE  TypeOK'
  BY <1>11 DEF Abandon, tables, Task
<1>12. ASSUME UNCHANGED vars
       PROVE  TypeOK'
  BY <1>12 DEF vars
<1> QED
  BY <1>1, <1>2, <1>3, <1>4, <1>5, <1>6, <1>7, <1>8, <1>9, <1>10, <1>11, <1>12
  DEF Next, Step, ApplySteps

-----------------------------------------------------------------------------
(* What a step may not take away from the calls in flight *)

\* Rows are never deleted nor re-validated, an accepted proposal stays
\* accepted, and overlay files only grow.
Advances ==
  /\ \A c \in CandidateId : candidates[c] # NoRow =>
       /\ candidates'[c] # NoRow
       /\ candidates'[c].validation = candidates[c].validation
  /\ \A q \in ProposalId : proposals[q] # NoRow => proposals'[q] # NoRow
  /\ \A q \in ProposalId : AcceptedForOverlay(q) => AcceptedForOverlay(q)'
  /\ \A k \in Pack : Lines(k) \subseteq Lines(k)'

\* A larger overlay allows no fewer predicates.
LEMMA AllowedGrows ==
  ASSUME \A k \in Pack : Lines(k) \subseteq Lines(k)', NEW p \in Profile
  PROVE  EffectiveAllowed(p) \subseteq EffectiveAllowed(p)'
  BY DEF EffectiveAllowed, OverlayPredicates, ProfileAssumption

\* What a call knows survives every step of the others.
LEMMA KnowsStable ==
  ASSUME Advances, NEW t \in Task, Knows(t)
  PROVE  Knows(t)'
<1>1. t.op = "submit" => SubmitKnows(t)'
  <2> SUFFICES ASSUME t.op = "submit" PROVE SubmitKnows(t)'
    OBVIOUS
  <2>1. t.profile \in Profile
    BY TaskFields DEF SubmitTask
  <2>2. EffectiveAllowed(t.profile) \subseteq EffectiveAllowed(t.profile)'
    BY <2>1, AllowedGrows DEF Advances
  <2> QED
    BY <2>2 DEF Knows, SubmitKnows
<1>2. t.op = "reviewCandidate" => CandidateReviewKnows(t)'
  BY TaskFields DEF Knows, CandidateReviewKnows, Advances, CandidateReviewTask
<1>3. t.op = "reviewProposal" => ProposalReviewKnows(t)'
  BY TaskFields DEF Knows, ProposalReviewKnows, Advances, ProposalReviewTask
<1>4. t.op \in {"scan", "append", "record"} => AcceptedForOverlay(t.proposal)'
  <2> SUFFICES ASSUME t.op \in {"scan", "append", "record"}
               PROVE  AcceptedForOverlay(t.proposal)'
    OBVIOUS
  <2>1. t.proposal \in ProposalId
    BY TaskFields DEF ApplyTask
  <2> QED
    BY <2>1 DEF Knows, Advances
<1>5. t.op = "record" => LineFound(t.proposal)'
  <2> SUFFICES ASSUME t.op = "record" PROVE LineFound(t.proposal)'
    OBVIOUS
  <2>1. t.proposal \in ProposalId /\ AcceptedForOverlay(t.proposal)
    BY TaskFields DEF ApplyTask, Knows
  <2>2. OverlayTarget[t.proposal.profile] \in Pack
    BY <2>1, ProfileAssumption DEF AcceptedForOverlay, ProposalId
  <2> QED
    BY <2>2 DEF Knows, LineFound, Advances
<1> QED
  BY <1>1, <1>2, <1>3, <1>4, <1>5 DEF Knows

\* The calls in flight know what they knew; only w's own needs a look.
LEMMA TasksKnowStep ==
  ASSUME TypeOK, TasksKnow, Advances, NEW w \in Worker, Knows(task[w])',
         \A u \in Worker \ {w} : task'[u] = task[u]
  PROVE  TasksKnow'
<1> SUFFICES ASSUME NEW u \in Worker PROVE Knows(task[u])'
  BY DEF TasksKnow
<1>1. CASE u = w
  BY <1>1
<1>2. CASE u # w
  <2>1. task[u] \in Task /\ Knows(task[u])
    BY DEF TypeOK, TasksKnow
  <2>2. PICK t \in Task : t = task[u]
    BY <2>1
  <2>3. Knows(t)'
    BY <2>1, <2>2, KnowsStable
  <2>4. task'[u] = t
    BY <1>2, <2>2
  <2> QED
    BY <2>3, <2>4
<1> QED
  BY <1>1, <1>2

-----------------------------------------------------------------------------
(* The inductive invariant *)

LEMMA InitIInv == Init => IInv
<1> SUFFICES ASSUME Init PROVE IInv
  OBVIOUS
<1>1. TypeOK
  BY TypeInit
<1>2. \A k \in Pack : Lines(k) = {}
  BY DEF Init, Lines, ToSet
<1>3. TasksKnow
  BY DEF Init, TasksKnow, Knows, Idle
<1>4. ReviewsAgree /\ ApplicationsAgree /\ NoInvalidAccepted
  BY DEF Init, ReviewsAgree, ApplicationsAgree, NoInvalidAccepted
<1>5. OverlayGoverned /\ AppliedIsWritten /\ ProposalsGrounded /\ NoUngovernedPredicate
  BY <1>2 DEF Init, OverlayGoverned, AppliedIsWritten, ProposalsGrounded, NoUngovernedPredicate
<1> QED
  BY <1>1, <1>3, <1>4, <1>5 DEF IInv

\* The part of the invariant that speaks of tables and files only.
LEMMA TablesFrame ==
  ASSUME IInv, UNCHANGED <<tables, overlay>>
  PROVE  (/\ ReviewsAgree /\ ApplicationsAgree /\ NoInvalidAccepted /\ OverlayGoverned
          /\ AppliedIsWritten /\ ProposalsGrounded /\ NoUngovernedPredicate)'
<1> USE DEF tables
<1>1. (ReviewsAgree /\ ApplicationsAgree /\ NoInvalidAccepted)'
  BY DEF IInv, ReviewsAgree, ApplicationsAgree, NoInvalidAccepted
<1>2. (OverlayGoverned /\ AppliedIsWritten /\ ProposalsGrounded)'
  BY DEF IInv, OverlayGoverned, AppliedIsWritten, ProposalsGrounded, Lines
<1>3. NoUngovernedPredicate'
  BY DEF IInv, NoUngovernedPredicate, EffectiveAllowed, OverlayPredicates, Lines
<1> QED
  BY <1>1, <1>2, <1>3

\* A step that writes no table and no file preserves the invariant when what
\* the call has read is so.
LEMMA ReadStep ==
  ASSUME IInv, TypeOK', UNCHANGED <<tables, overlay>>, NEW w \in Worker, Knows(task[w])',
         \A u \in Worker \ {w} : task'[u] = task[u]
  PROVE  IInv'
<1> USE DEF tables
<1>1. \A k : Lines(k)' = Lines(k)
  BY DEF Lines
<1>2. Advances
  BY <1>1 DEF Advances, AcceptedForOverlay
<1>3. TasksKnow'
  BY <1>2, TasksKnowStep DEF IInv
<1> QED
  BY <1>3, TablesFrame DEF IInv

\* Submission reads the overlay as it is: a predicate a governed profile does
\* not know is reported, and in mixed mode requested.
LEMMA ValidationKnows ==
  ASSUME NEW p \in Profile, NEW v \in Predicate, NEW flaw \in Flaw,
         Mode[p] # "open",
         DeriveValidationStatus(Severities(p, v, flaw)) # "invalid"
  PROVE  v \in EffectiveAllowed(p) \/ ProposalRequests(p, v, flaw) # {}
<1> SUFFICES ASSUME v \notin EffectiveAllowed(p)
             PROVE  ProposalRequests(p, v, flaw) # {}
  OBVIOUS
<1>1. Severities(p, v, flaw) \cap {"malformed", "hard"} = {}
  BY DEF DeriveValidationStatus
<1>2. flaw # "malformed" /\ Mode[p] # "closed"
  BY <1>1 DEF Severities, UnknownReported
<1> QED
  BY <1>2, ProfileAssumption DEF ProposalRequests

LEMMA SubmitValidateStep ==
  ASSUME IInv, TypeOK', NEW w \in Worker, NEW p \in Profile, NEW v \in Predicate,
         NEW flaw \in Flaw, SubmitValidate(w, p, v, flaw)
  PROVE  IInv'
<1>1. UNCHANGED <<tables, overlay>> /\ \A u \in Worker \ {w} : task'[u] = task[u]
  BY DEF SubmitValidate, IInv, TypeOK
<1>2. task'[w] = [op |-> "submit", profile |-> p, predicate |-> v,
                  validation |-> DeriveValidationStatus(Severities(p, v, flaw)),
                  requests |-> ProposalRequests(p, v, flaw)]
  BY DEF SubmitValidate, IInv, TypeOK
<1>3. EffectiveAllowed(p)' = EffectiveAllowed(p)
  BY <1>1 DEF EffectiveAllowed, OverlayPredicates, Lines
<1>4. ProposalRequests(p, v, flaw) \subseteq {[profile |-> p, value |-> v]}
  BY DEF ProposalRequests
<1>5. SubmitKnows(task[w])'
  BY <1>2, <1>3, <1>4, ValidationKnows DEF SubmitKnows
<1>6. Knows(task[w])'
  BY <1>2, <1>5 DEF Knows
<1> QED
  BY <1>1, <1>6, ReadStep

LEMMA CandidateReviewReadStep ==
  ASSUME IInv, TypeOK', NEW w \in Worker, NEW c \in CandidateId, NEW d \in Decision,
         CandidateReviewRead(w, c, d)
  PROVE  IInv'
<1>1. UNCHANGED <<tables, overlay>> /\ \A u \in Worker \ {w} : task'[u] = task[u]
  BY DEF CandidateReviewRead, IInv, TypeOK
<1>2. task'[w] = [op |-> "reviewCandidate", candidate |-> c, decision |-> d]
  BY DEF CandidateReviewRead, IInv, TypeOK
<1>3. CandidateReviewKnows(task[w])'
  BY <1>1, <1>2 DEF CandidateReviewRead, CandidateTransitionAllowed, CandidateReviewKnows, tables
<1>4. Knows(task[w])'
  BY <1>2, <1>3 DEF Knows
<1> QED
  BY <1>1, <1>4, ReadStep

LEMMA ProposalReviewReadStep ==
  ASSUME IInv, TypeOK', NEW w \in Worker, NEW q \in ProposalId, NEW d \in Decision,
         NEW pol \in Policy, ProposalReviewRead(w, q, d, pol)
  PROVE  IInv'
<1>1. UNCHANGED <<tables, overlay>> /\ \A u \in Worker \ {w} : task'[u] = task[u]
  BY DEF ProposalReviewRead, IInv, TypeOK
<1>2. task'[w] = [op |-> "reviewProposal", proposal |-> q, decision |-> d,
                  application |-> ResolveApplicationStatus(d, pol)]
  BY DEF ProposalReviewRead, IInv, TypeOK
<1>3. ProposalReviewKnows(task[w])'
  BY <1>1, <1>2 DEF ProposalReviewRead, ProposalReviewKnows, tables
<1>4. Knows(task[w])'
  BY <1>2, <1>3 DEF Knows
<1> QED
  BY <1>1, <1>4, ReadStep

LEMMA ApplyReadStep ==
  ASSUME IInv, TypeOK', NEW w \in Worker, NEW q \in ProposalId, ApplyRead(w, q)
  PROVE  IInv'
<1>1. UNCHANGED <<tables, overlay>> /\ \A u \in Worker \ {w} : task'[u] = task[u]
  BY DEF ApplyRead, IInv, TypeOK
<1>2. task'[w] = [op |-> "scan", proposal |-> q]
  BY DEF ApplyRead, IInv, TypeOK
<1>3. AcceptedForOverlay(q)'
  BY <1>1 DEF ApplyRead, AwaitsOverlay, AcceptedForOverlay, tables
<1>4. Knows(task[w])'
  BY <1>2, <1>3 DEF Knows, AcceptedForOverlay
<1> QED
  BY <1>1, <1>4, ReadStep

LEMMA ApplyScanStep ==
  ASSUME IInv, TypeOK', NEW w \in Worker, ApplyScan(w)
  PROVE  IInv'
<1>1. UNCHANGED <<tables, overlay>> /\ \A u \in Worker \ {w} : task'[u] = task[u]
  BY DEF ApplyScan, IInv, TypeOK
<1>2. task[w] \in ApplyTask
  BY TaskFields DEF ApplyScan, IInv, TypeOK
<1>3. task'[w] = [op |-> AfterScan(LineFound(task[w].proposal)), proposal |-> task[w].proposal]
  BY <1>2 DEF ApplyScan, IInv, TypeOK, ApplyTask
<1>4. AcceptedForOverlay(task[w].proposal)
  BY DEF ApplyScan, IInv, TasksKnow, Knows
<1>5. Knows(task[w])'
  BY <1>1, <1>3, <1>4 DEF Knows, AcceptedForOverlay, AfterScan, LineFound, Lines, tables
<1> QED
  BY <1>1, <1>5, ReadStep

LEMMA AbandonStep ==
  ASSUME IInv, TypeOK', NEW w \in Worker, Abandon(w)
  PROVE  IInv'
<1>1. UNCHANGED <<tables, overlay>> /\ \A u \in Worker \ {w} : task'[u] = task[u]
  BY DEF Abandon, IInv, TypeOK
<1>2. task'[w] = Idle
  BY DEF Abandon, IInv, TypeOK
<1>3. Knows(task[w])'
  BY <1>2 DEF Knows, Idle
<1> QED
  BY <1>1, <1>3, ReadStep

\* A decided row is one that has a review.
LEMMA ReviewedRows ==
  ASSUME ReviewsAgree
  PROVE  /\ \A c \in CandidateId :
              CandidateReviewed(c) <=>
                candidates[c] # NoRow /\ candidates[c].review # "pending_review"
         /\ \A q \in ProposalId :
              ProposalReviewed(q) <=>
                proposals[q] # NoRow /\ proposals[q].status # "pending"
         /\ \A r \in proposalReviews : r.proposal \in ProposalId =>
              r.decision = proposals[r.proposal].status
<1>1. ASSUME NEW c \in CandidateId
      PROVE  CandidateReviewed(c) <=>
               candidates[c] # NoRow /\ candidates[c].review # "pending_review"
  <2> DEFINE decisions == {r.decision : r \in {s \in candidateReviews : s.candidate = c}}
  <2>1. CandidateReviewed(c) <=> decisions # {}
    BY DEF CandidateReviewed
  <2> QED
    BY <2>1 DEF ReviewsAgree
<1>2. ASSUME NEW q \in ProposalId
      PROVE  /\ ProposalReviewed(q) <=> proposals[q] # NoRow /\ proposals[q].status # "pending"
             /\ \A r \in proposalReviews : r.proposal = q => r.decision = proposals[q].status
  <2> DEFINE decisions == {r.decision : r \in {s \in proposalReviews : s.proposal = q}}
  <2>1. ProposalReviewed(q) <=> decisions # {}
    BY DEF ProposalReviewed
  <2>2. \A r \in proposalReviews : r.proposal = q => r.decision \in decisions
    OBVIOUS
  <2>3. decisions = IF proposals[q] = NoRow \/ proposals[q].status = "pending"
                    THEN {} ELSE {proposals[q].status}
    BY DEF ReviewsAgree
  <2> HIDE DEF decisions
  <2> QED
    BY <2>1, <2>2, <2>3
<1> QED
  BY <1>1, <1>2

LEMMA SubmitCommitStep ==
  ASSUME IInv, TypeOK', NEW w \in Worker, NEW c \in CandidateId, SubmitCommit(w, c)
  PROVE  IInv'
<1> DEFINE t == task[w]
           new == [profile |-> t.profile, predicate |-> t.predicate,
                   validation |-> t.validation, review |-> "pending_review"]
           fresh == [status |-> "pending", application |-> "not_requested"]
<1>1. t \in SubmitTask /\ SubmitKnows(t)
  BY TaskFields DEF SubmitCommit, IInv, TypeOK, TasksKnow, Knows
<1>2. /\ candidates[c] = NoRow
      /\ candidates' = [candidates EXCEPT ![c] = new]
      /\ new \in CandidateRow
  BY <1>1 DEF SubmitCommit, InsertCandidate, CandidateRow, SubmitTask
<1>3. /\ \A q \in ProposalId : proposals[q] # NoRow => proposals'[q] = proposals[q]
      /\ \A q \in ProposalId : proposals[q] = NoRow =>
           proposals'[q] = IF q \in t.requests THEN fresh ELSE NoRow
  BY DEF SubmitCommit, UpsertProposals
<1>4. UNCHANGED <<candidateReviews, proposalReviews, applications, overlay>>
  BY DEF SubmitCommit
<1>5. links' = links \cup ({c} \X t.requests)
  BY DEF SubmitCommit, LinkProposals
<1>6. fresh # NoRow /\ new # NoRow
  BY <1>2, NoRowAssumption DEF ProposalRow, ApplicationStatus
<1>7. candidates \in [CandidateId -> CandidateRow \cup {NoRow}]
  BY DEF IInv, TypeOK
<1>8. \A k : Lines(k)' = Lines(k)
  BY <1>4 DEF Lines
<1> HIDE DEF t, new, fresh
<1>9. Advances
  <2>1. \A q \in ProposalId : AcceptedForOverlay(q) => AcceptedForOverlay(q)'
    BY <1>3 DEF AcceptedForOverlay
  <2> QED
    BY <2>1, <1>2, <1>3, <1>6, <1>7, <1>8 DEF Advances
<1>10. TasksKnow'
  <2>1. task'[w] = Idle /\ \A u \in Worker \ {w} : task'[u] = task[u]
    BY DEF SubmitCommit, IInv, TypeOK
  <2>2. Knows(task[w])'
    BY <2>1 DEF Knows, Idle
  <2> QED
    BY <2>1, <2>2, <1>9, TasksKnowStep DEF IInv
<1>11. ReviewsAgree'
  <2>1. new.review = "pending_review" /\ fresh.status = "pending"
    BY DEF new, fresh
  <2>2. \A x \in CandidateId :
          {r.decision : r \in {s \in candidateReviews' : s.candidate = x}} =
            IF candidates'[x] = NoRow \/ candidates'[x].review = "pending_review"
            THEN {} ELSE {candidates'[x].review}
    BY <2>1, <1>2, <1>4, <1>6, <1>7 DEF IInv, ReviewsAgree
  <2>3. \A q \in ProposalId :
          {r.decision : r \in {s \in proposalReviews' : s.proposal = q}} =
            IF proposals'[q] = NoRow \/ proposals'[q].status = "pending"
            THEN {} ELSE {proposals'[q].status}
    BY <2>1, <1>3, <1>4, <1>6 DEF IInv, ReviewsAgree
  <2> QED
    BY <2>2, <2>3 DEF ReviewsAgree
<1>12. ApplicationsAgree'
  <2> SUFFICES ASSUME NEW q \in ProposalId, proposals'[q] # NoRow
               PROVE  /\ proposals'[q].status = "pending" =>
                           proposals'[q].application = "not_requested"
                      /\ \A r \in proposalReviews : r.proposal = q =>
                           /\ (r.decision = "rejected") <=> (r.application = "not_requested")
                           /\ r.application # "applied_to_overlay"
                           /\ \/ r.application = proposals'[q].application
                              \/ /\ r.application = "pending_overlay_apply"
                                 /\ proposals'[q].application = "applied_to_overlay"
    BY <1>4 DEF ApplicationsAgree
  <2>1. CASE proposals[q] # NoRow
    BY <2>1, <1>3 DEF IInv, ApplicationsAgree
  <2>2. CASE proposals[q] = NoRow
    <3>1. proposals'[q] = fresh
      BY <2>2, <1>3
    <3>2. ~ProposalReviewed(q)
      BY <2>2, ReviewedRows DEF IInv
    <3> QED
      BY <3>1, <3>2 DEF ProposalReviewed, fresh
  <2> QED
    BY <2>1, <2>2
<1>13. NoInvalidAccepted'
  BY <1>2, <1>7 DEF IInv, NoInvalidAccepted, new
<1>14. OverlayGoverned'
  BY <1>4, <1>8 DEF IInv, OverlayGoverned
<1>15. AppliedIsWritten'
  <2>1. fresh.application = "not_requested"
    BY DEF fresh
  <2> QED
    BY <2>1, <1>3, <1>4, <1>8 DEF IInv, AppliedIsWritten
<1>16. ProposalsGrounded'
  <2>1. \A q \in t.requests : q = [profile |-> new.profile, value |-> new.predicate]
    BY <1>1 DEF SubmitKnows, new
  <2>2. \A q \in t.requests : q \in ProposalId /\ proposals'[q] # NoRow
    BY <1>1, <1>3, <1>6 DEF SubmitTask
  <2>3. \A q \in ProposalId : proposals'[q] # NoRow => \E x \in CandidateId : <<x, q>> \in links'
    <3> SUFFICES ASSUME NEW q \in ProposalId, proposals'[q] # NoRow
                 PROVE  \E x \in CandidateId : <<x, q>> \in links'
      OBVIOUS
    <3>1. CASE proposals[q] # NoRow
      BY <3>1, <1>5 DEF IInv, ProposalsGrounded
    <3>2. CASE proposals[q] = NoRow
      <4>1. q \in t.requests
        BY <3>2, <1>3
      <4> QED
        BY <4>1, <1>5
    <3> QED
      BY <3>1, <3>2
  <2>4. ASSUME NEW l \in links'
        PROVE  /\ candidates'[l[1]] # NoRow
               /\ proposals'[l[2]] # NoRow
               /\ l[2] = [profile |-> candidates'[l[1]].profile,
                          value |-> candidates'[l[1]].predicate]
    <3>1. CASE l \in links
      <4>1. l[1] \in CandidateId /\ l[2] \in ProposalId
        BY <3>1 DEF IInv, TypeOK
      <4>2. /\ candidates[l[1]] # NoRow
            /\ proposals[l[2]] # NoRow
            /\ l[2] = [profile |-> candidates[l[1]].profile,
                       value |-> candidates[l[1]].predicate]
        BY <3>1 DEF IInv, ProposalsGrounded
      <4>3. l[1] # c /\ candidates'[l[1]] = candidates[l[1]]
        BY <4>1, <4>2, <1>2, <1>7
      <4> QED
        BY <4>1, <4>2, <4>3, <1>3
    <3>2. CASE l \in {c} \X t.requests
      <4>1. l[1] = c /\ l[2] \in t.requests /\ candidates'[c] = new
        BY <3>2, <1>2, <1>7
      <4> QED
        BY <4>1, <2>1, <2>2, <1>6
    <3> QED
      BY <3>1, <3>2, <1>5
  <2> QED
    BY <2>3, <2>4 DEF ProposalsGrounded
<1>17. NoUngovernedPredicate'
  <2> SUFFICES ASSUME NEW x \in CandidateId, candidates'[x] # NoRow,
                      Mode[candidates'[x].profile] # "open",
                      candidates'[x].validation # "invalid"
               PROVE  \/ candidates'[x].predicate \in EffectiveAllowed(candidates'[x].profile)
                      \/ <<x, [profile |-> candidates'[x].profile,
                               value |-> candidates'[x].predicate]>> \in links'
    BY <1>4 DEF NoUngovernedPredicate, EffectiveAllowed, OverlayPredicates, Lines
  <2>1. CASE x = c
    <3>1. /\ candidates'[x] = new
          /\ new.profile = t.profile /\ new.predicate = t.predicate
          /\ new.validation = t.validation
      BY <2>1, <1>2, <1>7 DEF new
    <3>2. t.predicate \in EffectiveAllowed(t.profile) \/ t.requests # {}
      BY <3>1, <1>1 DEF SubmitKnows
    <3>3. t.requests # {} => [profile |-> t.profile, value |-> t.predicate] \in t.requests
      BY <1>1 DEF SubmitKnows
    <3> QED
      BY <2>1, <3>1, <3>2, <3>3, <1>5
  <2>2. CASE x # c
    <3>1. candidates'[x] = candidates[x]
      BY <2>2, <1>2, <1>7
    <3> QED
      BY <3>1, <1>5 DEF IInv, NoUngovernedPredicate
  <2> QED
    BY <2>1, <2>2
<1> QED
  BY <1>10, <1>11, <1>12, <1>13, <1>14, <1>15, <1>16, <1>17 DEF IInv

LEMMA CandidateReviewCommitStep ==
  ASSUME IInv, TypeOK', NEW w \in Worker, CandidateReviewCommit(w)
  PROVE  IInv'
<1> DEFINE c == task[w].candidate
           d == task[w].decision
<1>1. task[w] \in CandidateReviewTask /\ CandidateReviewKnows(task[w])
  BY TaskFields DEF CandidateReviewCommit, IInv, TypeOK, TasksKnow, Knows
<1>2. /\ c \in CandidateId /\ d \in Decision
      /\ candidates[c] \in CandidateRow
      /\ d = "accepted" => candidates[c].validation # "invalid" \/ PermissiveReview
  BY <1>1 DEF CandidateReviewTask, CandidateReviewKnows, IInv, TypeOK
<1>3. UNCHANGED <<proposals, links, proposalReviews, applications, overlay>>
  BY DEF CandidateReviewCommit
<1>4. \A k : Lines(k)' = Lines(k)
  BY <1>3 DEF Lines
<1>5. Knows(task[w])' /\ \A u \in Worker \ {w} : task'[u] = task[u]
  BY DEF CandidateReviewCommit, IInv, TypeOK, Knows, Idle
<1>6. CASE UNCHANGED <<candidates, candidateReviews>>
  <2>1. Advances
    BY <1>3, <1>4, <1>6 DEF Advances, AcceptedForOverlay
  <2>2. TasksKnow'
    BY <2>1, <1>5, TasksKnowStep DEF IInv
  <2>3. (ReviewsAgree /\ ApplicationsAgree /\ NoInvalidAccepted)'
    BY <1>3, <1>6 DEF IInv, ReviewsAgree, ApplicationsAgree, NoInvalidAccepted
  <2>4. (OverlayGoverned /\ AppliedIsWritten /\ ProposalsGrounded)'
    BY <1>3, <1>6 DEF IInv, OverlayGoverned, AppliedIsWritten, ProposalsGrounded, Lines
  <2>5. NoUngovernedPredicate'
    BY <1>3, <1>6 DEF IInv, NoUngovernedPredicate, EffectiveAllowed, OverlayPredicates, Lines
  <2> QED
    BY <2>2, <2>3, <2>4, <2>5 DEF IInv
<1>7. CASE InsertCandidateReview(c, d)
  <2> DEFINE row == [candidates[c] EXCEPT !.review = d]
             review == [candidate |-> c, decision |-> d]
  <2>0. review.candidate = c /\ review.decision = d
    OBVIOUS
  <2>1. /\ ~CandidateReviewed(c)
        /\ candidateReviews' = candidateReviews \cup {review}
        /\ candidates' = [candidates EXCEPT ![c] = row]
    BY <1>7 DEF InsertCandidateReview
  <2>2. /\ row \in CandidateRow
        /\ row.profile = candidates[c].profile /\ row.predicate = candidates[c].predicate
        /\ row.validation = candidates[c].validation /\ row.review = d
    BY <1>2 DEF CandidateRow
  <2>3. /\ \A x \in CandidateId : candidates'[x] = IF x = c THEN row ELSE candidates[x]
        /\ candidates[c] # NoRow /\ row # NoRow
    BY <1>2, <2>1, <2>2, NoRowAssumption DEF IInv, TypeOK
  <2> HIDE DEF c, d, row, review
  <2>4. Advances
    BY <1>3, <1>4, <2>2, <2>3 DEF Advances, AcceptedForOverlay
  <2>5. TasksKnow'
    BY <2>4, <1>5, TasksKnowStep DEF IInv
  <2>6. ReviewsAgree'
    <3>1. ASSUME NEW x \in CandidateId
          PROVE  {r.decision : r \in {s \in candidateReviews' : s.candidate = x}} =
                   IF candidates'[x] = NoRow \/ candidates'[x].review = "pending_review"
                   THEN {} ELSE {candidates'[x].review}
      <4>1. CASE x = c
        <5>1. \A s \in candidateReviews : s.candidate # c
          BY <2>1 DEF CandidateReviewed
        <5>2. {s \in candidateReviews' : s.candidate = x} = {review}
          BY <4>1, <5>1, <2>0, <2>1
        <5>3. {r.decision : r \in {s \in candidateReviews' : s.candidate = x}} = {d}
          BY <5>2, <2>0
        <5>4. candidates'[x] # NoRow /\ candidates'[x].review = d /\ d # "pending_review"
          BY <4>1, <2>2, <2>3, <1>2 DEF Decision
        <5> QED
          BY <5>3, <5>4
      <4>2. CASE x # c
        <5>1. {s \in candidateReviews' : s.candidate = x} =
                {s \in candidateReviews : s.candidate = x}
          BY <4>2, <2>0, <2>1
        <5> QED
          BY <4>2, <5>1, <2>3 DEF IInv, ReviewsAgree
      <4> QED
        BY <4>1, <4>2
    <3> QED
      BY <3>1, <1>3 DEF IInv, ReviewsAgree
  <2>7. ApplicationsAgree'
    BY <1>3 DEF IInv, ApplicationsAgree
  <2>8. NoInvalidAccepted'
    BY <1>2, <2>2, <2>3 DEF IInv, NoInvalidAccepted, c, d
  <2>9. OverlayGoverned' /\ AppliedIsWritten'
    BY <1>3, <1>4 DEF IInv, OverlayGoverned, AppliedIsWritten
  <2>10. ProposalsGrounded'
    <3>1. ASSUME NEW l \in links
          PROVE  /\ candidates'[l[1]] # NoRow
                 /\ l[2] = [profile |-> candidates'[l[1]].profile,
                            value |-> candidates'[l[1]].predicate]
      <4>1. l[1] \in CandidateId
        BY DEF IInv, TypeOK
      <4> QED
        BY <4>1, <2>2, <2>3 DEF IInv, ProposalsGrounded
    <3> QED
      BY <3>1, <1>3 DEF IInv, ProposalsGrounded
  <2>11. NoUngovernedPredicate'
    <3> SUFFICES ASSUME NEW x \in CandidateId, candidates'[x] # NoRow,
                        Mode[candidates'[x].profile] # "open",
                        candidates'[x].validation # "invalid"
                 PROVE  \/ candidates'[x].predicate \in EffectiveAllowed(candidates'[x].profile)
                        \/ <<x, [profile |-> candidates'[x].profile,
                                 value |-> candidates'[x].predicate]>> \in links
      BY <1>3 DEF NoUngovernedPredicate, EffectiveAllowed, OverlayPredicates, Lines
    <3>1. /\ candidates[x] # NoRow
          /\ candidates'[x].profile = candidates[x].profile
          /\ candidates'[x].predicate = candidates[x].predicate
          /\ candidates'[x].validation = candidates[x].validation
      BY <2>2, <2>3
    <3> QED
      BY <3>1 DEF IInv, NoUngovernedPredicate
  <2> QED
    BY <2>5, <2>6, <2>7, <2>8, <2>9, <2>10, <2>11 DEF IInv
<1> QED
  BY <1>6, <1>7 DEF CandidateReviewCommit

LEMMA ProposalReviewCommitStep ==
  ASSUME IInv, TypeOK', NEW w \in Worker, ProposalReviewCommit(w)
  PROVE  IInv'
<1> DEFINE q == task[w].proposal
           d == task[w].decision
           app == task[w].application
<1>1. task[w] \in ProposalReviewTask /\ ProposalReviewKnows(task[w])
  BY TaskFields DEF ProposalReviewCommit, IInv, TypeOK, TasksKnow, Knows
<1>2. /\ q \in ProposalId /\ d \in Decision /\ app \in ApplicationStatus
      /\ proposals[q] # NoRow
      /\ d = "rejected" <=> app = "not_requested"
      /\ app # "applied_to_overlay"
  BY <1>1 DEF ProposalReviewTask, ProposalReviewKnows, ResolveApplicationStatus, Decision, Policy
<1>3. UNCHANGED <<candidates, links, candidateReviews, applications, overlay>>
  BY DEF ProposalReviewCommit
<1>4. \A k : Lines(k)' = Lines(k)
  BY <1>3 DEF Lines
<1>5. Knows(task[w])' /\ \A u \in Worker \ {w} : task'[u] = task[u]
  BY DEF ProposalReviewCommit, IInv, TypeOK, Knows, Idle
<1>6. CASE UNCHANGED <<proposals, proposalReviews>>
  <2>1. Advances
    BY <1>3, <1>4, <1>6 DEF Advances, AcceptedForOverlay
  <2>2. TasksKnow'
    BY <2>1, <1>5, TasksKnowStep DEF IInv
  <2>3. (ReviewsAgree /\ ApplicationsAgree /\ NoInvalidAccepted)'
    BY <1>3, <1>6 DEF IInv, ReviewsAgree, ApplicationsAgree, NoInvalidAccepted
  <2>4. (OverlayGoverned /\ AppliedIsWritten /\ ProposalsGrounded)'
    BY <1>3, <1>6 DEF IInv, OverlayGoverned, AppliedIsWritten, ProposalsGrounded, Lines
  <2>5. NoUngovernedPredicate'
    BY <1>3 DEF IInv, NoUngovernedPredicate, EffectiveAllowed, OverlayPredicates, Lines
  <2> QED
    BY <2>2, <2>3, <2>4, <2>5 DEF IInv
<1>7. CASE InsertProposalReview(q, d, app)
  <2> DEFINE row == [status |-> d, application |-> app]
             review == [proposal |-> q, decision |-> d, application |-> app]
  <2>1. /\ \A r \in proposalReviews : r.proposal # q
        /\ proposalReviews' = proposalReviews \cup {review}
        /\ proposals' = [proposals EXCEPT ![q] = row]
    BY <1>7 DEF InsertProposalReview, ProposalReviewed
  <2>2. row \in ProposalRow /\ row.status = d /\ row.application = app
    BY <1>2 DEF ProposalRow
  <2>3. /\ \A x \in ProposalId : proposals'[x] = IF x = q THEN row ELSE proposals[x]
        /\ row # NoRow
    BY <1>2, <2>1, <2>2, NoRowAssumption DEF IInv, TypeOK
  <2>4. proposals[q].status = "pending" /\ proposals[q].application = "not_requested"
    <3>1. ~ProposalReviewed(q)
      BY <2>1 DEF ProposalReviewed
    <3> QED
      BY <3>1, <1>2, ReviewedRows DEF IInv, ApplicationsAgree
  <2>5. review.proposal = q /\ review.decision = d /\ review.application = app
    OBVIOUS
  <2> HIDE DEF q, d, app, row, review
  <2>6. Advances
    <3>1. ~AcceptedForOverlay(q)
      BY <2>4 DEF AcceptedForOverlay
    <3>2. \A x \in ProposalId : AcceptedForOverlay(x) => AcceptedForOverlay(x)'
      BY <3>1, <2>3 DEF AcceptedForOverlay
    <3> QED
      BY <3>2, <1>3, <1>4, <2>3 DEF Advances
  <2>7. TasksKnow'
    BY <2>6, <1>5, TasksKnowStep DEF IInv
  <2>8. ReviewsAgree'
    <3>1. ASSUME NEW x \in ProposalId
          PROVE  {r.decision : r \in {s \in proposalReviews' : s.proposal = x}} =
                   IF proposals'[x] = NoRow \/ proposals'[x].status = "pending"
                   THEN {} ELSE {proposals'[x].status}
      <4>1. CASE x = q
        <5>1. {s \in proposalReviews' : s.proposal = x} = {review}
          BY <4>1, <2>1, <2>5
        <5>2. {r.decision : r \in {s \in proposalReviews' : s.proposal = x}} = {d}
          BY <5>1, <2>5
        <5> QED
          BY <4>1, <5>2, <1>2, <2>2, <2>3 DEF Decision
      <4>2. CASE x # q
        <5>1. {s \in proposalReviews' : s.proposal = x} =
                {s \in proposalReviews : s.proposal = x}
          BY <4>2, <2>1, <2>5
        <5> QED
          BY <4>2, <5>1, <2>3 DEF IInv, ReviewsAgree
      <4> QED
        BY <4>1, <4>2
    <3> QED
      BY <3>1, <1>3 DEF IInv, ReviewsAgree
  <2>9. ApplicationsAgree'
    <3> SUFFICES ASSUME NEW x \in ProposalId, proposals'[x] # NoRow
                 PROVE  /\ proposals'[x].status = "pending" =>
                             proposals'[x].application = "not_requested"
                        /\ \A r \in proposalReviews' : r.proposal = x =>
                             /\ (r.decision = "rejected") <=> (r.application = "not_requested")
                             /\ r.application # "applied_to_overlay"
                             /\ \/ r.application = proposals'[x].application
                                \/ /\ r.application = "pending_overlay_apply"
                                   /\ proposals'[x].application = "applied_to_overlay"
      BY DEF ApplicationsAgree
    <3>1. CASE x = q
      BY <3>1, <1>2, <2>1, <2>2, <2>3, <2>5 DEF Decision, q, d, app
    <3>2. CASE x # q
      BY <3>2, <2>1, <2>3, <2>5 DEF IInv, ApplicationsAgree
    <3> QED
      BY <3>1, <3>2
  <2>10. NoInvalidAccepted'
    BY <1>3 DEF IInv, NoInvalidAccepted
  <2>11. OverlayGoverned'
    BY <1>4, <2>1 DEF IInv, OverlayGoverned
  <2>12. AppliedIsWritten'
    BY <1>2, <1>3, <1>4, <2>2, <2>3, <2>4 DEF IInv, AppliedIsWritten, app
  <2>13. ProposalsGrounded'
    <3>1. \A l \in links : l[2] \in ProposalId
      BY DEF IInv, TypeOK
    <3> QED
      BY <3>1, <1>2, <1>3, <2>3 DEF IInv, ProposalsGrounded, q
  <2>14. NoUngovernedPredicate'
    BY <1>3 DEF IInv, NoUngovernedPredicate, EffectiveAllowed, OverlayPredicates, Lines
  <2> QED
    BY <2>7, <2>8, <2>9, <2>10, <2>11, <2>12, <2>13, <2>14 DEF IInv
<1> QED
  BY <1>6, <1>7 DEF ProposalReviewCommit

LEMMA AppendedSet ==
  ASSUME NEW S, NEW s \in Seq(S), NEW e \in S
  PROVE  ToSet(Append(s, e)) = ToSet(s) \cup {e}
<1>1. DOMAIN s = 1..Len(s) /\ DOMAIN Append(s, e) = 1..(Len(s) + 1) /\ Len(s) \in Nat
  OBVIOUS
<1>2. \A i \in 1..Len(s) : Append(s, e)[i] = s[i]
  OBVIOUS
<1>3. Append(s, e)[Len(s) + 1] = e
  OBVIOUS
<1>4. 1..(Len(s) + 1) = (1..Len(s)) \cup {Len(s) + 1}
  BY <1>1
<1>5. ToSet(Append(s, e)) = {Append(s, e)[i] : i \in (1..Len(s)) \cup {Len(s) + 1}}
  BY <1>1, <1>4 DEF ToSet
<1>6. ToSet(s) = {s[i] : i \in 1..Len(s)}
  BY <1>1 DEF ToSet
<1> QED
  BY <1>2, <1>3, <1>5, <1>6, Zenon

\* Appending a proposal's line adds it to its pack's lines and to no other's.
LEMMA AppendedLines ==
  ASSUME TypeOK, NEW q \in ProposalId, NEW k \in Pack,
         overlay' = [overlay EXCEPT ![k] = Append(@, q)]
  PROVE  /\ Lines(k)' = Lines(k) \cup {q}
         /\ \A j \in Pack \ {k} : Lines(j)' = Lines(j)
<1>1. overlay[k] \in Seq(ProposalId) /\ overlay'[k] = Append(overlay[k], q)
  BY DEF TypeOK
<1>2. ToSet(Append(overlay[k], q)) = ToSet(overlay[k]) \cup {q}
  BY <1>1, AppendedSet
<1>3. \A j \in Pack \ {k} : overlay'[j] = overlay[j]
  BY DEF TypeOK
<1> QED
  BY <1>1, <1>2, <1>3 DEF Lines

LEMMA ApplyAppendStep ==
  ASSUME IInv, TypeOK', NEW w \in Worker, ApplyAppend(w)
  PROVE  IInv'
<1>0. task[w] \in ApplyTask /\ AcceptedForOverlay(task[w].proposal)
  BY TaskFields DEF ApplyAppend, IInv, TypeOK, TasksKnow, Knows
<1>1. PICK q \in ProposalId : q = task[w].proposal
  BY <1>0 DEF ApplyTask
<1>2. PICK k \in Pack : k = OverlayTarget[q.profile]
  BY <1>0, <1>1, ProfileAssumption DEF AcceptedForOverlay, ProposalId
<1>3. UNCHANGED <<candidates, proposals, links, candidateReviews, proposalReviews, applications>>
  BY DEF ApplyAppend, tables
<1>4. overlay' = [overlay EXCEPT ![k] = Append(@, q)]
  BY <1>1, <1>2 DEF ApplyAppend
<1>5. Lines(k)' = Lines(k) \cup {q} /\ \A j \in Pack \ {k} : Lines(j)' = Lines(j)
  BY <1>4, AppendedLines DEF IInv
<1>6. task'[w] = [op |-> "record", proposal |-> q] /\ \A u \in Worker \ {w} : task'[u] = task[u]
  BY <1>0, <1>1 DEF ApplyAppend, IInv, TypeOK, ApplyTask
<1>7. Advances
  BY <1>3, <1>5 DEF Advances, AcceptedForOverlay
<1>8. Knows(task[w])'
  BY <1>0, <1>1, <1>2, <1>3, <1>5, <1>6 DEF Knows, AcceptedForOverlay, LineFound
<1>9. TasksKnow'
  BY <1>6, <1>7, <1>8, TasksKnowStep DEF IInv
<1>10. (ReviewsAgree /\ ApplicationsAgree /\ NoInvalidAccepted /\ ProposalsGrounded)'
  BY <1>3 DEF IInv, ReviewsAgree, ApplicationsAgree, NoInvalidAccepted, ProposalsGrounded
<1>11. OverlayGoverned'
  \* The line appended is that of a proposal the one review of which accepted it.
  <2>1. PICK r \in proposalReviews : r.proposal = q
    BY <1>0, <1>1, ReviewedRows DEF AcceptedForOverlay, ProposalReviewed, IInv
  <2>2. r.decision = "accepted"
    BY <1>0, <1>1, <2>1, ReviewedRows DEF AcceptedForOverlay, IInv
  <2>3. r.application = "pending_overlay_apply"
    BY <1>0, <1>1, <2>1 DEF IInv, ApplicationsAgree, AcceptedForOverlay
  <2>4. \A x \in Lines(k) \cup {q} :
          /\ OverlayTarget[x.profile] = k
          /\ \E s \in proposalReviews :
               /\ s.proposal = x
               /\ s.decision = "accepted"
               /\ s.application = "pending_overlay_apply"
    BY <1>2, <2>1, <2>2, <2>3 DEF IInv, OverlayGoverned
  <2> QED
    BY <1>3, <1>5, <2>4 DEF IInv, OverlayGoverned
<1>12. AppliedIsWritten'
  <2>1. \A j \in Pack : Lines(j) \subseteq Lines(j)'
    BY <1>5
  <2> QED
    BY <1>3, <2>1 DEF IInv, AppliedIsWritten
<1>13. NoUngovernedPredicate'
  <2> SUFFICES ASSUME NEW x \in CandidateId, candidates[x] # NoRow,
                      Mode[candidates[x].profile] # "open",
                      candidates[x].validation # "invalid"
               PROVE  \/ candidates[x].predicate \in EffectiveAllowed(candidates[x].profile)'
                      \/ <<x, [profile |-> candidates[x].profile,
                               value |-> candidates[x].predicate]>> \in links
    BY <1>3 DEF NoUngovernedPredicate, EffectiveAllowed, OverlayPredicates, Lines
  <2>1. candidates[x].profile \in Profile
    BY DEF IInv, TypeOK, CandidateRow
  <2>2. EffectiveAllowed(candidates[x].profile) \subseteq EffectiveAllowed(candidates[x].profile)'
    BY <2>1, <1>3, <1>7, AllowedGrows DEF Advances
  <2> QED
    BY <2>2 DEF IInv, NoUngovernedPredicate
<1> QED
  BY <1>9, <1>10, <1>11, <1>12, <1>13 DEF IInv

LEMMA ApplyCommitStep ==
  ASSUME IInv, TypeOK', NEW w \in Worker, ApplyCommit(w)
  PROVE  IInv'
<1> DEFINE q == task[w].proposal
           row == [proposals[q] EXCEPT !.application = "applied_to_overlay"]
<1>1. /\ q \in ProposalId /\ AcceptedForOverlay(q) /\ LineFound(q)
      /\ proposals[q] \in ProposalRow
  BY TaskFields DEF ApplyCommit, IInv, TypeOK, TasksKnow, Knows, ApplyTask, AcceptedForOverlay
<1>2. UNCHANGED <<candidates, links, candidateReviews, proposalReviews, overlay>>
  BY DEF ApplyCommit
<1>3. /\ applications' = applications \cup {q}
      /\ proposals' = [proposals EXCEPT ![q] = row]
  BY DEF ApplyCommit
<1>4. /\ row \in ProposalRow /\ row # NoRow
      /\ row.status = "accepted" /\ row.application = "applied_to_overlay"
  BY <1>1, NoRowAssumption DEF ProposalRow, ApplicationStatus, AcceptedForOverlay
<1>5. \A x \in ProposalId : proposals'[x] = IF x = q THEN row ELSE proposals[x]
  BY <1>1, <1>3 DEF IInv, TypeOK
<1>6. \A k : Lines(k)' = Lines(k)
  BY <1>2 DEF Lines
<1>7. Knows(task[w])' /\ \A u \in Worker \ {w} : task'[u] = task[u]
  BY DEF ApplyCommit, IInv, TypeOK, Knows, Idle
<1> HIDE DEF q, row
<1>8. Advances
  BY <1>2, <1>4, <1>5, <1>6 DEF Advances, AcceptedForOverlay
<1>9. TasksKnow'
  BY <1>7, <1>8, TasksKnowStep DEF IInv
<1>10. ReviewsAgree'
  <2>1. \A x \in ProposalId : /\ proposals'[x] = NoRow <=> proposals[x] = NoRow
                              /\ proposals'[x].status = proposals[x].status
    BY <1>1, <1>4, <1>5 DEF AcceptedForOverlay
  <2> QED
    BY <1>2, <2>1 DEF IInv, ReviewsAgree
<1>11. ApplicationsAgree'
  <2> SUFFICES ASSUME NEW x \in ProposalId, proposals'[x] # NoRow
               PROVE  /\ proposals'[x].status = "pending" =>
                           proposals'[x].application = "not_requested"
                      /\ \A r \in proposalReviews : r.proposal = x =>
                           /\ (r.decision = "rejected") <=> (r.application = "not_requested")
                           /\ r.application # "applied_to_overlay"
                           /\ \/ r.application = proposals'[x].application
                              \/ /\ r.application = "pending_overlay_apply"
                                 /\ proposals'[x].application = "applied_to_overlay"
    BY <1>2 DEF ApplicationsAgree
  <2>1. CASE x = q
    BY <2>1, <1>1, <1>4, <1>5 DEF IInv, ApplicationsAgree, AcceptedForOverlay
  <2>2. CASE x # q
    BY <2>2, <1>5 DEF IInv, ApplicationsAgree
  <2> QED
    BY <2>1, <2>2
<1>12. NoInvalidAccepted' /\ OverlayGoverned'
  BY <1>2, <1>6 DEF IInv, NoInvalidAccepted, OverlayGoverned
<1>13. AppliedIsWritten'
  <2>1. OverlayTarget[q.profile] \in Pack
    BY <1>1, ProfileAssumption DEF AcceptedForOverlay, ProposalId
  <2> QED
    BY <2>1, <1>1, <1>3, <1>4, <1>5, <1>6 DEF IInv, AppliedIsWritten, LineFound
<1>14. ProposalsGrounded'
  <2>1. \A l \in links : l[2] \in ProposalId
    BY DEF IInv, TypeOK
  <2> QED
    BY <2>1, <1>1, <1>2, <1>4, <1>5 DEF IInv, ProposalsGrounded, AcceptedForOverlay
<1>15. NoUngovernedPredicate'
  BY <1>2 DEF IInv, NoUngovernedPredicate, EffectiveAllowed, OverlayPredicates, Lines
<1> QED
  BY <1>9, <1>10, <1>11, <1>12, <1>13, <1>14, <1>15 DEF IInv

LEMMA IInvStep == IInv /\ [Next]_vars => IInv'
<1> SUFFICES ASSUME IInv, [Next]_vars PROVE IInv'
  OBVIOUS
<1>1. TypeOK'
  BY TypeStep DEF IInv
<1>2. CASE UNCHANGED vars
  <2>1. UNCHANGED <<tables, overlay, task>>
    BY <1>2 DEF vars, tables
  <2>2. TasksKnow'
    BY <2>1 DEF tables, IInv, TasksKnow, Knows, SubmitKnows, CandidateReviewKnows,
      ProposalReviewKnows, AcceptedForOverlay, LineFound, EffectiveAllowed,
      OverlayPredicates, Lines
  <2> QED
    BY <1>1, <2>1, <2>2, TablesFrame DEF IInv
<1>3. CASE Next
  BY <1>1, <1>3, SubmitValidateStep, SubmitCommitStep, CandidateReviewReadStep,
     CandidateReviewCommitStep, ProposalReviewReadStep, ProposalReviewCommitStep,
     ApplyReadStep, ApplyScanStep, ApplyAppendStep, ApplyCommitStep, AbandonStep
  DEF Next, Step, ApplySteps
<1> QED
  BY <1>2, <1>3

\* The inductive invariant holds in every reachable state.
THEOREM Inductive == Spec => []IInv
<1>1. QED
  BY InitIInv, IInvStep, PTL DEF Spec

\* Type correctness: tables, overlay files and calls hold what they are declared
\* to hold.
THEOREM TypeCorrect == Spec => []TypeOK
<1>1. IInv => TypeOK
  BY DEF IInv
<1> QED
  BY <1>1, Inductive, PTL

\* Status columns and review tables never disagree, and no candidate or proposal
\* carries two verdicts, however many processes review concurrently.
THEOREM ReviewsAlwaysAgree == Spec => []ReviewsAgree
<1>1. IInv => ReviewsAgree
  BY DEF IInv
<1> QED
  BY <1>1, Inductive, PTL

\* What failed validation is never accepted unless permissive_review is set.
THEOREM InvalidNeverAccepted == Spec => []NoInvalidAccepted
<1>1. IInv => NoInvalidAccepted
  BY DEF IInv
<1> QED
  BY <1>1, Inductive, PTL

\* Overlay files hold only what a review accepted for them, crashes included.
THEOREM OverlayAlwaysGoverned == Spec => []OverlayGoverned
<1>1. IInv => OverlayGoverned
  BY DEF IInv
<1> QED
  BY <1>1, Inductive, PTL

\* A proposal recorded as applied is in its overlay file.
THEOREM AppliedAlwaysWritten == Spec => []AppliedIsWritten
<1>1. IInv => AppliedIsWritten
  BY DEF IInv
<1> QED
  BY <1>1, Inductive, PTL

\* Every proposal goes back to a stored candidate.
THEOREM ProposalsAlwaysGrounded == Spec => []ProposalsGrounded
<1>1. IInv => ProposalsGrounded
  BY DEF IInv
<1> QED
  BY <1>1, Inductive, PTL

\* No novel predicate bypasses the proposal workflow of a governed profile.
THEOREM NoPredicateBypassesGovernance == Spec => []NoUngovernedPredicate
<1>1. IInv => NoUngovernedPredicate
  BY DEF IInv
<1> QED
  BY <1>1, Inductive, PTL

-----------------------------------------------------------------------------
(* Refinement of the ledgers *)

\* Every step is a filing, a decision, or nothing, in the candidate ledger.
LEMMA CandidateLedgerStep ==
  ASSUME IInv, [Next]_vars
  PROVE  [CandidateLedger!Next]_(CandidateLedger!ledger)
<1> USE DEF CandidateLedger!Next, CandidateLedger!ledger
<1> DEFINE V == [c \in CandidateId |-> CandidateVerdict(c)]
<1>1. ASSUME UNCHANGED candidates
      PROVE  V' = V
  BY <1>1 DEF CandidateVerdict
<1>2. ASSUME NEW w \in Worker, NEW c \in CandidateId, SubmitCommit(w, c)
      PROVE  CandidateLedger!File({c})
  <2>1. candidates[c] = NoRow
    BY <1>2 DEF SubmitCommit
  <2>2. candidates'[c] # NoRow /\ candidates'[c].review = "pending_review"
    <3>1. task[w] \in SubmitTask
      BY <1>2, TaskFields DEF SubmitCommit, IInv, TypeOK
    <3> QED
      BY <1>2, <3>1, NoRowAssumption
      DEF SubmitCommit, InsertCandidate, SubmitTask, CandidateRow, IInv, TypeOK
  <2>3. \A x \in CandidateId \ {c} : candidates'[x] = candidates[x]
    BY <1>2 DEF SubmitCommit, InsertCandidate, IInv, TypeOK
  <2> QED
    BY <2>1, <2>2, <2>3 DEF CandidateLedger!File, CandidateVerdict
<1>3. ASSUME NEW w \in Worker, CandidateReviewCommit(w)
      PROVE  (\E c \in CandidateId, v \in CandidateLedger!Verdict : CandidateLedger!Decide(c, v))
               \/ UNCHANGED candidates
  <2>1. CASE UNCHANGED <<candidates, candidateReviews>>
    BY <2>1
  <2>2. CASE InsertCandidateReview(task[w].candidate, task[w].decision)
    <3>1. PICK c \in CandidateId, d \in Decision :
            c = task[w].candidate /\ d = task[w].decision /\ candidates[c] # NoRow
      BY <1>3, TaskFields DEF CandidateReviewCommit, IInv, TypeOK, TasksKnow, Knows,
         CandidateReviewKnows, CandidateReviewTask
    <3>2. candidates[c] \in CandidateRow /\ candidates[c].review = "pending_review"
      BY <2>2, <3>1, ReviewedRows DEF InsertCandidateReview, IInv, TypeOK
    <3>3. /\ candidates'[c] = [candidates[c] EXCEPT !.review = d]
          /\ \A x \in CandidateId \ {c} : candidates'[x] = candidates[x]
      BY <2>2, <3>1 DEF InsertCandidateReview, IInv, TypeOK
    <3>4. candidates'[c] \in CandidateRow /\ candidates'[c].review = d
      BY <3>2, <3>3 DEF CandidateRow
    <3>5. candidates'[c] # NoRow
      BY <3>4, NoRowAssumption
    <3> DEFINE v == IF d = "accepted" THEN "recorded" ELSE "rejected"
    <3>6. v \in CandidateLedger!Verdict /\ CandidateVerdict(c) = "open" /\ CandidateVerdict(c)' = v
      BY <3>1, <3>2, <3>4, <3>5 DEF CandidateVerdict, CandidateLedger!Verdict, Decision
    <3>7. \A x \in CandidateId \ {c} : CandidateVerdict(x)' = CandidateVerdict(x)
      BY <3>3 DEF CandidateVerdict
    <3> HIDE DEF v
    <3>8. V' = [V EXCEPT ![c] = v]
      BY <3>6, <3>7
    <3> QED
      BY <3>6, <3>8 DEF CandidateLedger!Decide
  <2> QED
    BY <1>3, <2>1, <2>2 DEF CandidateReviewCommit
<1>4. ASSUME NEW w \in Worker, Step(w)
      PROVE  \/ \E c \in CandidateId : SubmitCommit(w, c)
             \/ CandidateReviewCommit(w)
             \/ UNCHANGED candidates
  BY <1>4 DEF Step, ApplySteps, SubmitValidate, CandidateReviewRead, ProposalReviewRead,
    ProposalReviewCommit, ApplyRead, ApplyScan, ApplyAppend, ApplyCommit, Abandon, tables
<1>5. CASE UNCHANGED candidates
  BY <1>1, <1>5
<1>6. CASE \E w \in Worker, c \in CandidateId : SubmitCommit(w, c)
  BY <1>2, <1>6
<1>7. CASE \E w \in Worker : CandidateReviewCommit(w)
  BY <1>3, <1>5, <1>7
<1> QED
  BY <1>4, <1>5, <1>6, <1>7 DEF Next, vars

\* Candidate review implements the decide-once ledger.
THEOREM RefinesCandidateLedger == Spec => ImplementsCandidateLedger
<1>1. Init => CandidateLedger!Init
  BY DEF Init, CandidateLedger!Init, CandidateVerdict
<1> QED
  BY <1>1, Inductive, CandidateLedgerStep, PTL
  DEF Spec, ImplementsCandidateLedger, CandidateLedger!Spec

\* Every step is a filing, a decision, a publication, a settlement, or nothing,
\* in the proposal ledger.
LEMMA ProposalLedgerStep ==
  ASSUME IInv, [Next]_vars
  PROVE  [ProposalLedger!Next]_(ProposalLedger!ledger)
<1> USE DEF ProposalLedger!Next, ProposalLedger!ledger
<1> DEFINE V == [q \in ProposalId |-> ProposalVerdict(q)]
<1>1. ASSUME UNCHANGED <<proposals, applications, overlay>>
      PROVE  UNCHANGED <<V, UNION {Lines(k) : k \in Pack}, applications>>
  BY <1>1 DEF ProposalVerdict, Lines
<1>2. ASSUME NEW w \in Worker, NEW c \in CandidateId, SubmitCommit(w, c)
      PROVE  \E new \in SUBSET ProposalId : ProposalLedger!File(new)
  <2> DEFINE new == {q \in task[w].requests : proposals[q] = NoRow}
  <2>1. new \subseteq ProposalId
    BY <1>2, TaskFields DEF SubmitCommit, SubmitTask, IInv, TypeOK
  <2>2. \A q \in ProposalId : proposals'[q] =
          IF q \in new THEN [status |-> "pending", application |-> "not_requested"]
          ELSE proposals[q]
    BY <1>2 DEF SubmitCommit, UpsertProposals
  <2>3. [status |-> "pending", application |-> "not_requested"] # NoRow
    BY NoRowAssumption DEF ProposalRow, ApplicationStatus
  <2>4. \A q \in new : proposals[q] = NoRow
    OBVIOUS
  <2> HIDE DEF new
  <2>5. V' = [q \in ProposalId |-> IF q \in new THEN "open" ELSE V[q]]
    BY <2>2, <2>3 DEF ProposalVerdict
  <2>6. \A q \in new : V[q] = "unfiled"
    BY <2>1, <2>4 DEF ProposalVerdict
  <2>7. UNCHANGED <<UNION {Lines(k) : k \in Pack}, applications>>
    BY <1>2 DEF SubmitCommit, Lines
  <2> QED
    BY <2>1, <2>5, <2>6, <2>7 DEF ProposalLedger!File
<1>3. ASSUME NEW w \in Worker, ProposalReviewCommit(w)
      PROVE  \/ \E q \in ProposalId, v \in ProposalLedger!Verdict : ProposalLedger!Decide(q, v)
             \/ UNCHANGED <<proposals, applications, overlay>>
  <2>0. UNCHANGED <<applications, overlay>>
    BY <1>3 DEF ProposalReviewCommit
  <2>1. CASE UNCHANGED <<proposals, proposalReviews>>
    BY <2>0, <2>1
  <2>2. CASE InsertProposalReview(task[w].proposal, task[w].decision, task[w].application)
    <3>1. PICK q \in ProposalId, d \in Decision, app \in ApplicationStatus :
            /\ q = task[w].proposal /\ d = task[w].decision /\ app = task[w].application
            /\ proposals[q] # NoRow
      BY <1>3, TaskFields DEF ProposalReviewCommit, IInv, TypeOK, TasksKnow, Knows,
         ProposalReviewKnows, ProposalReviewTask
    <3>2. proposals[q] \in ProposalRow /\ proposals[q].status = "pending"
      BY <2>2, <3>1, ReviewedRows DEF InsertProposalReview, IInv, TypeOK
    <3>3. /\ proposals'[q] = [status |-> d, application |-> app]
          /\ \A x \in ProposalId \ {q} : proposals'[x] = proposals[x]
      BY <2>2, <3>1 DEF InsertProposalReview, IInv, TypeOK
    <3>4. proposals'[q] # NoRow /\ proposals'[q].status = d /\ proposals'[q].application = app
      BY <3>1, <3>3, NoRowAssumption DEF ProposalRow
    <3> DEFINE v == IF d = "rejected" THEN "rejected"
                    ELSE IF app = "recorded" THEN "recorded" ELSE "granted"
    <3>5. v \in ProposalLedger!Verdict /\ ProposalVerdict(q) = "open" /\ ProposalVerdict(q)' = v
      BY <3>1, <3>2, <3>4 DEF ProposalVerdict, ProposalLedger!Verdict, Decision
    <3>6. \A x \in ProposalId \ {q} : ProposalVerdict(x)' = ProposalVerdict(x)
      BY <3>3 DEF ProposalVerdict
    <3> HIDE DEF v
    <3>7. V' = [V EXCEPT ![q] = v]
      BY <3>5, <3>6
    <3>8. UNCHANGED <<UNION {Lines(k) : k \in Pack}, applications>>
      BY <2>0 DEF Lines
    <3> QED
      BY <3>5, <3>7, <3>8 DEF ProposalLedger!Decide
  <2> QED
    BY <1>3, <2>1, <2>2 DEF ProposalReviewCommit
<1>4. ASSUME NEW w \in Worker, ApplyAppend(w)
      PROVE  \E q \in ProposalId : ProposalLedger!Publish(q)
  <2>1. task[w] \in ApplyTask /\ AcceptedForOverlay(task[w].proposal)
    BY <1>4, TaskFields DEF ApplyAppend, IInv, TypeOK, TasksKnow, Knows
  <2>2. PICK q \in ProposalId : q = task[w].proposal
    BY <2>1 DEF ApplyTask
  <2>3. PICK k \in Pack : k = OverlayTarget[q.profile]
    BY <2>1, <2>2, ProfileAssumption DEF AcceptedForOverlay, ProposalId
  <2>4. overlay' = [overlay EXCEPT ![k] = Append(@, q)]
    BY <1>4, <2>2, <2>3 DEF ApplyAppend
  <2>5. Lines(k)' = Lines(k) \cup {q} /\ \A j \in Pack \ {k} : Lines(j)' = Lines(j)
    BY <2>4, AppendedLines DEF IInv
  <2>6. (UNION {Lines(j) : j \in Pack})' = (UNION {Lines(j) : j \in Pack}) \cup {q}
    BY <2>5
  <2>7. UNCHANGED <<V, applications>>
    BY <1>4 DEF ApplyAppend, tables, ProposalVerdict
  <2>8. V[q] = "granted"
    BY <2>1, <2>2 DEF ProposalVerdict, AcceptedForOverlay
  <2> QED
    BY <2>6, <2>7, <2>8 DEF ProposalLedger!Publish
<1>5. ASSUME NEW w \in Worker, ApplyCommit(w)
      PROVE  \E q \in ProposalId : ProposalLedger!Settle(q)
  <2>1. /\ task[w] \in ApplyTask /\ AcceptedForOverlay(task[w].proposal)
        /\ LineFound(task[w].proposal)
    BY <1>5, TaskFields DEF ApplyCommit, IInv, TypeOK, TasksKnow, Knows
  <2>2. PICK q \in ProposalId : q = task[w].proposal
    BY <2>1 DEF ApplyTask
  <2>3. q \in UNION {Lines(k) : k \in Pack}
    BY <2>1, <2>2, ProfileAssumption DEF AcceptedForOverlay, ProposalId, LineFound
  <2>4. applications' = applications \cup {q}
    BY <1>5, <2>2 DEF ApplyCommit
  <2>5. proposals[q] \in ProposalRow
    BY <2>1, <2>2 DEF IInv, TypeOK, AcceptedForOverlay
  <2>6. /\ proposals'[q] = [proposals[q] EXCEPT !.application = "applied_to_overlay"]
        /\ \A x \in ProposalId \ {q} : proposals'[x] = proposals[x]
    BY <1>5, <2>2 DEF ApplyCommit, IInv, TypeOK
  <2>7. /\ proposals'[q] \in ProposalRow /\ proposals'[q].status = proposals[q].status
        /\ proposals'[q].application = "applied_to_overlay"
    BY <2>5, <2>6 DEF ProposalRow, ApplicationStatus
  <2>8. ProposalVerdict(q)' = ProposalVerdict(q)
    BY <2>1, <2>2, <2>7, NoRowAssumption DEF ProposalVerdict, AcceptedForOverlay
  <2>9. UNCHANGED <<V, UNION {Lines(k) : k \in Pack}>>
    <3>1. \A x \in ProposalId \ {q} : ProposalVerdict(x)' = ProposalVerdict(x)
      BY <2>6 DEF ProposalVerdict
    <3>2. UNCHANGED UNION {Lines(k) : k \in Pack}
      BY <1>5 DEF ApplyCommit, Lines
    <3> QED
      BY <2>8, <3>1, <3>2
  <2> QED
    BY <2>3, <2>4, <2>9 DEF ProposalLedger!Settle
<1>6. ASSUME NEW w \in Worker, Step(w)
      PROVE  \/ \E c \in CandidateId : SubmitCommit(w, c)
             \/ ProposalReviewCommit(w) \/ ApplyAppend(w) \/ ApplyCommit(w)
             \/ UNCHANGED <<proposals, applications, overlay>>
  BY <1>6 DEF Step, ApplySteps, SubmitValidate, CandidateReviewRead, CandidateReviewCommit,
    ProposalReviewRead, ApplyRead, ApplyScan, Abandon, tables
<1>7. CASE UNCHANGED <<proposals, applications, overlay>>
  BY <1>1, <1>7
<1>8. CASE \E w \in Worker, c \in CandidateId : SubmitCommit(w, c)
  BY <1>2, <1>8
<1>9. CASE \E w \in Worker : ProposalReviewCommit(w)
  BY <1>3, <1>7, <1>9
<1>10. CASE \E w \in Worker : ApplyAppend(w)
  BY <1>4, <1>10
<1>11. CASE \E w \in Worker : ApplyCommit(w)
  BY <1>5, <1>11
<1> QED
  BY <1>6, <1>7, <1>8, <1>9, <1>10, <1>11 DEF Next, vars

\* Proposal review and overlay application implement the ledger with publication.
THEOREM RefinesProposalLedger == Spec => ImplementsProposalLedger
<1>1. Init => ProposalLedger!Init
  BY DEF Init, ProposalLedger!Init, ProposalVerdict, Lines, ToSet
<1> QED
  BY <1>1, Inductive, ProposalLedgerStep, PTL
  DEF Spec, ImplementsProposalLedger, ProposalLedger!Spec

-----------------------------------------------------------------------------
(* Validation implements ReviewWorkflow's choice of a flaw *)

\* The loaders make an unknown predicate hard in closed mode, soft in mixed.
LEMMA UnknownSeverity ==
  ASSUME NEW p \in Profile, Mode[p] # "open"
  PROVE  SeverityOf(p, "unknown_predicate") = IF Mode[p] = "closed" THEN "hard" ELSE "soft"
  BY LoadedAssumption DEF LoaderAccepts, SeverityOf

\* A payload whose rules are looked at is reported for its predicate exactly
\* when ReviewWorkflow has it reported.
LEMMA UnknownFound ==
  ASSUME NEW p \in Profile, NEW x \in Payload, Runs(x), UnknownReported(p, x.predicate)
  PROVE  "unknown_predicate" \in Findings(p, x, EffectiveAllowed(p))
  BY LoadedAssumption DEF UnknownReported, Findings, RuleFindings, Found

\* A payload whose rules are not looked at has no predicate or no roles.
LEMMA MalformedFound ==
  ASSUME NEW p \in Profile, NEW x \in Payload, ~Runs(x)
  PROVE  \/ "missing_predicate" \in Findings(p, x, EffectiveAllowed(p))
         \/ "missing_roles" \in Findings(p, x, EffectiveAllowed(p))
  BY DEF Runs, Findings, StructureFindings, Found

\* Whatever a payload's findings, some flaw makes ReviewWorkflow come to the
\* same status and the same proposals.
LEMMA SomeFlaw ==
  ASSUME NEW p \in Profile, NEW x \in Payload
  PROVE  \E flaw \in Flaw :
           /\ StatusToday(p, x) = DeriveValidationStatus(Severities(p, x.predicate, flaw))
           /\ Requests(p, x) = ProposalRequests(p, x.predicate, flaw)
<1> DEFINE F == Findings(p, x, EffectiveAllowed(p))
           S == SeveritiesOf(p, F)
           v == x.predicate
<1>1. CASE ~Runs(x) /\ Mode[p] # "open"
  <2>1. "hard" \in S
    BY <1>1, MalformedFound, GovernedAssumption DEF SeveritiesOf
  <2>2. StatusToday(p, x) = "invalid"
    BY <2>1 DEF StatusToday, DeriveValidationStatus
  <2>3. DeriveValidationStatus(Severities(p, v, "malformed")) = "invalid"
    BY DEF DeriveValidationStatus, Severities
  <2>4. Requests(p, x) = ProposalRequests(p, v, "malformed")
    BY <1>1 DEF Requests, ProposalRequests
  <2> QED
    BY <2>2, <2>3, <2>4 DEF Flaw
<1>2. CASE Runs(x) \/ Mode[p] = "open"
  <2> DEFINE flaw == IF {"malformed", "hard"} \cap S # {} THEN "hard"
                     ELSE IF "soft" \in S THEN "soft" ELSE "none"
  <2>1. flaw \in {"hard", "soft", "none"}
    OBVIOUS
  <2>2. Requests(p, x) = ProposalRequests(p, v, flaw)
    BY <1>2, <2>1 DEF Requests, ProposalRequests
  <2>3. ASSUME UnknownReported(p, v)
        PROVE  (IF Mode[p] = "closed" THEN "hard" ELSE "soft") \in S
    BY <1>2, <2>3, UnknownFound, UnknownSeverity DEF UnknownReported, SeveritiesOf
  <2>4. StatusToday(p, x) = DeriveValidationStatus(Severities(p, v, flaw))
    <3> HIDE DEF S
    <3>1. StatusToday(p, x) = DeriveValidationStatus(S)
      BY DEF StatusToday, S
    <3>2. CASE {"malformed", "hard"} \cap S # {}
      BY <3>1, <3>2 DEF DeriveValidationStatus, Severities
    <3>3. CASE {"malformed", "hard"} \cap S = {} /\ "soft" \in S
      BY <2>3, <3>1, <3>3 DEF DeriveValidationStatus, Severities
    <3>4. CASE {"malformed", "hard"} \cap S = {} /\ "soft" \notin S
      BY <2>3, <3>1, <3>4 DEF DeriveValidationStatus, Severities
    <3> QED
      BY <3>2, <3>3, <3>4
  <2> QED
    BY <2>1, <2>2, <2>4 DEF Flaw
<1> QED
  BY <1>1, <1>2

LEMMA SubmitPayloadValidates ==
  ASSUME NEW w \in Worker, NEW p \in Profile, NEW x \in Payload, SubmitPayload(w, p, x)
  PROVE  Step(w)
<1>1. PICK flaw \in Flaw :
        /\ StatusToday(p, x) = DeriveValidationStatus(Severities(p, x.predicate, flaw))
        /\ Requests(p, x) = ProposalRequests(p, x.predicate, flaw)
  BY SomeFlaw
<1>2. SubmitValidate(w, p, x.predicate, flaw)
  BY <1>1 DEF SubmitPayload, SubmitValidate
<1> QED
  BY <1>2, PayloadAssumption DEF Step

LEMMA GovernedStepIsStep ==
  ASSUME [GovernedNext]_<<vars, payloadVars>>
  PROVE  [Next]_vars
<1>1. ASSUME NEW w \in Worker, GovernedStep(w)
      PROVE  Step(w)
  BY <1>1, SubmitPayloadValidates DEF GovernedStep, FilePayload, AbandonCall, ReviewSteps, Step
<1> QED
  BY <1>1 DEF GovernedNext, Next

\* submit_candidate_import with its validation spelt out, interleaved with
\* reviews and applications, implements the workflow in which validation is an
\* arbitrary flaw: what is proved of that one holds of this one.
THEOREM SubmissionRefines == GovernedSpec => Spec
<1>1. GovernedInit => Init
  BY DEF GovernedInit
<1> QED
  BY <1>1, GovernedStepIsStep, PTL DEF GovernedSpec, Spec

-----------------------------------------------------------------------------
(* A stored validation errs to one side only *)

\* Making more predicates known adds no finding, unless a rule lay dormant.
LEMMA FindingsShrink ==
  ASSUME NEW p \in Profile, NEW x \in Payload, NEW A, NEW B, BaseAllowed[p] \subseteq A,
         A \subseteq B, ~Dormant(p, x.predicate)
  PROVE  Findings(p, x, B) \subseteq Findings(p, x, A)
<1>1. RuleFindings(p, x, B) \subseteq RuleFindings(p, x, A)
  <2>1. CASE x.predicate \in A
    <3>1. x.predicate \in B
      BY <2>1
    <3> QED
      BY <2>1, <3>1 DEF RuleFindings
  <2>2. CASE x.predicate \notin A
    <3>1. x.predicate \notin DOMAIN Rules[p]
      BY <2>2 DEF Dormant
    <3> QED
      BY <2>2, <3>1 DEF RuleFindings
  <2> QED
    BY <2>1, <2>2
<1> QED
  BY <1>1 DEF Findings

LEMMA FewerFindings ==
  ASSUME NEW p, NEW F, NEW G, F \subseteq G
  PROVE  DeriveValidationStatus(SeveritiesOf(p, F)) \in
           Tolerates(DeriveValidationStatus(SeveritiesOf(p, G)))
<1>1. SeveritiesOf(p, F) \subseteq SeveritiesOf(p, G)
  BY DEF SeveritiesOf
<1> QED
  BY <1>1 DEF DeriveValidationStatus, Tolerates, ValidationStatus

LEMMA ToleratesTransitive ==
  ASSUME NEW a, NEW b, NEW c, a \in Tolerates(b), b \in Tolerates(c)
  PROVE  a \in Tolerates(c)
  BY DEF Tolerates, ValidationStatus

\* What a submission, in flight or stored, is about and what came of it.
Holds(p, v, status, x) ==
  /\ p \in Profile
  /\ x \in Payload
  /\ x.predicate = v
  /\ ~Dormant(p, v) => StatusToday(p, x) \in Tolerates(status)

HoldInv ==
  /\ filed \in [CandidateId -> Payload \cup {NoPayload}]
  /\ submitting \in [Worker -> Payload \cup {NoPayload}]
  /\ \A c \in CandidateId : candidates[c] # NoRow =>
       Holds(candidates[c].profile, candidates[c].predicate, candidates[c].validation, filed[c])
  /\ \A w \in Worker : task[w].op = "submit" =>
       Holds(task[w].profile, task[w].predicate, task[w].validation, submitting[w])

\* No step takes a line from an overlay file.
LEMMA LinesGrow ==
  ASSUME IInv, [Next]_vars
  PROVE  \A k \in Pack : Lines(k) \subseteq Lines(k)'
<1>1. ASSUME NEW w \in Worker, ApplyAppend(w)
      PROVE  \A k \in Pack : Lines(k) \subseteq Lines(k)'
  <2>1. task[w] \in ApplyTask /\ AcceptedForOverlay(task[w].proposal)
    BY <1>1, TaskFields DEF ApplyAppend, IInv, TypeOK, TasksKnow, Knows
  <2>2. PICK q \in ProposalId : q = task[w].proposal
    BY <2>1 DEF ApplyTask
  <2>3. PICK k \in Pack : k = OverlayTarget[q.profile]
    BY <2>1, <2>2, ProfileAssumption DEF AcceptedForOverlay, ProposalId
  <2>4. overlay' = [overlay EXCEPT ![k] = Append(@, q)]
    BY <1>1, <2>2, <2>3 DEF ApplyAppend
  <2> QED
    BY <2>4, AppendedLines DEF IInv
<1>2. ASSUME NEW w \in Worker, Step(w)
      PROVE  ApplyAppend(w) \/ UNCHANGED overlay
  BY <1>2 DEF Step, ApplySteps, SubmitValidate, SubmitCommit, CandidateReviewRead,
    CandidateReviewCommit, ProposalReviewRead, ProposalReviewCommit, ApplyRead, ApplyScan,
    ApplyCommit, Abandon
<1>3. CASE UNCHANGED overlay
  BY <1>3 DEF Lines
<1> QED
  BY <1>1, <1>2, <1>3 DEF Next, vars

\* No step makes a validation that holds fail to hold.
LEMMA HoldsStable ==
  ASSUME IInv, [Next]_vars, NEW p, NEW v, NEW status, NEW x, Holds(p, v, status, x)
  PROVE  Holds(p, v, status, x)'
<1>1. p \in Profile /\ x \in Payload /\ x.predicate = v
  BY DEF Holds
<1>2. EffectiveAllowed(p) \subseteq EffectiveAllowed(p)'
  BY <1>1, LinesGrow, AllowedGrows
<1>3. ASSUME ~Dormant(p, v)
      PROVE  StatusToday(p, x)' \in Tolerates(status)
  <2> DEFINE F == Findings(p, x, EffectiveAllowed(p))
             G == Findings(p, x, EffectiveAllowed(p)')
  <2>1. G \subseteq F
    BY <1>1, <1>2, <1>3, FindingsShrink DEF EffectiveAllowed
  <2>2. DeriveValidationStatus(SeveritiesOf(p, G)) \in
          Tolerates(DeriveValidationStatus(SeveritiesOf(p, F)))
    BY <2>1, FewerFindings
  <2>3. StatusToday(p, x)' \in Tolerates(StatusToday(p, x))
    BY <2>2 DEF StatusToday
  <2>4. StatusToday(p, x) \in Tolerates(status)
    BY <1>3 DEF Holds
  <2> QED
    BY <2>3, <2>4, ToleratesTransitive
<1> QED
  BY <1>1, <1>3 DEF Holds

LEMMA HoldInit == GovernedInit => HoldInv
  BY DEF GovernedInit, Init, HoldInv, Idle

\* HoldInv survives a step when what it says of each row and each submission
\* after the step held before it.
LEMMA HoldInvStable ==
  ASSUME IInv, [Next]_vars,
         filed' \in [CandidateId -> Payload \cup {NoPayload}],
         submitting' \in [Worker -> Payload \cup {NoPayload}],
         \A c \in CandidateId : candidates'[c] # NoRow =>
           Holds(candidates'[c].profile, candidates'[c].predicate, candidates'[c].validation,
                 filed'[c]),
         \A w \in Worker : task'[w].op = "submit" =>
           Holds(task'[w].profile, task'[w].predicate, task'[w].validation, submitting'[w])
  PROVE  HoldInv'
<1>1. ASSUME NEW c \in CandidateId, candidates'[c] # NoRow
      PROVE  Holds(candidates[c].profile, candidates[c].predicate, candidates[c].validation,
                   filed[c])'
  <2>1. PICK p, v, status, x :
          /\ p = candidates'[c].profile /\ v = candidates'[c].predicate
          /\ status = candidates'[c].validation /\ x = filed'[c]
    OBVIOUS
  <2>2. Holds(p, v, status, x)'
    BY <1>1, <2>1, HoldsStable
  <2> QED
    BY <2>1, <2>2 DEF Holds, StatusToday, EffectiveAllowed, OverlayPredicates, Lines
<1>2. ASSUME NEW w \in Worker, task'[w].op = "submit"
      PROVE  Holds(task[w].profile, task[w].predicate, task[w].validation, submitting[w])'
  <2>1. PICK p, v, status, x :
          /\ p = task'[w].profile /\ v = task'[w].predicate
          /\ status = task'[w].validation /\ x = submitting'[w]
    OBVIOUS
  <2>2. Holds(p, v, status, x)'
    BY <1>2, <2>1, HoldsStable
  <2> QED
    BY <2>1, <2>2 DEF Holds, StatusToday, EffectiveAllowed, OverlayPredicates, Lines
<1> QED
  BY <1>1, <1>2 DEF HoldInv

\* A submission sets out with what its payload comes to as things are.
LEMMA SubmitPayloadHolds ==
  ASSUME IInv, HoldInv, [Next]_vars, NEW w \in Worker, NEW p \in Profile, NEW x \in Payload,
         SubmitPayload(w, p, x)
  PROVE  HoldInv'
<1>1. Holds(p, x.predicate, StatusToday(p, x), x)
  <2>1. StatusToday(p, x) \in ValidationStatus
    BY DEF StatusToday, DeriveValidationStatus, ValidationStatus
  <2>2. StatusToday(p, x) \in Tolerates(StatusToday(p, x))
    BY <2>1 DEF Tolerates, ValidationStatus
  <2> QED
    BY <2>2 DEF Holds
<1>2. /\ task'[w].profile = p /\ task'[w].predicate = x.predicate
      /\ task'[w].validation = StatusToday(p, x) /\ submitting'[w] = x
  BY DEF SubmitPayload, HoldInv, IInv, TypeOK
<1>3. \A u \in Worker \ {w} : task'[u] = task[u] /\ submitting'[u] = submitting[u]
  BY DEF SubmitPayload, HoldInv, IInv, TypeOK
<1>4. candidates' = candidates /\ filed' = filed
  BY DEF SubmitPayload, tables
<1>5. submitting' \in [Worker -> Payload \cup {NoPayload}]
  BY DEF SubmitPayload, HoldInv
<1>6. \A u \in Worker : task'[u].op = "submit" =>
        Holds(task'[u].profile, task'[u].predicate, task'[u].validation, submitting'[u])
  BY <1>1, <1>2, <1>3 DEF HoldInv
<1> QED
  BY <1>4, <1>5, <1>6, HoldInvStable DEF HoldInv

\* What a submission in flight has found is stored with its payload.
LEMMA FilePayloadHolds ==
  ASSUME IInv, HoldInv, [Next]_vars, NEW w \in Worker, NEW c \in CandidateId, FilePayload(w, c)
  PROVE  HoldInv'
<1> DEFINE t == task[w]
<1>1. t \in SubmitTask /\ Holds(t.profile, t.predicate, t.validation, submitting[w])
  BY TaskFields DEF FilePayload, SubmitCommit, HoldInv, IInv, TypeOK
<1>2. /\ candidates'[c].profile = t.profile
      /\ candidates'[c].predicate = t.predicate
      /\ candidates'[c].validation = t.validation
      /\ filed'[c] = submitting[w]
  BY DEF FilePayload, SubmitCommit, InsertCandidate, HoldInv, IInv, TypeOK
<1>3. \A d \in CandidateId \ {c} : candidates'[d] = candidates[d] /\ filed'[d] = filed[d]
  BY DEF FilePayload, SubmitCommit, InsertCandidate, HoldInv, IInv, TypeOK
<1>4. \A u \in Worker \ {w} : task'[u] = task[u] /\ submitting'[u] = submitting[u]
  BY DEF FilePayload, SubmitCommit, HoldInv, IInv, TypeOK
<1>5. task'[w].op # "submit"
  BY DEF FilePayload, SubmitCommit, IInv, TypeOK, Idle
<1>6. /\ filed' \in [CandidateId -> Payload \cup {NoPayload}]
      /\ submitting' \in [Worker -> Payload \cup {NoPayload}]
  BY DEF FilePayload, HoldInv
<1>7. \A d \in CandidateId : candidates'[d] # NoRow =>
        Holds(candidates'[d].profile, candidates'[d].predicate, candidates'[d].validation,
              filed'[d])
  BY <1>1, <1>2, <1>3 DEF HoldInv
<1>8. \A u \in Worker : task'[u].op = "submit" =>
        Holds(task'[u].profile, task'[u].predicate, task'[u].validation, submitting'[u])
  BY <1>4, <1>5 DEF HoldInv
<1> QED
  BY <1>6, <1>7, <1>8, HoldInvStable

LEMMA AbandonCallHolds ==
  ASSUME IInv, HoldInv, [Next]_vars, NEW w \in Worker, AbandonCall(w)
  PROVE  HoldInv'
<1>1. candidates' = candidates /\ filed' = filed
  BY DEF AbandonCall, Abandon, tables
<1>2. \A u \in Worker \ {w} : task'[u] = task[u] /\ submitting'[u] = submitting[u]
  BY DEF AbandonCall, Abandon, HoldInv, IInv, TypeOK
<1>3. task'[w].op # "submit"
  BY DEF AbandonCall, Abandon, IInv, TypeOK, Idle
<1>4. submitting' \in [Worker -> Payload \cup {NoPayload}]
  BY DEF AbandonCall, HoldInv
<1>5. \A u \in Worker : task'[u].op = "submit" =>
        Holds(task'[u].profile, task'[u].predicate, task'[u].validation, submitting'[u])
  BY <1>2, <1>3 DEF HoldInv
<1> QED
  BY <1>1, <1>4, <1>5, HoldInvStable DEF HoldInv

\* Reviews and applications leave profile, predicate and validation of a row
\* alone, and make no call a submission.
LEMMA ReviewStepsKeep ==
  ASSUME IInv, NEW w \in Worker, ReviewSteps(w)
  PROVE  /\ \A c \in CandidateId : candidates'[c] # NoRow =>
              /\ candidates[c] # NoRow
              /\ candidates'[c].profile = candidates[c].profile
              /\ candidates'[c].predicate = candidates[c].predicate
              /\ candidates'[c].validation = candidates[c].validation
         /\ \A u \in Worker : task'[u].op = "submit" => task'[u] = task[u]
<1>1. ASSUME CandidateReviewCommit(w)
      PROVE  /\ \A c \in CandidateId : candidates'[c] # NoRow =>
                  /\ candidates[c] # NoRow
                  /\ candidates'[c].profile = candidates[c].profile
                  /\ candidates'[c].predicate = candidates[c].predicate
                  /\ candidates'[c].validation = candidates[c].validation
             /\ task' = [task EXCEPT ![w] = Idle]
  <2>1. task[w] \in CandidateReviewTask /\ candidates[task[w].candidate] # NoRow
    BY <1>1, TaskFields DEF CandidateReviewCommit, IInv, TypeOK, TasksKnow, Knows,
      CandidateReviewKnows
  <2>2. candidates[task[w].candidate] \in CandidateRow
    BY <2>1 DEF IInv, TypeOK, CandidateReviewTask
  <2>3. CASE InsertCandidateReview(task[w].candidate, task[w].decision)
    BY <1>1, <2>1, <2>2, <2>3 DEF CandidateReviewCommit, InsertCandidateReview, CandidateRow,
      IInv, TypeOK
  <2>4. CASE UNCHANGED candidates
    BY <1>1, <2>4 DEF CandidateReviewCommit
  <2> QED
    BY <1>1, <2>3, <2>4 DEF CandidateReviewCommit
<1>2. CASE CandidateReviewCommit(w)
  BY <1>1, <1>2 DEF Idle, IInv, TypeOK
<1>3. CASE \/ \E c \in CandidateId, d \in Decision : CandidateReviewRead(w, c, d)
           \/ \E q \in ProposalId, d \in Decision, pol \in Policy : ProposalReviewRead(w, q, d, pol)
           \/ ProposalReviewCommit(w)
           \/ ApplySteps(w)
  <2>1. candidates' = candidates
    BY <1>3 DEF CandidateReviewRead, ProposalReviewRead, ProposalReviewCommit, ApplySteps,
      ApplyRead, ApplyScan, ApplyAppend, ApplyCommit, tables
  <2>2. \A u \in Worker \ {w} : task'[u] = task[u]
    BY <1>3 DEF CandidateReviewRead, ProposalReviewRead, ProposalReviewCommit, ApplySteps,
      ApplyRead, ApplyScan, ApplyAppend, ApplyCommit, IInv, TypeOK
  <2>3. task'[w].op # "submit"
    <3>1. CASE ApplyScan(w)
      <4>1. task[w] \in ApplyTask
        BY <3>1, TaskFields DEF ApplyScan, IInv, TypeOK
      <4> QED
        BY <3>1, <4>1 DEF ApplyScan, AfterScan, ApplyTask, IInv, TypeOK
    <3>2. CASE ApplyAppend(w)
      <4>1. task[w] \in ApplyTask
        BY <3>2, TaskFields DEF ApplyAppend, IInv, TypeOK
      <4> QED
        BY <3>2, <4>1 DEF ApplyAppend, ApplyTask, IInv, TypeOK
    <3> QED
      BY <1>3, <3>1, <3>2 DEF CandidateReviewRead, ProposalReviewRead, ProposalReviewCommit,
        ApplySteps, ApplyRead, ApplyCommit, Idle, IInv, TypeOK
  <2> QED
    BY <2>1, <2>2, <2>3
<1> QED
  BY <1>2, <1>3 DEF ReviewSteps

LEMMA ReviewStepsHold ==
  ASSUME IInv, HoldInv, [Next]_vars, NEW w \in Worker, ReviewSteps(w), UNCHANGED payloadVars
  PROVE  HoldInv'
<1>1. filed' = filed /\ submitting' = submitting
  BY DEF payloadVars
<1>2. \A c \in CandidateId : candidates'[c] # NoRow =>
        Holds(candidates'[c].profile, candidates'[c].predicate, candidates'[c].validation,
              filed'[c])
  BY <1>1, ReviewStepsKeep DEF HoldInv
<1>3. \A u \in Worker : task'[u].op = "submit" =>
        Holds(task'[u].profile, task'[u].predicate, task'[u].validation, submitting'[u])
  BY <1>1, ReviewStepsKeep DEF HoldInv
<1> QED
  BY <1>1, <1>2, <1>3, HoldInvStable DEF HoldInv

LEMMA HoldInvStep == IInv /\ HoldInv /\ [GovernedNext]_<<vars, payloadVars>> => HoldInv'
<1> SUFFICES ASSUME IInv, HoldInv, [GovernedNext]_<<vars, payloadVars>> PROVE HoldInv'
  OBVIOUS
<1>1. [Next]_vars
  BY GovernedStepIsStep
<1>2. CASE UNCHANGED <<vars, payloadVars>>
  <2>1. candidates' = candidates /\ task' = task /\ filed' = filed /\ submitting' = submitting
    BY <1>2 DEF vars, payloadVars
  <2> QED
    BY <1>1, <2>1, HoldInvStable DEF HoldInv
<1>3. CASE GovernedNext
  BY <1>1, <1>3, SubmitPayloadHolds, FilePayloadHolds, AbandonCallHolds, ReviewStepsHold
  DEF GovernedNext, GovernedStep
<1> QED
  BY <1>2, <1>3

\* The validation stored with a candidate stays on the safe side while overlays
\* grow: what reviewers go by is at worst too severe, unless a rule lay dormant.
THEOREM StatusAlwaysHolds == GovernedSpec => []StatusStillHolds
<1>1. GovernedSpec => []IInv
  BY SubmissionRefines, Inductive, PTL
<1>2. HoldInv => StatusStillHolds
  BY DEF HoldInv, Holds, StatusStillHolds
<1> QED
  BY <1>1, <1>2, HoldInit, HoldInvStep, PTL DEF GovernedSpec

-----------------------------------------------------------------------------
(* A finding that is never made *)

\* The type a rule expects is always a known one, so that a filler's type is
\* never found to be of unknown relationship to it: the severity that every
\* profile in the repository gives this finding is never looked up.
THEOREM RelationshipsKnown ==
  ASSUME NEW p \in DOMAIN ProfileFile, NEW x, NEW allowed
  PROVE  "role_type_unknown_relationship" \notin Findings(p, x, allowed)
<1> DEFINE code == "role_type_unknown_relationship"
<1>1. code \notin StructureFindings(x)
  BY DEF StructureFindings, Found
<1>2. code \notin RuleFindings(p, x, allowed)
  BY DEF RuleFindings, Found
<1>3. code \notin FillerFindings(p, x)
  <2> SUFFICES ASSUME x.predicate \in DOMAIN Rules[p], code \in FillerFindings(p, x) PROVE FALSE
    BY DEF FillerFindings
  <2> DEFINE rule == Rules[p][x.predicate]
             TypesOf(r) == {TypeFinding(p, f, rule.types[r]) : f \in ListedFillers(x, {r})}
             KindsOf(r) == {KindFinding(f, rule.kinds[r]) : f \in ListedFillers(x, {r})}
  <2>1. ASSUME NEW r \in DOMAIN rule.types
        PROVE  rule.types[r] \in KnownTypes[p]
    BY <2>1 DEF KnownTypes
  <2>2. ASSUME NEW r \in DOMAIN rule.types, NEW f
        PROVE  code \notin TypeFinding(p, f, rule.types[r])
    BY <2>1 DEF TypeFinding, HierarchyFinding
  <2>3. ASSUME NEW r \in DOMAIN rule.kinds, NEW f
        PROVE  code \notin KindFinding(f, rule.kinds[r])
    BY DEF KindFinding
  <2>4. PICK S : /\ code \in S
                 /\ S \in (UNION {TypesOf(r) : r \in DOMAIN rule.types})
                         \cup (UNION {KindsOf(r) : r \in DOMAIN rule.kinds})
    BY DEF FillerFindings
  <2>5. CASE S \in UNION {TypesOf(r) : r \in DOMAIN rule.types}
    <3>1. PICK r \in DOMAIN rule.types : S \in TypesOf(r)
      BY <2>5
    <3>2. PICK f : S = TypeFinding(p, f, rule.types[r])
      BY <3>1
    <3> QED
      BY <2>2, <2>4, <3>2
  <2>6. CASE S \in UNION {KindsOf(r) : r \in DOMAIN rule.kinds}
    <3>1. PICK r \in DOMAIN rule.kinds : S \in KindsOf(r)
      BY <2>6
    <3>2. PICK f : S = KindFinding(f, rule.kinds[r])
      BY <3>1
    <3> QED
      BY <2>3, <2>4, <3>2
  <2> QED
    BY <2>4, <2>5, <2>6
<1> QED
  BY <1>1, <1>2, <1>3 DEF Findings

-----------------------------------------------------------------------------
(* Alias maps *)

\* What an alias map resolves a name to is one of the identifiers.
LEMMA AliasInRange ==
  ASSUME NEW ids, NEW rows, \A row \in rows : row[2] \in ids,
         NEW key \in DOMAIN AliasMap(Seeds(ids), rows)
  PROVE  AliasMap(Seeds(ids), rows)[key] \in ids
<1>1. CASE key \in DOMAIN Seeds(ids)
  <2>1. \E id \in ids : LookupKey[id] = key
    BY <1>1 DEF Seeds
  <2>2. Seeds(ids)[key] \in ids
    BY <1>1, <2>1 DEF Seeds
  <2> QED
    BY <1>1, <2>2 DEF AliasMap
<1>2. CASE key \notin DOMAIN Seeds(ids)
  <2>1. \E row \in rows : row[1] = key
    BY <1>2 DEF AliasMap
  <2> QED
    BY <1>2, <2>1 DEF AliasMap
<1> QED
  BY <1>1, <1>2

\* Each identifier resolves to itself, unless another differs in case only.
LEMMA AliasOfItself ==
  ASSUME NEW ids, NEW rows, NEW id \in ids,
         \A other \in ids : LookupKey[other] = LookupKey[id] => other = id
  PROVE  /\ LookupKey[id] \in DOMAIN AliasMap(Seeds(ids), rows)
         /\ AliasMap(Seeds(ids), rows)[LookupKey[id]] = id
<1>1. LookupKey[id] \in DOMAIN Seeds(ids)
  BY DEF Seeds
<1>2. Seeds(ids)[LookupKey[id]] = id
  BY DEF Seeds
<1> QED
  BY <1>1, <1>2 DEF AliasMap

\* What canonicalization makes of a predicate or of a role it leaves alone when
\* it is asked again, in every pack that loads and has no two identifiers that
\* differ in case only: a repaired assertion counts as canonical.
THEOREM AliasesIdempotent ==
  ASSUME NEW k, PackAccepted(k),
         \A v, u \in ActivePredicates(k) : LookupKey[v] = LookupKey[u] => v = u,
         \A r, s \in PackFile[k].roles : LookupKey[r] = LookupKey[s] => r = s
  PROVE  /\ \A key \in DOMAIN PredicateAliases(k) :
              PredicateAliases(k)[LookupKey[PredicateAliases(k)[key]]] = PredicateAliases(k)[key]
         /\ \A key \in DOMAIN RoleAliases(k) :
              RoleAliases(k)[LookupKey[RoleAliases(k)[key]]] = RoleAliases(k)[key]
<1>1. \A row \in PredicateRows(k) : row[2] \in ActivePredicates(k)
  BY DEF PredicateRows, PackAccepted
<1>2. \A row \in RoleRows(k) : row[2] \in PackFile[k].roles
  BY DEF RoleRows
<1>3. ASSUME NEW key \in DOMAIN PredicateAliases(k)
      PROVE  PredicateAliases(k)[LookupKey[PredicateAliases(k)[key]]] = PredicateAliases(k)[key]
  <2>1. PredicateAliases(k)[key] \in ActivePredicates(k)
    BY <1>1, AliasInRange DEF PredicateAliases
  <2> QED
    BY <2>1, AliasOfItself DEF PredicateAliases
<1>4. ASSUME NEW key \in DOMAIN RoleAliases(k)
      PROVE  RoleAliases(k)[LookupKey[RoleAliases(k)[key]]] = RoleAliases(k)[key]
  <2>1. RoleAliases(k)[key] \in PackFile[k].roles
    BY <1>2, AliasInRange DEF RoleAliases
  <2> QED
    BY <2>1, AliasOfItself DEF RoleAliases
<1> QED
  BY <1>3, <1>4
==============================================================================
