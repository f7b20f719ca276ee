-------------------------- MODULE GovernedSubmission --------------------------
(***************************************************************************)
(* ReviewWorkflow with payloads: a submission is validated by the rules of *)
(* OntologyRuntime against the profile and the overlay as they are then,   *)
(* and stored with its payload, while reviews and applications go on.      *)
(***************************************************************************)
EXTENDS ReviewWorkflow, OntologyRuntime

CONSTANTS
  Payload,     \* what may be submitted
  NoPayload

VARIABLES
  filed,       \* filed[c]: payload of c (candidate_assertions.payload_json)
  submitting   \* submitting[w]: payload of the submission w is in

payloadVars == <<filed, submitting>>

\* The constants of ReviewWorkflow are what the loaders make of the files.
ASSUME LoadedAssumption ==
  \A p \in Profile :
    /\ LoaderAccepts(p)
    /\ Mode[p] = ProfileFile[p].mode
    /\ BaseAllowed[p] = IF HasAllowlist(p) THEN DeclaredPredicates(p) ELSE Predicate
    /\ OverlayTarget[p] # NoPack <=> ProfileFile[p].pack # {} /\ ProfileFile[p].proposals

\* No loader asks for it, every profile in the repository that is not open has
\* it: what stops the rules from being looked at is a hard error.
ASSUME GovernedAssumption ==
  \A p \in Profile : Mode[p] # "open" =>
    /\ SeverityOf(p, "missing_predicate") = "hard"
    /\ SeverityOf(p, "missing_roles") = "hard"

ASSUME PayloadAssumption ==
  /\ \A x \in Payload : x.predicate \in Predicate
  /\ NoPayload \notin Payload

SeveritiesOf(p, codes) == {SeverityOf(p, code) : code \in codes}

StatusToday(p, x) ==
  DeriveValidationStatus(SeveritiesOf(p, Findings(p, x, EffectiveAllowed(p))))

Requests(p, x) == IF Runs(x) THEN ProposalRequests(p, x.predicate, "none") ELSE {}

GovernedInit ==
  /\ Init
  /\ filed = [c \in CandidateId |-> NoPayload]
  /\ submitting = [w \in Worker |-> NoPayload]

SubmitPayload(w, p, x) ==
  /\ task[w] = Idle
  /\ task' = [task EXCEPT ![w] =
       [op |-> "submit", profile |-> p, predicate |-> x.predicate,
        validation |-> StatusToday(p, x), requests |-> Requests(p, x)]]
  /\ submitting' = [submitting EXCEPT ![w] = x]
  /\ UNCHANGED <<tables, overlay, filed>>

FilePayload(w, c) ==
  /\ SubmitCommit(w, c)
  /\ filed' = [filed EXCEPT ![c] = submitting[w]]
  /\ submitting' = [submitting EXCEPT ![w] = NoPayload]

AbandonCall(w) ==
  /\ Abandon(w)
  /\ submitting' = [submitting EXCEPT ![w] = NoPayload]
  /\ UNCHANGED filed

ReviewSteps(w) ==
  \/ \E c \in CandidateId, d \in Decision : CandidateReviewRead(w, c, d)
  \/ CandidateReviewCommit(w)
  \/ \E q \in ProposalId, d \in Decision, pol \in Policy : ProposalReviewRead(w, q, d, pol)
  \/ ProposalReviewCommit(w)
  \/ ApplySteps(w)

GovernedStep(w) ==
  \/ \E p \in Profile, x \in Payload : SubmitPayload(w, p, x)
  \/ \E c \in CandidateId : FilePayload(w, c)
  \/ AbandonCall(w)
  \/ ReviewSteps(w) /\ UNCHANGED payloadVars

GovernedNext == \E w \in Worker : GovernedStep(w)

GovernedSpec == GovernedInit /\ [][GovernedNext]_<<vars, payloadVars>>

-----------------------------------------------------------------------------
(* Properties *)

\* A predicate that has a rule but is not declared: the rule is looked at only
\* once the overlay has made the predicate known.
Dormant(p, v) == v \in DOMAIN Rules[p] /\ v \notin BaseAllowed[p]

Tolerates(status) ==
  IF status = "valid" THEN {"valid"}
  ELSE IF status = "needs_review" THEN {"valid", "needs_review"}
  ELSE ValidationStatus

\* The validation a candidate was stored with, which reviewers go by, is from
\* before its transaction and is never renewed, while the overlay grows.  It
\* errs to one side only: validated today, the payload would come out no worse,
\* unless a rule has lain dormant.
StatusStillHolds ==
  \A c \in CandidateId :
    LET row == candidates[c]
    IN  candidates[c] # NoRow /\ ~Dormant(row.profile, row.predicate)
        => StatusToday(row.profile, filed[c]) \in Tolerates(row.validation)
=============================================================================
