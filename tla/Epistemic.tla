------------------------------ MODULE Epistemic ------------------------------
(***************************************************************************)
(* The epistemic extension: confidence and supersession over accepted      *)
(* candidates, dispositions over the assertions promoted from them, and    *)
(* the status derived from both.  An assertion goes by its candidate.      *)
(*                                                                         *)
(* Each call reads in autocommitted SELECTs and ends in at most one INSERT *)
(* (see ReviewWorkflow).  A disposition history is listed in the order of  *)
(* timestamps taken before the INSERT waits for the write lock: a record   *)
(* may land in front of others, though not of those the call had read.     *)
(***************************************************************************)
EXTENDS Naturals, Sequences, SequencesExt

CONSTANTS
  Worker,       \* concurrent processes
  CandidateId,
  Score,        \* confidence assessments, with source, actor and rationale
  MaxHistory,   \* bound on the dispositions of one assertion
  NoCandidate,  \* not superseded
  NoScore       \* not assessed

ASSUME SentinelAssumption ==
  /\ NoCandidate \notin CandidateId
  /\ NoScore \notin Score

ASSUME BoundAssumption == MaxHistory \in Nat

Target == {"active", "weakened", "retracted"}
Status == Target \cup {"superseded"}

Disposition == [prior : Status, target : Target]

Idle == [op |-> "idle"]
ConfidenceTask == [op : {"confidence"}, candidate : CandidateId, score : Score]
SupersessionTask ==
  [op : {"supersession"}, candidate : CandidateId, replacement : CandidateId]
DispositionTask ==
  [op : {"disposition"}, candidate : CandidateId, record : Disposition, seen : Nat]

Task == {Idle} \cup ConfidenceTask \cup SupersessionTask \cup DispositionTask

VARIABLES
  accepted,     \* candidates review has accepted
  promoted,     \* candidates with a promoted assertion
  confidence,   \* epistemic_confidence_assessments (UNIQUE candidate_id)
  superseded,   \* epistemic_supersessions: prior to replacement (UNIQUE prior)
  history,      \* epistemic_assertion_dispositions, as listed
  task          \* task[w]: the call process w is in, and what it read

records == <<confidence, superseded, history>>
vars == <<accepted, promoted, confidence, superseded, history, task>>

TypeOK ==
  /\ accepted \subseteq CandidateId
  /\ promoted \subseteq CandidateId
  /\ confidence \in [CandidateId -> Score \cup {NoScore}]
  /\ superseded \in [CandidateId -> CandidateId \cup {NoCandidate}]
  /\ history \in [CandidateId -> Seq(Disposition)]
  /\ task \in [Worker -> Task]

Init ==
  /\ accepted = {}
  /\ promoted = {}
  /\ confidence = [c \in CandidateId |-> NoScore]
  /\ superseded = [c \in CandidateId |-> NoCandidate]
  /\ history = [c \in CandidateId |-> <<>>]
  /\ task = [w \in Worker |-> Idle]

-----------------------------------------------------------------------------
(* Review and promotion, the calls of other services *)

Accept(w, c) ==
  /\ task[w] = Idle
  /\ accepted' = accepted \cup {c}
  /\ UNCHANGED <<promoted, records, task>>

Promote(w, c) ==
  /\ task[w] = Idle
  /\ c \in accepted
  /\ promoted' = promoted \cup {c}
  /\ UNCHANGED <<accepted, records, task>>

-----------------------------------------------------------------------------
(* record_confidence *)

\* An assessment with the same content is returned, another one refused.
ConfidenceRead(w, c, s) ==
  /\ task[w] = Idle
  /\ c \in accepted
  /\ confidence[c] = NoScore
  /\ task' = [task EXCEPT ![w] = [op |-> "confidence", candidate |-> c, score |-> s]]
  /\ UNCHANGED <<accepted, promoted, records>>

InsertConfidence(c, s) ==
  /\ confidence[c] = NoScore
  /\ confidence' = [confidence EXCEPT ![c] = s]

ConfidenceCommit(w) ==
  /\ task[w].op = "confidence"
  /\ InsertConfidence(task[w].candidate, task[w].score)
  /\ task' = [task EXCEPT ![w] = Idle]
  /\ UNCHANGED <<accepted, promoted, superseded, history>>

-----------------------------------------------------------------------------
(* record_supersession *)

\* Mutant: only the two candidates' own rows are compared.
ReplacementUnchecked(prior, replacement) == prior # replacement

ReplacementAllowed(prior, replacement) ==
  /\ prior # replacement
  /\ superseded[replacement] = NoCandidate

SupersessionRead(w, prior, replacement) ==
  /\ task[w] = Idle
  /\ {prior, replacement} \subseteq accepted
  /\ ReplacementAllowed(prior, replacement)
  /\ superseded[prior] = NoCandidate
  /\ task' = [task EXCEPT ![w] =
       [op |-> "supersession", candidate |-> prior, replacement |-> replacement]]
  /\ UNCHANGED <<accepted, promoted, records>>

SupersessionCommit(w) ==
  /\ task[w].op = "supersession"
  /\ superseded[task[w].candidate] = NoCandidate
  /\ superseded' = [superseded EXCEPT ![task[w].candidate] = task[w].replacement]
  /\ task' = [task EXCEPT ![w] = Idle]
  /\ UNCHANGED <<accepted, promoted, confidence, history>>

-----------------------------------------------------------------------------
(* _build_assertion_snapshot *)

Latest(c) == IF history[c] = <<>> THEN "active" ELSE Last(history[c]).target

\* A replacement counts once it is promoted itself.
SupersededInGraph(c) ==
  superseded[c] # NoCandidate /\ superseded[c] \in promoted

\* Mutant: supersession hides a retraction.
EpistemicStatusSupersededFirst(c) ==
  IF SupersededInGraph(c) THEN "superseded" ELSE Latest(c)

EpistemicStatus(c) ==
  IF Latest(c) = "retracted" THEN "retracted"
  ELSE IF SupersededInGraph(c) THEN "superseded"
  ELSE Latest(c)

-----------------------------------------------------------------------------
(* record_assertion_disposition *)

\* Mutant: retraction may be taken back.
AllowedTransitionsReversible(status) ==
  CASE status = "active" -> {"weakened", "retracted"}
    [] status = "weakened" -> {"active", "retracted"}
    [] status = "retracted" -> {"active"}
    [] OTHER -> {}

AllowedTransitions(status) ==
  CASE status = "active" -> {"weakened", "retracted"}
    [] status = "weakened" -> {"active", "retracted"}
    [] OTHER -> {}

DispositionRead(w, c, target) ==
  /\ task[w] = Idle
  /\ c \in promoted
  /\ target \in AllowedTransitions(EpistemicStatus(c))
  /\ Len(history[c]) < MaxHistory
  /\ task' = [task EXCEPT ![w] =
       [op |-> "disposition", candidate |-> c,
        record |-> [prior |-> EpistemicStatus(c), target |-> target],
        seen |-> Len(history[c])]]
  /\ UNCHANGED <<accepted, promoted, records>>

DispositionCommit(w) ==
  /\ task[w].op = "disposition"
  /\ LET c == task[w].candidate
     IN  \E i \in (task[w].seen + 1)..(Len(history[c]) + 1) :
           history' = [history EXCEPT ![c] = InsertAt(@, i, task[w].record)]
  /\ task' = [task EXCEPT ![w] = Idle]
  /\ UNCHANGED <<accepted, promoted, confidence, superseded>>

-----------------------------------------------------------------------------
\* The process dies, waits out the busy timeout, or finds the UNIQUE column
\* taken.
Abandon(w) ==
  /\ task[w] # Idle
  /\ task' = [task EXCEPT ![w] = Idle]
  /\ UNCHANGED <<accepted, promoted, records>>

Step(w) ==
  \/ \E c \in CandidateId : Accept(w, c) \/ Promote(w, c)
  \/ \E c \in CandidateId, s \in Score : ConfidenceRead(w, c, s)
  \/ ConfidenceCommit(w)
  \/ \E c, d \in CandidateId : SupersessionRead(w, c, d)
  \/ SupersessionCommit(w)
  \/ \E c \in CandidateId, target \in Target : DispositionRead(w, c, target)
  \/ DispositionCommit(w)
  \/ Abandon(w)

Next == \E w \in Worker : Step(w)

Spec == Init /\ [][Next]_vars

-----------------------------------------------------------------------------
(* Properties *)

\* One call at a time.
Serial == \A v, w \in Worker : v = w

\* Following replacements from any candidate leads out of every set of
\* candidates: calls made one at a time never close a circle in which
\* everything is superseded.
NoSupersessionCycle ==
  \A S \in (SUBSET CandidateId) \ {{}} : \E c \in S : superseded[c] \notin S

\* Calls made one at a time write a history that can be read back as one walk
\* over the allowed transitions: each record starts where the one before it
\* ended, and none follows a retraction.
HistoryIsWalk ==
  \A c \in CandidateId :
    /\ history[c] # <<>> => history[c][1].prior = "active"
    /\ \A i \in DOMAIN history[c] :
         /\ i > 1 => history[c][i].prior = history[c][i - 1].target
         /\ history[c][i].prior \in {"active", "weakened"}
         /\ history[c][i].target = "retracted" => i = Len(history[c])

\* With calls made one at a time, a retracted assertion stays retracted and a
\* superseded one superseded, whichever of disposition, supersession and the
\* promotion of the replacement comes first.
TerminalStaysTerminal ==
  [][\A c \in CandidateId :
       EpistemicStatus(c) \in {"retracted", "superseded"} =>
         EpistemicStatus(c)' = EpistemicStatus(c)]_vars

\* Assessments and supersessions are written once, whoever overlaps whom, and
\* only for accepted candidates.
WrittenOnce ==
  /\ [][\A c \in CandidateId :
         /\ confidence[c] # NoScore => confidence'[c] = confidence[c]
         /\ superseded[c] # NoCandidate => superseded'[c] = superseded[c]]_vars
  /\ [](\A c \in CandidateId :
         /\ confidence[c] # NoScore => c \in accepted
         /\ superseded[c] # NoCandidate => {c, superseded[c]} \subseteq accepted)

\* A retracted assertion disallows further transitions.
RetractedIsFinal ==
  \A c \in CandidateId : \A i \in DOMAIN history[c] :
    history[c][i].target = "retracted" => i = Len(history[c])

-----------------------------------------------------------------------------
(* The inductive invariants *)

\* Holds whoever overlaps whom.
Sound ==
  /\ TypeOK
  /\ \A c \in CandidateId :
       /\ confidence[c] # NoScore => c \in accepted
       /\ superseded[c] # NoCandidate => {c, superseded[c]} \subseteq accepted
  /\ \A w \in Worker :
       /\ task[w].op = "confidence" => task[w].candidate \in accepted
       /\ task[w].op = "supersession" =>
            {task[w].candidate, task[w].replacement} \subseteq accepted

\* With one call at a time, what the call has read is still so.
ReadIsCurrent(t) ==
  /\ t.op = "supersession" => ReplacementAllowed(t.candidate, t.replacement)
  /\ t.op = "disposition" =>
       /\ t.record.prior = EpistemicStatus(t.candidate)
       /\ t.record.target \in AllowedTransitions(t.record.prior)
       /\ t.seen = Len(history[t.candidate])

SerialInv ==
  /\ TypeOK
  /\ NoSupersessionCycle
  /\ HistoryIsWalk
  /\ \A w \in Worker : ReadIsCurrent(task[w])
=============================================================================
