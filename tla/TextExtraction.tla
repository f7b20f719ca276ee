---------------------------- MODULE TextExtraction ----------------------------
(***************************************************************************)
(* extract_and_submit of pipeline/text_extraction.py and the batch         *)
(* commands of cli.py, composed with the promoted graph: a model's answer  *)
(* is parsed, filtered by a judge, submitted, judged again one candidate   *)
(* at a time and, under review_mode auto or llm, accepted and promoted     *)
(* without a person, while people review and other processes promote.      *)
(*                                                                         *)
(* A candidate here is what the model said together with the row it        *)
(* becomes.  The loops of the code take their items one by one in an order *)
(* the model or SQLite chose; a run keeps the set of items still to come.  *)
(***************************************************************************)
EXTENDS GraphPromotion

CONSTANTS
  Unparseable,    \* raw candidates that fail their own parse
  Roleless,       \* parse, but have no roles, or one without name or fillers
  Inconvertible,  \* no id can be made of an entity's name, or a value has no text
  AnswerLimit,    \* bound: raw candidates in one answer
  Guarded,        \* candidates the limit-capability or staffing guard rejects
  JudgeFilter,    \* config.extraction.enable_judge_filter
  MinLabel        \* config.extraction.judge_filter_min_label

\* The judge's labels; the response model takes any string, "other" stands for
\* all that the code does not know.
Label == {"unsupported", "partially_supported", "supported", "other"}

ReviewMode == {"human", "auto", "llm"}

Raw == CandidateId \cup Unparseable \cup Roleless \cup Inconvertible

ASSUME ExtractionAssumption ==
  /\ AnswerLimit \in Nat
  /\ Guarded \subseteq CandidateId
  /\ JudgeFilter \in BOOLEAN
  /\ MinLabel \in Label
  /\ (Unparseable \cup Roleless \cup Inconvertible) \cap CandidateId = {}

NoRun == [stage |-> "none"]

Run ==
  {NoRun} \cup
  [stage : {"filter", "submit", "review", "reject", "accept", "promote", "promoting"},
   mode : ReviewMode \cup {"accept_all", "promote_all"},
   left : SUBSET CandidateId, submitted : SUBSET CandidateId,
   item : CandidateId \cup {NoRow}]

VARIABLES
  run,       \* run[w]: the extraction or batch command process w is in
  judged,    \* judged[c]: the last label a judge gave c, as it is logged
  reviewer   \* reviewer[c]: who decided c (actor_id of its review)

pipeline == <<verdict, assertions, entities, fillers, events, task, run, judged, reviewer>>

PipelineInit ==
  /\ Init
  /\ run = [w \in Worker |-> NoRun]
  /\ judged = [c \in CandidateId |-> "none"]
  /\ reviewer = [c \in CandidateId |-> "none"]

-----------------------------------------------------------------------------
(* extract_candidate_run *)

\* What parsing leaves of an answer: broken candidates go one by one.
Parsed(answer) == answer \ (Unparseable \cup Roleless)

\* The candidates are converted in one expression: what cannot be converted
\* raises for all of them.
Converts(answer) == Parsed(answer) \cap Inconvertible = {}

Start(mode, left) ==
  [stage |-> IF JudgeFilter /\ left # {} THEN "filter" ELSE "submit",
   mode |-> mode, left |-> left, submitted |-> {}, item |-> NoRow]

\* Every submission gets an identifier of its own, so an answer holds candidates
\* not filed and in nobody else's hands.
Fresh(c) == verdict[c] = "unfiled" /\ \A w \in Worker : run[w] # NoRun => c \notin run[w].left

\* An answer that does not convert, and a call that fails, leave nothing.
Extract(w) ==
  /\ run[w] = NoRun /\ task[w] = Idle
  /\ \E mode \in ReviewMode, answer \in SUBSET Raw :
       /\ Cardinality(answer) \in 1..AnswerLimit
       /\ Converts(answer)
       /\ \A c \in Parsed(answer) : Fresh(c)
       /\ run' = [run EXCEPT ![w] = Start(mode, Parsed(answer))]
  /\ UNCHANGED <<vars, judged, reviewer>>

-----------------------------------------------------------------------------
(* _apply_judge_filter *)

\* A label the code does not know counts as the best one.
Rank(label) ==
  CASE label = "unsupported" -> 0 [] label = "partially_supported" -> 1 [] OTHER -> 2

\* A threshold the code does not know lets everything through.
MinRank == IF MinLabel = "other" THEN 0 ELSE Rank(MinLabel)

Passes(label) == Rank(label) >= MinRank

\* One judgement for the whole answer; what it leaves out counts as supported.
Filter(w) ==
  /\ run[w].stage = "filter"
  /\ \E labels \in [run[w].left -> Label] :
       LET kept == {c \in run[w].left : Passes(labels[c])}
       IN  /\ judged' = [c \in CandidateId |-> IF c \in kept THEN labels[c] ELSE judged[c]]
           /\ run' = [run EXCEPT ![w].stage = "submit", ![w].left = kept]
  /\ UNCHANGED <<vars, reviewer>>

-----------------------------------------------------------------------------
(* submit_candidate_import for every candidate left *)

Submit(w) ==
  /\ run[w].stage = "submit"
  /\ \E c \in run[w].left :
       /\ Ledger!File({c})
       /\ run' = [run EXCEPT ![w].left = @ \ {c}, ![w].submitted = @ \cup {c}]
  /\ UNCHANGED <<graph, task, judged, reviewer>>

\* Only the modes without a person go on.
EndSubmit(w) ==
  /\ run[w].stage = "submit" /\ run[w].left = {}
  /\ run' = [run EXCEPT ![w] =
       IF @.mode \in {"auto", "llm"} /\ @.submitted # {}
       THEN [@ EXCEPT !.stage = "review", !.left = run[w].submitted, !.submitted = {}]
       ELSE NoRun]
  /\ UNCHANGED <<vars, judged, reviewer>>

-----------------------------------------------------------------------------
(* _apply_review_mode *)

\* The loop goes to its next item, or ends.
Onward(r) == IF r.left = {} THEN NoRun ELSE [r EXCEPT !.stage = "review", !.item = NoRow]

Take(r, c, stage) == [r EXCEPT !.stage = stage, !.left = @ \ {c}, !.item = c]

\* The limit-capability and the staffing-membership guard look at the row alone.
Omitted(c) == c \in Guarded

\* Mutant: the guards are asked only where the judge is in doubt.
StageAfterLateGuards(label, c) ==
  CASE label = "unsupported" -> "reject"
    [] label = "partially_supported" -> IF Omitted(c) THEN "reject" ELSE "review"
    [] OTHER -> "accept"

\* An unsupported candidate is rejected, a partially supported one left to a
\* person, and of the rest what a guard knows to omit is rejected.
StageAfter(label, c) ==
  CASE label = "unsupported" -> "reject"
    [] label = "partially_supported" -> "review"
    [] Omitted(c) -> "reject"
    [] OTHER -> "accept"

\* A judge that fails leaves the candidate pending.
Judge(w) ==
  /\ run[w].stage = "review" /\ run[w].mode = "llm"
  /\ \E c \in run[w].left :
       \/ /\ run' = [run EXCEPT ![w] = Onward(Take(@, c, "review"))]
          /\ UNCHANGED judged
       \/ \E label \in Label :
            /\ judged' = [judged EXCEPT ![c] = label]
            /\ run' = [run EXCEPT ![w] =
                 IF StageAfter(label, c) = "review" THEN Onward(Take(@, c, "review"))
                 ELSE Take(@, c, StageAfter(label, c))]
  /\ UNCHANGED <<vars, reviewer>>

\* auto mode and accept-all take every item, promote-all promotes it.
TakeNext(w) ==
  /\ run[w].stage = "review" /\ run[w].mode # "llm"
  /\ \E c \in run[w].left :
       run' = [run EXCEPT ![w] =
         Take(@, c, IF @.mode = "promote_all" THEN "promote" ELSE "accept")]
  /\ UNCHANGED <<vars, judged, reviewer>>

Reject(w) ==
  /\ run[w].stage = "reject"
  /\ Ledger!Decide(run[w].item, "rejected")
  /\ reviewer' = [reviewer EXCEPT ![run[w].item] = run[w].mode]
  /\ run' = [run EXCEPT ![w] = Onward(@)]
  /\ UNCHANGED <<graph, task, judged>>

\* accept-all stops at the verdict, the extraction promotes at once.
Accept(w) ==
  /\ run[w].stage = "accept"
  /\ Ledger!Decide(run[w].item, "recorded")
  /\ reviewer' = [reviewer EXCEPT ![run[w].item] = run[w].mode]
  /\ run' = [run EXCEPT ![w] =
       IF @.mode = "accept_all" THEN Onward(@) ELSE [@ EXCEPT !.stage = "promote"]]
  /\ UNCHANGED <<graph, task, judged>>

\* review_candidate raises, because somebody was faster, the candidate is
\* invalid or the database locked; or promote_candidate finds it promoted.
PassOver(w) ==
  /\ run[w].stage \in {"reject", "accept", "promote"}
  /\ run' = [run EXCEPT ![w] = Onward(@)]
  /\ UNCHANGED <<vars, judged, reviewer>>

BeginPromotion(w) ==
  /\ run[w].stage = "promote"
  /\ PromoteRead(w, run[w].item)
  /\ run' = [run EXCEPT ![w].stage = "promoting"]
  /\ UNCHANGED <<judged, reviewer>>

\* The call goes its way, and when it returns or raises the loop goes on.
Promoting(w) ==
  /\ run[w].stage = "promoting"
  /\ \/ PromoteCommit(w) \/ PromoteAdopt(w)
     \/ AdoptFiller(w) \/ AdoptInsert(w) \/ AdoptReturn(w)
     \/ Abandon(w)
  /\ run' = [run EXCEPT ![w] = IF task'[w] = Idle THEN Onward(@) ELSE @]
  /\ UNCHANGED <<judged, reviewer>>

-----------------------------------------------------------------------------
(* accept-all and promote-all list their items in one SELECT. *)

Batch(w) ==
  /\ run[w] = NoRun /\ task[w] = Idle
  /\ \E mode \in {"accept_all", "promote_all"} :
       LET status == IF mode = "accept_all" THEN "open" ELSE "recorded"
           listed == {c \in CandidateId : verdict[c] = status}
       IN  /\ listed # {}
           /\ run' = [run EXCEPT ![w] =
                [stage |-> "review", mode |-> mode, left |-> listed,
                 submitted |-> {}, item |-> NoRow]]
  /\ UNCHANGED <<vars, judged, reviewer>>

-----------------------------------------------------------------------------
(* The process dies, or submission or the filter's judge raises: what has been *)
(* submitted stays, without a review.                                          *)
Break(w) ==
  /\ run[w] # NoRun
  /\ \/ task[w] = Idle /\ UNCHANGED vars
     \/ Abandon(w)
  /\ run' = [run EXCEPT ![w] = NoRun]
  /\ UNCHANGED <<judged, reviewer>>

\* A person, or an import by another way, files a candidate; a person decides.
PersonReviews ==
  /\ \/ \E c \in CandidateId : Fresh(c) /\ Ledger!File({c}) /\ UNCHANGED reviewer
     \/ \E c \in CandidateId, v \in {"recorded", "rejected"} :
          /\ Ledger!Decide(c, v)
          /\ reviewer' = [reviewer EXCEPT ![c] = "person"]
  /\ UNCHANGED <<graph, task, run, judged>>

\* Single calls of a process that is in no loop.
SingleCall(w) ==
  /\ run[w] = NoRun
  /\ Step(w)
  /\ UNCHANGED <<run, judged, reviewer>>

PipelineStep(w) ==
  \/ Extract(w) \/ Filter(w) \/ Submit(w) \/ EndSubmit(w)
  \/ Judge(w) \/ TakeNext(w) \/ Reject(w) \/ Accept(w) \/ PassOver(w)
  \/ BeginPromotion(w) \/ Promoting(w)
  \/ Batch(w) \/ Break(w) \/ SingleCall(w)

PipelineNext == PersonReviews \/ \E w \in Worker : PipelineStep(w)

PipelineSpec == PipelineInit /\ [][PipelineNext]_pipeline

-----------------------------------------------------------------------------
(* Properties *)

\* What the judge, the filter's threshold and the guards ask of a candidate that
\* no person looks at under this mode.
Cleared(c, mode) ==
  /\ JudgeFilter => Passes(judged[c])
  /\ mode = "llm" =>
       judged[c] \notin {"none", "unsupported", "partially_supported"} /\ c \notin Guarded

\* Whatever is accepted without a person cleared every bar on its way: not rated
\* below the filter's threshold, and under llm neither left to a person nor
\* known to a guard, whoever else extracts, reviews, promotes or crashes.
AcceptedClearedBar ==
  \A c \in CandidateId :
    verdict[c] = "recorded" /\ reviewer[c] \in {"auto", "llm"} => Cleared(c, reviewer[c])

\* Plan 0058: review_mode llm auto-accepts only supported candidates.
OnlySupportedAccepted ==
  \A c \in CandidateId : verdict[c] = "recorded" /\ reviewer[c] = "llm" => judged[c] = "supported"

-----------------------------------------------------------------------------
(* The inductive invariant *)

Extracting(w) == run[w] # NoRun /\ run[w].mode \in ReviewMode

\* The extraction of w has still to deal with c.
InHand(c, w) ==
  /\ Extracting(w)
  /\ \/ c \in run[w].left \cup run[w].submitted
     \/ run[w].stage \in {"reject", "accept"} /\ c = run[w].item

\* A run files what is not filed, then reviews what is.
RunSound(w) ==
  LET r == run[w] IN
  r # NoRun =>
    /\ r.stage \in {"filter", "submit"} =>
         r.mode \in ReviewMode /\ \A c \in r.left : verdict[c] = "unfiled"
    /\ r.stage \notin {"filter", "submit"} =>
         r.submitted = {} /\ \A c \in r.left : verdict[c] # "unfiled"
    /\ r.stage = "filter" => r.submitted = {}
    /\ \A c \in r.submitted : verdict[c] # "unfiled"
    /\ r.stage \in {"reject", "accept", "promote", "promoting"} =>
         r.item \in CandidateId \ r.left /\ verdict[r.item] # "unfiled"

\* Two extractions never hold the same candidate, and none holds what was
\* accepted without a person: nobody judges it again.
Apart ==
  /\ \A v, w \in Worker : \A c \in CandidateId : InHand(c, v) /\ InHand(c, w) => v = w
  /\ \A w \in Worker : \A c \in CandidateId :
       InHand(c, w) => ~(verdict[c] = "recorded" /\ reviewer[c] \in {"auto", "llm"})

\* The labels that are still to be relied on.
Labelled ==
  \A w \in Worker : \A c \in CandidateId : InHand(c, w) =>
    /\ run[w].mode = "auto" /\ run[w].stage # "filter" => Cleared(c, "auto")
    /\ run[w].mode = "llm" /\ run[w].stage = "accept" /\ c = run[w].item => Cleared(c, "llm")

BarInv ==
  /\ verdict \in [CandidateId -> {"unfiled", "open", "recorded", "rejected"}]
  /\ run \in [Worker -> Run]
  /\ judged \in [CandidateId -> Label \cup {"none"}]
  /\ reviewer \in [CandidateId -> {"none", "person"} \cup ReviewMode \cup {"accept_all", "promote_all"}]
  /\ \A w \in Worker : RunSound(w)
  /\ Apart
  /\ Labelled
  /\ AcceptedClearedBar
=============================================================================
