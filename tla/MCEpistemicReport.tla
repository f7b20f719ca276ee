-------------------------- MODULE MCEpistemicReport --------------------------
(* Epistemic and its report for the model checker. *)
EXTENDS EpistemicReport, MCEpistemic

CONSTANTS A, B

Said(agent, place) ==
  [predicate |-> "rel",
   roles |-> [r \in {"agent", "place"} |->
                <<[kind |-> "entity", filler |-> IF r = "agent" THEN agent ELSE place]>>]]

\* What is said twice, what contradicts it in one role, what shares nothing
\* with it, and what has no roles.
MCBodies ==
  [CandidateId -> {Said(A, A), Said(A, B), Said(B, B), [predicate |-> "rel", roles |-> NoRoles]}]

\* Assessments are looked at by nothing else: they are followed as long as
\* nothing is promoted.
AssessedBeforePromotion == promoted = {} \/ \A c \in CandidateId : confidence[c] = NoScore
=============================================================================
