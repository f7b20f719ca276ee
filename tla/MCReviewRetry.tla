---------------------------- MODULE MCReviewRetry ----------------------------
(* A smaller instance for liveness and for the race of two appliers. *)
EXTENDS ReviewWorkflow, TLC

CONSTANTS w1, w2, c1, mixed, pk, novel

MCMode == [p \in Profile |-> "mixed"]
MCBaseAllowed == [p \in Profile |-> {}]
MCOverlayTarget == [p \in Profile |-> pk]
=============================================================================
