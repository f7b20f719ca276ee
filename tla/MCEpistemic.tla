----------------------------- MODULE MCEpistemic -----------------------------
(* Instances of Epistemic for the model checker. *)
EXTENDS Epistemic, TLC

CONSTANTS w1, w2, c1, c2, c3, low, high

MCSymmetry == Permutations(CandidateId)
=============================================================================
