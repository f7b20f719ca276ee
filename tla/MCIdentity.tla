------------------------------ MODULE MCIdentity ------------------------------
(* Instances of Identity for the model checker. *)
EXTENDS Identity, TLC

CONSTANTS w1, w2, e1, e2, e3, ann, auto, r1, smith, jones

\* e1 and e2 are mentioned by the same name.
MCNameOf == [e \in EntityId |-> IF e = e3 THEN jones ELSE smith]

MCSymmetry == Permutations(Worker) \cup Permutations({e1, e2})
=============================================================================
