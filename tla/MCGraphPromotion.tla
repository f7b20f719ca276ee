--------------------------- MODULE MCGraphPromotion ---------------------------
(* Instances of GraphPromotion for the model checker. *)
EXTENDS GraphPromotion, TLC

CONSTANTS w1, w2, c1, e1, e2, T1, T2, rel, legacyRel, source, legacySource

\* The legacy identifiers are aliases; they sort before the canonical ones, so
\* that merging moves the fillers of both.
MCRoleRank == (legacySource :> 1) @@ (source :> 2)
MCRoleAlias == [r \in Role |-> source]
MCPredicateAlias == [p \in Predicate |-> rel]

Filler(r, i, e, t) == [role |-> r, index |-> i, entity |-> e, etype |-> t]
=============================================================================
