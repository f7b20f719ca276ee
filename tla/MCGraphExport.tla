---------------------------- MODULE MCGraphExport ----------------------------
(* The promoted graph with an export reading along. *)
EXTENDS GraphExport, TLC

CONSTANTS w1, w2, c1, c2, e1, e2, T1, rel, legacyRel, otherRel, agent, target, arg0, arg1

\* Upper case sorts first.
MCRoleRank == (arg0 :> 1) @@ (arg1 :> 2) @@ (agent :> 3) @@ (target :> 4)
MCRoleAlias == (arg0 :> arg0) @@ (arg1 :> arg1) @@ (agent :> arg0) @@ (target :> arg1)
MCPredicateAlias == [p \in Predicate |-> IF p = otherRel THEN NoAlias ELSE rel]

Filler(r, i, e, t) == [role |-> r, index |-> i, entity |-> e, etype |-> t]

\* c1 merges a legacy role behind a value of the canonical one, renames the
\* other, and has an entity in neither ARG0 nor ARG1 before that.  c2 has a value
\* only, and a predicate the pack has no alias for.
MCPayload ==
  (c1 :> [predicate |-> legacyRel,
          slots |-> {Filler(arg0, 0, NoEntity, NoType), Filler(agent, 0, e1, T1),
                     Filler(target, 0, e2, NoType)}]) @@
  (c2 :> [predicate |-> otherRel, slots |-> {Filler(arg0, 0, NoEntity, NoType)}])
=============================================================================
