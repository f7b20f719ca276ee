--------------------------- MODULE MCReviewWorkflow ---------------------------
(* Instances of GovernedSubmission for the model checker. *)
EXTENDS GovernedSubmission, TLC

CONSTANTS w1, w2, c1, c2, mixed, closed, open, pk, rel, ship, agent, place, Unit, Org, Site, legacyRel

Edge(r, required, max) ==
  [predicate |-> rel, role |-> r, required |-> required, count |-> [min |-> 0, max |-> max]]

\* A pack of one predicate that links an organization to a place.  The second
\* predicate is declared by nobody.
MCPackFile ==
  (pk :> [predicates |-> {[id |-> rel, status |-> "active"]},
          roles |-> {agent, place},
          aliases |-> {[alias |-> legacyRel, canonical |-> rel]},
          mappings |-> {},
          edges |-> <<Edge(agent, TRUE, {1}), Edge(place, FALSE, {})>>,
          constraints |->
            <<[kind |-> "entity_type", predicate |-> rel, role |-> agent, expects |-> Org],
              [kind |-> "value_kind", predicate |-> rel, role |-> place, expects |-> "code"]>>,
          hierarchy |-> {[edge |-> "subtype_of", child |-> Unit, parent |-> Org]}])

MCLookupKey == [n \in {rel, legacyRel, agent, place} |-> n]

\* A rule of the mixed profile's own for the predicate that is not declared.
PlaceRule ==
  [allowed |-> {}, required |-> {place}, cardinality |-> <<>>, types |-> <<>>, kinds |-> <<>>]

File(mode) ==
  [mode |-> mode, pack |-> {pk}, proposals |-> TRUE, allowed |-> {},
   rules |-> <<>>, adapter |-> "ontology_pack", typePolicy |-> "hierarchical",
   overrides |-> {}, severity |-> ("unknown_predicate" :> "hard")]

\* A mixed and a closed profile share the pack and its overlay; the mixed one is
\* lenient about types and value kinds.  The open one has no pack and lets a
\* statement without roles pass for review.
MCProfileFile ==
  (mixed :> [File("mixed") EXCEPT !.rules = (ship :> PlaceRule),
               !.severity = [code \in {"unknown_predicate", "role_type_violation",
                             "role_value_kind_violation"} |-> "soft"]]) @@
  (closed :> File("closed")) @@
  (open :> [File("open") EXCEPT !.pack = {}, !.proposals = FALSE, !.adapter = "null",
              !.typePolicy = "skip", !.severity = ("missing_roles" :> "soft")])

MCMode == [p \in Profile |-> MCProfileFile[p].mode]
MCBaseAllowed == [p \in Profile |-> IF p = open THEN Predicate ELSE {rel}]
MCOverlayTarget == (mixed :> pk) @@ (closed :> pk) @@ (open :> NoPack)

Entity(t) == [kind |-> "entity", id |-> "canonical", type |-> t]

\* What is declared: well formed, with a site for an agent and a text for a
\* place, and with one agent too many; what is not declared; and a statement without roles.
MCPayload ==
  {[predicate |-> rel, roles |-> (agent :> <<Entity(Unit)>>)],
   [predicate |-> rel, roles |-> (agent :> <<Entity(Site)>>) @@
      (place :> <<[kind |-> "value", type |-> "text"]>>)],
   [predicate |-> rel, roles |-> (agent :> <<Entity(Unit), Entity(Org)>>) @@
      (place :> <<[kind |-> "value", type |-> "code"]>>)],
   [predicate |-> ship, roles |-> (agent :> <<Entity(Unit)>>)],
   [predicate |-> ship, roles |-> <<>>]}

MCSymmetry == Permutations(Worker) \cup Permutations(CandidateId)

-----------------------------------------------------------------------------
\* Going up level by level finds the types that no set closed under parents can
\* do without, in every hierarchy over the types, circles and all.
ASSUME AncestorsAreClosure ==
  \A parents \in [EntityType -> SUBSET EntityType], t \in EntityType :
    Ancestors(parents, t) =
      {u \in EntityType : \A S \in SUBSET EntityType :
         t \in S /\ (\A v \in S : parents[v] \subseteq S) => u \in S}
=============================================================================
