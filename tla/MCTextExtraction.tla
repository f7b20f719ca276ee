--------------------------- MODULE MCTextExtraction ---------------------------
(* The promoted graph with extractors, batch commands and people in front. *)
EXTENDS TextExtraction, MCGraphPromotion

CONSTANTS c2, unparseable, roleless, inconvertible

\* c1 merges the fillers of two roles, one of them a value.  c2 gives e1 two
\* types: it is rolled back half way if it is the first to mention e1, and
\* goes through once c1 has stored e1 without a type.
Extracted ==
  (c1 :> [predicate |-> legacyRel,
          slots |-> {Filler(legacySource, 0, e1, NoType), Filler(source, 0, e2, T1),
                     Filler(source, 1, NoEntity, NoType)}]) @@
  (c2 :> [predicate |-> rel,
          slots |-> {Filler(source, 0, e1, T1), Filler(source, 1, e1, T2)}])

MCExtracted == [c \in CandidateId |-> Extracted[c]]

\* The processes run the same code.
Processes == Permutations(Worker)
=============================================================================
