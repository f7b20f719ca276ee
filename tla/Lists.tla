--------------------------------- MODULE Lists ---------------------------------
(***************************************************************************)
(* Sequences as the modules of this project thin them: with sets of        *)
(* positions where Sequences recurses, so that the result can be reasoned  *)
(* about.                                                                  *)
(***************************************************************************)
EXTENDS Naturals, Sequences, FiniteSets, SequencesExt

\* The elements of s at the positions in keep, in their order.
Thin(s, keep) ==
    [j \in 1..Cardinality(keep) |->
        s[CHOOSE k \in keep : Cardinality({i \in keep : i <= k}) = j]]

\* The elements of s that pass a test: SelectSeq.
Only(s, test(_)) == Thin(s, {k \in DOMAIN s : test(s[k])})
================================================================================
