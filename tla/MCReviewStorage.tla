--------------------------- MODULE MCReviewStorage --------------------------
(* A database without the table, one of the first phase, one of that phase   *)
(* whose sources have a kind, one of today.                                  *)
EXTENDS ReviewStorage, TLC

MCOldTables == {{}, {"candidate_status"}, {"candidate_status", "source_kind"}, Created}
MCOldStatus == [i \in OldIds |-> IF i = "old1" THEN "invalid" ELSE "pending"]
MCVerdict == [i \in NewIds |-> "invalid"]
MCSupports == [s \in {"quoted_from", "supported_by_dataset"} |->
                IF s = "quoted_from" THEN "source" ELSE "derived_dataset"]
Symmetric == Permutations(Processes) \cup Permutations(Artifacts)
=============================================================================
