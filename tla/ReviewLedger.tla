----------------------------- MODULE ReviewLedger -----------------------------
(***************************************************************************)
(* What the review workflow promises, with nothing said about processes,   *)
(* transactions or files.  Items are filed once, each receives at most one *)
(* verdict, only an item granted publication is ever published, and only a *)
(* published item is ever settled.  Nothing is retracted.                  *)
(***************************************************************************)
CONSTANT Item

VARIABLES
  verdict,    \* verdict[i]: what has been decided about item i
  published,  \* items whose effect is visible to later validations
  settled     \* items whose publication has been acknowledged

ledger == <<verdict, published, settled>>

Verdict == {"rejected", "recorded", "granted"}

LedgerTypeOK ==
  /\ verdict \in [Item -> {"unfiled", "open"} \cup Verdict]
  /\ published \subseteq Item
  /\ settled \subseteq Item

Init ==
  /\ verdict = [i \in Item |-> "unfiled"]
  /\ published = {}
  /\ settled = {}

File(new) ==
  /\ \A i \in new : verdict[i] = "unfiled"
  /\ verdict' = [i \in Item |-> IF i \in new THEN "open" ELSE verdict[i]]
  /\ UNCHANGED <<published, settled>>

Decide(i, v) ==
  /\ verdict[i] = "open"
  /\ verdict' = [verdict EXCEPT ![i] = v]
  /\ UNCHANGED <<published, settled>>

Publish(i) ==
  /\ verdict[i] = "granted"
  /\ published' = published \cup {i}
  /\ UNCHANGED <<verdict, settled>>

Settle(i) ==
  /\ i \in published
  /\ settled' = settled \cup {i}
  /\ UNCHANGED <<verdict, published>>

Next ==
  \/ \E new \in SUBSET Item : File(new)
  \/ \E i \in Item, v \in Verdict : Decide(i, v)
  \/ \E i \in Item : Publish(i) \/ Settle(i)

Spec == Init /\ [][Next]_ledger
=============================================================================
