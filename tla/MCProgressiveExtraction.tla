---------------------- MODULE MCProgressiveExtraction ----------------------
(* A small newsroom: two agents of nearly the same name, a pronoun, a        *)
(* phrase that may or may not be an anaphor, verbs of one and two senses.    *)
EXTENDS ProgressiveExtraction

Raw(verb, a, b) == [verb |-> verb, parts |-> <<a, b>>]
Part(proto, n, t) == [proto |-> proto, name |-> n, coarse |-> t]

MCTexts == {<<4, 3>>, <<4, 1, 5>>}
MCDrafts ==
    {<<>>,
     <<Raw("hit", Part("Agent", "Iran", "Agent"), Part("Theme", "it", "Process")),
       Raw(NoVerb, Part("Agent", "Iran", "Agent"), Part("Theme", "it", "Agent"))>>,
     <<Raw("lead", Part("Agent", "Iran", "Agent"), Part("Theme", "the group", "Process"))>>,
     <<[verb |-> "hit", parts |-> <<Part("Agent", "IRGC", "Agent"), Part("Agent", "the group", "Agent"),
                                    Part("Agent", "Iran", "Agent")>>],
       Raw("zap", Part("Agent", "it", "Agent"), Part("source_entity", Blank, "Agent"))>>}

MCNames == {"Iran", "IRGC", "it", "the group"}
MCShape == [n \in MCNames |-> IF n = "it" THEN {"pronoun"}
                              ELSE IF n = "the group" THEN {"article"} ELSE {}]
MCLookAlike == {{"Iran", "IRGC"}}
MCDeclared == <<>>
MCLemmas == [v \in {"hit", "lead", "zap"} |-> IF v = "hit" THEN <<"hitt", "hit">> ELSE <<v>>]
MCCanon == [l \in {"hit", "hitt", "lead", "zap"} |->
              IF l = "hit" THEN <<"hit-01">>
              ELSE IF l = "lead" THEN <<"lead-01", "lead-02">> ELSE <<>>]
MCSlots == [p \in {"hit-01", "lead-01", "lead-02"} |->
              IF p = "hit-01" THEN <<"Theme", "Operator">> ELSE <<"Leader">>]
MCFamily == [p \in {"Agent", "Theme", "source_entity"} |->
              IF p = "Agent" THEN {"Operator", "Leader"} ELSE {}]
MCConstraint == [p \in {"hit-01", "lead-01", "lead-02"} |->
              IF p = "hit-01" THEN [r \in {"Operator"} |-> "Group"] ELSE <<>>]
MCAncestors == [t \in {"Entity", "Agent", "Group", "Person", "Process"} |->
              CASE t = "Entity" -> {}
                [] t \in {"Agent", "Process"} -> {"Entity"}
                [] OTHER -> {"Agent", "Entity"}]
MCRoleMaps == {<<>>, <<[role |-> "Leader", name |-> "IRGC"], [role |-> "Led", name |-> "the group"]>>,
               <<[role |-> "Leader", name |-> "Iran"], [role |-> "Led", name |-> Blank]>>}
MCBudget == <<4, 3, 3, 2>>
=============================================================================
