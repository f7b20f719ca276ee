SPECIFICATION Spec
CHECK_DEADLOCK FALSE
CONSTANTS
    Texts <- MCTexts
    TargetChars = 9
    OverlapChars = 3
    Drafts <- MCDrafts
    Names <- MCNames
    Blank = ""
    Shape <- MCShape
    LookAlike <- MCLookAlike
    Declared <- MCDeclared
    Lemmas <- MCLemmas
    NoVerb = "-"
    Canon <- MCCanon
    Sensed = {"hit-01", "lead-01"}
    Slots <- MCSlots
    Family <- MCFamily
    Constraint <- MCConstraint
    Types = {"Entity", "Agent", "Group", "Person", "Process"}
    Ancestors <- MCAncestors
    Entity = "Entity"
    AgentTypes = {"Agent"}
    ProcessTypes = {"Process"}
    RoleMaps <- MCRoleMaps
    Costs = {1, 4}
    Budget <- MCBudget
    BatchSize = 1
    Attempts = 2
INVARIANTS
    EventsAccountedFor
    SpendWithinBudget
    CostReported
    FillersEarnType
    DropsStayDropped
    ChunksCoverText
