SPECIFICATION Spec
CHECK_DEADLOCK FALSE
CONSTANTS
    Processes = {p1, p2}
    OldIds = {"old1", "old2"}
    NewIds = {"new"}
    OldStatus <- MCOldStatus
    Verdict <- MCVerdict
    OldTables <- MCOldTables
    Nobody = nobody
    Artifacts = {a1, a2}
    ArtifactKinds = {"source", "derived_dataset"}
    Supports <- MCSupports
    Relationships = {"derived_from"}
    Details = {"p. 1", "p. 2"}
    Cited = {"new"}
SYMMETRY Symmetric
INVARIANTS
    ReadyOnWholeTable
    StatusSurvives
    OldRowsMarked
    LinksHold
    ReportSound
