SPECIFICATION PipelineSpec
CONSTANTS
  w1 = w1  w2 = w2  c1 = c1  c2 = c2  e1 = e1  e2 = e2  T1 = T1  T2 = T2
  rel = rel  legacyRel = legacyRel  source = source  legacySource = legacySource
  NoAlias = NoAlias  NoEntity = NoEntity  NoType = NoType  NoRow = NoRow
  Worker = {w1}
  CandidateId = {c1, c2}
  EntityId = {e1, e2}
  EntityType = {T1, T2}
  Predicate = {rel, legacyRel}
  Role = {source, legacySource}
  RoleRank <- MCRoleRank
  RoleAlias <- MCRoleAlias
  PredicateAlias <- MCPredicateAlias
  Payload <- MCExtracted
  unparseable = unparseable  roleless = roleless  inconvertible = inconvertible
  Unparseable = {unparseable}
  Roleless = {roleless}
  Inconvertible = {inconvertible}
  AnswerLimit = 2
  Guarded = {c1}
  JudgeFilter = TRUE
  MinLabel = "partially_supported"
INVARIANTS OnlySupportedAccepted
CHECK_DEADLOCK FALSE
