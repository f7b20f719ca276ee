SPECIFICATION FairExportSpec
CONSTANTS
  w1 = w1  w2 = w2  c1 = c1  c2 = c2  e1 = e1  e2 = e2  T1 = T1
  rel = rel  legacyRel = legacyRel  otherRel = otherRel
  agent = agent  target = target  arg0 = arg0  arg1 = arg1
  NoAlias = NoAlias  NoEntity = NoEntity  NoType = NoType  NoRow = NoRow
  Worker = {w1, w2}
  CandidateId = {c1, c2}
  EntityId = {e1, e2}
  EntityType = {T1}
  Predicate = {rel, legacyRel, otherRel}
  Role = {agent, target, arg0, arg1}
  ARG0 = arg0
  ARG1 = arg1
  RoleRank <- MCRoleRank
  RoleAlias <- MCRoleAlias
  PredicateAlias <- MCPredicateAlias
  Payload <- MCPayload
INVARIANTS ExportIsGraph
PROPERTIES RepairPrevails
CHECK_DEADLOCK FALSE
