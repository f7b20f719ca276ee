SPECIFICATION FairSpec
CONSTANTS
  w1 = w1  w2 = w2  c1 = c1  mixed = mixed  pk = pk  novel = novel
  NoPack = NoPack  NoRow = NoRow
  Worker = {w1, w2}
  CandidateId = {c1}
  Profile = {mixed}
  Predicate = {novel}
  Pack = {pk}
  Mode <- MCMode
  BaseAllowed <- MCBaseAllowed
  OverlayTarget <- MCOverlayTarget
  PermissiveReview = TRUE
PROPERTIES PendingGetsApplied
