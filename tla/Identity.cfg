SPECIFICATION QuerySpec
CONSTANTS
  w1 = w1  w2 = w2  e1 = e1  e2 = e2  e3 = e3  ann = ann  auto = auto  r1 = r1
  smith = smith  jones = jones
  NoRow = NoRow
  Worker = {w1, w2}
  EntityId = {e1, e2, e3}
  Name = {smith, jones}
  NameOf <- MCNameOf
  Actor = {ann}
  Resolver = auto
  Reference = {r1}
SYMMETRY MCSymmetry
CONSTRAINT MCBound
INVARIANTS CanonicalAnchored AutoMergesByName AnswersAddUp
PROPERTIES MembersForGood
