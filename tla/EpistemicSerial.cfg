SPECIFICATION ReportSpec
CONSTANTS
  w1 = w1  w2 = w2  c1 = c1  c2 = c2  c3 = c3  low = low  high = high  A = A  B = B
  NoCandidate = NoCandidate  NoScore = NoScore  NoRoles = NoRoles
  Worker = {w1}
  CandidateId = {c1, c2, c3}
  Score = {low}
  MaxHistory = 2
  Bodies <- MCBodies
SYMMETRY MCSymmetry
INVARIANTS
  NoSupersessionCycle HistoryIsWalk RelatedStoodTogether
PROPERTIES
  TerminalStaysTerminal
CONSTRAINT AssessedBeforePromotion
