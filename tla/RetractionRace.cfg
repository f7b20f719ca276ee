SPECIFICATION Spec
CONSTANTS
  w1 = w1  w2 = w2  c1 = c1  c2 = c2  c3 = c3  low = low  high = high
  NoCandidate = NoCandidate  NoScore = NoScore
  Worker = {w1, w2}
  CandidateId = {c1}
  Score = {low}
  MaxHistory = 2
INVARIANTS RetractedIsFinal
