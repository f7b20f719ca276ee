SPECIFICATION GovernedSpec
CONSTANTS
  w1 = w1  w2 = w2  c1 = c1  c2 = c2
  mixed = mixed  closed = closed  open = open
  pk = pk  rel = rel  ship = ship  agent = agent  place = place
  Unit = Unit  Org = Org  Site = Site  legacyRel = legacyRel
  NoPack = NoPack  NoRow = NoRow  NoPayload = NoPayload
  Unnamed = Unnamed  Untyped = Untyped  Unkinded = Unkinded
  Worker = {w1, w2}
  CandidateId = {c1, c2}
  Profile = {mixed, closed, open}
  Predicate = {rel, ship}
  Pack = {pk}
  EntityType = {Unit, Org, Site}
  PackFile <- MCPackFile
  ProfileFile <- MCProfileFile
  LookupKey <- MCLookupKey
  Payload <- MCPayload
  Mode <- MCMode
  BaseAllowed <- MCBaseAllowed
  OverlayTarget <- MCOverlayTarget
  PermissiveReview = FALSE
SYMMETRY MCSymmetry
INVARIANTS
  ReviewsAgree NoInvalidAccepted OverlayGoverned AppliedIsWritten
  ProposalsGrounded NoUngovernedPredicate StatusStillHolds
PROPERTIES
  ImplementsCandidateLedger ImplementsProposalLedger
