\* One drawing, two workers, every interleaving of their requests with the reaper.
CONSTANTS
  draw = draw
  build = build
  AI = AI
  CAD = CAD
  v1 = v1
  hole = hole
  None = None
  Jobs = {draw}
  Workers = {w1, w2}
  MaxAttempts = 2
  LeaseSeconds = 2
  ClockLag = 1
  Horizon = 2
  Codes = {"BUILD_FAILED"}
  LeaseLost = "LEASE_LOST"
  AiDrawing = AI
  Needs <- MCNeeds
  Builds = {TRUE, FALSE}
  Reports <- MCReports
SPECIFICATION FairSpec
INVARIANTS
  RowsAreWhole
  NothingStranded
  EndsAreEarned
  DiagnosisAgreesWithClaim
PROPERTIES
  LiveLeaseIsHonoured
  EveryJobKeepsThePromise
  PausesEnd
  SilentFleetHoldsNothing
  PausedReadingContinues
