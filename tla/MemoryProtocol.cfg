\* Two jobs and two workers on the dictionary the tests run on.
CONSTANTS
  draw = draw
  build = build
  AI = AI
  CAD = CAD
  v1 = v1
  hole = hole
  None = None
  Jobs = {draw, build}
  Workers = {w1, w2}
  MaxAttempts = 2
  LeaseSeconds = 2
  ClockLag = 1
  Horizon = 2
  Codes = {"BUILD_FAILED"}
  LeaseLost = "LEASE_LOST"
  AiDrawing = AI
  Needs <- MCNeeds
  Builds = {TRUE}
  Reports <- MCReports
SPECIFICATION MemFairSpec
INVARIANTS
  SilenceIsAvailability
PROPERTIES
  MemKeepsThePromise
  SpentJobsEnd
