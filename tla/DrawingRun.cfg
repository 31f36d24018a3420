\* The code's bounds on repairs, two attempts, another machine.
CONSTANTS
  MaxAttempts = 2
  MaxRunsPerOrder = 10
  MaxRepairRuns = 3
  MaxCompileRepairs = 3
  MaxBuildRepairs = 2
  CodexFailures = {"CODEX_CAPACITY_LIMIT", "CODEX_TIMEOUT"}
  Rounds <- MCRounds
  Machine = here
  Others = {elsewhere}
  None = None
SPECIFICATION FairSpec
INVARIANTS
  DeliveredModelWasEarned
  CallsAreBounded
  RoundIsHeeded
PROPERTIES
  HoldsEnd
CHECK_DEADLOCK FALSE
