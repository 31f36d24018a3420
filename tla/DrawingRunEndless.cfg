\* A first upload, one machine, a CLI that always answers.
CONSTANTS
  MaxAttempts = 2
  MaxRunsPerOrder = 10
  MaxRepairRuns = 3
  MaxCompileRepairs = 3
  MaxBuildRepairs = 2
  CodexFailures = {}
  Rounds <- MCFirstRounds
  Machine = here
  Others = {}
  None = None
SPECIFICATION FairSpec
PROPERTIES
  WaitingJobsEnd
CHECK_DEADLOCK FALSE
