\* One upload at a time and no crash.
CONSTANTS
  Requests = {r1}
  Orders = {o1, o2, o3}
  InFlightLimit = 1
  PerDay = 2
  Window = 2
  StaffTargets = {}
  MostCrashes = 0
SPECIFICATION FairSpec
INVARIANTS
  LimitLifts
