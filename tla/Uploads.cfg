\* Two uploads at once, three orders and a day of two ticks.
CONSTANTS
  Requests = {r1, r2}
  Orders = {o1, o2, o3}
  InFlightLimit = 1
  PerDay = 2
  Window = 2
  StaffTargets = {"QUEUED_FOR_CAD"}
  MostCrashes = 1
SPECIFICATION FairSpec
INVARIANTS
  QuotaIsShared
  RawFilesAreDiscarded
PROPERTIES
  NobodyIsShutOut
