\* One solid with its path and profile, or two and a pattern of one of them.
CONSTANTS
  Types <- Patterned
  Detail = 1
  Profiles <- OneSided
  Radii = {2, 4}
  MaxBends = 2
SPECIFICATION Spec
INVARIANTS
  AcceptedIsValid
  BendsAreMeasuredInwards
  PatternsJoinTheirSource
CHECK_DEADLOCK FALSE
