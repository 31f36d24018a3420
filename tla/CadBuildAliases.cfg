\* Four solids and a boolean.
CONSTANTS
  Types <- Combined
  Detail = 0
  Profiles <- OneSided
  Radii = {2, 4}
  MaxBends = 2
SPECIFICATION Spec
INVARIANTS
  MaterialKept
CHECK_DEADLOCK FALSE
