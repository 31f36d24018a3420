\* Up to three features of every type and a fourth that refers to them; short
\* documents vary in everything.  A run that has answered stops.
CONSTANTS
  Types <- Three
  Detail = 2
  Profiles <- OneSided
  Radii = {2, 3, 4}
  MaxBends = 2
SPECIFICATION Spec
INVARIANTS
  MaterialIsKept
  NamedBodiesGetTheirPatterns
  AcceptedFailsWhereKnown
  CompletedIsMeasured
  CentredBendsAreMeasured
CHECK_DEADLOCK FALSE
