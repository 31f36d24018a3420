\* Two workers, two kinds, two runs; a body may arrive after the lease it was accepted under.
CONSTANTS
  Workers = {w1, w2}
  None = None
  Kinds = {STEP, STL}
  MaxSilences = 2
  MaxRuns = 2
SPECIFICATION DeliverySpec
INVARIANTS
  RowsDescribeFiles
SYMMETRY Symmetry
CHECK_DEADLOCK FALSE
