\* Answers to questions delivered beside a model, and changes asked of an order
\* without a drawing.
CONSTANTS
  upload = upload
  j1 = j1
  j2 = j2
  A = A
  B = B
  None = None
  First = upload
  RoundLimit = 2
  Jobs = {upload, j1, j2}
  Bodies = {A, B}
  Settings <- GentleOrManual
SPECIFICATION FairSpec
INVARIANTS
  NoPartIsUnseen
PROPERTIES
  EveryUnreviewedReadyEnds
CHECK_DEADLOCK FALSE
