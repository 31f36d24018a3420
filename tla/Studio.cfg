\* A customer's page, another of its tabs, and the order desk, busy or quiet.
CONSTANTS
  upload = upload
  j1 = j1
  j2 = j2
  A = A
  B = B
  None = None
  First = upload
  RoundLimit = 1
  Jobs = {upload, j1}
  Bodies = {A}
  Settings <- QuietOrGentle
  MaxTokens <- FewerWhenBusy
SPECIFICATION StudioSpec
INVARIANTS
  AWriteAloneGetsThrough
PROPERTIES
  ThePageKeepsUp
CHECK_DEADLOCK FALSE
