\* What the page shows when it has stopped asking.
CONSTANTS
  upload = upload
  j1 = j1
  j2 = j2
  A = A
  B = B
  None = None
  First = upload
  RoundLimit = 1
  Jobs = {upload, j1}
  Bodies = {A}
  Settings <- QuietOrGentle
  MaxTokens <- FewerWhenBusy
SPECIFICATION StudioSpec
PROPERTIES
  EndsShownAreEnds
CHECK_DEADLOCK FALSE
