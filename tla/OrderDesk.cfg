\* The service used gently, without review, without a drawing, and in rough ways.
CONSTANTS
  upload = upload
  j1 = j1
  j2 = j2
  A = A
  B = B
  None = None
  First = upload
  RoundLimit = 2
  Jobs = {upload, j1, j2}
  Bodies = {A, B}
  Settings <- EveryUse
SPECIFICATION FairSpec
INVARIANTS
  HeldOrderHasModel
  ReleasedIsWhatWasSeen
  RoundsPointAtQueuedJobs
PROPERTIES
  AnEndIsAnEnd
  UnreviewedReadyEnds
CHECK_DEADLOCK FALSE
