\* Two machines over one drawing and its two attempts.
CONSTANTS
  None = None
  Jobs = {"draw"}
  Drawings = {"draw"}
  Workers = {w1, w2}
  MaxAttempts = 2
  LeaseSeconds = 1
  Horizon = 1
  LeaseLost = "LEASE_LOST"
  AiDrawing = "AI_DRAWING"
  Version = "1.12"
  MostOutages = 2
  MostFaults = 1
  MostEnrolments = 2
SPECIFICATION FairSpec
INVARIANTS
  AbsenceIsToldOnce
  LostMeansSilent
PROPERTIES
  DrawingsAreTaken
