\* One attempt on one machine.
CONSTANTS
  Attempts = 1
  Workers = {w1}
  Repairs = 1
  BatchSize = 5
  Tries = 2
  Backlog = 2
SPECIFICATION Spec
INVARIANTS
  HoldersAreBooked
  ShippingNeverThrows
CHECK_DEADLOCK FALSE
