\* Every ledger of up to four events under two versions of a profile; and two
\* callers that save snapshots of breakdowns calculated before or after an event.
\* Everything saved, it stops.
CONSTANTS
  Callers = {c1, c2}
  Offered <- Versions
  Measurable <- Ledger
  MostEvents = 4
  MostWatched = 1
  MostDrafts = 3
SYMMETRY Interchangeable
SPECIFICATION CostSpec
INVARIANTS
  BilledOnce
  PriceIsTheLeast
PROPERTIES
  FinalPriceStands
CHECK_DEADLOCK FALSE
