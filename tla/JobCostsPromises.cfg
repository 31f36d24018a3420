\* A draft begun before a finalisation and written after it, and a profile whose
\* step is finer than a hundredth, which a price is shown in.
CONSTANTS
  Callers = {c1, c2}
  Offered <- Fine
  Measurable <- Short
  MostEvents = 1
  MostWatched = 1
  MostDrafts = 2
SPECIFICATION CostSpec
INVARIANTS
  FinalIsAlone
  EveryPriceIsTheLeast
CHECK_DEADLOCK FALSE
