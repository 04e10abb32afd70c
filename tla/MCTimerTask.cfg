SPECIFICATION FairSpec
CONSTANTS
  t1 = t1  t2 = t2
  Task = {t1, t2}
  MaxFailures = 1
INVARIANTS TypeOK SingleChain ChainLives CancelledStops WaitingRunsOnceMore
PROPERTIES CancelledQuiesces
CHECK_DEADLOCK FALSE
