CONSTANTS
  Threads = {t1, t2}
  Owner = owner
  Strangers = {stranger}
  None = none
  Released = 3
  Generations = 2
  MaxGranted = 2
  MaxLifetimes = 2
  MaxChanges = 2
  MaxStarts = 3
  MaxIncidents = 2
SPECIFICATION Spec
INVARIANT ClosingStopsNothing
CHECK_DEADLOCK FALSE
