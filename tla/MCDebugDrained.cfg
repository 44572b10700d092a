CONSTANTS
  Producer = {p1}
  Writer = writer
  Host = host
  Capacity = 2
  EpochValues = 4
  MaxEvents = 2
SPECIFICATION Spec
INVARIANT StopDrains
CHECK_DEADLOCK FALSE
