CONSTANTS
  Producer = {p1, p2}
  Writer = writer
  Host = host
  Capacity = 2
  EpochValues = 4
  MaxEvents = 2
SPECIFICATION FairSpec
INVARIANTS NoSleepWithEvents AcceptedAreWritten
PROPERTY EventsAndStopsComplete
CHECK_DEADLOCK FALSE
