CONSTANTS
  Item = {a, b}
  MinCapacity = 2
  MaxCapacity = 4
  NextPower <- MCNextPower
  Requests = {1, 3}
  Batch = 3
  Element = {v, w, x, y, z}
  Empty = Empty
  OwningMaxCapacity = 4
  OwningRequests = {1, 3}
  And <- MCAnd
  MaxVersion = 6
  Capacity = 2
  RingThreads = {t1, t2, t3}
  RingPayloads = {0, 1}
  WordValues = 8
  StartFull = FALSE
  Origin = 6
  Operations = 5
  Producers = {p1, p2}
  Consumers = {c1, c2}
  Closer = closer
  MayShutdown = TRUE
SPECIFICATION FairSpec
INVARIANTS NoSharedSlot IndicesValid ElementsAreKept SlotsHaveOneOwner
PROPERTIES IsBoundedFifo DeliveriesAreInOrder ClosingCompletes
