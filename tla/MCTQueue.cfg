CONSTANTS
  Item <- MCItem
  MinCapacity = 1
  CapacityLimit = 3
  GrowthPolicy <- MCGrowth
  Requests = {1, 3}
  Batches <- MCBatches
  Counts = {1, 2}
  AllocationMayFail = TRUE
SPECIFICATION FairSpec
INVARIANTS QueueIsSound NoSharedWrite AcceptedItemsArrive
PROPERTIES IsFifoChannel PublishedIsAccepted
