CONSTANTS
  SlotPayloads = {2, 3, 4}
  SlotLimit = 3
  UnsortedLimit = 4
  DeepHeight = 5
  DeepSteps = 2
  CapacityLimit = 4
  Payloads = {1, 2, 3, 4}
  Vacant = 0
  KeyOf <- MCKeyOf
  Growth <- MCGrowth
  MinimumSlots = 2
  Objects = {1, 2}
  PodLimit = 4
  PodKeys = {1, 2, 3}
  VectorLimit = 4
  FifoLimit = 4
  BufferLimit = 4
  FifoNumbers = 5
  VectorItems <- MCItems
  BufferTexts <- MCTexts
  Strings <- MCStrings
  BlockGrowth <- MCBlockGrowth
  TextGrowth <- MCTextGrowth
  Allocations = 6
  BlockAligns = {0, 2, 3}
  RectWidth = 3
  RectRows = 2
  RectBytes = 8
  InstanceOwners = {"a", "b", "c"}
  InstanceObjects = 4
SPECIFICATION AllSpec
INVARIANTS SwapInsertKeepsElements
CHECK_DEADLOCK FALSE
