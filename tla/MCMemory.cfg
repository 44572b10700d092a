CONSTANTS
  t1 = t1
  t2 = t2
  c1 = c1
  c2 = c2
  c3 = c3
  None = None
  Tokens = {t1, t2}
  TokenContexts = {c1, c2, c3}
  Contexts = {h1, h2, e1, alien}
  Components = {host, exec}
  ModuleOf <- MCModuleOf
  Types <- MCTypes
  LocalTypes = {L1}
  NestedTypes = {S1}
  Known = {S1, L1}
  Setups <- MCSetups
  Views <- MCViews
  MessageTypes = {S1, L1}
  SizeOf <- MCSizeOf
  Shared = {h1, h2}
  Homes = {c1, c2}
  AllocatorOf <- MCAllocatorOf
  BufferLogs = {0, 1}
  Counts <- MCCounts
  TotalCount = 3
  Unzeroed = {1}
  Failures = {0, 3}
  Blocks = {1, 2, 3, 4, 5, 6, 7, 8}
  Alignment = 2
  MinDirectory = 2
  Threads = {1, 2}
  Accounts = {"x", "y"}
  Sizes = {1, 2}
  CountCeiling = 2
  BytesCeiling = 3
  Own = 2
  MaxRequired = 254
  Limits = {120, 255}
  Stepping = 16
  MinCapacity = 8
  ByteCeiling = 128
  WordSize = 256
  Addresses = {4, 6, 7, 8, 12, 16}
  MaxElements = 4
  Strides = {1, 4, 6, 8}
  Requests = {0, 2, 6, 16}
  StorageEnd = 40
  host = host
  exec = exec
  h1 = h1
  h2 = h2
  e1 = e1
  alien = alien
  S1 = S1
  S2 = S2
  L1 = L1
  Ceiling = 2
  Cells = 2
  Room = 2
  Values = 2
SPECIFICATION MemorySpec
INVARIANTS AccountsAgree SizesAreSound OwnersAreAccountedFor TransitIsSafe
PROPERTIES TokensAreSound
SYMMETRY Interchangeable
CHECK_DEADLOCK FALSE
