\* One-way bulk at a rung that climbs above BURST_MIN_RUNG and falls again; every
\* fragment stays within its air time.
SPECIFICATION Spec
CONSTANTS
  A = A
  B = B
  c1 = c1
  i1 = i1
  d1 = d1
  d2 = d2
  j1 = j1
  e1 = e1
  None = None
  Messages = {d1, d2}
  From <- MCFrom
  QosOf <- MCQosOf
  Size <- MCSize
  ChunkCaps = {1}
  MaxMsgs = 2
  PoolSlots = 4
  DeliveredMax = 2
  MsgMax = 3
  Rungs = {0, 1}
  FragSize <- MCFragSize
  FragMax <- MCFragMax
  BurstWindow = 2
  MaxFrags = 3
  AsmMax = 4
  CapsStations = {}
  CapsTries = 2
  Rare = {}
  RareMax = 0
INVARIANTS
  Intact
CHECK_DEADLOCK FALSE
