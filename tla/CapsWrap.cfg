\* Stop-and-wait with the handshake, traffic both ways.
SPECIFICATION Spec
CONSTANTS
  A = A
  B = B
  c1 = c1
  i1 = i1
  d1 = d1
  d2 = d2
  j1 = j1
  e1 = e1
  None = None
  Messages <- MCTwoWayBulk
  From <- MCFrom
  QosOf <- MCQosOf
  Size <- MCSize
  ChunkCaps = {1}
  MaxMsgs = 2
  PoolSlots = 4
  DeliveredMax = 2
  MsgMax = 3
  Rungs = {1}
  FragSize <- MCFragSize
  FragMax <- MCFragMax
  BurstWindow = 1
  MaxFrags = 3
  AsmMax = 4
  CapsStations = {A, B}
  CapsTries = 2
  Rare = {}
  RareMax = 0
INVARIANTS
  ExactlyOnce
CHECK_DEADLOCK FALSE
