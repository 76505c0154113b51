\* One-way bursts, the handshake beside one-way traffic, and two-way traffic
\* with both switched off; see MCStations.
SPECIFICATION FairSettings
CONSTANTS
  A = A
  B = B
  c1 = c1
  i1 = i1
  d1 = d1
  d2 = d2
  j1 = j1
  e1 = e1
  None = None
  Messages = {c1, i1, d1, d2, e1}
  From <- MCFrom
  QosOf <- MCQosOf
  Size <- MCSize
  ChunkCaps = {1}
  MaxMsgs = 2
  PoolSlots = 4
  DeliveredMax = 2
  MsgMax = 3
  Rungs = {1}
  FragSize <- MCFragSize
  FragMax <- MCFragMax
  BurstWindow = 2
  MaxFrags = 3
  AsmMax = 4
  CapsStations = {}
  CapsTries = 2
  Rare = {}
  RareMax = 0
INVARIANTS
  BurstsTrue
  InflightAwaited
  WindowHasCandidate
PROPERTIES
  KeepPromise
  LegacyIsStopAndWait
  DeliveredInTheEnd
CHECK_DEADLOCK FALSE
