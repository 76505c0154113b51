\* Losses, timeouts and preemption with traffic both ways, under fairness;
\* five fragments from A wrap the two-bit sequence number.
SPECIFICATION FairSpec
CONSTANTS
  A = A
  B = B
  c1 = c1
  i1 = i1
  d1 = d1
  e1 = e1
  None = None
  Messages <- MCMessages
  From <- MCFrom
  QosOf <- MCQosOf
  Size <- MCSize
  ChunkCaps = {1}
  MaxMsgs = 2
  PoolSlots = 4
  DeliveredMax = 2
  MsgMax = 2
INVARIANTS
  ExactlyOnce
  IInv
PROPERTIES
  ImplementsStreams
  EventuallyDelivered
  EventuallySilent
CHECK_DEADLOCK FALSE
