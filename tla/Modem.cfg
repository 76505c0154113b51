\* The store: three slots, two messages, so that every kind of position is full
\* at once.  The binding: two messages, three other frames, a host that may stop
\* reading.  The link: silences of up to two and a half minutes with the channel
\* changing, and steady channels without a clock.
SPECIFICATION FairModemSpec
CONSTANTS
  s1 = s1
  s2 = s2
  s3 = s3
  m1 = m1
  m2 = m2
  None = None
  Slots <- MCSlots
  Payloads <- MCPayloads
  MaxMsgs = 2
  DeliveredMax = 2
  Messages <- MCMessages
  MessageLen <- MCMessageLen
  OtherLen <- MCOtherLen
  UM_TXQ = 6
  PollCaps = {1, 4}
  MaxOther = 3
  Sens <- MCSens
  Channels <- MCChannels
  MarginUp = 50
  MarginKeep = 20
  StaleTx = 6
  StaleRx = 3
  MaxAge = 4
  HistLen = 3
  LossStep = 14
  GainStep = 3
  MaxOffset = 120
  Horizons = {0, 7}
  MaxFrames = 4
  MaxFades = 1
  MaxChanges = 1
INVARIANTS
  StoreSafe
  Accounted
  SilenceCharged
PROPERTIES
  ImplementsPipe
  LogDrained
  Converges
CHECK_DEADLOCK FALSE
