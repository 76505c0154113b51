\* The bounds of Hosts.cfg; the counterexample is one of the voice server: START,
\* two posts, and START again while the decoder is in a step.
SPECIFICATION Spec
CONSTANTS
  QueueLimit = 3
  MaxReports = 1
  MaxMoves = 1
  MaxStalls = 1
  MaxFrames = 3
  QueueHigh = 1
  HoldMax = 2
  MaxProbes = 1
  DepthOf <- MCDepth
  NParts = 2
  MaxCommands = 2
  MaxLosses = 1
  MaxMisses = 1
  Inflight = 1
  ConsoleQueue = 1
  ConsoleStalls = 1
  Chunks = 3
  BcSize = 2
  Encoders = {e1, e2}
  Decoders = {d1}
  Stops = {s1}
  MaxPosts = 2
  MaxActs = 3
  TokensPerPost = 1
  Align = 2
  PerMsg = 1
  TokenChunk = 1
  Ahead = 1
  FEND = "FEND"
  FESC = "FESC"
  TFEND = "TFEND"
  TFESC = "TFESC"
  CMD_DATA = "a"
  Payloads <- MCPayloads
  Written <- MCWritten
  Fds = {1, 2}
  MaxConns = 2
  MaxWork = 4
  Tries = 2
  MaxSubmits = 2
  MaxFaults = 1
  MaxStarts = 2
  MaxDecays = 1
  AirTime = 3
  MaxAge = 3
  Gap = 1
  Patience = 3
  TokenBits = 5
  ByteBits = 4
  Whole = 4
  Per = 2
  ChunkSizes = {1, 3, 4}
  MaxChunks = 4
  Nobody = Nobody
  d1 = d1
  e1 = e1
  e2 = e2
  s1 = s1
INVARIANT ResetInert
CHECK_DEADLOCK FALSE
