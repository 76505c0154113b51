\* A stream of up to three blocks, a few bursts, a broadcast of up to nine bytes
\* in groups of two frames, blocks of the codes of PhyCases, and
\* recordings of a chain with sixteen bins and seven carriers (FxCases).
\* For the offsets: four bins to a spacing, two tones, four tiles or sixteen.
SPECIFICATION Spec
CONSTANTS
  Counts = {1, 3}
  Periods = {0, 1, 2}
  Slips <- MCSlips
  Extra = {0, 1}
  FftBins = 4
  Tile = 1
  ToneTile = 2
  FloatDetectFft = 1
  FixedDetectFft = 2
  HdrSymbols = 2
  BlockSymbols = 2
  MaxFaults = 2
  OpenEnded = OpenEnded
  Modes <- MCModes
  Contents = {c1, c2, c3}
  LengthOf <- MCLengthOf
  Nets = {0, 1}
  MaxBursts = 3
  MaxFalse = 1
  NoError = NoError
  c1 = c1
  c2 = c2
  c3 = c3
  Lengths = {0, 4, 7, 9}
  FrameBytes = 4
  Group = 2
  SEQ_MOD = 4
  Sym = 2
  Pre = 6
  Hdr = 2
  FrameLen = 2
  Preroll = 4
  ResyncEvery = 1
  Jitter <- MCJitter
  Delay = 1
  Leads <- MCLeads
  Gaps = {0, 3}
  NoSeq = NoSeq
  Cases <- MCCases
  Levels <- MCLevels
  Keys = {0, 5, 9}
  Amp = 8
  ScramblerSeed = {1, 3, 4, 6}
  CallLen = 5
  CallBits = 27
  CallBase = 38
  QthBases <- MCQthBases
  BeaconMode = 15
  PublicTypes = {0, 6}
  Types = {0, 4, 6}
  Erased = Erased
  Q = 7
  Turn = 65536
  RomSize = 64
  CosRom <- MCCosRom
  AtanRom <- MCAtanRom
  N = 16
  Tiles = 2
  T = 2
  DetectFft = 32
  CyclicPrefix = 4
  Channel <- MCChannel
  Pilots <- MCPilots
  PilotRoot = 1
  ZcRoot = 1
  Comb <- MCComb
  CombShift = 1
  ZcGroup = 1
  ZcHyps <- MCZcHyps
  MaxCfo = 1
  ToneThreshold = 32
  ZcThreshold = 6
  SearchWords <- MCSearchWords
  Target = 9
  Amplitude = 240
  RecalRom <- MCRecalRom
  NotchR = 120
  MaxNotches = 3
  MinToneBlocks = 6
  Sessions <- MCSessions
  Stride = 4
  Sub = 12
  CombBins = {2, 6}
  CombPeriod = 8
  Few = 4
  Circle = 48
  Many = 16
  Hyps = 41
  Offsets <- MCOffsets
INVARIANTS
  StreamTrue
  RetriesCombine
  BroadcastTrue
  Corrects
  Received
  Judged
CHECK_DEADLOCK FALSE
