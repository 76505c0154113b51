\* Three devices of which two are ours, and a lookup that fails up to three
\* times; seven plans of up to three scenarios; filters with factors 2, 3 and 2;
\* ticks of two samples, delays of none and of four and a half ticks;
\* sleeps late by up to three quarters of a tick.
SPECIFICATION FairSpec
CONSTANTS
  d1 = d1
  d2 = d2
  d3 = d3
  Devices = {d1, d2, d3}
  SerialOf <- MCSerialOf
  Benches <- MCBenches
  Whichever = "any"
  Mute = "mute"
  Tries = 3
  MaxFailures = 3
  MaxFrames = 3
  MaxCalls = 2
  MaxStalls = 1
  Reads = {3, 64}
  Busies = {{}, {d1}}
  Plans <- MCPlans
  NMsgs = 1
  NBulk = 2
  MaxTrouble = 3
  Inputs <- MCInputs
  HilbertTaps <- MCHilbert
  LowTaps <- MCLow
  Cuts = {1, 2, 3, 5}
  R1 = 2
  R2 = 3
  R3 = 2
  Step = 1
  TICK = 2
  Delays = {0, 9}
  MaxSamples = 2
  MaxTicks = 6
  MaxConns = 2
  Fractions = 4
  Jitter = {0, 1, 3}
  MaxSleep = 8
  MaxWritten = 4
  MaxRounds = 7
INVARIANTS
  SessionTrue
  OkIsOwn
  ChunkFree
  ChannelTrue
  TailPlayed
PROPERTIES
  RunEnds
CHECK_DEADLOCK FALSE
