\* Two transmissions, some longer than the DAC's FIFO; the capture FIFO's
\* indexes wrap.
SPECIFICATION FairSpec
CONSTANTS
  TXF_N = 4
  FillSlack = 1
  CAP_N = 4
  CapIndex = 8
  Chunk = 2
  Lengths = {1, 6}
  Tails = {0, 1}
  MaxKeyups = 2
INVARIANTS
  HalfDuplex
  EndsTold
  ChunkTrue
PROPERTIES
  FrameWhole
  GivenBack
