CONSTANTS
  p = p
  q = q
  Points = {p, q}
  Longest = 3
  Blocks <- BlocksMC
  Files <- FilesMC
  MaxFrames = 2
  MaxDuration = 1
  ProbePollInterval = 2
  MaxParts = 9
  StopPollParts = 4
SPECIFICATION JobSpec
INVARIANTS
  WalksAsDecoder
  ListedAsDecoded
  TableReachCovers
  LoopsAsReported
  StopIsReported
  FramesAsProbed
  OpaqueUnlessRestored
CHECK_DEADLOCK FALSE
