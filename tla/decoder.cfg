CONSTANTS
  a = a
  b = b
  Width = 2
  Height = 1
  Colours = {a, b}
  Transparent = Transparent
  Skip = Skip
  Frames <- FramesMC
  Files <- FilesMC
  MaxMemory = 24
  MaxFrames = 2
  MaxDuration = 30
  MaxErrors = 2
  MaxStart = 1
SPECIFICATION ClientSpec
INVARIANTS
  MemoryCapped
  DeliveredIsFile
  DeliveryWithinLimits
  GivenIsFile
  CollectedIsFile
PROPERTY
  ClientReturns
CHECK_DEADLOCK FALSE
