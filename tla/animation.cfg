CONSTANTS
  small = small
  large = large
  Width = 1
  Height = 1
  Colours = {a}
  Transparent = Transparent
  Skip = Skip
  Alike <- AlikeMC
  Inputs <- InputsMC
  Configs <- ConfigsMC
  MaxCanvases = 3
  MaxFrames = 5
  MaxDuration = 100
  MaxOutput = 4
  MaxCalls = 5
  Sizes = {small, large}
  CanvasSet = {NoSize, large}
  NoSize = NoSize
  Requests <- RequestsMC
  Counts = {2}
  NoCount = NoCount
  MaxDelay = 4
SPECIFICATION AnimationSpec
INVARIANTS
  FileIsPushed
  NoDrift
  LagHolds
CHECK_DEADLOCK FALSE
