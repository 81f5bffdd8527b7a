CONSTANTS
  Width = 2
  Height = 1
  Colours = {a}
  Transparent = Transparent
  Skip = Skip
  Alike <- AlikeMC
  Inputs <- InputsMC
  Configs <- ConfigsMC
  MaxCanvases = 3
  MaxFrames = 4
  MaxDuration = 50
  MaxOutput = 7
  MaxCalls = 5
SPECIFICATION Spec
INVARIANT IndexedByItsTable
CHECK_DEADLOCK FALSE
