CONSTANTS
  a = a
  b = b
  Width = 4
  Height = 1
  Colours = {a, b}
  Transparent = Transparent
  Skip = Skip
  Alike <- Exactly
  Inputs <- InputsMC
  Configs <- ConfigsMC
  MaxCanvases = 9
  MaxFrames = 3
  MaxDuration = 100
  MaxOutput = 20
  MaxCalls = 3
  MaxRounds = 1
SPECIFICATION SpecAll
PROPERTIES
  ImplementsPlayback
  EveryFrameSeen
CHECK_DEADLOCK FALSE
