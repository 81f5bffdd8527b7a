SPECIFICATION EncodeJobSpec
CONSTANTS
  k = k
  w = w
  r = r
  g = g
  Transparent = Transparent
  Skip = Skip
  Width = 3
  Height = 1
  Colours = {k, w, r, g}
  Grays = {k, w}
  Black = k
  TableSize = 4
  Alike <- Exactly
  Animations <- AnimationsMC
  Configs <- ConfigsMC
  MaxFrames = 3
  Build = {"quantette", "quantizr"}
  Qualities <- QualitiesMC
  Bundles <- BundlesMC
  Repeats <- RepeatsMC
  Jobs <- JobsMC
  Sources <- SourcesMC
  Reencoded <- ReencodedMC
  Defaults <- DefaultsMC
  MaxRepeat = 2
  MaxChanges = 2
INVARIANTS
  ShownAsGiven
  SeeThroughAsGiven
  IndicesInTable
  JobAsAsked
CHECK_DEADLOCK FALSE
