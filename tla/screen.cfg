CONSTANTS
  Width = 2
  Height = 1
  Colours = {a}
  Transparent = Transparent
  Skip = Skip
  Frames <- FramesMC
  MaxMemory = 20
SPECIFICATION Spec
INVARIANTS
  TypeOK
  HeldWithinCap
PROPERTIES
  ImplementsCompositor
  TakenIsFinal
