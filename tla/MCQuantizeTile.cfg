SPECIFICATION Spec
CONSTANTS
  BlockDim = 2
  Sides = {2, 4, 8}
  TileSide = 8
  BandRows = 4
  Warps = 2
  HalvesPerVector = 2
  DcDen = 2
  ColorFactor = 4
  MapMax = 3
  Int16Values = 4
  Weight <- MCWeight
  DcTerm <- MCDcTerm
  DcInvQuant <- MCDcInvQuant
  Frames <- MCFrames
INVARIANTS
  QuantizedSerially
  CountsMatchCoefficients
