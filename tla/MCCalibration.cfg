SPECIFICATION EitherSpec
CONSTANTS
  Worker = {w1}
  MinSamples = 3
  MaxOutcomes = 5
  MaxKills = 2
  Torn = Torn
  One = 20
  Probs = {8, 16, 17, 20}
  NBins = 10
  AlphaN = 1
  AlphaD = 2
  DeltaD = 4
  MinRows = 4
  MinSupport = 5
  EceThreshold = 1
  MinN = 4
  MaxEce = 2
  MinPrecision = 15
  MaxRows = 8
INVARIANTS
  FilesAgree
  NumbersAreRight
PROPERTIES
  CalibrationHeals
  NewsMovesTheGateTheRightWay
CHECK_DEADLOCK FALSE
