SPECIFICATION Spec
CONSTANTS
  One = 20
  Alpha = 14
  Lambda1 = 20
  Lambda2 = 10
  Lambda3 = 15
  TauPrune = 8
  UMax = 12
  AleatoricMax = 14
  CoinFlipBand = 2
  Entropy <- NoEntropy
  NoScore = NoScore
  N = 3
  Recal <- StepRecal
  Conformal = 200
  Latent <- MCLatent
  Opinions = {0, 10, 20}
  CPlanner = 16
INVARIANTS
  ScreeningIsFree
PROPERTIES
  IsACascade
CHECK_DEADLOCK FALSE
