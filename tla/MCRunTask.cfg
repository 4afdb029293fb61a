SPECIFICATION Spec
CONSTANTS
  One = 20
  Alpha = 14
  Lambda1 = 20
  Lambda2 = 10
  Lambda3 = 15
  TauPrune = 8
  UMax = 12
  AleatoricMax = 14
  CoinFlipBand = 2
  Entropy <- MCEntropy
  NoScore = NoScore
  K = 2
  MaxRuns = 3
  MaxTokens = 4
  TokenUse = {1, 3}
  Recal <- StepRecal
  Conformal = 240
  Screens <- MCScreens
  Judgments <- MCJudgments
INVARIANTS
  TypeOK
  ScreenLosesNothing
  NeverPrunedOnUncertainty
  DecisionsAreGrounded
CHECK_DEADLOCK FALSE
