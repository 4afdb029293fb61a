SPECIFICATION Spec
CONSTANTS
  One = 20
  Alpha = 14
  Lambda1 = 20
  Lambda2 = 10
  Lambda3 = 15
  TauPrune = 8
  UMax = 12
  AleatoricMax = 14
  CoinFlipBand = 2
  Entropy <- MCEntropy
  NoScore = NoScore
  K = 3
  MaxRuns = 2
  MaxTokens = 4
  TokenUse = {1, 3}
  Recal <- IdentityRecal
  Conformal = 0
  Screens <- SmallScreens
  Judgments <- SmallJudgments
INVARIANTS
  EvidenceBudgetIsWellSpent
  RecordIsTrue
PROPERTIES
  FollowsTheCascade
CHECK_DEADLOCK FALSE
