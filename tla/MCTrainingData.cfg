SPECIFICATION EitherSpec
CONSTANTS
  Source = {a, b}
  Test = {t}
  Other = {doc}
  Limit = 3
  MaxPairs = 2
  History = 4
  Sources <- MCSources
  Raw <- MCRaw
  Baseline = 0
  Rows <- MCRows
  BatchSize = 2
  Answers = {30, 90}
  NoLabel = NoLabel
  Earlier <- MCEarlier
  Path <- MCPath
  Text <- MCText
  M = 5
  Probes = {0, 1300, 4000}
  Mutants <- MCMutants
  Harvests <- MCHarvests
  Reals <- MCReals
  K = {1, 2, 3}
  TestTenths = {3, 5}
  MaxRuns = 2
INVARIANTS
  PairsAreSound
  LabelsAreRight
  GraphIsRight
  TrainAndServeAgree
  OutOfFold
  HeldOutIsUnseen
  FilesSurvive
  EnsembleIsHonest
PROPERTIES
  TheDiffIsTheDifference
CHECK_DEADLOCK FALSE
