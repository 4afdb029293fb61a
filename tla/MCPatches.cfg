SPECIFICATION FairEitherSpec
CONSTANTS
  a = a
  b = b
  data = data
  env = env
  t1 = t1
  t2 = t2
  t3 = t3
  File = {a, b, data, env}
  Python = {a, b}
  Sensitive = {env}
  MinAbs = 3
  Percent = 30
  RepoFiles = 12
  MaxEdits = 1
  Patches <- MCPatches
  DiffFile = {"f", "g"}
  Lines = 4
  Executable = {1, 3}
  FullScale = 25
  UMax = 15
  MaxDiff = 6
  SuiteFile = {a, b}
  Test = {t1, t2, t3}
  Stem <- MCStem
  Pool <- MCPool
  Inputs <- MCInputs
  Candidates <- MCCandidates
INVARIANTS
  SandboxRunsWhatWasScreened
  PatchesAreContained
  SignalIsRight
  CallIsClean
  OracleIsRight
PROPERTIES
  SuiteEnds
CHECK_DEADLOCK FALSE
