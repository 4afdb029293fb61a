SPECIFICATION MCSpec
CONSTANTS
  w1 = w1
  w2 = w2
  Worker = {w1, w2}
  AuditEvery = 2
  SampleOneIn = 2
  MaxSnapshots = 2
  MaxTasks = 4
  MaxShared = 3
  MaxKills = 1
INVARIANTS
  NoRowLost
  DuplicatesHaveACause
  SnapshotsAreKept
  EvidenceIsFair
  CadenceIsKept
  HarvestIsSound
PROPERTIES
  RoundsMakeProgress

CHECK_DEADLOCK FALSE
