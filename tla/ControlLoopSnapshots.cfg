SPECIFICATION Spec
CONSTANTS
  Worker = {w1}
  AuditEvery = 2
  SampleOneIn = 2
  MaxSnapshots = 4
  MaxTasks = 5
  MaxKills = 0
INVARIANT UnauditedSnapshotsSurvive
CHECK_DEADLOCK FALSE
