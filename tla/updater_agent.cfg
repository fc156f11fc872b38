SPECIFICATION FairSpec
CONSTANTS
  v1 = v1
  v2 = v2
  v3 = v3
  Versions <- MCVersions
  Broken <- MCBroken
  First = v1
  Modes = {TRUE, FALSE}
  NeedHealthy = 2
  Kept = 1
  MaxJobs = 2
  MaxCrashes = 1
  MaxFaults = 1
  MaxMeddling = 1
\* An idle agent with no request to come stays idle.
CHECK_DEADLOCK FALSE
INVARIANTS BackupKept RecordHonest
PROPERTY UpdateEnds
