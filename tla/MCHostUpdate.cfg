SPECIFICATION FairSpec
CONSTANTS
  Good <- GoodReleases
  Dead <- DeadReleases
  Mute <- MuteReleases
  MaxJobs = 2
  Faults <- AllFaults
INVARIANTS
  TypeOK
  BadReleaseIsUndone
  SuccessIsInstalled
  OldTreeSurvives
PROPERTIES
  UpdateNeverTears
  Reachable
CHECK_DEADLOCK FALSE
