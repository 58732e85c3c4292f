SPECIFICATION FairSpec
CONSTANTS
  Versions <- TwoVersions
  Format <- TwoFormats
  Settings = 1
  MaxJobs = 2
INVARIANTS
  TypeOK
  SuccessIsOnBoard
  BackupIsWhole
PROPERTIES
  FireGoesOut
  ConfigReturns
  KeepsFlashLedger
