SPECIFICATION Spec
CONSTANTS
  Versions <- TwoVersions
  Format <- TwoFormats
  Settings = 1
  MaxJobs = 1
INVARIANT
  NoFireAfterFlash
