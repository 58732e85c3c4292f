SPECIFICATION FairSpec
CONSTANTS
  None = None
  MaxId = 2
  IdleGap = 0
  MaxAge = 1
INVARIANTS
  TypeOK
  CurrentIsOpen
  CompletedIsLatched
PROPERTIES
  PrunerSparesFires
  EmptySessionsGo
  KeepsLedger
