SPECIFICATION MCSpec
CONSTANTS
  Probes <- OneProbe
  Targets <- TwoTargets
  Top = 4
  Ambients <- TwoAmbients
  Drop = 1
  Rise = 2
  Band = 1
  Grace = 3
  Lag = 3
  Dropout = 2
  Window = 2
  Gaps <- SomeGaps
  LowBand = 4
  Half = 2
  Epsilon = 1
  HighMargin = 2
  HighHalf = 1
  LowDwell = 2
  FireDwell = 3
  HighDwell = 1
  LidGrace = 4
  TopPit = 4
  SetPoint = 3
  Delta = 2
  MinArmed = 1
  LidWindow = 6
  Recipes <- TwoRecipes
  KeepWarm = 150
  Channels <- TwoChannels
  Estimates <- FourEstimates
  Due = 2
  HoldWindow = 1
  MaxCooks = 2
  Debounce = 2
  Repeat = 0
  DarkTimeout = 2
  Units <- BothUnits
  Entities = 2
  TargetProbes <- TwoChannels
  Values <- TwoValues
  MaxCalls = 2
  Readers <- TwoReaders
  Cap = 2
  MaxMessages = 4
  MaxLate = 1
  Tokens <- TwoTokens
  MaxTokens = 1
  Batches <- OneBatch
INVARIANTS
  TypeOK
  BadgeTellsPresence
  AlertsAreSustained
  CancelsRightly
  EachPromptOnce
  LateIsTold
  PlanOfThisCook
  NewestIsKept
  ReachableIsKept
PROPERTIES
  NotDoneInFood
  PulledIsNoticed
  OutageIsTold
  DyingFireIsTold
  NoBlipPages
  RingingIsTold
  DarkIsTold
  UnitsFollow
  ReadersEnd
CHECK_DEADLOCK FALSE
