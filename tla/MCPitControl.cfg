SPECIFICATION FairSpec
CONSTANTS
  Stages = 2
  OffStages <- ShutdownStages
  MaxQueue = 2
INVARIANTS
  TypeOK
  StageInForce
  TunerLetsGo
PROPERTIES
  StaleSetPointGoes
