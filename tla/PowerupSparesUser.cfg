SPECIFICATION Spec
CONSTANTS
  Stages = 2
  OffStages <- ShutdownStages
  MaxQueue = 2
PROPERTIES
  PowerupSparesUser
