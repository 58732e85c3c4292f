SPECIFICATION Spec
CONSTANTS
  Probes = {"food1", "food2"}
  Values = {1, 2}
  MaxCalls = 2
PROPERTIES
  OthersPreserved
CHECK_DEADLOCK FALSE
