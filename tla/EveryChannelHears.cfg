SPECIFICATION Spec
CONSTANTS
  Debounce = 2
  Repeat = 0
  DarkTimeout = 2
PROPERTY
  EveryChannelHears
