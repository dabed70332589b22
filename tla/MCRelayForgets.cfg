SPECIFICATION Spec

CONSTANTS
  WDT = 8
  MaxAir = 3
  WAIT = 2
  Noisy = FALSE

PROPERTIES
  NoFrameForgotten
