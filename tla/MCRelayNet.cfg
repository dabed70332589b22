SPECIFICATION NetFairSpec

CONSTANTS
  WDT = 8
  MaxAir = 3
  WAIT = 2
  Noisy = FALSE
  PERIOD = 30
  PAUSE = 10
  TRIALS = 3
  ACK_WAIT = 3

INVARIANTS
  NetTypeOK
  NoCollision

PROPERTIES
  NoUplinkLost
  KeepsReporting
