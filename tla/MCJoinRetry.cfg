SPECIFICATION FairSpec

CONSTANTS
  LORAMAC_JOIN_MIN_DATARATE = 1
  RETRYTIME_PERCENT = 25
  WORD = 1024
  Rates = {0, 1, 3}
  Times = {2, 5, 12, 60}
  Addresses = {{3, 25, 26, 29}, {0, 4, 31}}

INVARIANTS
  TypeOK
  DelayBounded
  RateFirst

PROPERTIES
  NeverSooner
  DelaySettles
