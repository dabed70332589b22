SPECIFICATION FairSpec

CONSTANTS
  WDT = 8
  MaxAir = 3
  WAIT = 2
  Noisy = TRUE

INVARIANTS
  TypeOK
  PolarityPreserved
  GatewayLegGuarded

PROPERTIES
  NoReprogramOnAir
  SentOnce
  RestartOnlyWhenStuck
  KeepsPromise
  ReturnsToEndpoint
  ReturnsToPoll
