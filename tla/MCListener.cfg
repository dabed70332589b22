SPECIFICATION FairSpec

CONSTANTS
  TEMP = 8
  MaxLen = 4
  MaxFrames = 3

\* main returns when it cannot start, and frames end at MaxFrames
CHECK_DEADLOCK FALSE

INVARIANTS
  TypeOK
  TempHolds
  LineGoesForward
  QuietLineWhole

PROPERTIES
  FlagServed
