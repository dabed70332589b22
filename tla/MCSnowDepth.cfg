SPECIFICATION FairSpec

CONSTANTS
  RING = 13
  QUEUE = 3
  VAL = 9
  DISCARD = 2
  TOTAL = 4
  BANNER = 3
  BLEN = 4
  MLEN = 2

INVARIANTS
  TypeOK
  MessageHasSentence
  ValFits
  LengthNotNegative

PROPERTIES
  ReportsForever
