SPECIFICATION FairSpec

CONSTANTS
  BUFSIZE = 6
  QUEUE = 2
  Sizes = {1, 2, 3, 5}

INVARIANTS
  TypeOK
  SentAsReceived
  PacketInBuffer
  BurstSentWhole

PROPERTIES
  BurstLeaves
