SPECIFICATION FairSpec

CONSTANTS
  LIMIT = 4
  Sizes = {1, 2, 4, 5}

INVARIANTS
  TypeOK
  BurstWrittenWhole
  WriteLimited
  WritesGoForward

PROPERTIES
  NoPacketForgotten
  BurstComesOut
