SPECIFICATION Spec

CONSTANTS
  BUFSIZE = 6
  QUEUE = 2
  Sizes = {2, 5}

PROPERTIES
  LongSilence
