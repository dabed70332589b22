SPECIFICATION Spec

CONSTANTS
  LIMIT = 4
  Sizes = {2, 5}

PROPERTIES
  StillReceiving
