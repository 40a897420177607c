SPECIFICATION FairSpec
CONSTANTS
  NumBuffers = 3
  NumBlocks = 4
  Rates <- MCOneRate
PROPERTIES
  PlaysInTheEnd
