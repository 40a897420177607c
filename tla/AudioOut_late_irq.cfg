SPECIFICATION Spec
VIEW LiveView
CONSTANTS
  NumBuffers = 4
  NumBlocks = 5
  Rates <- MCRates
PROPERTIES
  LateCostsOnlySilence
