SPECIFICATION Spec
CONSTANTS
  Alts = {1, 2}
  Rates <- MCBothRates
  PlayableRates <- MCBothRates
  RingFrames = 2
  IndexModulus = 4
  BufferFrames = 1
  StartMargin = 0
  PacketFrames = {1}
  NumBuffers = 1
  Timeout = 1
  ClockModulus = 2
  MaxGeneration = 2
VIEW LiveView
INVARIANTS
  NothingFromOldSelection
  SteeredWhileAudible
  FeedbackForThisRate
PROPERTIES
  KeepsToSelections
