SPECIFICATION Spec
CONSTANTS
  Alts = {1}
  Rates <- MCOneRate
  PlayableRates <- MCOneRate
  RingFrames = 4
  IndexModulus = 8
  BufferFrames = 2
  StartMargin = 1
  PacketFrames = {1, 2}
  NumBuffers = 2
  Timeout = 1
  ClockModulus = 2
  MaxGeneration = 2
VIEW LiveView
INVARIANTS
  RingIntact
