SPECIFICATION Spec
CONSTANTS
  Alts = {1, 2}
  Rates <- MCOneRate
  PlayableRates <- MCOneRate
  RingFrames = 2
  IndexModulus = 4
  BufferFrames = 1
  StartMargin = 0
  PacketFrames = {1}
  NumBuffers = 1
  Timeout = 1
  ClockModulus = 2
  MaxGeneration = 2
INVARIANT OldPacketsDoNotCount
