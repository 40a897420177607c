SPECIFICATION Spec
CONSTANTS
  Alts = {1}
  Rates <- MCOneRate
  PlayableRates <- MCOneRate
  RingFrames = 2
  IndexModulus = 4
  BufferFrames = 1
  StartMargin = 0
  PacketFrames = {1}
  NumBuffers = 1
  Timeout = 2
  ClockModulus = 5
  MaxGeneration = 1
PROPERTY OnlyLiveStreams
