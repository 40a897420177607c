SPECIFICATION FairSpec
CONSTANTS
  Alts = {1}
  Rates <- MCBothRates
  PlayableRates <- MCOneRate
  RingFrames = 1
  IndexModulus = 2
  BufferFrames = 1
  StartMargin = 0
  PacketFrames = {1}
  NumBuffers = 1
  Timeout = 2
  ClockModulus = 3
  MaxGeneration = 3
PROPERTIES
  StreamsPlay
  StreamsStop
