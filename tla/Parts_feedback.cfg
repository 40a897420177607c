CONSTANTS
  Parts = {"stream"}
  NoData = NoData
  Rates <- MCRates
  NumPackets = 4
  Asked <- MCAsked
  Window = 5
  Se1Time = 3
  MaxGap = 1
  NoHosts <- MCNoHosts
  Wrap = 9
  Width = 64
  Gaps <- MCGaps
  MaxTime = 14
  LoopRates <- MCLoopRates
  Drifts <- MCDrifts
  Periods <- MCPeriods
  Settling = 2500
  Passes = 3000
  Sizes <- MCSizes
  Samples = 2
  RingBytes = 12
  PcmSamples = 6
  FramesInPacket = 2
  Fills <- MCFills
  MaxFrames = 10
  Bitpools <- MCBitpools
  FullVolume = 7
  Step = 3
  Absolutes <- MCAbsolutes
  MaxQueue = 3
SPECIFICATION Spec
INVARIANT NeverToldOldRate
