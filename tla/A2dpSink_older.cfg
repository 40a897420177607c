CONSTANTS
  Interval = 2
  Retry = 1
  Attempts = 2
  None = None
  Lags <- MCLags
  Rates <- MCRates
  Sources <- MCReporters
  StartFrames = 2
  RingFrames = 2
SPECIFICATION Spec
INVARIANT OlderIsDropped
