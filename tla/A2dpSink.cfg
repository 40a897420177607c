CONSTANTS
  Interval = 2
  Retry = 1
  Attempts = 2
  None = None
  Lags <- MCLags
  Rates <- MCRates
  Sources <- MCSources
  StartFrames = 2
  RingFrames = 2
SPECIFICATION FairSpec
INVARIANTS
  FollowsTheSource
  PlaysThisConfiguration
  NothingLeftOver
PROPERTIES
  ReportsAsAsked
  Heard
  Told
