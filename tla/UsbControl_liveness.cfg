SPECIFICATION FairSpec
CONSTANTS
  NoData = NoData
  Rates = {48}
  OtherRates <- MCOtherRates
  Volumes <- MCOneVolume
  Addresses = {5}
  Alts = {}
  Packets = 2
  MayOverrun = FALSE
  MayError = FALSE
  MaxAborts = 1
PROPERTIES
  RequestsEnd
