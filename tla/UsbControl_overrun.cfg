SPECIFICATION Spec
CONSTANTS
  NoData = NoData
  Rates <- MCRates
  OtherRates <- MCOtherRates
  Volumes <- MCVolumes
  Addresses = {5}
  Alts = {1}
  Packets = 2
  MayOverrun = TRUE
  MayError = FALSE
  MaxAborts = 0
INVARIANTS
  OnlyRefusalsStall
