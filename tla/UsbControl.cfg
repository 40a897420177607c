SPECIFICATION Spec
CONSTANTS
  NoData = NoData
  Rates <- MCRates
  OtherRates <- MCOtherRates
  Volumes <- MCVolumes
  Addresses = {5}
  Alts = {1}
  Packets = 2
  MayOverrun = FALSE
  MayError = FALSE
  MaxAborts = 1
INVARIANTS
  PipeIntact
  AnswersThisRequest
  OutcomeIsTrue
  NeverLeftWaiting
PROPERTIES
  ChangedOnRequest
