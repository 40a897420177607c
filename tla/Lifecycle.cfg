SPECIFICATION FairSpec
CONSTANTS
  WatchdogTicks = 4
  UpDeadline = 10
  ReleaseTicks = 3
  MaxLinks = 2
  MaxWedges = 2
  Supplies <- MCSupplies
INVARIANTS
  StoredModeIsTheUsers
PROPERTIES
  BootsAsAsked
  OnlyDeadBoxesRestart
  RestartsWithLastLink
  ChargerGetsBluetooth
  DeadBoxRestarts
