SPECIFICATION FairMigrateSpec
CONSTANTS
  old = old
  new1 = new1
  new2 = new2
  Servers <- MCServers
  Files <- MCFiles
  Nobody = Nobody
  MaxFaults = 2
INVARIANTS RanOnceInOrder RacingIsNoError
PROPERTY EveryServerReady
CHECK_DEADLOCK FALSE
