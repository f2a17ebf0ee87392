SPECIFICATION FairSpec
CONSTANTS
  MigrateFaults = 2
  Files = {"baulk", "lnk"}
  MaxVersion = 2
  UpdateFaults = 2
INVARIANTS TypeOK  PortableMeansMoved
PROPERTIES  MigrationCompletesUnlessStuck
CHECK_DEADLOCK FALSE
