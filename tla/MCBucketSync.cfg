CONSTANTS
  N = 2
  GitBuckets = {2}
  MaxCommit = 3
  MaxFaults = 3
  Cleaner = FALSE
SPECIFICATION FairSpec
INVARIANTS TypeOK UpToDateIsThere VisibleUnlessLeftover
PROPERTY UpdateConverges
