CONSTANTS
  Procs = {p1, p2}
  Objs = {o1, o2}
  NoObj = NoObj
  NoPid = NoPid
SPECIFICATION FairSpec
INVARIANTS TypeOK MutualExclusion PidFileNamesHolder
PROPERTIES RefusedOnlyByLive ImplementsLock StaleLockRecovered
