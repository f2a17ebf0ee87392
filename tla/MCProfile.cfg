SPECIFICATION Spec
CONSTANTS
  Procs = {p, q}
  Buckets = {baulk, extra}
  Official = baulk
  wget = wget
  WGET = WGET
  Packages = {wget}
  Names = {wget, WGET}
  Fold <- FoldCase
  MaxCommands = 4
  MaxCrashes = 1
  None = None
INVARIANTS TypeOK NoEditLost RecordedIsThere
PROPERTY FrozenIsSkipped
CHECK_DEADLOCK FALSE
SYMMETRY Symmetry
