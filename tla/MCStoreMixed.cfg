CONSTANTS
  MaxVersion = 2
  Attempts = 4
  DestNames = 1
  Formats = {"archive", "exe"}
  Hashed = FALSE
  Cleaner = FALSE
  None = None
  Partial = Partial
  Growing = Growing
  Bad = Bad
SPECIFICATION Spec
INVARIANT RecordedWhole
PROPERTY CopyKept
