SPECIFICATION Spec
CONSTANTS
  wget = wget
  Wget = Wget
  other = other
  folder = folder
  otherFolder = otherFolder
  Packages <- MCPackages
  Fold <- MCFold
  Aliases = {a, b}
  Packaged = TRUE
  None = None
INVARIANTS TypeOK SuccessMeansLinked QuietKeepsSound
PROPERTY OthersUntouched
CHECK_DEADLOCK FALSE
SYMMETRY Symmetry
