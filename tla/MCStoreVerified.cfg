CONSTANTS
  MaxVersion = 2
  Attempts = 4
  DestNames = 1
  Formats = {"archive"}
  Hashed = TRUE
  Cleaner = FALSE
  None = None
  Partial = Partial
  Growing = Growing
  Bad = Bad
SPECIFICATION Spec
INVARIANT VerifiedOnly
