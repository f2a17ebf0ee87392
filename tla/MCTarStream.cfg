CONSTANTS
  B = 2
  MaxMembers = 3
  Sizes = {0, 1, 2}
SPECIFICATION TarSpec
INVARIANTS TarTypeOK KeepsItsPlace SuccessMeansAll
PROPERTY Terminates
CHECK_DEADLOCK FALSE
