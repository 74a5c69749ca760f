CONSTANTS
  Tags = {a, b}
  DataTypes = {int16, bool}
  FirstTypes = {int16}
  MaxSequence = 2
  MaxFailures = 0
  MaxRestarts = 1
  MaxRetypes = 1
SPECIFICATION Spec
CHECK_DEADLOCK FALSE
INVARIANT LatestIsKept
