CONSTANTS
  Tags = {a, b}
  DataTypes = {int16, bool}
  FirstTypes = {int16}
  MaxSequence = 2
  MaxFailures = 1
  MaxRestarts = 2
  MaxRetypes = 1
SPECIFICATION FairSpec
CHECK_DEADLOCK FALSE
INVARIANTS NothingLost UpsertNeverRefused StopFlushes
PROPERTIES RowMonotone KeepsPromise Progress
