SPECIFICATION LiveSpec
CONSTANTS
  p = p
  q = q
  m = m
  Disabled = Disabled
  Pubs = {1}
  Configs = {p}
  Conflicts <- MCOneConflict
  MaxJobs = 2
  MaxEdits = 1
  MaxRestarts = 1
  MayShutDown = TRUE
INVARIANTS StopLeavesNothingRunning
PROPERTIES Settles
