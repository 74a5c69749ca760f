SPECIFICATION LiveSpec
CONSTANTS
  n1 = n1
  n2 = n2
  c1 = c1
  c2 = c2
  Off = Off
  Clients = {n1, n2}
  Configs = {c1}
  MaxRuntimes = 2
  MaxEdits = 1
INVARIANTS OnePoller NoStrandedSubscriber
\* A datasource that is disabled and that nobody subscribes to rests.
CHECK_DEADLOCK FALSE
PROPERTIES PollingEnds
