SPECIFICATION MCSpec
CONSTANTS
  l1 = l1
  l2 = l2
  c1 = c1
  c2 = c2
  s1 = s1
  s2 = s2
  i1 = i1
  i2 = i2
  a = a
  p = p
  t = t
  None = None
  Disabled = Disabled
  NoSlot = NoSlot
  Loggers = {l1, l2}
  Configs = {c1, c2}
  Slots = {s1, s2}
  MaxEdits = 2
CHECK_DEADLOCK FALSE
INVARIANTS OneJobPerLogger
PROPERTIES RuntimesConverge EverythingEnds NewestReached
           LimitRestored
