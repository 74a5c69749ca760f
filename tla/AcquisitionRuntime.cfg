SPECIFICATION LiveSpec
CONSTANTS
  d1 = d1
  r = r
  sum = sum
  average = average
  trend = trend
  k = k
  s1 = s1
  s2 = s2
  Datasources = {d1}
  Readings = {r}
  Calculated = {sum, average, trend}
  ConstantTags = {k}
  Source <- MCSource
  Trigger <- MCTrigger
  Depends <- MCDepends
  Slots = {s1, s2}
  NoSlot = NoSlot
  QueueSize = 1
  CascadeLimit = 2
  Initial <- MCInitial
  Edited = {r, average}
  MaxSamples = 2
  MaxEvents = 2
INVARIANTS OneConsumer FollowsTrigger NoMixedSamples
PROPERTIES Settles Propagates
