SPECIFICATION FairSpec
CONSTANTS
  c1 = c1
  c2 = c2
  nothing = nothing
  a = a
  b = b
  Collector <- TwoCollectors
  Target <- TwoTargets
  Threshold = 2
  MaxEvents = 2
  MaxFaults = 1
INVARIANT OutageIsTold
PROPERTY AlertTracksTarget
CHECK_DEADLOCK FALSE
PROPERTY OutageIsConfirmed
