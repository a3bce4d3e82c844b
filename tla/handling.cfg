SPECIFICATION FairSpec
CONSTANTS
  k1 = k1
  k2 = k2
  Collector <- TwoCollectors
  MaxEvents = 3
INVARIANT PagedOnce
INVARIANT SilencedInWindow
PROPERTY AlertsSettle
