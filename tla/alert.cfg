SPECIFICATION FairSpec
CONSTANTS
  e1 = e1
  Evaluator <- OneCollector
  Required = 2
  CycleGap = 2
  SweepEvery = 3
  PendingExpiry = 4
  Grace = 2
  HardExpiry = 4
  MayStop = TRUE
  MaxEvents = 4
INVARIANT OneOpenAlert
PROPERTY HumanResolutionKept
PROPERTY AckWithdrawnOnlyWhenWorse
PROPERTY OnlyWhenSustained
PROPERTY AlertsFollowTheMetric
