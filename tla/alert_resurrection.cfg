SPECIFICATION Spec
CONSTANTS
  e1 = e1
  Evaluator <- OneCollector
  Required = 2
  CycleGap = 2
  SweepEvery = 3
  PendingExpiry = 4
  Grace = 2
  HardExpiry = 4
  MayStop = FALSE
  MaxEvents = 4
PROPERTY ResolutionStands
