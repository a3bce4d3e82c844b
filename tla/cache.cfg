SPECIFICATION FairSpec
CONSTANTS
  Process <- TwoProcesses
  Caller <- ThreeThreads
  Home <- Threads
  p1 = p1
  p2 = p2
  a1 = a1
  a2 = a2
  b1 = b1
  nobody = nobody
  gone = gone
  MaxGen = 1
  MaxFaults = 1
INVARIANT LoadsOnce
INVARIANT InvalidationSeen
PROPERTY EveryCallEnds
