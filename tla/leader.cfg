SPECIFICATION FairSpec
CONSTANTS
  w1 = w1
  w2 = w2
  c1 = c1
  c2 = c2
  c3 = c3
  g1 = g1
  g2 = g2
  Worker <- TwoWorkers
  Conn <- ThreeConns
  Gen <- TwoGens
  DirectLoop <- NoLoops
  SpawnedLoop <- Discovery
  MaxFaults = 1
  NoConn = NoConn
  NoGen = NoGen
  NoWorker = NoWorker
INVARIANT OneConfirmedLeader
INVARIANT TailBoundedByOneStep
PROPERTY ImplementsLeadership
PROPERTY LeadershipMoves
CHECK_DEADLOCK FALSE
