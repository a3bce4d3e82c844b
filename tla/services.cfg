SPECIFICATION ServicesSpec
CONSTANTS
  \* email rules
  p1 = p1
  disk = disk
  none = none
  Process <- OneProcess
  Object = {1, 2}
  Resource = {disk}
  Res <- OnOneDisk
  Wants <- TwoRules
  QueueMax = 2
  SweepLimit = 1
  Window = 1
  Throttle = 1
  Hour = 2
  Cap = 2
  MaxTime = 2
  Quiet = {1}
  MaxFaults = 1
  \* incidents: three alerts along a path of relationships
  Collector = {c1, c2}
  Alert = {1, 2, 3}
  CriticalAlert = {3}
  Connected = {{1, 2}, {2, 3}}
  Span = 1
  MaxClock = 2
  MaxAcks = 1
  \* tiers in units of ten seconds: a tier takes ten seconds, or more than the standard
  \* tier can be late without consequence
  CriticalEvery = 12
  StandardEvery = 30
  ExtendedEvery = 45
  SlowEvery = 45
  Phase = 19
  Gap = 15
  Duration = {1, 17}
  Start = 300
  MaxTierTime = 380
  \* rollup cache: two threads of one process
  Counted = {1}
  Thread = {t1, t2}
  Home <- OneHome
  unknown = unknown
  MaxWrites = 2
  \* database pool
  Connection = {k1, k2}
  Wrapper = {w1, w2, w3, w4}
  Task = {t1, t2, t3}
  MaxLeaks = 1
  \* live updates
  Socket = {s1, s2, s3}
  Limited = {s1}
  MaxMessages = 2
INVARIANT MailedOnce
INVARIANT RulesKeepTheirLimits
INVARIANT SweptIsMailed
INVARIANT IncidentsAreSound
INVARIANT TiersAreSpaced
INVARIANT PoolIsWhole
PROPERTY BroadcastIsOrdered
PROPERTY ResolvedWhenAllAre
PROPERTY CountsAreCurrent
SYMMETRY Alike
CHECK_DEADLOCK FALSE
