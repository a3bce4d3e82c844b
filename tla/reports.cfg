SPECIFICATION ReportsFair
CONSTANTS
  Request = Request
  s1 = s1
  s2 = s2
  q1 = q1
  q2 = q2
  a1 = a1
  a2 = a2
  Sweeper <- TwoSweepers
  Requester <- TwoRequesters
  Recipient <- TwoRecipients
  MaxAttempts = 3
  StuckAfter = 3
  QueuedAfter = 1
  InflightAfter = 3
  RecentAfter = 1
  WaitFor = 4
  MaxFaults = 3
INVARIANT OneRunner
INVARIANT StatusTellsTruth
INVARIANT RequestsShare
INVARIANT SentOnce
PROPERTY FlowEnds
INVARIANT JobsAreSound
CHECK_DEADLOCK FALSE
