SPECIFICATION HostAgentFair
CONSTANTS
  Service <- TwoServices
  web = web
  db = db
  MaxChanges = 2
  MaxFaults = 2
  QueueMax = 1
  Window = 1
  MaxPayloads = 1
  NoFlight = NoFlight
INVARIANT AgreementMeansSame
PROPERTY ConfigConverges
CHECK_DEADLOCK FALSE
