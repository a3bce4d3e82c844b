SPECIFICATION FairSpec
CONSTANTS
  QueueMax = 2
  Window = 1
  MaxPayloads = 3
  MaxFaults = 3
  NoFlight = NoFlight
INVARIANT AcceptedIsWritten
PROPERTY WrittenOnceWithinWindow
PROPERTY ImplementsDelivery
PROPERTY EverythingSettles
INVARIANT QueueHolds
CHECK_DEADLOCK FALSE
