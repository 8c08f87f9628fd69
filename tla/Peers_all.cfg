CONSTANTS
  MaxAttempt = 3
  MaxShutdown = 1
  Poller = {p1, p2}
  Peer = {x, y}
  MaxDatagram = 2
  MaxSession = 2
  Fd = {3, 4}
  MaxWatcher = 3
  Period = {0, 2}
  MaxBegin = 2
  MaxNow = 4
  Reader = {"r"}
  Milli = 2
  Limit = 3
  MaxReal = 4
  MaxStep = 4
  MaxSets = 1
SPECIFICATION PeersSpec
INVARIANTS
  RetryArmed
  UdpSessionsSafe
PROPERTIES
  AttemptsApart
  Recovers
  Consumed
  PollerRight
CHECK_DEADLOCK FALSE
