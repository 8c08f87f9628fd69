CONSTANTS
  Poller = {p1, p2}
  Main = p1
  NoPoller = none
  MaxConn = 2
  MaxAddress = 2
SPECIFICATION Spec
INVARIANTS
  DataHeard
CHECK_DEADLOCK FALSE
