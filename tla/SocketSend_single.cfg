CONSTANTS
  Poller = Poller
  None = None
  User = {}
  MaxBuf = 4
  KCap = 2
  TryFlush = {TRUE, FALSE}
  Toggles = FALSE
  Exclusive = {TRUE, FALSE}
SPECIFICATION FairSpec
INVARIANTS
  OrderKept
  NoStall
  ErrorOnce
PROPERTIES
  EventuallySent
CHECK_DEADLOCK FALSE
