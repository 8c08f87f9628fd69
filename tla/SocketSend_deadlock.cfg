CONSTANTS
  Poller = Poller
  None = None
  User = {u1}
  MaxBuf = 3
  KCap = 1
  TryFlush = {TRUE}
  Toggles = FALSE
  Exclusive = {TRUE, FALSE}
SPECIFICATION Spec
INVARIANTS
  NoLockCycle
CHECK_DEADLOCK FALSE
