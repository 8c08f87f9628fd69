CONSTANTS
  Poller = Poller
  None = None
  User = {u1, u2}
  MaxBuf = 3
  KCap = 1
  TryFlush = {TRUE}
  Toggles = TRUE
  Exclusive = {TRUE, FALSE}
SYMMETRY Symmetric
SPECIFICATION Spec
INVARIANTS
  Conservation
CHECK_DEADLOCK FALSE
