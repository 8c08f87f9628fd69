CONSTANTS
  Client = {c1, c2}
  Worker = {w1, w2}
  Task = {t1, t2, u}
  Urgent = {u}
  MaxStops = 2
  StopIdle = FALSE
SPECIFICATION FairSpec
INVARIANTS
  PermitsCover
  NoEarlyLeave
PROPERTIES
  StopDrains
  ImplementsTaskExecutor
  PoolServes
