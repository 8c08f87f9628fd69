CONSTANTS
  Loop = Loop
  Exit = Exit
  Io = Io
  None = None
  Client = {c1, c2}
  Task = {t1, t2, u}
  Urgent = {u}
  Timer = {d1}
  Delay = {1}
  MaxTime = 1
  IntMax = 7
  PipeCap = 1
SYMMETRY Symmetric
SPECIFICATION Spec
INVARIANTS
  TypeOK
  NoLostWakeup
  AtMostOnce
PROPERTIES
  ImplementsTaskExecutor
