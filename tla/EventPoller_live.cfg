CONSTANTS
  Loop = Loop
  Exit = Exit
  Io = Io
  None = None
  Client = {c1}
  Task = {t1}
  Urgent = {}
  Timer = {d1, d2}
  Delay = {1, 2}
  MaxTime = 2
  IntMax = 7
  PipeCap = 1
SPECIFICATION FairSpec
INVARIANTS
  NoOversleep
PROPERTIES
  TimersKeepTime
  ClosuresTaken
  TimerFires
  CallsReturn
