CONSTANTS
  MaxMessage = 2
  MaxByte = 2
  MaxInit = 2
  NextLen = {1, 2}
  PoolThreads = 2
  MaxRecord = 2
  MaxSpan = 2
  MaxTime = 3
  Threads = {"a", "b"}
  User = {"u"}
  Worker = "w"
  NoThread = "none"
  PoolSize = 1
  MaxConn = 3
  MaxQuery = 2
  Text = {"x", "y"}
  MaxLine = 3
  MaxHalf = 2
  LogDay = 2
  MaxTick = 5
  Lag = 1
  MaxDay = 2
  MaxCount = 2
  CheckTime = 1
  MaxLines = 1
  MaxStart = 2
  MaxSend = 3
  MaxOwn = 2
  BufSize = 1
  MaxOption = 3
  MaxArg = 3
  Days = {0, 58, 364, 789, 11015, 11016, 11322, 20000, 47540, 47541, 47846}
  Seconds = {0, 43199, 86399}
  West = {0, 18000}
  East = {28800}
  Summer = {0, 1}
  MaxLoad = 2
  PathName = {"n"}
  Depth = 3
  MaxCall = 3
  MaxEntry = 3
  Letter = {"a", "A", "0xff"}
  Unsafe = {"0xff"}
  Wide = 2
  MaxGiven = 4
  MaxLong = 8
SPECIFICATION ComponentsSpec
INVARIANTS
  ExecutorsRight
  SqlPoolRight
PROPERTIES
  SerialRight
  ProgramRight
  TlsRight
CHECK_DEADLOCK FALSE
