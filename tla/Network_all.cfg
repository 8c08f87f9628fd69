CONSTANTS
  Poller = Poller
  W = W
  App = App
  None = None
  MaxData = 4
  Cap = 1
  MaxStops = 3
  MaxSet = 3
  MaxBuffer = 4
  QueueSize = 1
  Threads = {"a", "b"}
  Fd = {3}
  Expire = 1
  MaxTime = 2
  MaxCall = 2
  Octets = 2
  Groups = 3
  Chars = {0, 2, 5, 6, 16, 17, 18}
  MaxText = 5
  MaxAdapter = 2
  MaxPacket = 3
  MaxLen = 2
  IOV_MAX = 2
  Pollers = {"p"}
  MaxItem = 3
  MaxReader = 2
  MaxTask = 2
  MaxClear = 1
  MaxSize = 2
  MaxGop = 1
  UseCache = {TRUE}
  Tag = {"x", "y"}
  MaxDispatcher = 2
  Host = {"h"}
  Group = {"g"}
  MaxInit = 2
  MaxSend = 2
  Loop = {"p", "q"}
  MaxConn = 2
  MaxFail = 2
  Byte = {1, 2}
  FrameLen = {1, 2, 3}
  FRAME_HEAD_LEN = 2
  TotalBufferLen = 4
  MaxStream = 6
  Nul = 0
  MaxLength = 4
  MaxEdit = 4
  Octet = {0, 1, 130, 255}
  Foreign = {10, 65}
  MaxOctets = 4
  Block = 8
  WordBits = 7
  MaxPiece = 18
  MaxMessage = 34
  Facade = {"f"}
  Drifted = {"d"}
  ReadSize = 4
  Small = 3
  ReadLength = {1, 2, 4}
  MaxObject = 2
  MaxRead = 1
  Adder = {"p"}
  Asker = {"u"}
  Amount = {1, 3}
  Second = 2
  MaxBytes = 2
  MaxInt = 5
  MaxNow = 4
  MaxAdd = 2
SPECIFICATION NetworkSpec
INVARIANTS
  InOrder
  EachHasClosure
  SocketRight
  BuffersRight
  BroadcastRight
PROPERTIES
  TcpFacadeRight
  AddressRight
CHECK_DEADLOCK FALSE
