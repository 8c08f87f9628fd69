CONSTANTS
  Poller = Poller
  W = W
  App = App
  None = None
  MaxData = 2
  Cap = 1
  MaxStops = 1
SPECIFICATION FairSpec
PROPERTIES
  EventuallyDelivered
CHECK_DEADLOCK FALSE
