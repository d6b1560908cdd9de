CONSTANTS
  NKey = 1
  Cycle = 4
  QueueSize = 2
SPECIFICATION HistorySpec
PROPERTY ClickedIsNotHeld
