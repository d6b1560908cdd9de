CONSTANTS
  NKey = 2
  Cycle = 3
  QueueSize = 2
  NId = 2
  Valid <- MCValid
  DefaultId = 1
  NTimeout = 2
  Seconds <- MCSeconds
  Second = 1
SPECIFICATION FairSpec
INVARIANTS TypeOK ScreenUpToDate
PROPERTIES OneHoldOneAction StoresWhatWasShown ShowEnds
