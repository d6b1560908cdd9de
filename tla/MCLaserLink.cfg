CONSTANTS
  TickRange = 21
  Header = 2
  FrameLen = 4
  MaxMessage = 6
  Timeout = 4
  Silence = 2
  Gap = 5
  MaxFaults = 2
SPECIFICATION FairSpec
INVARIANTS TimeoutsRight
PROPERTIES ReadsAgain
