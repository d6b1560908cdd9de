CONSTANTS
  Area = 3
  Spare = 1
  HalfFrames = 1
  Base = 2
  WaitTime = 1
  Scenes <- MCScenes
SPECIFICATION FairSpec
INVARIANTS TypeOK AckedInRam FirstHalfStored ProgramsKept ParametersKept NoFaultOnceAccepted
PROPERTIES UploadEnds ApplicationReturns
