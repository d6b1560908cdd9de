CONSTANTS
  ValidIds <- MCValidIds
  InvalidIds <- MCInvalidIds
  Unassigned = 255
  Default = 1
  Blank = 0
  NoFile = 999
  Scenes <- Alone
SPECIFICATION FairSpec
INVARIANTS TypeOK OneId GateClosed ShownIsValid
PROPERTY Recovers
