CONSTANTS
  ValidIds <- MCValidIds
  InvalidIds <- MCInvalidIds
  Unassigned = 255
  Default = 1
  Blank = 0
  NoFile = 999
  Scenes <- Together
SPECIFICATION Spec
INVARIANTS OneId
