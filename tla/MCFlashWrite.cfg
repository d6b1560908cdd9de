CONSTANTS
  NSector = 3
  SectorLen = 2
  Values <- MCValues
  Erased = "erased"
SPECIFICATION Spec
INVARIANT TypeOK
PROPERTIES NeverProgramsDirty WritesAsPromised
