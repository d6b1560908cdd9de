CONSTANTS
  NLevel = 3
  Kinds <- MCKinds
  NoKind = "none"
  Nest <- Storing
SPECIFICATION FairSpec

PROPERTY TimerAlive
