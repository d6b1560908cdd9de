CONSTANTS
  NLevel = 3
  Kinds <- MCKinds
  NoKind = "none"
  Nest <- Firmware
SPECIFICATION FairSpec
INVARIANTS TypeOK Exclusive
PROPERTIES LostByClash TimerAliveIfKept
