CONSTANTS
  TxSize = 3
  NMailbox = 2
  MaxTxCount = 2
  MainBufs <- MCMainBufs
  TimerBufs <- MCTimerBufs
  CheckedBufs <- MCCheckedBufs
  SyncBufs <- MCSyncBufs
  Ident <- MCIdent
SPECIFICATION FairSpec
INVARIANTS
  TypeOK
  CountedHasInterrupt
  NoFrameForgotten
  InhibitMeansSyncFrame
PROPERTIES TimerOverflowReported CounterDrains
