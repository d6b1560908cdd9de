CONSTANTS
  TxSize = 3
  NMailbox = 2
  MaxTxCount = 2
  MainBufs <- MCMainBufs
  TimerBufs <- MCTimerBufs
  CheckedBufs <- MCCheckedBufs
  SyncBufs <- MCSyncBufs
  Ident <- MCIdent
SPECIFICATION Spec
INVARIANT PendingHasInterrupt
