------------------------------ MODULE MCCanTx ------------------------------
(* Model-checking instance of CanTx: EMCY, whose owner looks at bufferFull *)
(* first, and heartbeat sent by the main loop, a synchronous TPDO by the   *)
(* timer.                                                                  *)
EXTENDS CanTx

Emcy == 1
SyncTpdo == 2
Heartbeat == 3

MCMainBufs == {Emcy, Heartbeat}
MCTimerBufs == {SyncTpdo}
MCCheckedBufs == {Emcy}
MCSyncBufs == {SyncTpdo}
\* COB-IDs in their default order: 0x080, 0x180, 0x700.
MCIdent == [b \in TxBufs |-> b]
=============================================================================
