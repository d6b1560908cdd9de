------------------------------- MODULE CanTx -------------------------------
(***************************************************************************)
(* The transmit path of the CAN driver (CO_driver_STM32.c).                *)
(*                                                                         *)
(* CO_CANsend copies a transmit buffer into a free hardware mailbox or     *)
(* marks the buffer full and counts it; the transmit-complete interrupt    *)
(* (CO_CANinterrupt_TX) empties the full buffers.  Three levels of         *)
(* execution share the module: the main loop (level main), the 1 ms timer  *)
(* interrupt, which runs canopen_app_interrupt with interrupts masked      *)
(* (CO_LOCK_OD), and the CAN interrupt, which preempts both unless masked. *)
(* The CAN controller runs beside all of them and may empty a mailbox      *)
(* between any two instructions.                                           *)
(***************************************************************************)
EXTENDS Integers, FiniteSets

CONSTANTS
  TxSize,      \* CANmodule->txSize
  MainBufs,    \* indices of the buffers CO_process sends from the main loop
  TimerBufs,   \* indices of the buffers the timer interrupt sends (SYNC, TPDO)
  CheckedBufs, \* main-loop buffers whose owner looks at bufferFull first
  SyncBufs,    \* buffers with syncFlag: synchronous TPDOs
  NMailbox,    \* hardware transmit mailboxes
  Ident,       \* CAN identifier of each buffer
  MaxTxCount   \* bound: no new message while CANtxCount has reached it

TxBufs == 1 .. TxSize          \* txArray[0] is buffer 1
Mailboxes == 0 .. NMailbox - 1
NoBuf == 0
NoMailbox == -1
NoTimer == -1
CountModulus == 65536          \* CANtxCount is a uint16_t

ASSUME TxAssumption ==
  /\ TxSize \in Nat \ {0}
  /\ NMailbox \in Nat \ {0}
  /\ MainBufs \subseteq TxBufs
  /\ TimerBufs \subseteq TxBufs
  /\ MainBufs \cap TimerBufs = {}
  /\ CheckedBufs \subseteq MainBufs
  /\ SyncBufs \subseteq TimerBufs
  /\ Ident \in [TxBufs -> Nat]
  /\ MaxTxCount \in Nat

VARIABLES
  bufferFull,    \* CO_CANtx_t.bufferFull
  txCount,       \* CANmodule->CANtxCount
  firstTx,       \* CANmodule->firstCANtxMessage
  inhibit,       \* CANmodule->bufferInhibitFlag
  txOverflow,    \* CO_CAN_ERRTX_OVERFLOW in CANerrorStatus
  pastEnd,       \* what txArray[txSize], past the end, looks like: a full
                 \* synchronous buffer or not
  mbox,          \* the buffer whose frame each mailbox holds, or NoBuf
  tcf,           \* transmission-complete flag of each mailbox
  onWire,        \* the mailbox whose frame is on the bus, or NoMailbox
  mainPc,        \* where the main loop is in CO_CANsend or CO_CANmodule_process
  mainBuf,       \* the buffer it is sending
  timer,         \* last buffer the timer interrupt looked at in its masked
                 \* section; 0: none yet; NoTimer: not in the section
  syncWas,       \* CO_process_SYNC saw a SYNC message in this section
  isr,           \* next index of the loop in CO_CANinterrupt_TX; 0: not running
  unsent         \* history: payload written and never copied to a mailbox

swVars == <<bufferFull, txCount, firstTx, inhibit, txOverflow, pastEnd>>
hwVars == <<mbox, tcf, onWire>>
ctlVars == <<mainPc, mainBuf, timer, syncWas, isr>>
timerVars == <<timer, syncWas>>
vars == <<swVars, hwVars, ctlVars, unsent>>

\* In CO_CANmodule_process the copy of CANerrorStatus is part of the place.
Recalculating == {"statusClear", "statusOverflow"}
Sending == {"written", "checked", "locked"}
MainPcs == {"idle"} \cup Sending \cup Recalculating

TypeOK ==
  /\ bufferFull \in [TxBufs -> BOOLEAN]
  /\ txCount \in 0 .. CountModulus - 1
  /\ firstTx \in BOOLEAN
  /\ inhibit \in BOOLEAN
  /\ txOverflow \in BOOLEAN
  /\ pastEnd \in BOOLEAN
  /\ mbox \in [Mailboxes -> TxBufs \cup {NoBuf}]
  /\ tcf \in [Mailboxes -> BOOLEAN]
  /\ onWire \in Mailboxes \cup {NoMailbox}
  /\ mainPc \in MainPcs
  /\ mainBuf \in IF mainPc \in Sending THEN MainBufs ELSE {NoBuf}
  /\ timer \in TxBufs \cup {NoTimer, 0}
  /\ syncWas \in BOOLEAN
  /\ isr \in 0 .. TxSize + 1
  /\ unsent \in [TxBufs -> BOOLEAN]

\* CO_CANmodule_init followed by CO_CANsetNormalMode.
Init ==
  /\ bufferFull = [b \in TxBufs |-> FALSE]
  /\ txCount = 0
  /\ firstTx = TRUE
  /\ inhibit = FALSE
  /\ txOverflow = FALSE
  /\ pastEnd \in BOOLEAN
  /\ mbox = [m \in Mailboxes |-> NoBuf]
  /\ tcf = [m \in Mailboxes |-> FALSE]
  /\ onWire = NoMailbox
  /\ mainPc = "idle"
  /\ mainBuf = NoBuf
  /\ timer = NoTimer
  /\ syncWas = FALSE
  /\ isr = 0
  /\ unsent = [b \in TxBufs |-> FALSE]

-----------------------------------------------------------------------------
(* Who may run.                                                            *)

IrqPending == \E m \in Mailboxes : tcf[m]
Masked == timer # NoTimer \/ mainPc = "locked"

\* The main loop executes an instruction outside its critical section only
\* when no interrupt is running or ready to run.
MainRuns == timer = NoTimer /\ isr = 0 /\ ~IrqPending

\* Bound on the pending counter, so that the state space is finite.
CountBelowBound == txCount < MaxTxCount \/ txCount > CountModulus - 1 - TxSize

-----------------------------------------------------------------------------
(* Shared helpers.                                                         *)

NoneEmpty == \A m \in Mailboxes : mbox[m] # NoBuf

FirstEmpty(m) ==
  /\ mbox[m] = NoBuf
  /\ \A k \in Mailboxes : mbox[k] = NoBuf => m <= k

\* prv_send_can_message, when a mailbox is free: can_message_transmit takes
\* the lowest one.  Whether a transmit request clears a completion flag still
\* standing on that mailbox is left open.
Load(b) ==
  \E m \in Mailboxes, keep \in BOOLEAN :
    /\ FirstEmpty(m)
    /\ mbox' = [mbox EXCEPT ![m] = b]
    /\ tcf' = [tcf EXCEPT ![m] = tcf[m] /\ keep]
    /\ unsent' = [unsent EXCEPT ![b] = FALSE]

\* CANmodule->CANtxCount++ and -- on a uint16_t.
Plus(n, k) == (n + k) % CountModulus
MinusInt(n, k) == n - k                       \* mutant: no wrap-around
Minus(n, k) == (n - k) % CountModulus

OverflowsBoot(b) == bufferFull[b] /\ firstTx   \* mutant: test inverted

\* CO_CANsend: the overflow test, before the lock.
Overflows(b) == bufferFull[b] /\ ~firstTx

\* CO_CANsend: the critical section.
Transmit(b) ==
  \/ /\ Load(b)
     /\ inhibit' = (b \in SyncBufs)
     /\ UNCHANGED <<bufferFull, txCount>>
  \/ /\ NoneEmpty
     /\ bufferFull' = [bufferFull EXCEPT ![b] = TRUE]
     /\ txCount' = Plus(txCount, 1)
     /\ UNCHANGED <<inhibit, mbox, tcf, unsent>>

-----------------------------------------------------------------------------
(* Main loop: CO_process sending heartbeat, emergency and SDO responses.   *)

\* The owner of the buffer writes its data bytes and calls CO_CANsend.
MainWrite(b) ==
  /\ MainRuns
  /\ mainPc = "idle"
  /\ CountBelowBound
  /\ b \in CheckedBufs => ~bufferFull[b]
  /\ unsent' = [unsent EXCEPT ![b] = TRUE]
  /\ mainPc' = "written"
  /\ mainBuf' = b
  /\ UNCHANGED <<swVars, hwVars, timerVars, isr>>

\* "Verify overflow".  The function goes on and sends in either case.
MainCheck ==
  /\ MainRuns
  /\ mainPc = "written"
  /\ txOverflow' = (txOverflow \/ Overflows(mainBuf))
  /\ mainPc' = "checked"
  /\ UNCHANGED <<bufferFull, txCount, firstTx, inhibit, pastEnd, hwVars,
                 mainBuf, timerVars, isr, unsent>>

\* CO_LOCK_CAN_SEND.
MainLock ==
  /\ MainRuns
  /\ mainPc = "checked"
  /\ mainPc' = "locked"
  /\ UNCHANGED <<swVars, hwVars, mainBuf, timerVars, isr, unsent>>

\* The critical section and CO_UNLOCK_CAN_SEND.
MainSend ==
  /\ mainPc = "locked"
  /\ Transmit(mainBuf)
  /\ mainPc' = "idle"
  /\ mainBuf' = NoBuf
  /\ UNCHANGED <<firstTx, txOverflow, pastEnd, onWire, timerVars, isr>>

\* CO_CANmodule_process: the error register differs from errOld, as it may at
\* any time.  CANerrorStatus is copied.
MainErrors ==
  /\ MainRuns
  /\ mainPc = "idle"
  /\ mainPc' = IF txOverflow THEN "statusOverflow" ELSE "statusClear"
  /\ UNCHANGED <<swVars, hwVars, mainBuf, timerVars, isr, unsent>>

\* The bits of the bus errors, which are not in the model, are recalculated and
\* the copy is written back: what the timer reported in between is lost.
MainStatus ==
  /\ MainRuns
  /\ mainPc \in Recalculating
  /\ txOverflow' = (mainPc = "statusOverflow")
  /\ mainPc' = "idle"
  /\ UNCHANGED <<bufferFull, txCount, firstTx, inhibit, pastEnd, hwVars,
                 mainBuf, timerVars, isr, unsent>>

-----------------------------------------------------------------------------
(* Timer interrupt: canopen_app_interrupt between CO_LOCK_OD and UNLOCK.   *)

MayEnter == MainRuns /\ mainPc # "locked"

\* CO_LOCK_OD, and CO_process_SYNC seeing (sync) or not seeing a SYNC message.
TimerEnter(sync) ==
  /\ MayEnter
  /\ timer' = 0
  /\ syncWas' = sync
  /\ UNCHANGED <<swVars, hwVars, mainPc, mainBuf, isr, unsent>>

\* The full synchronous buffers the loop of CO_CANclearPendingSyncPDOs meets:
\* it reads txArray[txSize] down to txArray[1], so buffer 1 is never looked at.
Cleared == {b \in TxBufs : b # 1 /\ b \in SyncBufs /\ bufferFull[b]}

Hits == Cardinality(Cleared) + (IF pastEnd THEN 1 ELSE 0)

\* CO_LOCK_OD, and CO_process_SYNC finding that the synchronous window has
\* passed: CO_CANclearPendingSyncPDOs.  CO_CAN_ERRTX_PDO_LATE, which it sets,
\* is left out.
TimerClearSync ==
  /\ MayEnter
  /\ timer' = 0
  /\ syncWas' = FALSE
  /\ inhibit' = FALSE
  /\ \/ /\ txCount > 0
        /\ bufferFull' = [b \in TxBufs |-> bufferFull[b] /\ b \notin Cleared]
        /\ unsent' = [b \in TxBufs |-> unsent[b] /\ b \notin Cleared]
        /\ pastEnd' = FALSE
        /\ txCount' = Minus(txCount, Hits)
     \/ /\ txCount = 0
        /\ UNCHANGED <<bufferFull, unsent, pastEnd, txCount>>
  /\ UNCHANGED <<firstTx, txOverflow, hwVars, mainPc, mainBuf, isr>>

\* CO_process_TPDO visits the TPDOs in the order of their index; one that has
\* something to send writes its buffer and calls CO_CANsend, a synchronous one
\* only after a SYNC message.
TimerSend(b) ==
  /\ timer # NoTimer
  /\ timer < b
  /\ b \in SyncBufs => syncWas
  /\ CountBelowBound
  /\ timer' = b
  /\ txOverflow' = (txOverflow \/ Overflows(b))
  /\ \/ /\ Load(b)
        /\ inhibit' = (b \in SyncBufs)
        /\ UNCHANGED <<bufferFull, txCount>>
     \/ /\ NoneEmpty
        /\ bufferFull' = [bufferFull EXCEPT ![b] = TRUE]
        /\ txCount' = Plus(txCount, 1)
        /\ unsent' = [unsent EXCEPT ![b] = TRUE]
        /\ UNCHANGED <<inhibit, mbox, tcf>>
  /\ UNCHANGED <<firstTx, pastEnd, onWire, syncWas, mainPc, mainBuf, isr>>

\* CO_UNLOCK_OD.
TimerExit ==
  /\ timer # NoTimer
  /\ timer' = NoTimer
  /\ syncWas' = FALSE
  /\ UNCHANGED <<swVars, hwVars, mainPc, mainBuf, isr, unsent>>

-----------------------------------------------------------------------------
(* CAN transmit interrupt: USBFS_H_CAN1_TX_IRQHandler.                     *)

\* Mutant: the flag of the previous message is not cleared.
IsrEnterKeepsInhibit(m) ==
  /\ ~Masked
  /\ isr = 0
  /\ tcf[m]
  /\ \A k \in Mailboxes : tcf[k] => m <= k
  /\ tcf' = [tcf EXCEPT ![m] = FALSE]
  /\ firstTx' = FALSE
  /\ isr' = IF txCount > 0 THEN 1 ELSE 0
  /\ UNCHANGED <<bufferFull, txCount, inhibit, txOverflow, pastEnd, mbox,
                 onWire, mainPc, mainBuf, timerVars, unsent>>

\* One completed mailbox per interrupt, the lowest first; then the head of
\* CO_CANinterrupt_TX.
IsrEnter(m) ==
  /\ ~Masked
  /\ isr = 0
  /\ tcf[m]
  /\ \A k \in Mailboxes : tcf[k] => m <= k
  /\ tcf' = [tcf EXCEPT ![m] = FALSE]
  /\ firstTx' = FALSE
  /\ inhibit' = FALSE
  /\ isr' = IF txCount > 0 THEN 1 ELSE 0
  /\ UNCHANGED <<bufferFull, txCount, txOverflow, pastEnd, mbox, onWire,
                 mainPc, mainBuf, timerVars, unsent>>

\* Mutant: the buffer is emptied whether or not the frame was accepted.
IsrTryEmpties ==
  /\ isr \in TxBufs
  /\ isr' = isr + 1
  /\ bufferFull' = [bufferFull EXCEPT ![isr] = FALSE]
  /\ \/ /\ bufferFull[isr]
        /\ Load(isr)
        /\ txCount' = Minus(txCount, 1)
        /\ inhibit' = (isr \in SyncBufs)
     \/ /\ ~bufferFull[isr] \/ NoneEmpty
        /\ UNCHANGED <<txCount, inhibit, mbox, tcf, unsent>>
  /\ UNCHANGED <<firstTx, txOverflow, pastEnd, onWire, mainPc, mainBuf, timerVars>>

\* One turn of the loop over txArray.
IsrTry ==
  /\ isr \in TxBufs
  /\ isr' = isr + 1
  /\ \/ /\ bufferFull[isr]
        /\ Load(isr)
        /\ bufferFull' = [bufferFull EXCEPT ![isr] = FALSE]
        /\ txCount' = Minus(txCount, 1)
        /\ inhibit' = (isr \in SyncBufs)
     \/ /\ ~bufferFull[isr] \/ NoneEmpty
        /\ UNCHANGED <<bufferFull, txCount, inhibit, mbox, tcf, unsent>>
  /\ UNCHANGED <<firstTx, txOverflow, pastEnd, onWire, mainPc, mainBuf, timerVars>>

\* Mutant: the counter is only decremented, never cleared.
IsrExitKeepsCount ==
  /\ isr = TxSize + 1
  /\ isr' = 0
  /\ UNCHANGED <<swVars, hwVars, mainPc, mainBuf, timerVars, unsent>>

\* After the loop i is always 0, so the counter is cleared.
IsrExit ==
  /\ isr = TxSize + 1
  /\ isr' = 0
  /\ txCount' = 0
  /\ UNCHANGED <<bufferFull, firstTx, inhibit, txOverflow, pastEnd, hwVars,
                 mainPc, mainBuf, timerVars, unsent>>

-----------------------------------------------------------------------------
(* The CAN controller and the bus.                                         *)

\* CAN_SENDING_BY_ID: the smallest identifier goes first, the lower mailbox
\* between equal ones.
Requested == {m \in Mailboxes : mbox[m] # NoBuf}
Precedes(m, k) ==
  \/ Ident[mbox[m]] < Ident[mbox[k]]
  \/ Ident[mbox[m]] = Ident[mbox[k]] /\ m <= k

BusStart(m) ==
  /\ onWire = NoMailbox
  /\ m \in Requested
  /\ \A k \in Requested : Precedes(m, k)
  /\ onWire' = m
  /\ UNCHANGED <<swVars, mbox, tcf, ctlVars, unsent>>

\* Arbitration lost or a bus error: the frame is sent again later.
BusLost ==
  /\ onWire # NoMailbox
  /\ onWire' = NoMailbox
  /\ UNCHANGED <<swVars, mbox, tcf, ctlVars, unsent>>

BusDone(m) ==
  /\ onWire = m
  /\ onWire' = NoMailbox
  /\ mbox' = [mbox EXCEPT ![m] = NoBuf]
  /\ tcf' = [tcf EXCEPT ![m] = TRUE]
  /\ UNCHANGED <<swVars, ctlVars, unsent>>

-----------------------------------------------------------------------------
Main == (\E b \in MainBufs : MainWrite(b)) \/ MainCheck \/ MainLock \/ MainSend
        \/ MainErrors \/ MainStatus

Timer ==
  \/ \E sync \in BOOLEAN : TimerEnter(sync)
  \/ \E b \in TimerBufs : TimerSend(b)
  \/ TimerClearSync
  \/ TimerExit

Isr == (\E m \in Mailboxes : IsrEnter(m)) \/ IsrTry \/ IsrExit

Bus ==
  \/ \E m \in Mailboxes : BusStart(m)
  \/ BusLost
  \/ \E m \in Mailboxes : BusDone(m)

Next == Main \/ Timer \/ Isr \/ Bus

Spec == Init /\ [][Next]_vars

\* The processor runs: an instruction stream that may go on goes on, and an
\* interrupt that is ready is taken.  The bus lets a frame through in the end:
\* a frame that starts again and again is completed once.  Nothing is assumed
\* of what the application sends.
Fairness ==
  /\ WF_vars(MainCheck) /\ WF_vars(MainLock) /\ WF_vars(MainSend)
  /\ WF_vars(MainStatus)
  /\ WF_vars(TimerExit)
  /\ WF_vars(Isr)
  /\ \A m \in Mailboxes : WF_vars(BusStart(m)) /\ SF_vars(BusDone(m))

FairSpec == Spec /\ Fairness

-----------------------------------------------------------------------------
(* Properties.                                                             *)

\* While CANtxCount says that messages wait, a transmit interrupt is running
\* or is still to come: a mailbox is busy or its completion is flagged.  Were
\* it otherwise the counted messages could never leave (CO_CANinterrupt_TX is
\* the only code that empties full buffers).
CountedHasInterrupt ==
  txCount > 0 => \/ isr # 0
                 \/ \E m \in Mailboxes : mbox[m] # NoBuf \/ tcf[m]

\* A payload handed to CO_CANsend and not yet copied to a mailbox is marked
\* full, or its sender is still inside CO_CANsend: no interleaving of main
\* loop, timer, interrupt and CO_CANclearPendingSyncPDOs forgets one.
NoFrameForgotten ==
  \A b \in TxBufs :
    unsent[b] => bufferFull[b] \/ (mainPc # "idle" /\ mainBuf = b)

\* bufferInhibitFlag is never left behind: while it is set, a synchronous
\* frame is in a mailbox or a completion interrupt that clears it is due.
InhibitMeansSyncFrame ==
  inhibit => \E m \in Mailboxes : tcf[m] \/ mbox[m] \in SyncBufs

\* When the timer interrupt overwrites a payload that was never sent,
\* CO_CANsend reports the overflow, unless the bootup message is still out.
\* (MainStatus may lose the report afterwards.)
TimerOverflowReported ==
  [][\A b \in TimerBufs :
       TimerSend(b) /\ unsent[b] => txOverflow' \/ firstTx]_vars

\* A sender inside a critical section may take the mailbox whose completion
\* is flagged, and the request clears the flag: that interrupt is lost.  This
\* is not so every time: frames also complete while nothing is masked.
CompletionsSeen ==
  \/ []<><<~Masked /\ \E m \in Mailboxes : BusDone(m)>>_vars
  \/ <>[](Requested = {})

\* The pending counter returns to zero, whatever was counted twice or
\* wrapped below zero on the way, however often main loop and timer send.
CounterDrains == CompletionsSeen => ((txCount > 0) ~> (txCount = 0))

\* CO_driver.h:286-288, "sets bufferFull flag to true. Message will be then
\* sent by CAN TX interrupt as soon as CAN module is freed": a full buffer
\* always has an interrupt to come.
PendingHasInterrupt ==
  (\E b \in TxBufs : bufferFull[b])
     => isr # 0 \/ \E m \in Mailboxes : mbox[m] # NoBuf \/ tcf[m]
=============================================================================
