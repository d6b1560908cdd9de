---------------------------- MODULE CanTxProofs ----------------------------
(***************************************************************************)
(* Machine-checked proofs about the transmit path of the CAN driver, for   *)
(* every number of buffers and mailboxes and every bound.                  *)
(***************************************************************************)
EXTENDS CanTx, FiniteSetTheorems, TLAPS

USE DEF TxBufs, Mailboxes, NoBuf, NoMailbox, NoTimer

\* The uint16_t counter stays in its range whatever is added or taken away.
LEMMA CountRange ==
  ASSUME NEW n \in Int, NEW k \in Int
  PROVE  /\ Plus(n, k) \in 0 .. CountModulus - 1
         /\ Minus(n, k) \in 0 .. CountModulus - 1
<1>1. ASSUME NEW i \in Int, NEW w \in Nat, w > 0
      PROVE  i % w \in 0 .. w - 1
  BY <1>1
<1>2. CountModulus \in Nat /\ CountModulus > 0
  BY DEF CountModulus
<1> QED
  BY <1>1, <1>2 DEF Plus, Minus

\* CO_CANclearPendingSyncPDOs takes a natural number of messages off.
LEMMA HitsNat == Hits \in Nat
<1>1. IsFiniteSet(TxBufs)
  BY FS_Interval, TxAssumption
<1>2. Cleared \subseteq TxBufs
  BY DEF Cleared
<1>3. Cardinality(Cleared) \in Nat
  BY <1>1, <1>2, FS_Subset, FS_CardinalityType
<1> QED
  BY <1>3 DEF Hits

\* What copying a buffer to a mailbox does.
LEMMA LoadFills ==
  ASSUME TypeOK, NEW b \in TxBufs, Load(b)
  PROVE  \E m \in Mailboxes :
           /\ mbox[m] = NoBuf
           /\ mbox' = [mbox EXCEPT ![m] = b]
           /\ mbox'[m] = b
           /\ tcf' \in [Mailboxes -> BOOLEAN]
           /\ \A k \in Mailboxes : tcf'[k] => tcf[k]
           /\ \A k \in Mailboxes : k # m => tcf'[k] = tcf[k]
           /\ unsent' = [unsent EXCEPT ![b] = FALSE]
<1>1. PICK m \in Mailboxes, keep \in BOOLEAN :
        /\ FirstEmpty(m)
        /\ mbox' = [mbox EXCEPT ![m] = b]
        /\ tcf' = [tcf EXCEPT ![m] = tcf[m] /\ keep]
        /\ unsent' = [unsent EXCEPT ![b] = FALSE]
  BY DEF Load
<1>2. mbox \in [Mailboxes -> TxBufs \cup {NoBuf}] /\ tcf \in [Mailboxes -> BOOLEAN]
  BY DEF TypeOK
<1>3. mbox[m] = NoBuf
  BY <1>1 DEF FirstEmpty
<1>4. tcf' \in [Mailboxes -> BOOLEAN]
  BY <1>1, <1>2, Zenon
<1>6. \A k \in Mailboxes : (tcf'[k] => tcf[k]) /\ (k # m => tcf'[k] = tcf[k])
  BY <1>1, <1>2, Zenon
<1>7. mbox'[m] = b
  BY <1>1, <1>2
<1> QED
  BY <1>1, <1>3, <1>4, <1>6, <1>7

LEMMA MinusHits == TypeOK => Minus(txCount, Hits) \in 0 .. CountModulus - 1
<1>1. SUFFICES ASSUME TypeOK PROVE Minus(txCount, Hits) \in 0 .. CountModulus - 1
  OBVIOUS
<1>2. txCount \in Int
  BY <1>1 DEF TypeOK
<1> QED
  BY <1>2, HitsNat, CountRange

-----------------------------------------------------------------------------
LEMMA TypeInit == Init => TypeOK
<1> SUFFICES ASSUME Init PROVE TypeOK
  OBVIOUS
<1> USE TxAssumption DEF Init
<1>1. bufferFull \in [TxBufs -> BOOLEAN] /\ unsent \in [TxBufs -> BOOLEAN]
  BY Zenon
<1>2. tcf \in [Mailboxes -> BOOLEAN]
  BY Zenon
<1>3. mbox \in [Mailboxes -> TxBufs \cup {NoBuf}]
  OBVIOUS
<1>4. txCount \in 0 .. CountModulus - 1 /\ isr \in 0 .. TxSize + 1
  BY DEF CountModulus
<1> QED
  BY <1>1, <1>2, <1>3, <1>4 DEF TypeOK, MainPcs, Sending

LEMMA MemberBool ==
  ASSUME NEW b, NEW S, NEW x, x = (b \in S)
  PROVE  x \in BOOLEAN
  BY SMT

\* The types after a frame was copied to a mailbox.
LEMMA LoadTypes ==
  ASSUME TypeOK, NEW b \in TxBufs, Load(b)
  PROVE  /\ mbox' \in [Mailboxes -> TxBufs \cup {NoBuf}]
         /\ tcf' \in [Mailboxes -> BOOLEAN]
         /\ unsent' \in [TxBufs -> BOOLEAN]
<1>1. PICK m \in Mailboxes :
           /\ mbox' = [mbox EXCEPT ![m] = b]
           /\ tcf' \in [Mailboxes -> BOOLEAN]
           /\ unsent' = [unsent EXCEPT ![b] = FALSE]
  BY LoadFills
<1>2. unsent' \in [TxBufs -> BOOLEAN]
  BY <1>1, Zenon DEF TypeOK
<1>3. mbox' \in [Mailboxes -> TxBufs \cup {NoBuf}]
  BY <1>1 DEF TypeOK
<1> QED
  BY <1>1, <1>2, <1>3

\* No step of any actor leaves the types.
LEMMA TypeStep == TypeOK /\ [Next]_vars => TypeOK'
<1> SUFFICES ASSUME TypeOK, [Next]_vars PROVE TypeOK'
  OBVIOUS
<1> USE TxAssumption
<1>1. ASSUME NEW b \in MainBufs, MainWrite(b) PROVE TypeOK'
  <2>1. unsent' \in [TxBufs -> BOOLEAN]
    BY <1>1, Zenon DEF TypeOK, MainWrite
  <2> QED
    BY <1>1, <2>1 DEF TypeOK, MainWrite, swVars, hwVars, timerVars, MainPcs, Sending
<1>2. CASE MainCheck
  <2>1. mainBuf \in TxBufs => txOverflow' \in BOOLEAN
    BY <1>2, Zenon DEF MainCheck, Overflows, TypeOK
  <2>2. txOverflow' \in BOOLEAN
    BY <1>2, Zenon DEF MainCheck
  <2> QED
    BY <1>2, <2>2 DEF TypeOK, MainCheck, hwVars, timerVars, MainPcs, Sending
<1>3. CASE MainLock
  BY <1>3 DEF TypeOK, MainLock, swVars, hwVars, timerVars, MainPcs, Sending
<1>5. CASE MainSend
  <2>1. mainBuf \in TxBufs
    BY <1>5, TxAssumption DEF MainSend, TypeOK, Sending
  <2>2. CASE Load(mainBuf) /\ inhibit' = (mainBuf \in SyncBufs) /\ UNCHANGED <<bufferFull, txCount>>
    <3>1. inhibit' \in BOOLEAN
      BY <2>2, MemberBool
    <3> QED
      BY <1>5, <2>1, <2>2, <3>1, LoadTypes DEF TypeOK, MainSend, timerVars, MainPcs, Sending
  <2>3. CASE /\ bufferFull' = [bufferFull EXCEPT ![mainBuf] = TRUE]
             /\ txCount' = Plus(txCount, 1)
             /\ UNCHANGED <<inhibit, mbox, tcf, unsent>>
    <3>1. bufferFull' \in [TxBufs -> BOOLEAN]
      BY <2>3, Zenon DEF TypeOK
    <3>2. txCount' \in 0 .. CountModulus - 1
      BY <2>3, CountRange DEF TypeOK
    <3> QED
      BY <1>5, <2>3, <3>1, <3>2 DEF TypeOK, MainSend, timerVars, MainPcs, Sending
  <2> QED
    BY <1>5, <2>2, <2>3 DEF MainSend, Transmit
<1>6. ASSUME NEW sync \in BOOLEAN, TimerEnter(sync) PROVE TypeOK'
  BY <1>6 DEF TypeOK, TimerEnter, swVars, hwVars
<1>7. ASSUME NEW b \in TimerBufs, TimerSend(b) PROVE TypeOK'
  <2>1. b \in TxBufs /\ timer' = b /\ txOverflow' \in BOOLEAN
    BY <1>7, Zenon DEF TimerSend
  <2>2. CASE Load(b) /\ inhibit' = (b \in SyncBufs) /\ UNCHANGED <<bufferFull, txCount>>
    <3>1. inhibit' \in BOOLEAN
      BY <2>2, MemberBool
    <3> QED
      BY <1>7, <2>1, <2>2, <3>1, LoadTypes DEF TypeOK, TimerSend
  <2>3. CASE /\ bufferFull' = [bufferFull EXCEPT ![b] = TRUE]
             /\ txCount' = Plus(txCount, 1)
             /\ unsent' = [unsent EXCEPT ![b] = TRUE]
             /\ UNCHANGED <<inhibit, mbox, tcf>>
    <3>1. bufferFull' \in [TxBufs -> BOOLEAN] /\ unsent' \in [TxBufs -> BOOLEAN]
      BY <2>3, Zenon DEF TypeOK
    <3>2. txCount' \in 0 .. CountModulus - 1
      BY <2>3, CountRange DEF TypeOK
    <3> QED
      BY <1>7, <2>1, <2>3, <3>1, <3>2 DEF TypeOK, TimerSend
  <2> QED
    BY <1>7, <2>2, <2>3 DEF TimerSend
<1>8. CASE TimerClearSync
  <2>1. CASE txCount > 0
    <3>1. /\ bufferFull' = [b \in TxBufs |-> bufferFull[b] /\ b \notin Cleared]
          /\ unsent' = [b \in TxBufs |-> unsent[b] /\ b \notin Cleared]
          /\ pastEnd' = FALSE
          /\ txCount' = Minus(txCount, Hits)
      BY <1>8, <2>1 DEF TimerClearSync
    <3>2. bufferFull' \in [TxBufs -> BOOLEAN] /\ unsent' \in [TxBufs -> BOOLEAN]
      BY <3>1, Zenon
    <3>3. txCount' \in 0 .. CountModulus - 1
      BY <3>1, MinusHits
    <3> QED
      BY <1>8, <3>1, <3>2, <3>3 DEF TypeOK, TimerClearSync, hwVars
  <2>2. CASE ~(txCount > 0)
    <3>1. UNCHANGED <<bufferFull, unsent, pastEnd, txCount>>
      BY <1>8, <2>2, Zenon DEF TimerClearSync
    <3> QED
      BY <1>8, <3>1 DEF TypeOK, TimerClearSync, hwVars
  <2> QED
    BY <2>1, <2>2
<1>9. CASE TimerExit
  BY <1>9 DEF TypeOK, TimerExit, swVars, hwVars
<1>10. ASSUME NEW m \in Mailboxes, IsrEnter(m) PROVE TypeOK'
  <2>1. tcf' \in [Mailboxes -> BOOLEAN]
    BY <1>10, Zenon DEF TypeOK, IsrEnter
  <2>2. isr' \in 0 .. TxSize + 1
    BY <1>10 DEF IsrEnter
  <2> QED
    BY <1>10, <2>1, <2>2 DEF TypeOK, IsrEnter, timerVars
<1>11. CASE IsrTry
  <2>1. isr \in TxBufs /\ isr' \in 0 .. TxSize + 1
    BY <1>11 DEF IsrTry
  <2>2. CASE /\ Load(isr)
             /\ bufferFull' = [bufferFull EXCEPT ![isr] = FALSE]
             /\ txCount' = Minus(txCount, 1)
             /\ inhibit' = (isr \in SyncBufs)
    <3>1. bufferFull' \in [TxBufs -> BOOLEAN]
      BY <2>2, Zenon DEF TypeOK
    <3>3. inhibit' \in BOOLEAN
      BY <2>2, MemberBool
    <3>2. txCount' \in 0 .. CountModulus - 1
      BY <2>2, CountRange DEF TypeOK
    <3> QED
      BY <1>11, <2>1, <2>2, <3>1, <3>2, <3>3, LoadTypes DEF TypeOK, IsrTry, timerVars
  <2>3. CASE UNCHANGED <<bufferFull, txCount, inhibit, mbox, tcf, unsent>>
    BY <1>11, <2>1, <2>3 DEF TypeOK, IsrTry, timerVars
  <2> QED
    BY <1>11, <2>2, <2>3 DEF IsrTry
<1>12. CASE IsrExit
  <2>1. txCount' \in 0 .. CountModulus - 1 /\ isr' \in 0 .. TxSize + 1
    BY <1>12 DEF IsrExit, CountModulus
  <2> QED
    BY <1>12, <2>1 DEF TypeOK, IsrExit, hwVars, timerVars
<1>13. ASSUME NEW m \in Mailboxes, BusStart(m) PROVE TypeOK'
  BY <1>13 DEF TypeOK, BusStart, swVars, ctlVars
<1>14. CASE BusLost
  BY <1>14 DEF TypeOK, BusLost, swVars, ctlVars
<1>15. ASSUME NEW m \in Mailboxes, BusDone(m) PROVE TypeOK'
  <2>1. tcf' \in [Mailboxes -> BOOLEAN]
    BY <1>15, Zenon DEF TypeOK, BusDone
  <2>2. mbox' \in [Mailboxes -> TxBufs \cup {NoBuf}]
    BY <1>15 DEF TypeOK, BusDone
  <2> QED
    BY <1>15, <2>1, <2>2 DEF TypeOK, BusDone, swVars, ctlVars
<1>17. CASE MainErrors
  <2>1. mainPc = "idle" /\ mainPc' \in Recalculating /\ mainBuf' = mainBuf
    BY <1>17, Zenon DEF MainErrors, Recalculating
  <2> QED
    BY <1>17, <2>1 DEF TypeOK, MainErrors, swVars, hwVars, timerVars, MainPcs, Sending, Recalculating
<1>18. CASE MainStatus
  <2>1. txOverflow' \in BOOLEAN
    BY <1>18, Zenon DEF MainStatus
  <2> QED
    BY <1>18, <2>1 DEF TypeOK, MainStatus, hwVars, timerVars, MainPcs, Sending, Recalculating
<1>16. CASE UNCHANGED vars
  BY <1>16 DEF TypeOK, vars, swVars, hwVars, ctlVars
<1> QED
  BY <1>1, <1>2, <1>3, <1>5, <1>6, <1>7, <1>8, <1>9, <1>10, <1>11, <1>12, <1>13,
     <1>14, <1>15, <1>16, <1>17, <1>18 DEF Next, Main, Timer, Isr, Bus

\* Every variable keeps its type: in particular CANtxCount, which is counted
\* twice and taken below zero, is a uint16_t in every reachable state.
THEOREM TypeCorrect == Spec => []TypeOK
<1> QED
  BY TypeInit, TypeStep, PTL DEF Spec

-----------------------------------------------------------------------------
\* A completion interrupt is still to come from some mailbox.
Due == \E m \in Mailboxes : mbox[m] # NoBuf \/ tcf[m]

\* Copying a buffer to a mailbox, or finding none empty, leaves one busy.
LEMMA BusyAfterSend ==
  ASSUME TypeOK, NEW b \in TxBufs,
         Load(b) \/ (NoneEmpty /\ UNCHANGED mbox)
  PROVE  Due'
<1>1. CASE Load(b)
  <2>1. PICK m \in Mailboxes : mbox'[m] = b
    BY <1>1, LoadFills
  <2> QED
    BY <2>1 DEF Due
<1>2. CASE NoneEmpty /\ UNCHANGED mbox
  <2>1. 0 \in Mailboxes
    BY TxAssumption
  <2> QED
    BY <1>2, <2>1 DEF NoneEmpty, Due
<1> QED
  BY <1>1, <1>2

\* The count is set only while a mailbox is busy, survives only while one is
\* busy or flagged, and the interrupt that takes the flag keeps it alive
\* until it clears the count.
LEMMA CountedStep ==
  ASSUME TypeOK, CountedHasInterrupt, [Next]_vars
  PROVE  CountedHasInterrupt'
<1> USE TxAssumption
<1>0. CountedHasInterrupt <=> (txCount > 0 => isr # 0 \/ Due)
  BY DEF CountedHasInterrupt, Due
<1>a. CountedHasInterrupt' <=> (txCount' > 0 => isr' # 0 \/ Due')
  BY DEF CountedHasInterrupt, Due
<1>b. ASSUME UNCHANGED <<txCount, isr, mbox, tcf>> PROVE CountedHasInterrupt'
  BY <1>b DEF CountedHasInterrupt
<1>1. ASSUME NEW b \in MainBufs, MainWrite(b) PROVE CountedHasInterrupt'
  BY <1>1, <1>b DEF MainWrite, swVars, hwVars
<1>2. CASE MainCheck
  BY <1>2, <1>b DEF MainCheck, hwVars
<1>3. CASE MainLock
  BY <1>3, <1>b DEF MainLock, swVars, hwVars
<1>4. CASE MainSend
  <2>1. mainBuf \in TxBufs /\ (Load(mainBuf) \/ (NoneEmpty /\ UNCHANGED mbox))
    BY <1>4, TxAssumption DEF MainSend, Transmit, TypeOK, Sending
  <2> QED
    BY <2>1, <1>a, BusyAfterSend
<1>5. ASSUME NEW sync \in BOOLEAN, TimerEnter(sync) PROVE CountedHasInterrupt'
  BY <1>5, <1>b DEF TimerEnter, swVars, hwVars
<1>6. CASE TimerClearSync
  <2>1. isr = 0 /\ isr' = 0 /\ (Due' <=> Due)
    BY <1>6 DEF TimerClearSync, MayEnter, MainRuns, hwVars, Due
  <2>2. txCount' > 0 => txCount > 0
    <3>1. CASE txCount > 0
      BY <3>1
    <3>2. CASE ~(txCount > 0)
      BY <1>6, <3>2 DEF TimerClearSync
    <3> QED
      BY <3>1, <3>2
  <2> QED
    BY <2>1, <2>2, <1>0, <1>a
<1>7. ASSUME NEW b \in TimerBufs, TimerSend(b) PROVE CountedHasInterrupt'
  <2>1. b \in TxBufs /\ (Load(b) \/ (NoneEmpty /\ UNCHANGED mbox))
    BY <1>7 DEF TimerSend
  <2> QED
    BY <2>1, <1>a, BusyAfterSend
<1>8. CASE TimerExit
  BY <1>8, <1>b DEF TimerExit, swVars, hwVars
<1>9. ASSUME NEW m \in Mailboxes, IsrEnter(m) PROVE CountedHasInterrupt'
  BY <1>9, <1>a DEF IsrEnter
<1>10. CASE IsrTry
  BY <1>10, <1>a DEF IsrTry
<1>11. CASE IsrExit
  BY <1>11, <1>a DEF IsrExit
<1>12. ASSUME NEW m \in Mailboxes, BusStart(m) PROVE CountedHasInterrupt'
  BY <1>12, <1>b DEF BusStart, swVars, ctlVars
<1>13. CASE BusLost
  BY <1>13, <1>b DEF BusLost, swVars, ctlVars
<1>14. ASSUME NEW m \in Mailboxes, BusDone(m) PROVE CountedHasInterrupt'
  <2>1. tcf'[m]
    BY <1>14 DEF BusDone, TypeOK
  <2>2. Due'
    BY <2>1, Zenon DEF Due
  <2> QED
    BY <2>2, <1>a
<1>16. CASE MainErrors
  BY <1>16, <1>b DEF MainErrors, swVars, hwVars
<1>17. CASE MainStatus
  BY <1>17, <1>b DEF MainStatus, hwVars
<1>15. CASE UNCHANGED vars
  BY <1>15, <1>b DEF vars, swVars, hwVars, ctlVars
<1> QED
  BY <1>1, <1>2, <1>3, <1>4, <1>5, <1>6, <1>7, <1>8, <1>9, <1>10, <1>11, <1>12, <1>13,
     <1>14, <1>15, <1>16, <1>17 DEF Next, Main, Timer, Isr, Bus

-----------------------------------------------------------------------------
\* The inhibit flag follows the frame: set with it, cleared by the interrupt.
LEMMA InhibitStep ==
  ASSUME TypeOK, InhibitMeansSyncFrame, [Next]_vars
  PROVE  InhibitMeansSyncFrame'
<1> USE TxAssumption
<1>a. ASSUME UNCHANGED <<inhibit, mbox, tcf>> PROVE InhibitMeansSyncFrame'
  BY <1>a DEF InhibitMeansSyncFrame
<1>b. ASSUME ~inhibit' PROVE InhibitMeansSyncFrame'
  BY <1>b DEF InhibitMeansSyncFrame
<1>c. ASSUME NEW b \in TxBufs, Load(b), inhibit' = (b \in SyncBufs)
      PROVE  InhibitMeansSyncFrame'
  <2>1. PICK m \in Mailboxes : mbox'[m] = b
    BY <1>c, LoadFills
  <2> QED
    BY <1>c, <2>1 DEF InhibitMeansSyncFrame
<1>1. ASSUME NEW b \in MainBufs, MainWrite(b) PROVE InhibitMeansSyncFrame'
  BY <1>1, <1>a DEF MainWrite, swVars, hwVars
<1>2. CASE MainCheck
  BY <1>2, <1>a DEF MainCheck, hwVars
<1>3. CASE MainLock
  BY <1>3, <1>a DEF MainLock, swVars, hwVars
<1>4. CASE MainSend
  <2>1. mainBuf \in TxBufs
    BY <1>4, TxAssumption DEF MainSend, TypeOK, Sending
  <2> QED
    BY <2>1, <1>4, <1>a, <1>c DEF MainSend, Transmit
<1>5. ASSUME NEW sync \in BOOLEAN, TimerEnter(sync) PROVE InhibitMeansSyncFrame'
  BY <1>5, <1>a DEF TimerEnter, swVars, hwVars
<1>6. CASE TimerClearSync
  BY <1>6, <1>b DEF TimerClearSync
<1>7. ASSUME NEW b \in TimerBufs, TimerSend(b) PROVE InhibitMeansSyncFrame'
  BY <1>7, <1>a, <1>c DEF TimerSend
<1>8. CASE TimerExit
  BY <1>8, <1>a DEF TimerExit, swVars, hwVars
<1>9. ASSUME NEW m \in Mailboxes, IsrEnter(m) PROVE InhibitMeansSyncFrame'
  BY <1>9, <1>b DEF IsrEnter
<1>10. CASE IsrTry
  BY <1>10, <1>a, <1>c DEF IsrTry
<1>11. CASE IsrExit
  BY <1>11, <1>a DEF IsrExit, hwVars
<1>12. ASSUME NEW m \in Mailboxes, BusStart(m) PROVE InhibitMeansSyncFrame'
  BY <1>12, <1>a DEF BusStart, swVars, ctlVars
<1>13. CASE BusLost
  BY <1>13, <1>a DEF BusLost, swVars, ctlVars
<1>14. ASSUME NEW m \in Mailboxes, BusDone(m) PROVE InhibitMeansSyncFrame'
  <2>1. tcf'[m]
    BY <1>14 DEF BusDone, TypeOK
  <2> QED
    BY <2>1 DEF InhibitMeansSyncFrame
<1>16. CASE MainErrors
  BY <1>16, <1>a DEF MainErrors, swVars, hwVars
<1>17. CASE MainStatus
  BY <1>17, <1>a DEF MainStatus, hwVars
<1>15. CASE UNCHANGED vars
  BY <1>15, <1>a DEF vars, swVars, hwVars, ctlVars
<1> QED
  BY <1>1, <1>2, <1>3, <1>4, <1>5, <1>6, <1>7, <1>8, <1>9, <1>10, <1>11, <1>12, <1>13,
     <1>14, <1>15, <1>16, <1>17 DEF Next, Main, Timer, Isr, Bus

-----------------------------------------------------------------------------
\* A payload that waits is marked full or still in its sender's hands.
LEMMA ForgottenStep ==
  ASSUME TypeOK, NoFrameForgotten, [Next]_vars
  PROVE  NoFrameForgotten'
<1> USE TxAssumption
<1>a. ASSUME UNCHANGED <<bufferFull, unsent, mainPc, mainBuf>>
      PROVE  NoFrameForgotten'
  BY <1>a DEF NoFrameForgotten
\* Copying a buffer away, whatever becomes of its own bufferFull.
<1>b. ASSUME NEW b \in TxBufs, unsent' = [unsent EXCEPT ![b] = FALSE],
             \A c \in TxBufs : c # b => bufferFull'[c] = bufferFull[c],
             UNCHANGED <<mainPc, mainBuf>> \/ mainBuf = b
      PROVE  NoFrameForgotten'
  <2>1. SUFFICES ASSUME NEW c \in TxBufs, unsent'[c]
                 PROVE  bufferFull'[c] \/ (mainPc' # "idle" /\ mainBuf' = c)
    BY DEF NoFrameForgotten
  <2>2. c # b /\ unsent[c]
    BY <1>b, <2>1 DEF TypeOK
  <2> QED
    BY <1>b, <2>2 DEF NoFrameForgotten
\* Marking a buffer full.
<1>c. ASSUME NEW b \in TxBufs, bufferFull' = [bufferFull EXCEPT ![b] = TRUE],
             \A c \in TxBufs : c # b => unsent'[c] = unsent[c],
             UNCHANGED <<mainPc, mainBuf>> \/ mainBuf = b
      PROVE  NoFrameForgotten'
  <2>1. SUFFICES ASSUME NEW c \in TxBufs, unsent'[c], c # b
                 PROVE  bufferFull'[c] \/ (mainPc' # "idle" /\ mainBuf' = c)
    BY <1>c DEF NoFrameForgotten, TypeOK
  <2>2. unsent[c] /\ bufferFull'[c] = bufferFull[c]
    BY <1>c, <2>1 DEF TypeOK
  <2> QED
    BY <1>c, <2>1, <2>2 DEF NoFrameForgotten
<1>d. \A b : Load(b) => unsent' = [unsent EXCEPT ![b] = FALSE]
  BY Zenon DEF Load
<1>1. ASSUME NEW b \in MainBufs, MainWrite(b) PROVE NoFrameForgotten'
  <2>1. SUFFICES ASSUME NEW c \in TxBufs, unsent'[c], c # b
                 PROVE  bufferFull'[c]
    BY <1>1 DEF NoFrameForgotten, MainWrite
  <2>2. unsent[c] /\ mainPc = "idle"
    BY <1>1, <2>1 DEF MainWrite, TypeOK
  <2> QED
    BY <1>1, <2>2 DEF NoFrameForgotten, MainWrite, swVars
<1>2. CASE MainCheck
  BY <1>2 DEF MainCheck, NoFrameForgotten
<1>3. CASE MainLock
  BY <1>3 DEF MainLock, NoFrameForgotten, swVars
<1>4. CASE MainSend
  <2>1. mainBuf \in TxBufs
    BY <1>4, TxAssumption DEF MainSend, TypeOK, Sending
  <2>2. CASE Load(mainBuf) /\ UNCHANGED bufferFull
    BY <2>1, <2>2, <1>b, <1>d
  <2>3. CASE bufferFull' = [bufferFull EXCEPT ![mainBuf] = TRUE] /\ UNCHANGED unsent
    BY <2>1, <2>3, <1>c
  <2> QED
    BY <1>4, <2>2, <2>3 DEF MainSend, Transmit
<1>5. ASSUME NEW sync \in BOOLEAN, TimerEnter(sync) PROVE NoFrameForgotten'
  BY <1>5, <1>a DEF TimerEnter, swVars
<1>6. CASE TimerClearSync
  <2>1. UNCHANGED <<mainPc, mainBuf>>
    BY <1>6 DEF TimerClearSync
  <2>2. CASE UNCHANGED <<bufferFull, unsent>>
    BY <2>1, <2>2, <1>a
  <2>3. CASE /\ bufferFull' = [b \in TxBufs |-> bufferFull[b] /\ b \notin Cleared]
             /\ unsent' = [b \in TxBufs |-> unsent[b] /\ b \notin Cleared]
    BY <2>1, <2>3, Zenon DEF NoFrameForgotten
  <2> QED
    BY <1>6, <2>2, <2>3 DEF TimerClearSync
<1>7. ASSUME NEW b \in TimerBufs, TimerSend(b) PROVE NoFrameForgotten'
  <2>1. b \in TxBufs /\ UNCHANGED <<mainPc, mainBuf>>
    BY <1>7 DEF TimerSend
  <2>2. CASE Load(b) /\ UNCHANGED bufferFull
    BY <2>1, <2>2, <1>b, <1>d
  <2>3. CASE /\ bufferFull' = [bufferFull EXCEPT ![b] = TRUE]
             /\ unsent' = [unsent EXCEPT ![b] = TRUE]
    <3>1. \A c \in TxBufs : c # b => unsent'[c] = unsent[c]
      BY <2>3 DEF TypeOK
    <3> QED
      BY <2>1, <2>3, <3>1, <1>c
  <2> QED
    BY <1>7, <2>2, <2>3 DEF TimerSend
<1>8. CASE TimerExit
  BY <1>8, <1>a DEF TimerExit, swVars
<1>9. ASSUME NEW m \in Mailboxes, IsrEnter(m) PROVE NoFrameForgotten'
  BY <1>9, <1>a DEF IsrEnter
<1>10. CASE IsrTry
  <2>1. isr \in TxBufs /\ UNCHANGED <<mainPc, mainBuf>>
    BY <1>10 DEF IsrTry
  <2>2. CASE Load(isr) /\ bufferFull' = [bufferFull EXCEPT ![isr] = FALSE]
    <3>1. \A c \in TxBufs : c # isr => bufferFull'[c] = bufferFull[c]
      BY <2>2 DEF TypeOK
    <3> QED
      BY <2>1, <2>2, <3>1, <1>b, <1>d
  <2>3. CASE UNCHANGED <<bufferFull, unsent>>
    BY <2>1, <2>3, <1>a
  <2> QED
    BY <1>10, <2>2, <2>3 DEF IsrTry
<1>11. CASE IsrExit
  BY <1>11, <1>a DEF IsrExit
<1>12. CASE Bus
  BY <1>12, <1>a DEF Bus, BusStart, BusLost, BusDone, swVars, ctlVars
<1>13. CASE MainErrors
  BY <1>13 DEF MainErrors, NoFrameForgotten, swVars
<1>14. CASE MainStatus
  <2>1. mainBuf = NoBuf
    BY <1>14 DEF MainStatus, TypeOK, Sending, Recalculating
  <2> QED
    BY <1>14, <2>1 DEF MainStatus, NoFrameForgotten
<1>15. CASE UNCHANGED vars
  BY <1>15, <1>a DEF vars, swVars, ctlVars
<1> QED
  BY <1>1, <1>2, <1>3, <1>4, <1>5, <1>6, <1>7, <1>8, <1>9, <1>10, <1>11, <1>12, <1>13,
     <1>14, <1>15 DEF Next, Main, Timer, Isr

-----------------------------------------------------------------------------
\* While CANtxCount says that messages wait, a transmit interrupt is running
\* or still to come.
THEOREM CountedHasInterruptAlways == Spec => []CountedHasInterrupt
<1>1. Init => CountedHasInterrupt
  BY DEF Init, CountedHasInterrupt
<1> QED
  BY <1>1, TypeCorrect, CountedStep, PTL DEF Spec

\* No payload handed to CO_CANsend is forgotten.
THEOREM NoFrameForgottenAlways == Spec => []NoFrameForgotten
<1>1. Init => NoFrameForgotten
  BY DEF Init, NoFrameForgotten
<1> QED
  BY <1>1, TypeCorrect, ForgottenStep, PTL DEF Spec

\* bufferInhibitFlag is never left behind by the frame it was set for.
THEOREM InhibitMeansSyncFrameAlways == Spec => []InhibitMeansSyncFrame
<1>1. Init => InhibitMeansSyncFrame
  BY DEF Init, InhibitMeansSyncFrame
<1> QED
  BY <1>1, TypeCorrect, InhibitStep, PTL DEF Spec

\* A TPDO payload that waits belongs to no sender of the main loop, so by
\* NoFrameForgotten its buffer is full and the overflow test sees it.
THEOREM TimerOverflowReportedAlways == Spec => TimerOverflowReported
<1>1. ASSUME TypeOK, NoFrameForgotten,
             [Next]_vars
      PROVE  [\A b \in TimerBufs :
                TimerSend(b) /\ unsent[b] => txOverflow' \/ firstTx]_vars
  <2>1. ASSUME NEW b \in TimerBufs, TimerSend(b), unsent[b], ~firstTx
        PROVE  txOverflow'
    <3>1. b \in TxBufs /\ b \notin MainBufs
      BY TxAssumption
    <3>2. mainPc # "idle" => mainBuf # b
      BY <1>1, <3>1 DEF TypeOK
    <3>3. bufferFull[b]
      BY <1>1, <2>1, <3>1, <3>2 DEF NoFrameForgotten
    <3>4. Overflows(b) /\ txOverflow' = (txOverflow \/ Overflows(b))
      BY <2>1, <3>3 DEF TimerSend, Overflows
    <3> QED
      BY <3>4, Zenon
  <2> QED
    BY <2>1
<1> QED
  BY <1>1, TypeCorrect, NoFrameForgottenAlways, PTL DEF Spec, TimerOverflowReported
=============================================================================
