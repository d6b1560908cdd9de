-------------------------- MODULE LaserLinkProofs --------------------------
(***************************************************************************)
(* What a timeout of the serial line measures, for every tick range, frame *)
(* and timeout; and that a receiver that has found the beginning of a      *)
(* frame does not lose it by itself.                                       *)
(***************************************************************************)
EXTENDS LaserLink, TLAPS

\* The ticks since start_ticks, and the most that can have come since the
\* last turn of the loop.
Since == IF tick < start THEN TickRange - start + tick ELSE tick - start
Late == IF polled THEN 0 ELSE 1 + line.faults

\* rs232_receive adds up what came between its turns: up to the last one it
\* has lost nothing, or the one millisecond of the turn of the counter; and
\* that turn is then too short ago for another.
ReceiveClock ==
  pc \in Receiving =>
    /\ Since <= Late
    /\ elapsed <= waited - Since
    /\ waited - Since <= elapsed + 1
    /\ waited - Since = elapsed + 1 => start <= waited - Since

\* rs232_receive_variable measures from the last byte.
ResyncClock ==
  pc = "resync" =>
    /\ waited = Since
    /\ elapsed <= waited
    /\ waited <= elapsed + 1 + Late
    /\ elapsed < Silence

Inv == TypeOK /\ ReceiveClock /\ ResyncClock

-----------------------------------------------------------------------------
(* Facts about the constants and the types.                                *)

Horizon == Timeout + Silence + MaxFaults + 2

LEMMA Numbers ==
  /\ Header \in Nat /\ FrameLen \in Nat /\ MaxMessage \in Nat
  /\ Timeout \in Nat /\ Silence \in Nat /\ MaxFaults \in Nat /\ Gap \in Nat
  /\ TickRange \in Nat /\ Horizon \in Nat
BY LinkAssumption, SMT DEF LinkAssumption, Horizon

LEMMA Sizes ==
  /\ 0 < Header /\ Header + 2 <= FrameLen /\ FrameLen <= MaxMessage
  /\ Silence > 0 /\ Gap > 0
BY LinkAssumption, SMT DEF LinkAssumption

LEMMA Half ==
  /\ TickRange > 2 * Horizon
  /\ TickRange \div 2 \in Nat
  /\ TickRange \div 2 >= Horizon
BY LinkAssumption, SMT DEF LinkAssumption, Horizon

LEMMA ClockTypes ==
  ASSUME TypeOK
  PROVE  /\ tick \in Nat /\ start \in Nat /\ tick < TickRange /\ start < TickRange
         /\ elapsed \in Nat /\ waited \in Nat
         /\ polled \in BOOLEAN
         /\ line.faults \in Nat /\ line.faults <= MaxFaults
         /\ Since \in Nat /\ Late \in Nat /\ Late <= 1 + MaxFaults
BY Numbers, SMT DEF TypeOK, Since, Late

\* ticks_diff is right, less one when the counter went round.
LEMMA DiffRight ==
  ASSUME TypeOK, Since < Horizon
  PROVE  TicksDiff(start) = IF tick < start THEN Since - 1 ELSE Since
BY ClockTypes, Numbers, Half, SMT DEF TicksDiff, Since

\* A tick is one more since start_ticks.
LEMMA CountSince ==
  ASSUME TypeOK, Since < Horizon, Count, UNCHANGED <<start, pc>>, pc \in Waiting
  PROVE  /\ Since' = Since + 1
         /\ tick' \in 0 .. TickRange - 1
         /\ waited' = waited + 1
         /\ polled' = FALSE
<1>1. Count /\ start' = start
  OBVIOUS
<1>2. waited' = waited + 1 /\ polled' = FALSE
  BY DEF Count
<1>3. tick' = IF tick = TickRange - 1 THEN 0 ELSE tick + 1
  BY DEF Count
<1>4. tick' \in 0 .. TickRange - 1
  BY <1>3, ClockTypes, Numbers, SMT
<1>5. Since < TickRange - 1
  BY ClockTypes, Numbers, Half, SMT
<1>6. Since' = Since + 1
  BY <1>1, <1>3, <1>5, ClockTypes, Numbers, SMT DEF Since
<1> QED
  BY <1>2, <1>4, <1>6

\* However the loops wait, they are not behind by more than this.
LEMMA NotFar ==
  ASSUME Inv, pc \in Waiting
  PROVE  Since < Horizon
BY ClockTypes, Numbers, SMT DEF Inv, ReceiveClock, ResyncClock, Waiting, Receiving, Horizon

-----------------------------------------------------------------------------
(* A wait begins.                                                          *)

LEMMA BeginTypes ==
  ASSUME TypeOK, NEW n \in 0 .. MaxMessage, NEW now \in 0 .. TickRange - 1,
         Begin(n, now)
  PROVE  /\ got' \in 0 .. MaxMessage /\ want' \in 0 .. MaxMessage
         /\ start' \in 0 .. TickRange - 1
         /\ elapsed' \in Nat /\ waited' \in Nat /\ polled' \in BOOLEAN
BY Numbers, SMT DEF Begin

LEMMA BeginClock ==
  ASSUME TypeOK, NEW n, Begin(n, tick), tick' = tick
  PROVE  ReceiveClock' /\ ResyncClock'
<1>1. start' = tick' /\ elapsed' = 0 /\ waited' = 0 /\ polled' = TRUE
  BY DEF Begin
<1>2. Since' = 0 /\ Late' = 0
  BY <1>1, ClockTypes, SMT DEF Since, Late
<1> QED
  BY <1>1, <1>2, ClockTypes, Numbers, Sizes, SMT DEF ReceiveClock, ResyncClock

LEMMA Now == ASSUME TypeOK PROVE tick \in 0 .. TickRange - 1
BY DEF TypeOK

LEMMA InterruptStep == ASSUME Inv, Interrupt PROVE Inv'
<1>1. TypeOK /\ Begin(Header, tick) /\ UNCHANGED <<tick, line, reg, distance>>
      /\ pc' = "header" /\ whole' = TRUE
  BY DEF Inv, Interrupt
<1>2. Header \in 0 .. MaxMessage
  BY Numbers, Sizes, SMT
<1>3. TypeOK'
  BY <1>1, <1>2, Now, BeginTypes DEF TypeOK, Waiting, Receiving
<1> QED
  BY <1>1, <1>3, BeginClock DEF Inv

LEMMA ResyncStep == ASSUME Inv, Resync PROVE Inv'
<1>1. TypeOK /\ Begin(MaxMessage, tick) /\ UNCHANGED <<tick, line, reg, whole, distance>>
      /\ pc' = "resync"
  BY DEF Inv, Resync
<1>2. MaxMessage \in 0 .. MaxMessage
  BY Numbers, SMT
<1>3. TypeOK'
  BY <1>1, <1>2, Now, BeginTypes DEF TypeOK, Waiting, Receiving
<1> QED
  BY <1>1, <1>3, BeginClock DEF Inv

\* A step after which nothing is waited for.
LEMMA Ends ==
  ASSUME Inv, pc' \in {"idle", "good", "bad"}
  PROVE  ReceiveClock' /\ ResyncClock'
BY DEF ReceiveClock, ResyncClock, Receiving

LEMMA HeaderReadStep == ASSUME Inv, HeaderRead PROVE Inv'
<1>1. PICK n \in Lengths :
        \/ n = 0 /\ Resync
        \/ /\ n > 0 /\ pc' = "rest"
           /\ Begin(n - Header, tick)
           /\ UNCHANGED <<tick, line, reg, whole, distance>>
  BY DEF HeaderRead
<1>2. CASE n = 0 /\ Resync
  BY <1>2, ResyncStep
<1>3. CASE /\ n > 0 /\ pc' = "rest"
           /\ Begin(n - Header, tick)
           /\ UNCHANGED <<tick, line, reg, whole, distance>>
  <2>1. n - Header \in 0 .. MaxMessage
    BY <1>3, Numbers, Sizes, SMT DEF Lengths
  <2>2. TypeOK
    BY DEF Inv
  <2>3. TypeOK'
    BY <1>3, <2>1, <2>2, Now, BeginTypes DEF TypeOK, Waiting, Receiving
  <2> QED
    BY <1>3, <2>2, <2>3, BeginClock DEF Inv
<1> QED
  BY <1>1, <1>2, <1>3

LEMMA RestReadStep == ASSUME Inv, RestRead PROVE Inv'
<1>1. CASE Resync
  BY <1>1, ResyncStep
<1>2. CASE pc' = "good" /\ UNCHANGED <<tick, line, reg, part, distance>>
  <2>1. TypeOK'
    BY <1>2 DEF Inv, TypeOK, part
  <2> QED
    BY <1>2, <2>1, Ends DEF Inv
<1> QED
  BY <1>1, <1>2 DEF RestRead

LEMMA ResyncFullStep == ASSUME Inv, ResyncFull PROVE Inv'
<1>1. TypeOK'
  BY DEF Inv, TypeOK, ResyncFull, part
<1> QED
  BY <1>1, Ends DEF Inv, ResyncFull

LEMMA StoreStep == ASSUME Inv, Store PROVE Inv'
<1>1. TypeOK /\ Begin(0, 0) /\ UNCHANGED <<tick, line, reg>>
      /\ pc' = "idle" /\ whole' = TRUE
      /\ distance' \in {"measured", "invalid"}
  BY DEF Inv, Store
<1>2. 0 \in 0 .. MaxMessage /\ 0 \in 0 .. TickRange - 1
  BY Numbers, Half, SMT
<1>3. TypeOK'
  BY <1>1, <1>2, BeginTypes DEF TypeOK
<1> QED
  BY <1>1, <1>3, Ends DEF Inv

-----------------------------------------------------------------------------
(* The turns of the loops.                                                 *)

LEMMA GotTypes ==
  ASSUME TypeOK, got < want
  PROVE  got + 1 \in 0 .. MaxMessage
BY Numbers, SMT DEF TypeOK

LEMMA DiffNat ==
  ASSUME Inv, pc \in Waiting
  PROVE  TicksDiff(start) \in Nat
<1>1. TypeOK /\ Since < Horizon
  BY NotFar DEF Inv
<1>2. tick < start => Since > 0
  BY <1>1, ClockTypes, Numbers, SMT DEF Since
<1> QED
  BY <1>1, <1>2, DiffRight, ClockTypes, SMT

\* What the time up to the last turn is after this one.
LEMMA ReceiveSums ==
  ASSUME Inv, Receive
  PROVE  ReceiveClock'
<1>1. TypeOK /\ pc \in Receiving /\ pc \in Waiting
  BY DEF Inv, Receive, Waiting
<1>2. /\ elapsed < Timeout /\ elapsed' = elapsed + TicksDiff(start)
      /\ start' = tick' /\ tick' = tick /\ waited' = waited /\ polled' = TRUE
  BY DEF Receive
<1>3. Since' = 0 /\ Late' = 0
  BY <1>1, <1>2, ClockTypes, SMT DEF Since, Late
<1>4. /\ elapsed <= waited - Since /\ waited - Since <= elapsed + 1
      /\ waited - Since = elapsed + 1 => start <= waited - Since
  BY <1>1 DEF Inv, ReceiveClock
<1>5. Since < Horizon
  BY <1>1, NotFar
<1>6. CASE tick < start
  <2>1. TickRange - start + tick = Since
    BY <1>6 DEF Since
  <2>2. waited - Since = elapsed
    BY <1>1, <1>2, <1>4, <1>5, <2>1, ClockTypes, Numbers, Half, SMT DEF Horizon
  <2>3. elapsed' = elapsed + Since - 1
    BY <1>1, <1>2, <1>5, <1>6, DiffRight, ClockTypes, SMT
  <2>4. elapsed' <= waited /\ waited <= elapsed' + 1 /\ tick <= waited
    BY <1>1, <2>1, <2>2, <2>3, ClockTypes, Numbers, SMT
  <2> QED
    BY <1>1, <1>2, <1>3, <2>4, ClockTypes, SMT DEF ReceiveClock
<1>7. CASE ~(tick < start)
  <2>1. tick - start = Since
    BY <1>7 DEF Since
  <2>2. elapsed' = elapsed + Since
    BY <1>1, <1>2, <1>5, <1>7, DiffRight, ClockTypes, SMT
  <2>3. /\ elapsed' <= waited /\ waited <= elapsed' + 1
        /\ waited = elapsed' + 1 => tick <= waited
    BY <1>1, <1>4, <2>1, <2>2, ClockTypes, SMT
  <2> QED
    BY <1>1, <1>2, <1>3, <2>3, ClockTypes, SMT DEF ReceiveClock
<1> QED
  BY <1>6, <1>7

LEMMA ReceiveStep == ASSUME Inv, Receive PROVE Inv'
<1>1. /\ TypeOK /\ pc \in Receiving /\ pc \in Waiting /\ got < want
      /\ elapsed' = elapsed + TicksDiff(start) /\ start' = tick
      /\ reg' = Empty /\ polled' = TRUE
      /\ UNCHANGED <<tick, line, pc, want, waited, distance>>
  BY DEF Inv, Receive, Waiting
<1>2. got' \in 0 .. MaxMessage
  BY <1>1, GotTypes DEF Receive, TypeOK
<1>3. whole' \in BOOLEAN
  BY <1>1 DEF Receive, TypeOK
<1>4. elapsed' \in Nat
  BY <1>1, DiffNat, ClockTypes, SMT
<1>5. TypeOK'
  BY <1>1, <1>2, <1>3, <1>4, Now DEF TypeOK
<1>6. ResyncClock'
  BY <1>1 DEF ResyncClock, Receiving
<1> QED
  BY <1>5, <1>6, ReceiveSums DEF Inv

LEMMA ResyncTurnStep == ASSUME Inv, ResyncTurn PROVE Inv'
<1>1. /\ TypeOK /\ ResyncClock /\ pc = "resync" /\ pc \in Waiting /\ got < want
      /\ reg' = Empty /\ polled' = TRUE
      /\ UNCHANGED <<tick, line, want, whole, distance>>
  BY DEF Inv, ResyncTurn, Waiting
<1>2. pc' = IF elapsed' >= Silence THEN "bad" ELSE pc
  BY DEF ResyncTurn
<1>3. pc' \in {"bad", "resync"} /\ (pc' = "resync" => ~(elapsed' >= Silence))
  BY <1>1, <1>2
<1>4. ReceiveClock'
  BY <1>3 DEF ReceiveClock, Receiving
<1>5. Late' = 0
  BY <1>1 DEF Late
<1>6. CASE reg # Empty
  <2>1. got' = got + 1 /\ start' = tick /\ elapsed' = 0 /\ waited' = 0
    BY <1>6 DEF ResyncTurn
  <2>2. TypeOK'
    BY <1>1, <1>3, <2>1, Now, GotTypes DEF TypeOK, Waiting
  <2>3. Since' = 0
    BY <1>1, <2>1, ClockTypes, SMT DEF Since
  <2>4. ResyncClock'
    BY <1>5, <2>1, <2>3, Numbers, Sizes, SMT DEF ResyncClock
  <2> QED
    BY <1>4, <2>2, <2>4 DEF Inv
<1>7. CASE ~(reg # Empty)
  <2>1. elapsed' = TicksDiff(start) /\ UNCHANGED <<got, start, waited>>
    BY <1>7 DEF ResyncTurn
  <2>2. elapsed' \in Nat
    BY <1>1, <2>1, DiffNat
  <2>3. TypeOK'
    BY <1>1, <1>3, <2>1, <2>2 DEF TypeOK, Waiting
  <2>4. Since' = Since
    BY <1>1, <2>1 DEF Since
  <2>5. elapsed' = Since \/ elapsed' = Since - 1
    BY <1>1, <2>1, NotFar, DiffRight
  <2>6. ResyncClock'
    BY <1>1, <1>3, <1>5, <2>1, <2>2, <2>4, <2>5, ClockTypes, Numbers, SMT DEF ResyncClock
  <2> QED
    BY <1>4, <2>3, <2>6 DEF Inv
<1> QED
  BY <1>6, <1>7

-----------------------------------------------------------------------------
(* Timer, sensor and faults.                                               *)

Line == [next : 0 .. FrameLen - 1, pause : 0 .. Gap, faults : 0 .. MaxFaults]

LEMMA LineParts ==
  ASSUME TypeOK
  PROVE  /\ line \in Line
         /\ line.next \in 0 .. FrameLen - 1 /\ line.pause \in 0 .. Gap
         /\ line.faults \in 0 .. MaxFaults
         /\ reg \in Bytes \cup {Empty}
BY DEF TypeOK, Line

LEMMA PassedType == ASSUME TypeOK PROVE Passed \in 0 .. Gap
BY LineParts, Numbers, SMT DEF Passed

LEMMA SentType ==
  ASSUME TypeOK
  PROVE  Sent \in Line /\ Sent.faults = line.faults
<1>1. (IF line.next + 1 = FrameLen THEN 0 ELSE line.next + 1) \in 0 .. FrameLen - 1
  BY LineParts, Numbers, Sizes, SMT
<1>2. Gap \in 0 .. Gap /\ 1 \in 0 .. Gap
  BY Numbers, Sizes, SMT
<1> QED
  BY <1>1, <1>2, LineParts DEF Sent, Line

\* One more tick, when none has come since the last turn or it is a fault.
LEMMA CountClock ==
  ASSUME Inv, Count, UNCHANGED <<pc, start, elapsed>>, line' \in Line,
         (polled /\ line'.faults >= line.faults) \/ line'.faults = line.faults + 1
  PROVE  ReceiveClock' /\ ResyncClock'
<1>1. CASE pc \in Waiting
  <2>1. TypeOK /\ Since < Horizon
    BY <1>1, NotFar DEF Inv
  <2>2. Since' = Since + 1 /\ waited' = waited + 1 /\ polled' = FALSE
    BY <1>1, <2>1, CountSince
  <2>3. line'.faults \in Nat
    BY Numbers, SMT DEF Line
  <2>4. Late' \in Nat /\ Late' >= Late + 1
    BY <2>1, <2>2, <2>3, ClockTypes, SMT DEF Late
  <2>5. ReceiveClock'
    BY <2>1, <2>2, <2>4, ClockTypes, SMT DEF Inv, ReceiveClock
  <2>6. ResyncClock'
    BY <2>1, <2>2, <2>4, ClockTypes, SMT DEF Inv, ResyncClock
  <2> QED
    BY <2>5, <2>6
<1>2. CASE pc \notin Waiting
  BY <1>2 DEF ReceiveClock, ResyncClock, Waiting
<1> QED
  BY <1>1, <1>2

LEMMA CountTypes ==
  ASSUME TypeOK, Count
  PROVE  tick' \in 0 .. TickRange - 1 /\ waited' \in Nat /\ polled' \in BOOLEAN
BY ClockTypes, Numbers, Half, SMT DEF Count

\* A fault without a tick leaves the clocks right.
LEMMA StillClock ==
  ASSUME Inv, UNCHANGED <<tick, pc, start, elapsed, waited, polled>>, line' \in Line,
         line'.faults >= line.faults
  PROVE  ReceiveClock' /\ ResyncClock'
<1>1. TypeOK /\ line'.faults \in Nat
  BY Numbers, SMT DEF Inv, Line
<1>2. Since' = Since /\ Late' \in Nat /\ Late' >= Late
  BY <1>1, ClockTypes, SMT DEF Since, Late
<1>3. ReceiveClock'
  BY <1>1, <1>2, ClockTypes, SMT DEF Inv, ReceiveClock
<1>4. ResyncClock'
  BY <1>1, <1>2, ClockTypes, SMT DEF Inv, ResyncClock
<1> QED
  BY <1>3, <1>4

LEMMA TickStep == ASSUME Inv, Tick PROVE Inv'
<1>1. /\ TypeOK /\ Count /\ line' = [line EXCEPT !.pause = Passed]
      /\ UNCHANGED <<reg, pc, got, want, whole, start, elapsed, distance>>
  BY DEF Inv, Tick
<1>2. line' \in Line /\ line'.faults = line.faults
  BY <1>1, LineParts, PassedType DEF Line
<1>3. TypeOK'
  BY <1>1, <1>2, CountTypes DEF TypeOK, Line
<1>4. CASE pc \in Waiting
  <2>1. polled /\ line'.faults >= line.faults
    BY <1>1, <1>2, <1>4, ClockTypes, SMT DEF Tick
  <2> QED
    BY <1>1, <1>2, <1>3, <2>1, CountClock DEF Inv
<1>5. CASE pc \notin Waiting
  <2>1. ReceiveClock' /\ ResyncClock'
    BY <1>1, <1>5 DEF ReceiveClock, ResyncClock, Waiting
  <2> QED
    BY <1>3, <2>1 DEF Inv
<1> QED
  BY <1>4, <1>5

LEMMA SendStep == ASSUME Inv, Send PROVE Inv'
<1>1. TypeOK /\ reg' = line.next /\ line' = Sent /\ UNCHANGED <<tick, pc, part, distance>>
  BY DEF Inv, Send
<1>2. line' \in Line /\ line'.faults >= line.faults
  BY <1>1, SentType, ClockTypes, SMT
<1>3. reg' \in Bytes
  BY <1>1, LineParts, Numbers, SMT DEF Bytes
<1>4. TypeOK'
  BY <1>1, <1>2, <1>3 DEF TypeOK, Line, part
<1> QED
  BY <1>1, <1>2, <1>4, StillClock DEF Inv, part

LEMMA FaultStep == ASSUME Inv, Fault PROVE Inv'
<1>1. TypeOK /\ line.faults < MaxFaults /\ UNCHANGED <<pc, distance>>
  BY DEF Inv, Fault
<1>2. line.faults + 1 \in 0 .. MaxFaults /\ line.faults + 1 >= line.faults
  BY <1>1, ClockTypes, Numbers, SMT
<1>3. Damaged \in Bytes
  BY Numbers, SMT DEF Damaged, Bytes
<1>4. ASSUME UNCHANGED <<tick, part>>, reg' \in {reg, Damaged},
             line' \in Line, line'.faults = line.faults + 1
      PROVE  Inv'
  <2>1. TypeOK'
    BY <1>1, <1>3, <1>4 DEF TypeOK, Line, part
  <2> QED
    BY <1>1, <1>2, <1>4, <2>1, StillClock DEF Inv, part
<1>5. [Sent EXCEPT !.faults = @ + 1] \in Line
      /\ [Sent EXCEPT !.faults = @ + 1].faults = line.faults + 1
  BY <1>1, <1>2, SentType DEF Line
<1>6. [line EXCEPT !.faults = @ + 1] \in Line
      /\ [line EXCEPT !.faults = @ + 1].faults = line.faults + 1
  BY <1>1, <1>2, LineParts DEF Line
<1>7. [line EXCEPT !.faults = @ + 1, !.pause = Passed] \in Line
      /\ [line EXCEPT !.faults = @ + 1, !.pause = Passed].faults = line.faults + 1
  BY <1>1, <1>2, LineParts, PassedType DEF Line
<1>8. CASE MaySend /\ line' = [Sent EXCEPT !.faults = @ + 1] /\ UNCHANGED <<tick, reg, part>>
  BY <1>4, <1>5, <1>8
<1>9. CASE /\ MaySend /\ reg = Empty
           /\ line' = [Sent EXCEPT !.faults = @ + 1] /\ reg' = Damaged /\ UNCHANGED <<tick, part>>
  BY <1>4, <1>5, <1>9
<1>10. CASE /\ reg = Empty
            /\ line' = [line EXCEPT !.faults = @ + 1] /\ reg' = Damaged /\ UNCHANGED <<tick, part>>
  BY <1>4, <1>6, <1>10
<1>11. CASE /\ ~polled /\ Count
            /\ line' = [line EXCEPT !.faults = @ + 1, !.pause = Passed]
            /\ UNCHANGED <<reg, got, want, whole, start, elapsed>>
  <2>1. TypeOK'
    BY <1>1, <1>7, <1>11, CountTypes DEF TypeOK, Line
  <2> QED
    BY <1>1, <1>7, <1>11, <2>1, CountClock DEF Inv
<1>12. CASE /\ line' = [line EXCEPT !.faults = @ + 1, !.pause = Passed]
            /\ UNCHANGED <<tick, reg, part>>
  BY <1>4, <1>7, <1>12
<1> QED
  BY <1>8, <1>9, <1>10, <1>11, <1>12 DEF Fault

-----------------------------------------------------------------------------
LEMMA InvInit == Init => Inv
<1> SUFFICES ASSUME Init PROVE Inv
  OBVIOUS
<1>1. /\ 0 \in 0 .. TickRange - 1 /\ 0 \in 0 .. MaxMessage /\ 0 \in 0 .. MaxFaults
      /\ 1 \in 0 .. Gap
  BY Numbers, Sizes, Half, SMT
<1>2. line \in Line
  BY <1>1 DEF Init, Line
<1>3. TypeOK
  BY <1>1, <1>2 DEF Init, TypeOK, Line
<1>4. pc = "idle"
  BY DEF Init
<1> QED
  BY <1>3, <1>4 DEF Inv, ReceiveClock, ResyncClock, Receiving

LEMMA InvStep == Inv /\ [Next]_vars => Inv'
<1> SUFFICES ASSUME Inv, [Next]_vars PROVE Inv'
  OBVIOUS
<1>1. CASE Handler
  BY <1>1, InterruptStep, ReceiveStep, ResyncStep, HeaderReadStep, RestReadStep,
     ResyncTurnStep, ResyncFullStep, StoreStep DEF Handler, TimedOut
<1>2. CASE UNCHANGED vars
  BY <1>2 DEF vars, part, Inv, TypeOK, ReceiveClock, ResyncClock, Since, Late
<1> QED
  BY <1>1, <1>2, TickStep, SendStep, FaultStep DEF Next

\* For every frame, buffer and tick range no index of the receiver leaves its
\* buffer: a length of the header, whatever it is, is within the message.
THEOREM TypeCorrect == Spec => []TypeOK
<1>1. Inv => TypeOK
  BY DEF Inv
<1> QED
  BY <1>1, InvInit, InvStep, PTL DEF Spec

\* For every tick range, timeout and number of faults: what the loops of
\* rs232.c hold for the ticks counted since is never more than that, and at a
\* turn of the loop at most one less.
THEOREM TimeoutsRightAlways == Spec => []TimeoutsRight
<1>1. Inv => TimeoutsRight
  <2> SUFFICES ASSUME Inv, pc \in Waiting
               PROVE elapsed <= waited /\ (polled => waited <= elapsed + 1)
    BY DEF TimeoutsRight
  <2>1. TypeOK /\ ReceiveClock /\ ResyncClock
    BY DEF Inv
  <2>2. polled => Late = 0
    BY DEF Late
  <2>3. CASE pc \in Receiving
    BY <2>1, <2>2, <2>3, ClockTypes, SMT DEF ReceiveClock
  <2>4. CASE pc = "resync"
    BY <2>1, <2>2, <2>4, ClockTypes, SMT DEF ResyncClock
  <2> QED
    BY <2>3, <2>4 DEF Waiting
<1> QED
  BY <1>1, InvInit, InvStep, PTL DEF Spec

-----------------------------------------------------------------------------
(***************************************************************************)
(* The receiver and the frames.  Nothing tells it where one begins but the *)
(* silence before it.                                                      *)
(***************************************************************************)

\* The constants of the code: the timeouts are 10 ms,
\* laser_displacement_resync waits for 3 ms, and a message may have 260 bytes.
Ample == Timeout > 1 /\ Silence > 1 /\ MaxMessage > FrameLen + 1

Lag == IF polled THEN 0 ELSE 1
Unread == IF reg = Empty THEN 0 ELSE 1
After(n) == IF n = FrameLen THEN 0 ELSE n

\* A frame takes less than two ticks.
Slow == MidFrame => line.pause <= 1

\* The byte that comes next, in the register or on the line, is byte n, and it
\* comes before the loop gives up.
InStep(n) ==
  /\ \/ reg = Empty /\ n > 0 /\ line.next = After(n)
     \/ reg = n /\ line.next = After(n + 1)
  /\ MidFrame => waited + line.pause <= 1
  /\ ~MidFrame => line.pause + waited >= Gap /\ waited <= 2 + Lag - Unread
  /\ got < want => elapsed <= 1

\* The receiver takes the first byte of a frame for one, and no other.
Aligned ==
  /\ pc # "resync"
  /\ pc \in {"idle", "good", "bad"} =>
       ((reg = Empty /\ line.next = 0) \/ (reg = 0 /\ line.next = 1))
  /\ pc = "header" => whole /\ want = Header /\ InStep(got)
  /\ pc = "rest" => whole /\ want = FrameLen - Header /\ InStep(Header + got)

\* At the resynchronisation: what it has read is the end of one frame at most,
\* and the silence after that is longer than the one it waits for.
Resyncing ==
  /\ want = MaxMessage
  /\ MidFrame => got + Unread <= line.next + 1
  /\ MidFrame /\ reg = Empty => waited + line.pause <= 1
  /\ ~MidFrame => \/ got + Unread <= 1
                  \/ /\ got + Unread <= FrameLen + 1
                     /\ reg = Empty => line.pause + waited >= Gap - 1
                     /\ reg # Empty => line.pause >= Gap - Lag

\* Not aligned, and it will be noticed.
Searching ==
  /\ distance = "zero" /\ pc \notin {"good", "bad"}
  /\ pc = "idle" => reg # 0 /\ (reg = Empty => MidFrame)
  /\ pc = "header" => want = Header
  /\ pc \in Receiving => ~whole \/ (pc = "header" /\ got = 0 /\ reg \notin {0, Empty})
  /\ pc = "resync" => Resyncing

\* What holds until something fails.
Found ==
  line.faults = 0 => (Aligned \/ Searching) /\ (pc = "bad" => distance = "zero")

SyncInv == Inv /\ Slow /\ Found

\* Once at the beginning of a frame the receiver stays with the frames, and
\* refuses none, as long as neither line nor processor fails: the loops give up
\* on no byte that comes, and the next frame does not begin unnoticed.
StaysInStep == [][Aligned /\ line'.faults = line.faults =>
                    Aligned' /\ (pc' = "bad" => pc = "bad")]_vars

\* Wherever in a frame the sensor is when the receiver is enabled, only the
\* first reading may fail; after it no distance is refused and no line searched
\* until something fails.
OneBadReading ==
  line.faults = 0 /\ distance # "zero" => pc \notin {"resync", "bad"}

-----------------------------------------------------------------------------
LEMMA LinkTypes ==
  ASSUME TypeOK
  PROVE  /\ line.next \in Nat /\ line.next < FrameLen
         /\ line.pause \in Nat /\ line.pause <= Gap
         /\ reg \in Nat
         /\ got \in Nat /\ want \in Nat /\ waited \in Nat /\ elapsed \in Nat
         /\ polled \in BOOLEAN /\ whole \in BOOLEAN
         /\ Lag \in {0, 1} /\ Unread \in {0, 1}
BY Numbers, SMT DEF TypeOK, Lag, Unread, Bytes, Empty

LEMMA Frame ==
  /\ Header \in Nat /\ FrameLen \in Nat /\ MaxMessage \in Nat
  /\ 0 < Header /\ Header + 2 <= FrameLen
  /\ Empty = FrameLen + 1
  /\ Gap \in Nat /\ Silence \in Nat /\ Silence > 0 /\ Gap > Silence + 2
BY LinkAssumption, SMT DEF LinkAssumption, Empty

\* The line after a byte.
LEMMA SentParts ==
  ASSUME TypeOK
  PROVE  /\ Sent.next = IF line.next + 1 = FrameLen THEN 0 ELSE line.next + 1
         /\ Sent.pause = IF line.next + 1 = FrameLen THEN Gap
                         ELSE IF line.next = 0 THEN 1 ELSE line.pause
         /\ Sent.faults = line.faults
BY LineParts DEF Sent, Line

\* The line after a tick.
LEMMA TickParts ==
  ASSUME TypeOK, line' = [line EXCEPT !.pause = Passed]
  PROVE  /\ line'.next = line.next /\ line'.faults = line.faults
         /\ line'.pause = IF line.pause > 0 THEN line.pause - 1 ELSE 0
BY LineParts DEF Passed, Line

-----------------------------------------------------------------------------
LEMMA SlowSent ==
  ASSUME TypeOK, Slow
  PROVE  Sent.next > 0 => Sent.pause <= 1
BY SentParts, LinkTypes, Frame, SMT DEF Slow, MidFrame

LEMMA SlowPassed ==
  ASSUME TypeOK, Slow
  PROVE  line.next > 0 => Passed <= 1
BY LinkTypes, SMT DEF Slow, MidFrame, Passed

LEMMA SlowStep == ASSUME TypeOK, Slow, [Next]_vars PROVE Slow'
<1>1. CASE line' = line
  BY <1>1 DEF Slow, MidFrame
<1>2. CASE line' = Sent \/ line' = [Sent EXCEPT !.faults = @ + 1]
  <2>1. line'.next = Sent.next /\ line'.pause = Sent.pause
    BY <1>2, SentType DEF Line
  <2> QED
    BY <2>1, SlowSent DEF Slow, MidFrame
<1>3. CASE \/ line' = [line EXCEPT !.pause = Passed]
           \/ line' = [line EXCEPT !.faults = @ + 1, !.pause = Passed]
           \/ line' = [line EXCEPT !.faults = @ + 1]
  <2>1. line'.next = line.next /\ (line'.pause = Passed \/ line'.pause = line.pause)
    BY <1>3, LineParts DEF Line
  <2> QED
    BY <2>1, SlowPassed DEF Slow, MidFrame
<1>4. CASE Handler
  <2>1. line' = line
    BY <1>4 DEF Handler, Interrupt, Receive, TimedOut, HeaderRead, RestRead, Resync,
       ResyncTurn, ResyncFull, Store
  <2> QED
    BY <1>1, <2>1
<1>5. CASE Tick
  BY <1>3, <1>5 DEF Tick
<1>6. CASE Send
  BY <1>2, <1>6 DEF Send
<1>7. CASE Fault
  BY <1>2, <1>3, <1>7 DEF Fault
<1>8. CASE UNCHANGED vars
  BY <1>1, <1>8 DEF vars
<1> QED
  BY <1>4, <1>5, <1>6, <1>7, <1>8 DEF Next

-----------------------------------------------------------------------------
(* An aligned receiver, step by step.                                      *)

\* The byte that is awaited is of this frame: the frame goes on.
LEMMA GoesOn ==
  ASSUME TypeOK, NEW n \in Nat, n < FrameLen, InStep(n)
  PROVE  /\ reg = Empty => MidFrame /\ line.next = n
         /\ reg # Empty => reg = n
         /\ reg # Empty /\ n + 1 < FrameLen => MidFrame
         /\ reg = Empty => waited <= 1
BY LinkTypes, Frame, SMT DEF InStep, After, MidFrame

LEMMA AlignedInterrupt ==
  ASSUME Inv, Slow, Aligned, Interrupt
  PROVE  Aligned' /\ pc' # "bad"
<1>1. /\ TypeOK /\ pc = "idle" /\ reg # Empty /\ pc' = "header" /\ whole' = TRUE
      /\ Begin(Header, tick) /\ UNCHANGED <<tick, line, reg>>
  BY DEF Inv, Interrupt
<1>2. reg = 0 /\ line.next = 1
  BY <1>1 DEF Aligned
<1>3. /\ got' = 0 /\ want' = Header /\ waited' = 0 /\ elapsed' = 0
  BY <1>1 DEF Begin
<1>4. reg' = 0 /\ line'.next = 1 /\ line'.pause <= 1 /\ line'.pause \in Nat
  BY <1>1, <1>2, LinkTypes, SMT DEF Slow, MidFrame
<1>5. InStep(got)'
  BY <1>3, <1>4, Frame, SMT DEF InStep, After, MidFrame
<1> QED
  BY <1>1, <1>3, <1>5 DEF Aligned

\* One byte, or none.
LEMMA InStepReceive ==
  ASSUME Inv, Receive, NEW n \in Nat, n < FrameLen, InStep(n),
         got' < want' => n + (got' - got) < FrameLen
  PROVE  /\ reg # Empty => reg = n /\ got' = got + 1
         /\ reg = Empty => got' = got /\ whole' = whole
         /\ \A k \in Nat : k = n + (got' - got) => InStep(k)'
<1>1. /\ TypeOK /\ pc \in Receiving /\ reg' = Empty /\ polled' = TRUE
      /\ UNCHANGED <<tick, line, pc, want, waited, distance>>
  BY DEF Inv, Receive
<1>2. elapsed' <= waited
  <2>1. ReceiveClock' /\ TypeOK'
    BY ReceiveStep DEF Inv
  <2>2. start' = tick /\ tick' = tick /\ tick \in Nat
    BY <1>1, ClockTypes DEF Receive
  <2>3. Since' = 0
    BY <2>2, SMT DEF Since
  <2>4. elapsed' <= waited' - Since'
    BY <1>1, <2>1 DEF ReceiveClock
  <2> QED
    BY <1>1, <2>3, <2>4, LinkTypes, SMT
<1>3. /\ reg = Empty => got' = got /\ whole' = whole
      /\ reg # Empty => got' = got + 1
  BY DEF Receive
<1>4. reg # Empty => reg = n
  BY <1>1, GoesOn
<1>5. Lag' = 0 /\ Unread' = 0 /\ MidFrame' = MidFrame
  BY <1>1 DEF Lag, Unread, MidFrame
<1>6. elapsed' \in Nat /\ got' \in Nat
  BY ReceiveStep, Numbers, SMT DEF Inv, TypeOK
<1>7. ASSUME NEW k \in Nat, k = n + (got' - got) PROVE InStep(k)'
  <2>1. reg' = Empty /\ k > 0 /\ line'.next = After(k)
    <3>1. CASE reg = Empty
      <4>1. k = n
        BY <1>1, <1>3, <1>7, <3>1, LinkTypes, SMT
      <4>2. reg # n
        BY <3>1, Frame, SMT
      <4>3. n > 0 /\ line.next = After(n)
        BY <3>1, <4>2 DEF InStep
      <4> QED
        BY <1>1, <4>1, <4>3
    <3>2. CASE reg # Empty
      <4>1. k = n + 1
        BY <1>1, <1>3, <1>7, <3>2, LinkTypes, SMT
      <4>2. line.next = After(n + 1)
        BY <3>2 DEF InStep
      <4> QED
        BY <1>1, <4>1, <4>2, SMT
    <3> QED
      BY <3>1, <3>2
  <2>2. MidFrame' => waited' + line'.pause <= 1
    BY <1>1, <1>5 DEF InStep
  <2>3. ~MidFrame' => line'.pause + waited' >= Gap /\ waited' <= 2 + Lag' - Unread'
    BY <1>1, <1>5, <1>7, GoesOn, LinkTypes, SMT DEF InStep, Unread, Lag
  <2>4. got' < want' => elapsed' <= 1
    <3> SUFFICES ASSUME got' < want' PROVE elapsed' <= 1
      OBVIOUS
    <3>1. k < FrameLen
      BY <1>7
    <3>2. MidFrame
      BY <1>1, <2>1, <3>1, LinkTypes, SMT DEF After, MidFrame
    <3> QED
      BY <1>2, <1>6, <3>2, LinkTypes, <1>1, SMT DEF InStep
  <2> QED
    BY <2>1, <2>2, <2>3, <2>4 DEF InStep
<1> QED
  BY <1>3, <1>4, <1>7

LEMMA Shift ==
  ASSUME NEW a \in Nat, NEW b \in Nat, NEW c \in Nat
  PROVE  a + c = a + b + (c - b) /\ a + c \in Nat
OBVIOUS

LEMMA AlignedReceive ==
  ASSUME Inv, Aligned, Receive
  PROVE  Aligned' /\ pc' # "bad"
<1>1. /\ TypeOK /\ pc \in Receiving /\ got < want /\ reg' = Empty
      /\ UNCHANGED <<tick, line, pc, want, waited, distance>>
  BY DEF Inv, Receive
<1>2. /\ reg = Empty => got' = got /\ whole' = whole
      /\ reg # Empty => got' = got + 1
  BY DEF Receive
<1>3. got' \in Nat /\ got' <= want /\ (got' = got \/ got' = got + 1)
  BY <1>1, <1>2, LinkTypes, SMT
<1>4. CASE pc = "header"
  <2>1. whole /\ want = Header /\ InStep(got)
    BY <1>4 DEF Aligned
  <2>2. got \in Nat /\ got < FrameLen /\ (got' < want' => got + (got' - got) < FrameLen)
    BY <1>1, <1>3, <2>1, LinkTypes, Frame, SMT
  <2>3. got' = got + (got' - got)
    BY <1>3, LinkTypes, <1>1, SMT
  <2>4. /\ reg # Empty => reg = got
        /\ \A k \in Nat : k = got + (got' - got) => InStep(k)'
    BY <2>1, <2>2, InStepReceive
  <2>5. InStep(got)'
    BY <1>3, <2>3, <2>4 DEF InStep
  <2>6. reg # Empty => whole' = (whole /\ reg = got)
    BY <1>4 DEF Receive
  <2>7. whole'
    BY <1>2, <2>1, <2>4, <2>6
  <2> QED
    BY <1>1, <1>4, <2>1, <2>5, <2>7 DEF Aligned
<1>5. CASE pc = "rest"
  <2>1. whole /\ want = FrameLen - Header /\ InStep(Header + got)
    BY <1>5 DEF Aligned
  <2>2. Header + got \in Nat /\ Header + got < FrameLen
        /\ (got' < want' => Header + got + (got' - got) < FrameLen)
    BY <1>1, <1>3, <2>1, LinkTypes, Frame, SMT
  <2>3. Header + got' = Header + got + (got' - got) /\ Header + got' \in Nat
    <3>1. got \in Nat /\ got' \in Nat /\ Header \in Nat
      BY <1>1, <1>3, LinkTypes, Frame
    <3> QED
      BY <3>1, Shift
  <2>4. /\ reg # Empty => reg = Header + got
        /\ \A k \in Nat : k = Header + got + (got' - got) => InStep(k)'
    BY <2>1, <2>2, InStepReceive
  <2>5. InStep(Header + got)'
    BY <2>3, <2>4 DEF InStep
  <2>6. reg # Empty => whole' = (whole /\ reg = Header + got)
    BY <1>5 DEF Receive
  <2>7. whole'
    BY <1>2, <2>1, <2>4, <2>6
  <2> QED
    BY <1>1, <1>5, <2>1, <2>5, <2>7 DEF Aligned
<1> QED
  BY <1>1, <1>4, <1>5 DEF Receiving

\* No wait for a byte of an aligned receiver ends without it.
LEMMA AlignedWaits ==
  ASSUME Inv, Ample, Aligned
  PROVE  ~TimedOut
<1> SUFFICES ASSUME TimedOut PROVE FALSE
  OBVIOUS
<1>1. pc \in Receiving /\ got < want /\ elapsed >= Timeout
  BY DEF TimedOut
<1>2. elapsed <= 1
  BY <1>1 DEF Aligned, InStep, Receiving
<1> QED
  BY <1>1, <1>2, ClockTypes, Numbers, SMT DEF Inv, Ample

\* A part has been read.
LEMMA AlignedHeaderRead ==
  ASSUME Inv, Slow, Aligned, HeaderRead
  PROVE  Aligned' /\ pc' # "bad"
<1>1. TypeOK /\ pc = "header" /\ got = want /\ whole /\ want = Header /\ InStep(Header)
  BY DEF Inv, HeaderRead, Aligned
<1>2. Lengths = {FrameLen}
  BY <1>1 DEF Lengths
<1>3. /\ pc' = "rest" /\ Begin(FrameLen - Header, tick)
      /\ UNCHANGED <<tick, line, reg, whole, distance>>
  <2>1. FrameLen # 0
    BY Frame, SMT
  <2> QED
    BY <1>2, <2>1 DEF HeaderRead
<1>4. got' = 0 /\ want' = FrameLen - Header /\ waited' = 0 /\ elapsed' = 0
  BY <1>3 DEF Begin
<1>5. MidFrame
  BY <1>1, LinkTypes, Frame, SMT DEF InStep, After, MidFrame
<1>6. InStep(Header)'
  <2>1. MidFrame'
    BY <1>3, <1>5 DEF MidFrame
  <2>2. waited' + line'.pause <= 1
    BY <1>1, <1>3, <1>4, <1>5, LinkTypes, SMT DEF Slow
  <2>3. elapsed' <= 1
    BY <1>4, SMT
  <2>4. \/ reg' = Empty /\ Header > 0 /\ line'.next = After(Header)
        \/ reg' = Header /\ line'.next = After(Header + 1)
    BY <1>1, <1>3 DEF InStep
  <2> QED
    BY <2>1, <2>2, <2>3, <2>4 DEF InStep
<1>7. Header + got' = Header
  BY <1>4, Frame, SMT
<1>8. InStep(Header + got)'
  BY <1>6, <1>7 DEF InStep
<1> QED
  BY <1>1, <1>3, <1>4, <1>8 DEF Aligned

LEMMA AlignedRestRead ==
  ASSUME Inv, Aligned, RestRead
  PROVE  Aligned' /\ pc' # "bad"
<1>1. /\ TypeOK /\ pc = "rest" /\ got = want /\ whole /\ want = FrameLen - Header
      /\ InStep(Header + got)
  BY DEF Inv, RestRead, Aligned
<1>2. pc' = "good" /\ UNCHANGED <<tick, line, reg, part, distance>>
  BY <1>1 DEF RestRead
<1>3. Header + got = FrameLen
  BY <1>1, Frame, LinkTypes, SMT
<1>4. reg = Empty /\ line.next = 0
  BY <1>1, <1>3, LinkTypes, Frame, SMT DEF InStep, After
<1> QED
  BY <1>2, <1>4 DEF Aligned

\* No frame is being read, or none that goes on: nothing the receiver does not
\* know of changes.
LEMMA AlignedStore ==
  ASSUME Aligned, Store
  PROVE  Aligned' /\ pc' # "bad"
BY DEF Aligned, Store

\* A tick brings what is awaited a tick nearer.
LEMMA AlignedTick ==
  ASSUME Inv, Slow, Aligned, Tick
  PROVE  Aligned' /\ pc' = pc
<1>1. /\ TypeOK /\ Count /\ line' = [line EXCEPT !.pause = Passed]
      /\ UNCHANGED <<reg, pc, got, want, whole, start, elapsed, distance>>
  BY DEF Inv, Tick
<1>2. /\ line'.next = line.next
      /\ line'.pause = IF line.pause > 0 THEN line.pause - 1 ELSE 0
      /\ MidFrame' = MidFrame
  BY <1>1, TickParts DEF MidFrame
<1>3. ASSUME NEW n \in Nat, pc \in Receiving, InStep(n) PROVE InStep(n)'
  <2>1. waited' = waited + 1 /\ polled' = FALSE /\ polled
    BY <1>1, <1>3 DEF Count, Waiting, Tick
  <2>2. Lag = 0 /\ Lag' = 1 /\ Unread' = Unread
    BY <1>1, <2>1 DEF Lag, Unread
  <2>3. MidFrame => line.pause > 0
    BY DEF Tick
  <2>4. MidFrame' => waited' + line'.pause <= 1
    BY <1>1, <1>2, <1>3, <2>1, <2>3, LinkTypes, SMT DEF InStep
  <2>5. ~MidFrame' => line'.pause + waited' >= Gap /\ waited' <= 2 + Lag' - Unread'
    BY <1>1, <1>2, <1>3, <2>1, <2>2, LinkTypes, Frame, SMT DEF InStep
  <2>6. /\ \/ reg' = Empty /\ n > 0 /\ line'.next = After(n)
           \/ reg' = n /\ line'.next = After(n + 1)
        /\ got' < want' => elapsed' <= 1
    BY <1>1, <1>2, <1>3 DEF InStep
  <2> QED
    BY <2>4, <2>5, <2>6 DEF InStep
<1>4. pc = "header" => InStep(got)'
  <2> SUFFICES ASSUME pc = "header" PROVE InStep(got)'
    OBVIOUS
  <2>1. got \in Nat /\ got' = got /\ pc \in Receiving /\ InStep(got)
    BY <1>1, LinkTypes DEF Aligned, Receiving
  <2> QED
    BY <1>3, <2>1 DEF InStep
<1>5. pc = "rest" => InStep(Header + got)'
  <2> SUFFICES ASSUME pc = "rest" PROVE InStep(Header + got)'
    OBVIOUS
  <2>1. Header + got \in Nat
    BY <1>1, LinkTypes, Frame, SMT
  <2>2. got' = got /\ pc \in Receiving /\ InStep(Header + got)
    BY <1>1 DEF Aligned, Receiving
  <2> QED
    BY <1>3, <2>1, <2>2 DEF InStep
<1>6. pc \in {"idle", "good", "bad"} =>
        ((reg' = Empty /\ line'.next = 0) \/ (reg' = 0 /\ line'.next = 1))
  BY <1>1, <1>2 DEF Aligned
<1> QED
  BY <1>1, <1>4, <1>5, <1>6 DEF Aligned

\* The byte that is sent is the one awaited.
LEMMA AlignedSend ==
  ASSUME Inv, Slow, Aligned, Send
  PROVE  Aligned' /\ pc' = pc
<1>1. /\ TypeOK /\ reg = Empty /\ reg' = line.next /\ line' = Sent
      /\ UNCHANGED <<tick, pc, got, want, whole, waited, polled, elapsed>>
  BY DEF Inv, Send, part
<1>2. MidFrame \/ line.pause = 0
  BY DEF Send, MaySend
<1>3. /\ line'.next = IF line.next + 1 = FrameLen THEN 0 ELSE line.next + 1
      /\ line'.pause = IF line.next + 1 = FrameLen THEN Gap
                       ELSE IF line.next = 0 THEN 1 ELSE line.pause
  BY <1>1, SentParts
<1>4. reg' # Empty
  BY <1>1, LinkTypes, Frame, SMT
<1>5. Unread = 0 /\ Unread' = 1 /\ Lag' = Lag
  BY <1>1, <1>4 DEF Unread, Lag
<1>6. ASSUME NEW n \in Nat, InStep(n) PROVE InStep(n)'
  <2>1. n > 0 /\ line.next = After(n)
    BY <1>1, <1>6, LinkTypes, Frame, SMT DEF InStep, After
  <2>2. n < FrameLen
    <3> SUFFICES ASSUME n = FrameLen PROVE FALSE
      BY <1>1, <1>6, <2>1, LinkTypes, Frame, SMT DEF After
    <3>1. line.next = 0 /\ ~MidFrame /\ line.pause = 0
      BY <1>2, <2>1, LinkTypes, <1>1, SMT DEF After, MidFrame
    <3> QED
      BY <1>1, <1>5, <1>6, <3>1, LinkTypes, Frame, SMT DEF InStep
  <2>3. line.next = n /\ MidFrame /\ waited + line.pause <= 1
    BY <1>6, <2>1, <2>2, SMT DEF After, MidFrame, InStep
  <2>4. reg' = n /\ line'.next = After(n + 1)
    BY <1>1, <1>3, <2>3, SMT DEF After
  <2>5. MidFrame' => waited' + line'.pause <= 1
    BY <1>1, <1>3, <2>1, <2>3, Frame, SMT DEF MidFrame
  <2>6. ~MidFrame' => n + 1 = FrameLen
    BY <1>3, <2>3, SMT DEF MidFrame
  <2>7. ~MidFrame' => line'.pause + waited' >= Gap /\ waited' <= 2 + Lag' - Unread'
    BY <1>1, <1>3, <1>5, <2>3, <2>6, LinkTypes, Frame, SMT
  <2>8. got' < want' => elapsed' <= 1
    BY <1>1, <1>6 DEF InStep
  <2> QED
    BY <2>4, <2>5, <2>7, <2>8 DEF InStep
<1>7. pc = "header" => InStep(got)'
  <2> SUFFICES ASSUME pc = "header" PROVE InStep(got)'
    OBVIOUS
  <2>1. got' = got /\ InStep(got)
    BY <1>1 DEF Aligned
  <2>2. got \in Nat
    BY <1>1, LinkTypes
  <2> QED
    BY <1>6, <2>1, <2>2 DEF InStep
<1>8. pc = "rest" => InStep(Header + got)'
  <2> SUFFICES ASSUME pc = "rest" PROVE InStep(Header + got)'
    OBVIOUS
  <2>1. got' = got /\ InStep(Header + got)
    BY <1>1 DEF Aligned
  <2>2. Header + got \in Nat
    BY <1>1, LinkTypes, Frame, SMT
  <2> QED
    BY <1>6, <2>1, <2>2 DEF InStep
<1>9. pc \in {"idle", "good", "bad"} => (reg' = 0 /\ line'.next = 1)
  <2> SUFFICES ASSUME pc \in {"idle", "good", "bad"} PROVE reg' = 0 /\ line'.next = 1
    OBVIOUS
  <2>1. line.next = 0
    BY <1>1, Frame, SMT DEF Aligned
  <2> QED
    BY <1>1, <1>3, <2>1, Frame, SMT
<1> QED
  BY <1>1, <1>7, <1>8, <1>9 DEF Aligned

LEMMA FaultCounts ==
  ASSUME Inv, Fault
  PROVE  line'.faults = line.faults + 1 /\ line'.faults # line.faults
<1>1. \/ line' = [Sent EXCEPT !.faults = @ + 1]
      \/ line' = [line EXCEPT !.faults = @ + 1]
      \/ line' = [line EXCEPT !.faults = @ + 1, !.pause = Passed]
  BY DEF Fault
<1>2. line'.faults = line.faults + 1
  BY <1>1, LineParts, SentType DEF Line, Inv
<1> QED
  BY <1>2, ClockTypes, SMT DEF Inv

LEMMA AlignedStep ==
  ASSUME Inv, Slow, Ample, Aligned, [Next]_vars, line'.faults = line.faults
  PROVE  Aligned' /\ (pc' = "bad" => pc = "bad")
<1>1. CASE Handler
  <2>1. ~TimedOut
    BY AlignedWaits
  <2>2. ~ResyncTurn /\ ~ResyncFull
    BY DEF Aligned, ResyncTurn, ResyncFull
  <2> QED
    BY <1>1, <2>1, <2>2, AlignedInterrupt, AlignedReceive, AlignedHeaderRead,
       AlignedRestRead, AlignedStore DEF Handler
<1>2. CASE UNCHANGED vars
  BY <1>2 DEF vars, part, Aligned, InStep, MidFrame, Lag, Unread
<1> QED
  BY <1>1, <1>2, AlignedTick, AlignedSend, FaultCounts DEF Next

-----------------------------------------------------------------------------
(* A receiver that is not aligned from the start.                          *)

\* The search begins.
LEMMA SearchResync ==
  ASSUME Inv, Slow, Searching, Resync
  PROVE  Searching'
<1>1. /\ TypeOK /\ pc' = "resync" /\ Begin(MaxMessage, tick)
      /\ UNCHANGED <<tick, line, reg, whole, distance>>
  BY DEF Inv, Resync
<1>2. got' = 0 /\ want' = MaxMessage /\ waited' = 0
  BY <1>1 DEF Begin
<1>3. MidFrame' = MidFrame /\ Unread' = Unread
  BY <1>1 DEF MidFrame, Unread
<1>4. got' + Unread' <= 1 /\ got' + Unread' <= line'.next + 1
  BY <1>1, <1>2, <1>3, LinkTypes, SMT
<1>5. MidFrame' => waited' + line'.pause <= 1
  BY <1>1, <1>2, <1>3, LinkTypes, SMT DEF Slow
<1>6. Resyncing'
  BY <1>2, <1>4, <1>5 DEF Resyncing
<1> QED
  BY <1>1, <1>6 DEF Searching, Receiving

\* What is read is not a frame.
LEMMA SearchHandler ==
  ASSUME Inv, Slow, Searching, Handler, pc # "resync"
  PROVE  Searching'
<1>1. TypeOK /\ distance = "zero" /\ pc \notin {"good", "bad"}
  BY DEF Inv, Searching
<1>2. CASE Interrupt
  <2>1. /\ reg \notin {0, Empty} /\ pc' = "header" /\ Begin(Header, tick)
        /\ UNCHANGED <<tick, line, reg, distance>>
    BY <1>2 DEF Interrupt, Searching
  <2>2. got' = 0 /\ want' = Header
    BY <2>1 DEF Begin
  <2> QED
    BY <1>1, <2>1, <2>2 DEF Searching, Receiving
<1>3. CASE Receive
  <2>1. /\ pc \in Receiving /\ UNCHANGED <<line, pc, want, distance>>
        /\ IF reg = Empty THEN UNCHANGED <<got, whole>>
           ELSE whole' = (whole /\ reg = IF pc = "header" THEN got ELSE Header + got)
    BY <1>3 DEF Receive
  <2>2. ~whole'
    BY <2>1 DEF Searching
  <2> QED
    BY <1>1, <2>1, <2>2 DEF Searching, Receiving
<1>4. CASE TimedOut
  BY <1>4, SearchResync DEF TimedOut
<1>5. CASE HeaderRead
  <2>1. PICK n \in Lengths :
          \/ n = 0 /\ Resync
          \/ /\ n > 0 /\ pc' = "rest"
             /\ Begin(n - Header, tick)
             /\ UNCHANGED <<tick, line, reg, whole, distance>>
    BY <1>5 DEF HeaderRead
  <2>2. CASE Resync
    BY <2>2, SearchResync
  <2>3. CASE pc' = "rest" /\ UNCHANGED <<tick, line, reg, whole, distance>>
    <3>1. pc = "header" /\ got = want
      BY <1>5 DEF HeaderRead
    <3>2. ~whole \/ got = 0
      BY <3>1 DEF Searching, Receiving
    <3>3. ~whole
      <4>1. want = Header
        BY <3>1 DEF Searching
      <4> QED
        BY <3>1, <3>2, <4>1, Frame, SMT
    <3> QED
      BY <1>1, <2>3, <3>3 DEF Searching, Receiving
  <2> QED
    BY <2>1, <2>2, <2>3
<1>6. CASE RestRead
  <2>1. ~whole
    BY <1>6 DEF RestRead, Searching, Receiving
  <2> QED
    BY <1>6, <2>1, SearchResync DEF RestRead
<1> QED
  BY <1>1, <1>2, <1>3, <1>4, <1>5, <1>6 DEF Handler, ResyncTurn, ResyncFull, Store

\* A turn of the search: it is over after a silence that no frame has.
LEMMA SearchTurn ==
  ASSUME Inv, Slow, Ample, Searching, ResyncTurn
  PROVE  (Aligned \/ Searching)'
<1>1. /\ TypeOK /\ pc = "resync" /\ reg' = Empty /\ polled' = TRUE
      /\ UNCHANGED <<tick, line, want, whole, distance>>
      /\ distance = "zero" /\ Resyncing
  BY DEF Inv, ResyncTurn, Searching
<1>2. pc' = IF elapsed' >= Silence THEN "bad" ELSE "resync"
  BY <1>1 DEF ResyncTurn
<1>3. Unread' = 0 /\ Lag' = 0 /\ MidFrame' = MidFrame
  BY <1>1 DEF Unread, Lag, MidFrame
<1>4. CASE reg # Empty
  <2>1. got' = got + 1 /\ elapsed' = 0 /\ waited' = 0
    BY <1>4 DEF ResyncTurn
  <2>2. pc' = "resync"
    BY <1>2, <2>1, Frame, SMT
  <2>3. got' + Unread' = got + Unread
    BY <1>3, <1>4, <2>1, LinkTypes, <1>1, SMT DEF Unread
  <2>4. MidFrame' => got' + Unread' <= line'.next + 1 /\ waited' + line'.pause <= 1
    BY <1>1, <1>3, <2>1, <2>3, LinkTypes, SMT DEF Resyncing, Slow
  <2>5. ~MidFrame' => \/ got' + Unread' <= 1
                      \/ got' + Unread' <= FrameLen + 1 /\ line'.pause + waited' >= Gap - 1
    BY <1>1, <1>3, <1>4, <2>1, <2>3, LinkTypes, Frame, SMT DEF Resyncing, Lag
  <2>6. Resyncing'
    BY <1>1, <2>4, <2>5 DEF Resyncing
  <2> QED
    BY <1>1, <2>2, <2>6 DEF Searching, Receiving
<1>5. CASE reg = Empty
  <2>1. got' = got /\ waited' = waited
    BY <1>5 DEF ResyncTurn
  <2>2. elapsed' <= waited
    <3>1. /\ elapsed' = TicksDiff(start) /\ Since < Horizon /\ waited = Since
          /\ TicksDiff(start) = Since \/ TicksDiff(start) = Since - 1
      BY <1>1, <1>5, NotFar, DiffRight DEF ResyncTurn, Inv, ResyncClock, Waiting
    <3> QED
      BY <1>1, <3>1, ClockTypes, SMT
  <2>3. CASE MidFrame
    <3>1. waited <= 1
      BY <1>1, <1>5, <2>3, LinkTypes, SMT DEF Resyncing
    <3>2. elapsed' \in Nat
      BY ResyncTurnStep DEF Inv, TypeOK
    <3>3. pc' = "resync"
      BY <1>1, <1>2, <2>2, <3>1, <3>2, LinkTypes, Frame, SMT DEF Ample
    <3>4. Resyncing'
      BY <1>1, <1>3, <1>5, <2>1, <2>3 DEF Resyncing, Unread
    <3> QED
      BY <1>1, <3>3, <3>4 DEF Searching, Receiving
  <2>4. CASE ~MidFrame
    <3>1. CASE pc' = "bad"
      <4>1. line'.next = 0
        BY <1>1, <2>4, LinkTypes, SMT DEF MidFrame
      <4> QED
        BY <1>1, <3>1, <4>1 DEF Aligned
    <3>2. CASE pc' = "resync"
      <4>1. Unread = 0
        BY <1>5 DEF Unread
      <4>2. Resyncing'
        BY <1>1, <1>3, <1>5, <2>1, <2>4, <4>1 DEF Resyncing
      <4> QED
        BY <1>1, <3>2, <4>2 DEF Searching, Receiving
    <3> QED
      BY <1>2, <3>1, <3>2
  <2> QED
    BY <2>3, <2>4
<1> QED
  BY <1>4, <1>5

\* The search does not end with a full message.
LEMMA SearchRoom ==
  ASSUME Inv, Ample, Searching
  PROVE  ~ResyncFull
<1> SUFFICES ASSUME ResyncFull PROVE FALSE
  OBVIOUS
<1>1. TypeOK /\ pc = "resync" /\ got = want
  BY DEF Inv, ResyncFull
<1>2. Resyncing
  BY <1>1 DEF Searching
<1> QED
  BY <1>1, <1>2, LinkTypes, Frame, SMT DEF Resyncing, Ample

LEMMA SearchTick ==
  ASSUME Inv, Slow, Searching, Tick
  PROVE  Searching'
<1>1. /\ TypeOK /\ Count /\ line' = [line EXCEPT !.pause = Passed]
      /\ UNCHANGED <<reg, pc, got, want, whole, distance>>
  BY DEF Inv, Tick
<1>2. /\ line'.next = line.next
      /\ line'.pause = IF line.pause > 0 THEN line.pause - 1 ELSE 0
      /\ MidFrame' = MidFrame
  BY <1>1, TickParts DEF MidFrame
<1>3. CASE pc = "resync"
  <2>1. Resyncing /\ polled /\ waited' = waited + 1 /\ polled' = FALSE
    BY <1>1, <1>3 DEF Searching, Tick, Count, Waiting
  <2>2. Lag = 0 /\ Lag' = 1 /\ Unread' = Unread
    BY <1>1, <2>1 DEF Lag, Unread
  <2>3. MidFrame => line.pause > 0
    BY DEF Tick
  <2>4. MidFrame' => got' + Unread' <= line'.next + 1
    BY <1>1, <1>2, <2>1, <2>2 DEF Resyncing
  <2>5. MidFrame' /\ reg' = Empty => waited' + line'.pause <= 1
    BY <1>1, <1>2, <2>1, <2>3, LinkTypes, SMT DEF Resyncing
  <2>6. line.pause + waited >= Gap - 1 => line'.pause + waited' >= Gap - 1
    BY <1>1, <1>2, <2>1, LinkTypes, Frame, SMT
  <2>7. line.pause >= Gap - Lag => line'.pause >= Gap - Lag'
    BY <1>1, <1>2, <2>2, LinkTypes, Frame, SMT
  <2>8. Resyncing'
    BY <1>1, <1>2, <2>1, <2>2, <2>4, <2>5, <2>6, <2>7 DEF Resyncing
  <2> QED
    BY <1>1, <1>3, <2>8 DEF Searching, Receiving
<1>4. CASE pc # "resync"
  BY <1>1, <1>2, <1>4 DEF Searching
<1> QED
  BY <1>3, <1>4

LEMMA SearchSend ==
  ASSUME Inv, Slow, Searching, Send, line.faults = 0
  PROVE  Searching'
<1>1. /\ TypeOK /\ reg = Empty /\ reg' = line.next /\ line' = Sent
      /\ UNCHANGED <<tick, pc, got, want, whole, waited, polled, elapsed, distance>>
  BY DEF Inv, Send, part
<1>2. MidFrame \/ line.pause = 0
  BY DEF Send, MaySend
<1>3. /\ line'.next = IF line.next + 1 = FrameLen THEN 0 ELSE line.next + 1
      /\ line'.pause = IF line.next + 1 = FrameLen THEN Gap
                       ELSE IF line.next = 0 THEN 1 ELSE line.pause
  BY <1>1, SentParts
<1>4. reg' # Empty
  BY <1>1, LinkTypes, Frame, SMT
<1>5. Unread = 0 /\ Unread' = 1 /\ Lag' = Lag
  BY <1>1, <1>4 DEF Unread, Lag
<1>6. CASE pc = "resync"
  <2>1. Resyncing
    BY <1>6 DEF Searching
  <2>2. CASE MidFrame
    <3>1. got <= line.next + 1
      BY <1>1, <1>5, <2>1, <2>2, LinkTypes, SMT DEF Resyncing
    <3>2. MidFrame' => got' + Unread' <= line'.next + 1
      BY <1>1, <1>3, <1>5, <3>1, LinkTypes, Frame, SMT DEF MidFrame
    <3>3. ~MidFrame' => got' + Unread' <= FrameLen + 1 /\ line'.pause >= Gap - Lag'
      BY <1>1, <1>3, <1>5, <3>1, LinkTypes, Frame, SMT DEF MidFrame
    <3> QED
      BY <1>1, <1>4, <1>6, <2>1, <3>2, <3>3 DEF Resyncing, Searching, Receiving
  <2>3. CASE ~MidFrame
    <3>1. line.pause = 0 /\ line.next = 0
      BY <1>1, <1>2, <2>3, LinkTypes, SMT DEF MidFrame
    <3>2. ~(line.pause + waited >= Gap - 1)
      <4>1. waited <= elapsed + 1 + Late /\ elapsed < Silence
        BY <1>6 DEF Inv, ResyncClock
      <4>2. Late <= 1
        BY <1>1, ClockTypes, SMT DEF Late
      <4> QED
        BY <1>1, <3>1, <4>1, <4>2, LinkTypes, ClockTypes, Frame, SMT
    <3>3. got <= 1
      BY <1>1, <1>5, <2>1, <2>3, <3>2, LinkTypes, SMT DEF Resyncing
    <3>4. line'.next = 1 /\ MidFrame'
      BY <1>3, <3>1, Frame, SMT DEF MidFrame
    <3>5. got' + Unread' <= line'.next + 1
      BY <1>1, <1>5, <3>3, <3>4, LinkTypes, SMT
    <3> QED
      BY <1>1, <1>4, <1>6, <2>1, <3>4, <3>5 DEF Resyncing, Searching, Receiving
  <2> QED
    BY <2>2, <2>3
<1>7. CASE pc = "idle"
  <2>1. MidFrame
    BY <1>1, <1>7 DEF Searching
  <2>2. reg' # 0
    BY <1>1, <2>1, LinkTypes, SMT DEF MidFrame
  <2> QED
    BY <1>1, <1>4, <1>7, <2>2 DEF Searching, Receiving
<1>8. CASE pc \in Receiving
  <2>1. ~whole
    BY <1>1, <1>8 DEF Searching
  <2> QED
    BY <1>1, <1>8, <2>1 DEF Searching, Receiving
<1> QED
  BY <1>1, <1>6, <1>7, <1>8 DEF Searching, TypeOK, Waiting

-----------------------------------------------------------------------------
LEMMA FoundInit == Init => Slow /\ Found
<1> SUFFICES ASSUME Init PROVE Slow /\ Found
  OBVIOUS
<1>1. /\ line \in [next : 0 .. FrameLen - 1, pause : {1}, faults : {0}]
      /\ reg = Empty /\ pc = "idle" /\ distance = "zero"
  BY DEF Init
<1>2. line.pause = 1 /\ line.next \in 0 .. FrameLen - 1
  BY <1>1
<1>3. Slow
  BY <1>2, SMT DEF Slow
<1>4. reg # 0
  BY <1>1, Frame, SMT
<1>5. CASE MidFrame
  BY <1>1, <1>3, <1>4, <1>5 DEF Found, Searching, Receiving
<1>6. CASE ~MidFrame
  <2>1. line.next = 0
    BY <1>2, <1>6, Frame, SMT DEF MidFrame
  <2> QED
    BY <1>1, <1>3, <2>1 DEF Found, Aligned
<1> QED
  BY <1>5, <1>6

\* Nothing has failed before either.
LEMMA FaultsGrow ==
  ASSUME Inv, [Next]_vars, line'.faults = 0
  PROVE  line.faults = 0
<1>1. TypeOK /\ TypeOK'
  BY InvStep DEF Inv
<1>2. line.faults \in Nat
  BY <1>1, ClockTypes
<1>3. CASE line' = line
  BY <1>3
<1>4. CASE Handler
  <2>1. line' = line
    BY <1>4 DEF Handler, Interrupt, Receive, TimedOut, HeaderRead, RestRead, Resync,
       ResyncTurn, ResyncFull, Store
  <2> QED
    BY <2>1
<1>5. CASE Tick
  BY <1>1, <1>5, TickParts DEF Tick
<1>6. CASE Send
  BY <1>1, <1>6, SentParts DEF Send
<1>7. CASE Fault
  BY <1>2, <1>7, FaultCounts, SMT
<1> QED
  BY <1>3, <1>4, <1>5, <1>6, <1>7 DEF Next, vars

LEMMA FoundStep ==
  ASSUME Ample, SyncInv, [Next]_vars
  PROVE  Found'
<1> SUFFICES ASSUME line'.faults = 0
             PROVE  (Aligned \/ Searching)' /\ (pc' = "bad" => distance' = "zero")
  BY DEF Found
<1>1. Inv /\ Slow /\ line.faults = 0
  BY FaultsGrow DEF SyncInv
<1>2. Aligned \/ Searching
  BY <1>1 DEF SyncInv, Found
<1>3. CASE Aligned
  <2>1. Aligned' /\ (pc' = "bad" => pc = "bad")
    BY <1>1, <1>3, AlignedStep
  <2>2. pc' = "bad" => distance = "zero"
    BY <1>1, <2>1 DEF SyncInv, Found
  <2>3. pc' = "bad" => distance' = distance
    BY <2>1 DEF Next, Handler, Interrupt, Receive, TimedOut, HeaderRead, RestRead,
       ResyncTurn, ResyncFull, Store, Tick, Send, Fault, vars, Receiving
  <2> QED
    BY <2>1, <2>2, <2>3
<1>4. CASE Searching
  <2>1. distance = "zero" /\ pc # "good" /\ pc # "bad"
    BY <1>4 DEF Searching
  <2>2. distance' = distance
    BY <2>1 DEF Next, Handler, Interrupt, Receive, TimedOut, HeaderRead, RestRead, Resync,
       ResyncTurn, ResyncFull, Store, Tick, Send, Fault, vars
  <2>3. (Aligned \/ Searching)'
    <3>1. CASE Handler
      <4>1. CASE ResyncTurn
        BY <1>1, <1>4, <4>1, SearchTurn
      <4>2. CASE ~ResyncTurn
        <5>1. ~ResyncFull
          BY <1>1, <1>4, SearchRoom
        <5>2. CASE pc # "resync"
          BY <1>1, <1>4, <3>1, <5>2, SearchHandler
        <5>3. CASE pc = "resync"
          BY <3>1, <4>2, <5>1, <5>3 DEF Handler, Interrupt, Receive, TimedOut,
             HeaderRead, RestRead, Store, Receiving
        <5> QED
          BY <5>2, <5>3
      <4> QED
        BY <4>1, <4>2
    <3>2. CASE UNCHANGED vars
      BY <1>4, <3>2 DEF vars, part, Searching, Resyncing, MidFrame, Lag, Unread
    <3> QED
      BY <1>1, <1>4, <3>1, <3>2, SearchTick, SearchSend, FaultCounts DEF Next
  <2> QED
    BY <2>1, <2>2, <2>3
<1> QED
  BY <1>2, <1>3, <1>4

LEMMA SlowAlways == Spec => [](Inv /\ Slow)
<1>1. Init => Inv /\ Slow
  BY InvInit, FoundInit
<1>2. Inv /\ Slow /\ [Next]_vars => (Inv /\ Slow)'
  BY InvStep, SlowStep DEF Inv
<1> QED
  BY <1>1, <1>2, PTL DEF Spec

\* For every frame and every number of faults, with timeouts of more than a
\* millisecond: an aligned receiver stays aligned, and refuses nothing, in every
\* step in which neither line nor processor fails; so whatever happens, between
\* two faults it has to find the beginning of a frame once.
THEOREM StaysInStepAlways ==
  ASSUME Ample
  PROVE  Spec => StaysInStep
<1>1. ASSUME Inv /\ Slow, [Next]_vars
      PROVE  [Aligned /\ line'.faults = line.faults =>
                Aligned' /\ (pc' = "bad" => pc = "bad")]_vars
  BY <1>1, AlignedStep
<1> QED
  BY <1>1, SlowAlways, PTL DEF Spec, StaysInStep

\* For every frame, and every byte of it at which the receiver is enabled: one
\* resynchronisation finds the beginning of a frame, and before the first fault
\* there is no other.
THEOREM OneBadReadingAlways ==
  ASSUME Ample
  PROVE  Spec => []OneBadReading
<1>1. SyncInv => OneBadReading
  BY DEF SyncInv, Found, OneBadReading, Aligned, Searching
<1>2. Init => SyncInv
  BY InvInit, FoundInit DEF SyncInv
<1>3. SyncInv /\ [Next]_vars => SyncInv'
  BY InvStep, SlowStep, FoundStep DEF SyncInv, Inv
<1> QED
  BY <1>1, <1>2, <1>3, PTL DEF Spec

=============================================================================
