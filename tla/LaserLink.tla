----------------------------- MODULE LaserLink ------------------------------
(***************************************************************************)
(* The laser sensor sends a frame again and again, and the receive         *)
(* interrupt of the serial port reads it: laser_displacement_get_distance  *)
(* with recv_only, down to rs232_receive and ticks_diff.  The timer        *)
(* interrupt has the higher priority and counts on.                        *)
(***************************************************************************)
EXTENDS Integers

CONSTANTS
  TickRange,    \* get_ticks counts modulo this, 2^32
  Header,       \* bytes of a frame that ModbusRTU_ReadResponse reads first
  FrameLen,     \* bytes of a frame
  MaxMessage,   \* MODBUS_MAX_MESSAGE_LENGTH
  Timeout,      \* of each of the two parts, ms
  Silence,      \* of laser_displacement_resync, ms
  Gap,          \* ms between two frames
  MaxFaults     \* how often line or processor fail

ASSUME LinkAssumption ==
  /\ Header \in Nat /\ FrameLen \in Nat /\ MaxMessage \in Nat
  /\ 0 < Header /\ Header + 2 <= FrameLen /\ FrameLen <= MaxMessage
  /\ Timeout \in Nat /\ Silence \in Nat /\ Timeout > 0 /\ Silence > 0
  /\ Gap \in Nat /\ Gap > Silence + 2
  /\ MaxFaults \in Nat
  /\ TickRange \in Nat /\ TickRange > 2 * (Timeout + Silence + MaxFaults + 2)

VARIABLES
  tick,      \* TimerTick
  line,      \* the sensor: its next byte, the ticks it lets pass, faults so far
  reg,       \* the data register: a byte, or Empty
  pc,        \* where the interrupt handler is
  got, want, \* idx and size
  whole,     \* the bytes read are those of one frame from its first on
  start,     \* start_ticks
  elapsed,   \* elapsed_time
  waited,    \* the ticks that were counted since the waiting began
  polled,    \* the loop ran since the last tick
  distance   \* what the handler stored last

part == <<got, want, whole, start, elapsed, waited, polled>>
vars == <<tick, line, reg, pc, part, distance>>

Damaged == FrameLen          \* a byte of the frame is its place in it
Empty == FrameLen + 1
Bytes == 0 .. FrameLen
Receiving == {"header", "rest"}
Waiting == Receiving \cup {"resync"}

TypeOK ==
  /\ tick \in 0 .. TickRange - 1 /\ start \in 0 .. TickRange - 1
  /\ line \in [next : 0 .. FrameLen - 1, pause : 0 .. Gap, faults : 0 .. MaxFaults]
  /\ reg \in Bytes \cup {Empty}
  /\ pc \in {"idle", "good", "bad"} \cup Waiting
  /\ got \in 0 .. MaxMessage /\ want \in 0 .. MaxMessage
  /\ whole \in BOOLEAN /\ polled \in BOOLEAN
  /\ elapsed \in Nat /\ waited \in Nat
  /\ distance \in {"zero", "measured", "invalid"}

\* The sensor may be in the middle of a frame when the receiver is enabled.  A
\* byte left in the register before is a Fault.
Init ==
  /\ tick = 0
  /\ line \in [next : 0 .. FrameLen - 1, pause : {1}, faults : {0}]
  /\ reg = Empty /\ pc = "idle"
  /\ got = 0 /\ want = 0 /\ whole = TRUE
  /\ start = 0 /\ elapsed = 0 /\ waited = 0 /\ polled = TRUE
  /\ distance = "zero"

-----------------------------------------------------------------------------
\* Mutant: the larger less the smaller.
TicksDiffAbsolute(last) == IF tick < last THEN last - tick ELSE tick - last

\* ticks_diff: one short when the counter went round.
TicksDiff(last) ==
  IF tick < last /\ last - tick > TickRange \div 2 - 1
  THEN TickRange - 1 - last + tick
  ELSE tick - last

\* A wait begins.
Begin(n, now) ==
  /\ got' = 0 /\ want' = n
  /\ start' = now /\ elapsed' = 0 /\ waited' = 0 /\ polled' = TRUE

\* USART3_IRQHandler: the first byte is in the register.
Interrupt ==
  /\ pc = "idle" /\ reg # Empty
  /\ pc' = "header"
  /\ Begin(Header, tick)
  /\ whole' = TRUE
  /\ UNCHANGED <<tick, line, reg, distance>>

\* One turn of the loop of rs232_receive.
Receive ==
  /\ pc \in Receiving /\ got < want /\ elapsed < Timeout
  /\ IF reg = Empty THEN UNCHANGED <<got, whole>>
     ELSE /\ got' = got + 1
          /\ whole' = (whole /\ reg = IF pc = "header" THEN got ELSE Header + got)
  /\ reg' = Empty
  /\ elapsed' = elapsed + TicksDiff(start)
  /\ start' = tick
  /\ polled' = TRUE
  /\ UNCHANGED <<tick, line, pc, want, waited, distance>>

\* LaserDisplacement_ReadRegister resynchronises before it returns a failure.
Resync ==
  /\ pc' = "resync"
  /\ Begin(MaxMessage, tick)
  /\ UNCHANGED <<tick, line, reg, whole, distance>>

TimedOut == pc \in Receiving /\ got < want /\ elapsed >= Timeout /\ Resync

\* The length is in the header; any other header is refused or gives any length.
Lengths == IF whole THEN {FrameLen} ELSE {0} \cup Header + 2 .. MaxMessage

\* Mutant: a refused header is left without looking for the next frame.
HeaderReadHasty ==
  /\ pc = "header" /\ got = want
  /\ \E n \in Lengths :
       \/ n = 0 /\ pc' = "bad" /\ UNCHANGED <<tick, line, reg, part, distance>>
       \/ /\ n > 0 /\ pc' = "rest"
          /\ Begin(n - Header, tick)
          /\ UNCHANGED <<tick, line, reg, whole, distance>>

HeaderRead ==
  /\ pc = "header" /\ got = want
  /\ \E n \in Lengths :
       \/ n = 0 /\ Resync
       \/ /\ n > 0 /\ pc' = "rest"
          /\ Begin(n - Header, tick)
          /\ UNCHANGED <<tick, line, reg, whole, distance>>

\* The CRC is right for an unharmed frame and for nothing else.
RestRead ==
  /\ pc = "rest" /\ got = want
  /\ \/ whole /\ pc' = "good" /\ UNCHANGED <<tick, line, reg, part, distance>>
     \/ ~whole /\ Resync

\* One turn of the loop of rs232_receive_variable.
ResyncTurn ==
  /\ pc = "resync" /\ got < want
  /\ IF reg # Empty
     THEN got' = got + 1 /\ start' = tick /\ elapsed' = 0 /\ waited' = 0
     ELSE elapsed' = TicksDiff(start) /\ UNCHANGED <<got, start, waited>>
  /\ pc' = IF elapsed' >= Silence THEN "bad" ELSE pc
  /\ reg' = Empty
  /\ polled' = TRUE
  /\ UNCHANGED <<tick, line, want, whole, distance>>

ResyncFull ==
  /\ pc = "resync" /\ got = want
  /\ pc' = "bad"
  /\ UNCHANGED <<tick, line, reg, part, distance>>

\* The handler stores the distance.  A sensor without a target sends one that
\* is out of range.
Store ==
  /\ pc \in {"good", "bad"}
  /\ pc' = "idle"
  /\ distance' \in IF pc = "good" THEN {"measured", "invalid"} ELSE {"invalid"}
  /\ Begin(0, 0) /\ whole' = TRUE
  /\ UNCHANGED <<tick, line, reg>>

Handler == Interrupt \/ Receive \/ TimedOut \/ HeaderRead \/ RestRead
           \/ ResyncTurn \/ ResyncFull \/ Store

-----------------------------------------------------------------------------
(* Timer and sensor.  A frame takes less than two ticks.                    *)

Count ==
  /\ tick' = IF tick = TickRange - 1 THEN 0 ELSE tick + 1
  /\ waited' = IF pc \in Waiting THEN waited + 1 ELSE waited
  /\ polled' = (pc \notin Waiting)

MidFrame == line.next > 0
Passed == IF line.pause > 0 THEN line.pause - 1 ELSE 0

\* TMR6_GLOBAL_IRQHandler.
Tick ==
  /\ pc \in Waiting => polled
  /\ MidFrame => line.pause > 0
  /\ Count
  /\ line' = [line EXCEPT !.pause = Passed]
  /\ UNCHANGED <<reg, pc, got, want, whole, start, elapsed, distance>>

\* The line after the byte was sent.
Sent ==
  [line EXCEPT !.next = IF @ + 1 = FrameLen THEN 0 ELSE @ + 1,
               !.pause = IF line.next + 1 = FrameLen THEN Gap
                         ELSE IF line.next = 0 THEN 1 ELSE @]
MaySend == MidFrame \/ line.pause = 0

Send ==
  /\ MaySend /\ reg = Empty
  /\ reg' = line.next
  /\ line' = Sent
  /\ UNCHANGED <<tick, pc, part, distance>>

\* A byte is lost (on the line, or because the register is full), damaged, or
\* there is one that was not sent; two ticks come with no turn between them, or
\* an overflow is cleared with the one that is handled (timer.c:90): a millisecond
\* that neither the counter nor waited knows of.
Fault ==
  /\ line.faults < MaxFaults
  /\ \/ MaySend /\ line' = [Sent EXCEPT !.faults = @ + 1] /\ UNCHANGED <<tick, reg, part>>
     \/ /\ MaySend /\ reg = Empty
        /\ line' = [Sent EXCEPT !.faults = @ + 1] /\ reg' = Damaged /\ UNCHANGED <<tick, part>>
     \/ /\ reg = Empty
        /\ line' = [line EXCEPT !.faults = @ + 1] /\ reg' = Damaged /\ UNCHANGED <<tick, part>>
     \/ /\ ~polled /\ Count
        /\ line' = [line EXCEPT !.faults = @ + 1, !.pause = Passed]
        /\ UNCHANGED <<reg, got, want, whole, start, elapsed>>
     \/ /\ line' = [line EXCEPT !.faults = @ + 1, !.pause = Passed]
        /\ UNCHANGED <<tick, reg, part>>
  /\ UNCHANGED <<pc, distance>>

Next == Handler \/ Tick \/ Send \/ Fault
Spec == Init /\ [][Next]_vars

\* The processor runs, the timer counts, the sensor goes on sending.
FairSpec == Spec /\ WF_vars(Handler) /\ WF_vars(Tick) /\ WF_vars(Send)

-----------------------------------------------------------------------------
\* By the ticks that were counted a timeout is never early, across the turn of the
\* counter too; it is late by the one that ticks_diff loses there, and never by more.
TimeoutsRight ==
  pc \in Waiting =>
    /\ elapsed <= waited
    /\ polled => waited <= elapsed + 1

\* Whatever was lost, damaged or late, a whole frame is read again, and again.
ReadsAgain == []<>(pc = "good")
=============================================================================
