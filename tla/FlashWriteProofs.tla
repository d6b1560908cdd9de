-------------------------- MODULE FlashWriteProofs --------------------------
(* Theorems about FlashWrite: types, the check before programming, and the *)
(* promise of FlashStore.                                                  *)
EXTENDS FlashWrite, TLAPS

USE FlashAssumption

-----------------------------------------------------------------------------
(* The inductive invariant.                                                 *)

\* The rest of the range lies in the device, and its first part is cut at the
\* end of the sector.
InRoom ==
  pc # "idle" => num <= Room(sector, offset) /\ remain = Fits(offset, num)

\* The content the sector is to get.
Target(o) == IF InRange(o) THEN Wanted(o - offset) ELSE before[o]

\* The sector that will be erased is in the buffer, and there is something to
\* write to it.
SectorRead ==
  pc = "erase" => buf = before /\ before = flash[sector] /\ whole /\ 0 < remain /\ i = 0

\* How far the sector is programmed, as a whole or in place.
SectorProgrammed ==
  /\ i <= Limit
  /\ whole => 0 < remain
  /\ whole => \A o \in Offsets :
       /\ buf[o] = Target(o)
       /\ flash[sector][o] = IF o < i THEN Target(o) ELSE Erased
  /\ ~whole => \A o \in Offsets :
       /\ InRange(o) => before[o] = Erased
       /\ flash[sector][o] = IF o < offset + i THEN Target(o) ELSE before[o]

WriteInv ==
  /\ TypeOK
  /\ answer = "busy" <=> pc # "idle"
  /\ InRoom
  /\ SectorRead
  /\ pc = "write" => SectorProgrammed

-----------------------------------------------------------------------------
(* Arithmetic of sectors.                                                   *)

\* A device holds a number of halfwords.
LEMMA SizeNat == Size \in Nat
BY SMT DEF Size

\* What room is left when a sector is full.
LEMMA RoomNext ==
  ASSUME NEW s \in Int, NEW o \in Int
  PROVE  /\ Room(s, o) \in Int
         /\ Room(s + 1, 0) = Room(s, o) - (SectorLen - o)
BY SMT DEF Room

\* Where there is room beyond a sector there is a sector.
LEMMA RoomMeansSector ==
  ASSUME NEW s \in Int, Room(s, 0) > 0
  PROVE  s < NSector
<1> SUFFICES ASSUME s >= NSector PROVE FALSE
  BY SMT
<1>1. NSector - s <= 0 /\ NSector - s \in Int
  BY SMT
<1>2. \A k \in Int : k <= 0 => k * SectorLen <= 0
  BY SMT
<1>3. (NSector - s) * SectorLen <= 0
  BY <1>1, <1>2
<1> QED
  BY <1>3, SMT DEF Room

\* A range that lies in the device is no longer than the device.
LEMMA RoomInSize ==
  ASSUME NEW s \in Sectors, NEW o \in Offsets
  PROVE  Room(s, o) <= Size
<1>1. s * SectorLen >= 0
  BY SMT DEF Sectors
<1>2. Room(s, o) = Size - s * SectorLen - o
  BY SMT DEF Room, Size, Sectors, Offsets
<1> QED
  BY <1>1, <1>2, SizeNat, SMT DEF Sectors, Offsets, Room

\* The part of a range in a sector.
LEMMA FitsInSector ==
  ASSUME NEW o \in Offsets, NEW n \in Nat
  PROVE  /\ Fits(o, n) \in 0 .. SectorLen - o
         /\ Fits(o, n) <= n
         /\ Fits(o, n) = 0 <=> n = 0
         /\ Fits(o, n) # n => Fits(o, n) = SectorLen - o /\ n > SectorLen - o
BY SMT DEF Fits, Offsets

\* The halfwords of the range are in the caller's buffer.
LEMMA WantedInValues ==
  ASSUME TypeOK, NEW k \in Nat, k < remain
  PROVE  Wanted(k) \in Values
<1>1. done + k \in 0 .. Size - 1
  BY SizeNat, SMT DEF TypeOK
<1>2. data \in [0 .. Size - 1 -> Values]
  BY DEF TypeOK, Buffers
<1> QED
  BY <1>1, <1>2, Zenon DEF Wanted

-----------------------------------------------------------------------------
(* The invariant holds.                                                     *)

LEMMA InitInv == Init => WriteInv
<1> SUFFICES ASSUME Init PROVE WriteInv
  OBVIOUS
<1>1. 0 \in Sectors /\ 0 \in Offsets
  BY SMT DEF Sectors, Offsets
<1>2. Blank \in Buffers
  BY DEF Blank, Buffers
<1>3. [o \in Offsets |-> Erased] \in [Offsets -> Values]
  OBVIOUS
<1>4. 0 \in 0 .. SectorLen - 0 /\ 0 \in 0 .. SectorLen /\ 0 + 0 <= Size
  BY SizeNat, SMT
<1>5. TypeOK
  <2>1. /\ sector \in Sectors /\ offset \in Offsets
        /\ remain \in 0 .. SectorLen - offset /\ num \in Nat /\ remain <= num
        /\ done \in Nat /\ done + num <= Size /\ i \in 0 .. SectorLen
    BY <1>1, <1>4, SMT DEF Init
  <2> QED
    BY <1>2, <1>3, <2>1, Zenon DEF Init, TypeOK
<1> QED
  BY <1>5, SMT DEF Init, WriteInv, InRoom, SectorRead

\* Every end of a call leaves the invariant; the flash may be any.
LEMMA EndCallInv ==
  ASSUME WriteInv, EndCall, UNCHANGED buf,
         flash' \in [Sectors -> [Offsets -> Values]],
         locked' \in BOOLEAN, answer' \in {"none", "success", "error"}
  PROVE  WriteInv'
<1>1. 0 \in Sectors /\ 0 \in Offsets
  BY SMT DEF Sectors, Offsets
<1>2. Blank \in Buffers
  BY DEF Blank, Buffers
<1>3. [o \in Offsets |-> Erased] \in [Offsets -> Values]
  OBVIOUS
<1>4. 0 \in 0 .. SectorLen - 0 /\ 0 \in 0 .. SectorLen /\ 0 + 0 <= Size
  BY SizeNat, SMT
<1>5. TypeOK'
  <2>1. /\ sector' \in Sectors /\ offset' \in Offsets
        /\ remain' \in 0 .. SectorLen - offset' /\ num' \in Nat /\ remain' <= num'
        /\ done' \in Nat /\ done' + num' <= Size /\ i' \in 0 .. SectorLen
    BY <1>1, <1>4, SMT DEF EndCall
  <2>2. buf' \in [Offsets -> Values]
    BY Zenon DEF WriteInv, TypeOK
  <2> QED
    BY <1>2, <1>3, <2>1, <2>2, Zenon DEF EndCall, TypeOK
<1> QED
  BY <1>5, SMT DEF WriteInv, EndCall, InRoom, SectorRead

LEMMA CallInv ==
  ASSUME WriteInv, NEW s \in Sectors, NEW o \in Offsets,
         NEW n \in 0 .. Room(s, o), NEW d \in Data[n], Call(s, o, n, d)
  PROVE  WriteInv'
<1>0. Room(s, o) \in Int /\ Room(s, o) <= Size
  BY RoomInSize, RoomNext, SMT DEF Sectors, Offsets
<1>1. n \in Nat /\ n <= Size
  BY <1>0, SizeNat, SMT
<1>2. d \in Buffers
  BY <1>1, SizeNat, SMT DEF Data
<1>3. TypeOK'
  <2>1. remain' \in 0 .. SectorLen - offset' /\ remain' <= num'
    BY <1>1, FitsInSector, SMT DEF Call
  <2>2. done' \in Nat /\ done' + num' <= Size
    BY <1>1, SizeNat, SMT DEF Call
  <2>3. i' \in 0 .. SectorLen /\ num' \in Nat
    BY <1>1, SMT DEF WriteInv, TypeOK, Call
  <2> QED
    BY <1>2, <2>1, <2>2, <2>3, Zenon DEF WriteInv, TypeOK, Call
<1>4. InRoom'
  BY SMT DEF Call, InRoom, Room, Fits
<1> QED
  BY <1>3, <1>4, SMT DEF WriteInv, Call, SectorRead

LEMMA ReadSectorInv ==
  ASSUME WriteInv, ReadSector
  PROVE  WriteInv'
<1>1. TypeOK'
  <2>1. whole' \in BOOLEAN
    BY Zenon DEF ReadSector, Dirty
  <2>2. pc' \in {"idle", "read", "erase", "write"}
    BY Zenon DEF ReadSector
  <2>3. 0 \in 0 .. SectorLen
    BY SMT
  <2> QED
    BY <2>1, <2>2, <2>3, SMT DEF WriteInv, TypeOK, ReadSector, rangeVars
<1>2. InRoom'
  BY SMT DEF WriteInv, ReadSector, rangeVars, InRoom, Room, Fits
<1>3. answer' = "busy" <=> pc' # "idle"
  BY SMT DEF WriteInv, ReadSector
<1>4. Dirty(flash[sector]) => 0 < remain
  BY SMT DEF Dirty, InRange, WriteInv, TypeOK, Offsets
<1>5. SectorRead'
  BY <1>4, SMT DEF WriteInv, ReadSector, rangeVars, SectorRead
<1>6. CASE Dirty(flash[sector])
  <2>1. pc' = "erase"
    BY <1>6 DEF ReadSector
  <2> QED
    BY <2>1, <1>1, <1>2, <1>3, <1>5 DEF WriteInv
<1>7. CASE ~Dirty(flash[sector])
  <2>1. /\ ~whole' /\ i' = 0 /\ before' = flash[sector]
        /\ UNCHANGED <<flash, sector, offset, remain>>
    BY <1>7, SMT DEF ReadSector, rangeVars, Dirty
  <2>2. \A o \in Offsets : InRange(o) => flash[sector][o] = Erased
    BY <1>7 DEF Dirty
  <2>3. SectorProgrammed'
    BY <2>1, <2>2, SMT DEF SectorProgrammed, InRange, Target, Limit, Offsets, WriteInv, TypeOK
  <2> QED
    BY <2>3, <1>1, <1>2, <1>3, <1>5 DEF WriteInv
<1> QED
  BY <1>6, <1>7

LEMMA EraseInv ==
  ASSUME WriteInv, Erase
  PROVE  WriteInv'
<1> DEFINE empty == [o \in Offsets |-> Erased]
<1>1. empty \in [Offsets -> Values]
  OBVIOUS
<1>2. ASSUME NEW o \in Offsets, InRange(o)
      PROVE  Wanted(o - offset) \in Values
  <2>1. TypeOK /\ o - offset \in Nat /\ o - offset < remain
    BY <1>2, SMT DEF WriteInv, TypeOK, InRange, Offsets
  <2> QED
    BY <2>1, WantedInValues
<1>3. buf' \in [Offsets -> Values]
  BY <1>2, Zenon DEF WriteInv, TypeOK, Erase
<1>4. flash' \in [Sectors -> [Offsets -> Values]] /\ flash'[sector] = empty
  BY <1>1, Zenon DEF WriteInv, TypeOK, Erase
<1>5. /\ pc' = "write" /\ UNCHANGED <<locked, answer, whole, i, before>>
      /\ UNCHANGED <<sector, offset, remain, num, done, data>>
  BY SMT DEF Erase, rangeVars
<1>6. TypeOK'
  BY <1>3, <1>4, <1>5, Zenon DEF WriteInv, TypeOK
<1>7. whole /\ i = 0 /\ 0 < remain /\ buf = before
  BY DEF WriteInv, SectorRead, Erase
<1>8. \A o \in Offsets : buf'[o] = Target(o)'
  BY <1>5, <1>7, SMT DEF Erase, Target, Wanted, InRange
<1>9. SectorProgrammed'
  BY <1>4, <1>5, <1>7, <1>8, SMT DEF SectorProgrammed, Limit, Offsets
<1>10. InRoom' /\ SectorRead'
  BY <1>5, SMT DEF WriteInv, Erase, InRoom, SectorRead, Room, Fits
<1> QED
  BY <1>5, <1>6, <1>9, <1>10, SMT DEF WriteInv, Erase

\* What Program writes, and where.
LEMMA ProgramStep ==
  ASSUME WriteInv, Program
  PROVE  /\ sector \in Sectors /\ Cell \in Offsets
         /\ Halfword \in Values /\ Halfword = Target(Cell)
         /\ flash[sector][Cell] = Erased
         /\ flash' \in [Sectors -> [Offsets -> Values]]
         /\ \A s \in Sectors, o \in Offsets :
              flash'[s][o] = IF s = sector /\ o = Cell THEN Target(Cell) ELSE flash[s][o]
<1>1. TypeOK /\ SectorProgrammed /\ i < Limit
  BY DEF WriteInv, Program
<1>2. sector \in Sectors
  BY <1>1 DEF TypeOK
<1>3. /\ Cell \in Offsets /\ Halfword \in Values /\ Halfword = Target(Cell)
      /\ flash[sector][Cell] = Erased
  <2>1. CASE whole
    <3>1. Cell = i /\ i \in Offsets /\ Halfword = buf[i]
      BY <1>1, <2>1, SMT DEF TypeOK, Limit, Cell, Halfword, Offsets
    <3>2. buf[i] \in Values
      BY <1>1, <3>1, Zenon DEF TypeOK
    <3>3. buf[i] = Target(i) /\ flash[sector][i] = IF i < i THEN Target(i) ELSE Erased
      BY <1>1, <2>1, <3>1, Zenon DEF SectorProgrammed
    <3> QED
      BY <1>1, <3>1, <3>2, <3>3, SMT DEF TypeOK
  <2>2. CASE ~whole
    <3>1. Cell = offset + i /\ Halfword = Wanted(i) /\ i < remain
      BY <1>1, <2>2 DEF Limit, Cell, Halfword
    <3>2. Cell \in Offsets /\ InRange(Cell) /\ Cell - offset = i
      BY <1>1, <3>1, SMT DEF TypeOK, Offsets, InRange
    <3>3. Target(Cell) = Wanted(i)
      BY <3>2, SMT DEF Target
    <3>4. Wanted(i) \in Values
      <4>1. i \in Nat
        BY <1>1, SMT DEF TypeOK
      <4> QED
        BY <1>1, <3>1, <4>1, WantedInValues
    <3>5. before[Cell] = Erased /\ flash[sector][Cell] = before[Cell]
      BY <1>1, <2>2, <3>1, <3>2, SMT DEF SectorProgrammed, TypeOK, Offsets
    <3> QED
      BY <3>1, <3>2, <3>3, <3>4, <3>5
  <2> QED
    BY <2>1, <2>2
<1>4. flash' = [flash EXCEPT ![sector][Cell] = Halfword]
  BY DEF Program
<1>5. flash' \in [Sectors -> [Offsets -> Values]]
  BY <1>1, <1>3, <1>4, SMT DEF TypeOK
<1>6. ASSUME NEW s \in Sectors, NEW o \in Offsets
      PROVE flash'[s][o] = IF s = sector /\ o = Cell THEN Target(Cell) ELSE flash[s][o]
  BY <1>1, <1>2, <1>3, <1>4, SMT DEF TypeOK
<1> QED
  BY <1>2, <1>3, <1>5, <1>6

LEMMA ProgramInv ==
  ASSUME WriteInv, Program
  PROVE  WriteInv'
<1>1. /\ pc = "write" /\ pc' = "write" /\ i < Limit /\ i' = i + 1
      /\ UNCHANGED <<locked, answer, buf, whole, before>>
      /\ UNCHANGED <<sector, offset, remain, num, done, data>>
  BY SMT DEF Program, rangeVars
<1>2. i' \in 0 .. SectorLen
  <2>1. i \in Nat /\ remain <= SectorLen /\ remain \in Nat
    BY SMT DEF WriteInv, TypeOK, Offsets
  <2> QED
    BY <1>1, <2>1, SMT DEF Limit
<1>3. flash' \in [Sectors -> [Offsets -> Values]]
  BY ProgramStep
<1>4. TypeOK'
  BY <1>1, <1>2, <1>3, Zenon DEF WriteInv, TypeOK
<1>5. Limit' = Limit /\ \A o : Target(o)' = Target(o) /\ InRange(o)' = InRange(o)
  BY <1>1, SMT DEF Limit, Target, Wanted, InRange
<1>6. \A o \in Offsets : flash'[sector'][o] = IF o = Cell THEN Target(Cell) ELSE flash[sector][o]
  BY <1>1, ProgramStep, Zenon
<1>7. SectorProgrammed
  BY <1>1 DEF WriteInv
<1>8. CASE whole
  <2>1. Cell = i
    BY <1>8 DEF Cell
  <2>2. \A o \in Offsets : flash'[sector'][o] = IF o < i' THEN Target(o) ELSE Erased
    BY <1>1, <1>6, <1>7, <1>8, <2>1, SMT DEF SectorProgrammed, Offsets, WriteInv, TypeOK
  <2> QED
    BY <1>1, <1>2, <1>5, <1>7, <1>8, <2>2, <1>4, SMT
       DEF WriteInv, SectorProgrammed, InRoom, SectorRead, Room, Fits, Limit, TypeOK
<1>9. CASE ~whole
  <2>1. Cell = offset + i
    BY <1>9 DEF Cell
  <2>2. \A o \in Offsets : flash'[sector'][o] = IF o < offset + i' THEN Target(o) ELSE before[o]
    <3>1. offset \in Nat /\ i \in Nat
      BY SMT DEF WriteInv, TypeOK, Offsets
    <3>2. \A o \in Offsets : flash[sector][o] = IF o < offset + i THEN Target(o) ELSE before[o]
      BY <1>7, <1>9 DEF SectorProgrammed
    <3>3. \A o \in Offsets : flash'[sector'][o] =
            IF o = offset + i THEN Target(offset + i) ELSE flash[sector][o]
      BY <1>6, <2>1, Zenon
    <3>4. \A o \in Offsets :
            /\ o \in Nat
            /\ o < offset + i' <=> o < offset + i \/ o = offset + i
            /\ ~(o < offset + i /\ o = offset + i)
      BY <1>1, <3>1, SMT DEF Offsets
    <3> QED
      BY <3>2, <3>3, <3>4, Zenon
  <2> QED
    BY <1>1, <1>2, <1>5, <1>7, <1>9, <2>2, <1>4, SMT
       DEF WriteInv, SectorProgrammed, InRoom, SectorRead, Room, Fits, Limit, TypeOK
<1> QED
  BY <1>8, <1>9

\* The rest of the range starts at the next sector, and there is one.
LEMMA NextSectorFacts ==
  ASSUME WriteInv, NextSector
  PROVE  /\ sector + 1 \in Sectors /\ 0 \in Offsets
         /\ num - remain \in Nat /\ 0 < num - remain
         /\ remain = SectorLen - offset
         /\ num - remain <= Room(sector + 1, 0)
<1>1. /\ TypeOK /\ num # remain /\ remain = Fits(offset, num)
      /\ num <= Room(sector, offset)
  BY SMT DEF WriteInv, NextSector, InRoom
<1>2. /\ sector \in Int /\ 0 <= sector /\ sector < NSector
      /\ offset \in Offsets /\ offset \in Int /\ num \in Nat
  BY <1>1, SMT DEF TypeOK, Sectors, Offsets
<1>3. remain = SectorLen - offset /\ num > SectorLen - offset
  BY <1>1, <1>2, FitsInSector
<1>4. /\ Room(sector, offset) \in Int
      /\ Room(sector + 1, 0) = Room(sector, offset) - (SectorLen - offset)
  BY <1>2, RoomNext
<1>5. num - remain \in Nat /\ 0 < num - remain /\ num - remain <= Room(sector + 1, 0)
  BY <1>1, <1>2, <1>3, <1>4, SMT
<1>6. Room(sector + 1, 0) \in Int /\ sector + 1 \in Int
  BY <1>2, <1>4, SMT
<1>7. Room(sector + 1, 0) > 0
  BY <1>5, <1>6, SMT
<1>8. sector + 1 < NSector
  BY <1>6, <1>7, RoomMeansSector
<1> QED
  BY <1>2, <1>3, <1>5, <1>8, SMT DEF Sectors, Offsets

LEMMA NextSectorInv ==
  ASSUME WriteInv, NextSector
  PROVE  WriteInv'
<1>1. /\ sector' = sector + 1 /\ offset' = 0 /\ done' = done + remain
      /\ num' = num - remain /\ remain' = Fits(0, num - remain) /\ pc' = "read"
      /\ UNCHANGED <<flash, locked, answer, data, buf, whole, i, before>>
  BY SMT DEF NextSector
<1>2. /\ TypeOK /\ answer = "busy"
  BY SMT DEF WriteInv, NextSector
<1>3. /\ remain' \in 0 .. SectorLen - offset' /\ remain' <= num'
  BY <1>1, NextSectorFacts, FitsInSector, SMT
<1>4. done' \in Nat /\ done' + num' <= Size
  BY <1>1, <1>2, SizeNat, SMT DEF TypeOK
<1>5. TypeOK'
  <2>1. sector' \in Sectors /\ offset' \in Offsets /\ num' \in Nat
    BY <1>1, NextSectorFacts
  <2> QED
    BY <1>1, <1>2, <1>3, <1>4, <2>1, Zenon DEF TypeOK
<1>6. InRoom'
  <2>1. num' <= Room(sector', offset')
    BY <1>1, NextSectorFacts
  <2>2. remain' = Fits(offset', num')
    BY <1>1
  <2> QED
    BY <2>1, <2>2 DEF InRoom, Room, Fits
<1> QED
  BY <1>1, <1>2, <1>5, <1>6, SMT DEF WriteInv, SectorRead

\* The flash keeps its type in the steps that end a call.
LEMMA EndsInv ==
  ASSUME WriteInv, EraseFails \/ ProgramFails \/ Return \/ Crash
  PROVE  WriteInv'
<1>1. EndCall /\ UNCHANGED buf
  BY SMT DEF EraseFails, ProgramFails, Return, Crash, ReturnError
<1>2. flash' \in [Sectors -> [Offsets -> Values]]
  <2>1. flash \in [Sectors -> [Offsets -> Values]]
    BY DEF WriteInv, TypeOK
  <2>2. [o \in Offsets |-> Erased] \in [Offsets -> Values]
    OBVIOUS
  <2> QED
    BY <2>1, <2>2, Zenon DEF EraseFails, ProgramFails, Return, Crash
<1>3. locked' \in BOOLEAN /\ answer' \in {"none", "success", "error"}
  BY Zenon DEF EraseFails, ProgramFails, Return, Crash, ReturnError, WriteInv, TypeOK
<1> QED
  BY <1>1, <1>2, <1>3, EndCallInv

LEMMA NextInv ==
  ASSUME WriteInv, [Next]_vars
  PROVE  WriteInv'
<1>1. CASE UNCHANGED vars
  BY <1>1, SMT DEF vars, rangeVars, WriteInv, TypeOK, InRoom, SectorRead, SectorProgrammed,
     Limit, Target, Wanted, InRange
<1>2. CASE \E s \in Sectors, o \in Offsets :
             \E n \in 0 .. Room(s, o) : \E d \in Data[n] : Call(s, o, n, d)
  BY <1>2, CallInv
<1>3. CASE Step
  BY <1>3, ReadSectorInv, EraseInv, ProgramInv, NextSectorInv, EndsInv DEF Step
<1>4. CASE Crash
  BY <1>4, EndsInv
<1> QED
  BY <1>1, <1>2, <1>3, <1>4 DEF Next

\* For every size of the device, every buffer and every failure the variables of
\* flash_write keep their types: no sector, offset or index leaves its bounds.
THEOREM TypeCorrect == Spec => []TypeOK
<1>1. WriteInv => TypeOK
  BY DEF WriteInv
<1> QED
  BY <1>1, InitInv, NextInv, PTL DEF Spec

LEMMA Invariance == Spec => []WriteInv
BY InitInv, NextInv, PTL DEF Spec

\* Whatever the size of the device and the request, flash_write programs only
\* halfwords that are erased.
THEOREM OnlyErasedProgrammed == Spec => NeverProgramsDirty
<1>1. ASSUME WriteInv, [Next]_vars
      PROVE  [Program => flash[sector][Cell] = Erased]_vars
  BY <1>1, ProgramStep
<1> QED
  BY <1>1, Invariance, PTL DEF Spec, NeverProgramsDirty

-----------------------------------------------------------------------------
(* flash_write implements FlashStore.                                       *)

\* The memory and the wanted halfwords of FlashStore.
Mem == IF pc = "write" /\ ~SectorWritten THEN [flash EXCEPT ![sector] = before] ELSE flash
Want == [c \in Missing |-> Wanted(Position(c))]

\* A position tells which sector a halfword is in.
LEMMA PositionSector ==
  ASSUME TypeOK, NEW s \in Sectors, NEW o \in Offsets
  PROVE  /\ Position(<<s, o>>) \in Int
         /\ s = sector => Position(<<s, o>>) = o - offset
         /\ sector < s => SectorLen - offset <= Position(<<s, o>>)
         /\ s < sector => Position(<<s, o>>) < 0
<1>1. Position(<<s, o>>) = (s - sector) * SectorLen + o - offset
  BY DEF Position
<1>2. /\ s - sector \in Int /\ o \in 0 .. SectorLen - 1 /\ offset \in 0 .. SectorLen - 1
      /\ s \in Int /\ sector \in Int /\ SectorLen \in Nat
  BY SMT DEF TypeOK, Sectors, Offsets
<1>3. \A k \in Int : /\ k * SectorLen \in Int
                     /\ k = 0 => k * SectorLen = 0
                     /\ k >= 1 => k * SectorLen >= SectorLen
                     /\ k <= -1 => k * SectorLen <= -SectorLen
  BY <1>2, SMT
<1>4. /\ (s - sector) * SectorLen \in Int
      /\ s - sector = 0 => (s - sector) * SectorLen = 0
      /\ s - sector >= 1 => (s - sector) * SectorLen >= SectorLen
      /\ s - sector <= -1 => (s - sector) * SectorLen <= -SectorLen
  BY <1>2, <1>3
<1> QED
  BY <1>1, <1>2, <1>4, SMT

\* The positions of the current sector are those before remain.
LEMMA PositionBeforeRemain ==
  ASSUME WriteInv, pc # "idle", NEW s \in Sectors, NEW o \in Offsets
  PROVE  /\ s = sector => (Position(<<s, o>>) \in 0 .. num - 1 <=> InRange(o))
         /\ Position(<<s, o>>) \in remain .. num - 1
            <=> Position(<<s, o>>) \in 0 .. num - 1 /\ s # sector
<1>1. /\ TypeOK /\ remain = Fits(offset, num)
  BY DEF WriteInv, InRoom
<1>2. /\ s \in Int /\ sector \in Int /\ o \in Int /\ o < SectorLen /\ offset \in Offsets
      /\ offset \in Int /\ num \in Nat /\ remain \in Nat /\ remain <= num /\ SectorLen \in Nat
      /\ remain <= SectorLen - offset
  BY <1>1, SMT DEF TypeOK, Sectors, Offsets
<1>3. remain # num => remain = SectorLen - offset
  BY <1>1, <1>2, FitsInSector
<1>4. CASE s = sector
  <2>1. Position(<<s, o>>) = o - offset
    BY <1>1, <1>4, PositionSector
  <2> QED
    BY <1>2, <1>3, <1>4, <2>1, SMT DEF InRange
<1>5. CASE sector < s
  <2>1. Position(<<s, o>>) \in Int /\ SectorLen - offset <= Position(<<s, o>>)
    BY <1>1, <1>5, PositionSector
  <2> QED
    BY <1>2, <1>5, <2>1, SMT
<1>6. CASE s < sector
  <2>1. Position(<<s, o>>) \in Int /\ Position(<<s, o>>) < 0
    BY <1>1, <1>6, PositionSector
  <2> QED
    BY <1>2, <1>6, <2>1, SMT
<1> QED
  BY <1>2, <1>4, <1>5, <1>6, SMT

\* What is wanted: the range in the current sector, and the later positions.
LEMMA MissingCells ==
  ASSUME WriteInv, NEW s \in Sectors, NEW o \in Offsets
  PROVE  <<s, o>> \in Missing <=>
           /\ pc # "idle"
           /\ Position(<<s, o>>) \in 0 .. num - 1
           /\ SectorWritten => s # sector
<1>1. <<s, o>> \in Missing <=>
        /\ pc # "idle"
        /\ Position(<<s, o>>) \in (IF SectorWritten THEN remain ELSE 0) .. num - 1
  BY DEF Missing
<1>2. CASE pc # "idle" /\ SectorWritten
  BY <1>1, <1>2, PositionBeforeRemain
<1>3. CASE pc # "idle" /\ ~SectorWritten
  BY <1>1, <1>3
<1> QED
  BY <1>1, <1>2, <1>3

LEMMA WantHere ==
  ASSUME WriteInv, pc # "idle", ~SectorWritten, NEW o \in Offsets
  PROVE  /\ <<sector, o>> \in Missing <=> InRange(o)
         /\ InRange(o) => Want[<<sector, o>>] = Wanted(o - offset)
<1>1. sector \in Sectors /\ TypeOK
  BY DEF WriteInv, TypeOK
<1>2. <<sector, o>> \in Missing <=> InRange(o)
  BY <1>1, MissingCells, PositionBeforeRemain
<1>3. Position(<<sector, o>>) = o - offset
  BY <1>1, PositionSector
<1> QED
  BY <1>2, <1>3 DEF Want

\* In the middle of a sector nothing changes what is wanted.
LEMMA WantUnchanged ==
  ASSUME pc # "idle", pc' # "idle", ~SectorWritten, ~SectorWritten',
         UNCHANGED <<sector, offset, remain, num, done, data>>
  PROVE  Want' = Want
<1>1. \A c : Position(c)' = Position(c) /\ Wanted(Position(c))' = Wanted(Position(c))
  BY SMT DEF Position, Wanted
<1>2. Missing' = Missing
  BY <1>1, SMT DEF Missing
<1> QED
  BY <1>1, <1>2, SMT DEF Want

\* No request, nothing wanted.
LEMMA IdleWantsNothing == pc = "idle" => Want = Store!Nothing
<1> SUFFICES ASSUME pc = "idle" PROVE Want = Store!Nothing
  OBVIOUS
<1>1. Missing = {}
  BY DEF Missing
<1> QED
  BY <1>1, SMT DEF Want, Store!Nothing

\* What was overwritten is put back.
LEMMA Restore ==
  ASSUME NEW S, NEW T, NEW f \in [S -> T], NEW s \in S, NEW x
  PROVE  [[f EXCEPT ![s] = x] EXCEPT ![s] = f[s]] = f
BY Zenon

LEMMA StoreInit == Init => Store!Init
<1> SUFFICES ASSUME Init PROVE Store!Init
  OBVIOUS
<1>1. Mem = flash /\ pc = "idle"
  BY DEF Init, Mem
<1>2. Mem \in [Sectors -> [Offsets -> Values]] /\ Want = Store!Nothing /\ answer = "none"
  BY <1>1, IdleWantsNothing DEF Init
<1> QED
  BY <1>2 DEF Store!Init, Mem, Want

\* A call is a request of the store.
LEMMA StoreRequest ==
  ASSUME WriteInv, NEW s \in Sectors, NEW o \in Offsets,
         NEW n \in 0 .. Room(s, o), NEW d \in Data[n], Call(s, o, n, d)
  PROVE  Store!Request
<1>1. WriteInv'
  BY CallInv
<1>2. /\ pc = "idle" /\ pc' = "read" /\ flash' = flash /\ answer' = "busy"
  BY SMT DEF Call
<1>3. answer # "busy"
  BY <1>2 DEF WriteInv
<1>4. Mem' = Mem
  BY <1>2 DEF Mem
<1>5. Want' \in Store!Requests
  <2>1. Missing' \in SUBSET (Sectors \X Offsets)
    BY DEF Missing
  <2>2. ASSUME NEW c \in Missing'
        PROVE  Wanted(Position(c))' \in Values
    <3>1. ~SectorWritten'
      BY <1>2 DEF SectorWritten
    <3>2. Position(c)' \in 0 .. num' - 1
      BY <2>2, <3>1 DEF Missing
    <3>3. data' \in [0 .. Size - 1 -> Values] /\ done' = 0 /\ num' \in Nat /\ num' <= Size
      <4>1. TypeOK' /\ done' = 0
        BY <1>1, Zenon DEF WriteInv, Call
      <4>2. data' \in [0 .. Size - 1 -> Values]
        BY <4>1, Zenon DEF TypeOK, Buffers
      <4>3. Room(s, o) \in Int /\ Room(s, o) <= Size
        BY RoomInSize, RoomNext, SMT DEF Sectors, Offsets
      <4>4. n \in Nat /\ n <= Size
        BY <4>3, SizeNat, SMT
      <4> QED
        BY <4>1, <4>2, <4>4, Zenon DEF Call
    <3>4. done' + Position(c)' \in 0 .. Size - 1
      BY <3>2, <3>3, SizeNat, SMT
    <3> QED
      BY <3>3, <3>4, Zenon DEF Wanted
  <2>3. Want' \in [Missing' -> Values]
    BY <2>2, Zenon DEF Want
  <2> QED
    BY <2>1, <2>3, Zenon DEF Store!Requests, Store!Cells
<1> QED
  BY <1>2, <1>3, <1>4, <1>5, Zenon DEF Store!Request, Mem, Want

\* Reading, erasing and moving on to the next sector change nothing in the store.
LEMMA StoreReadErase ==
  ASSUME WriteInv, ReadSector \/ Erase
  PROVE  UNCHANGED <<Mem, Want, answer>>
<1>1. /\ TypeOK /\ WriteInv'
  BY ReadSectorInv, EraseInv DEF WriteInv
<1>2. /\ pc \in {"read", "erase"} /\ pc' # "idle" /\ answer' = answer
      /\ UNCHANGED <<sector, offset, remain, num, done, data, before>> \/ ReadSector
      /\ UNCHANGED <<sector, offset, remain, num, done, data>>
  BY SMT DEF ReadSector, Erase, rangeVars
<1>3. ~SectorWritten /\ Mem = flash
  BY <1>2 DEF SectorWritten, Mem
<1>4. CASE ReadSector
  <2>1. flash' = flash /\ before' = flash[sector] /\ sector' = sector
    BY <1>4, SMT DEF ReadSector, rangeVars
  <2>2. [flash EXCEPT ![sector] = flash[sector]] = flash
    BY <1>1, SMT DEF TypeOK
  <2>3. Mem' = flash
    BY <2>1, <2>2 DEF Mem
  <2>4. CASE ~SectorWritten'
    BY <1>2, <1>3, <2>3, <2>4, WantUnchanged
  <2>5. CASE SectorWritten'
    <3>1. remain = 0
      <4>1. i' = 0 /\ pc' = "write"
        BY <1>4, <2>5 DEF ReadSector, SectorWritten
      <4>2. Limit' = 0 /\ (whole' => 0 < remain')
        BY <1>1, <2>5, <4>1 DEF SectorWritten, WriteInv, SectorProgrammed
      <4> QED
        BY <1>2, <4>2, SMT DEF Limit
    <3>2. \A c : Position(c)' = Position(c) /\ Wanted(Position(c))' = Wanted(Position(c))
      BY <1>2, SMT DEF Position, Wanted
    <3>3. Missing' = Missing
      BY <1>2, <1>3, <2>5, <3>1, <3>2, SMT DEF Missing
    <3>4. Want' = Want
      BY <3>2, <3>3, SMT DEF Want
    <3> QED
      BY <1>2, <1>3, <2>3, <3>4
  <2> QED
    BY <2>4, <2>5
<1>5. CASE Erase
  <2>1. /\ pc' = "write" /\ whole' = whole /\ i' = i /\ before' = before /\ sector' = sector
        /\ flash' = [flash EXCEPT ![sector] = [o \in Offsets |-> Erased]]
    BY <1>5, SMT DEF Erase, rangeVars
  <2>2. whole /\ i = 0 /\ before = flash[sector]
    BY <1>5 DEF Erase, WriteInv, SectorRead
  <2>3. ~SectorWritten'
    BY <2>1, <2>2, SMT DEF SectorWritten, Limit
  <2>4. [flash' EXCEPT ![sector] = flash[sector]] = flash
    BY <1>1, <2>1, Restore DEF TypeOK
  <2>5. Mem' = flash
    BY <2>1, <2>2, <2>3, <2>4 DEF Mem
  <2> QED
    BY <1>2, <1>3, <2>3, <2>5, WantUnchanged
<1> QED
  BY <1>4, <1>5

LEMMA StoreNextSector ==
  ASSUME WriteInv, NextSector
  PROVE  UNCHANGED <<Mem, Want, answer>>
<1>1. /\ TypeOK /\ pc = "write" /\ pc' = "read" /\ SectorWritten /\ ~SectorWritten'
      /\ answer' = answer /\ flash' = flash /\ data' = data
      /\ sector' = sector + 1 /\ offset' = 0 /\ done' = done + remain /\ num' = num - remain
  BY SMT DEF WriteInv, NextSector, SectorWritten
<1>2. Mem' = flash /\ Mem = flash
  BY <1>1 DEF Mem
<1>3. /\ remain = SectorLen - offset /\ offset \in Int /\ sector \in Int /\ done \in Int
      /\ num \in Int
  BY <1>1, NextSectorFacts, SMT DEF TypeOK, Sectors, Offsets
<1>4. ASSUME NEW s \in Sectors, NEW o \in Offsets
      PROVE  /\ Position(<<s, o>>)' = Position(<<s, o>>) - remain
             /\ Position(<<s, o>>) \in Int
  <2>1. s \in Int /\ o \in Int
    BY SMT DEF Sectors, Offsets
  <2>2. (s - (sector + 1)) * SectorLen = (s - sector) * SectorLen - SectorLen
    BY <1>3, <2>1, SMT
  <2>3. (s - sector) * SectorLen \in Int
    BY <1>3, <2>1, SMT
  <2>4. /\ Position(<<s, o>>) = (s - sector) * SectorLen + o - offset
        /\ Position(<<s, o>>)' = (s - (sector + 1)) * SectorLen + o - 0
    BY <1>1 DEF Position
  <2> QED
    BY <1>3, <2>1, <2>2, <2>3, <2>4, SMT
<1>5. Missing' = Missing
  <2>1. ASSUME NEW c \in Sectors \X Offsets
        PROVE  Position(c)' \in 0 .. num' - 1 <=> Position(c) \in remain .. num - 1
    <3>1. PICK s \in Sectors, o \in Offsets : c = <<s, o>>
      OBVIOUS
    <3> QED
      BY <1>1, <1>3, <1>4, <3>1, SMT
  <2> QED
    BY <1>1, <2>1, Zenon DEF Missing
<1>6. ASSUME NEW c \in Missing
      PROVE  Wanted(Position(c))' = Wanted(Position(c))
  <2>1. PICK s \in Sectors, o \in Offsets : c = <<s, o>>
    BY DEF Missing
  <2>2. done' + Position(c)' = done + Position(c)
    BY <1>1, <1>3, <1>4, <2>1, SMT
  <2> QED
    BY <1>1, <2>2 DEF Wanted
<1>7. Want' = Want
  BY <1>5, <1>6, Zenon DEF Want
<1> QED
  BY <1>1, <1>2, <1>7

\* While a sector is programmed the store still has it as it was before; the
\* last halfword replaces it.
LEMMA StoreProgram ==
  ASSUME WriteInv, Program
  PROVE  UNCHANGED <<Mem, Want, answer>> \/ Store!WriteSector(sector)
<1>1. /\ TypeOK /\ WriteInv' /\ SectorProgrammed
  BY ProgramInv DEF WriteInv, Program
<1>2. /\ pc = "write" /\ pc' = "write" /\ i < Limit /\ i' = i + 1 /\ answer' = answer
      /\ whole' = whole /\ before' = before
      /\ UNCHANGED <<sector, offset, remain, num, done, data>>
      /\ flash' = [flash EXCEPT ![sector][Cell] = Halfword]
  BY SMT DEF Program, rangeVars
<1>3. ~SectorWritten /\ Limit' = Limit
  <2>1. i \in Int /\ remain \in Int
    BY <1>1, SMT DEF TypeOK
  <2> QED
    BY <1>2, <2>1, SMT DEF SectorWritten, Limit
<1>4. Mem = [flash EXCEPT ![sector] = before]
  BY <1>2, <1>3 DEF Mem
<1>5. CASE ~SectorWritten'
  <2>1. \A x : [[flash EXCEPT ![sector] = x] EXCEPT ![sector] = before]
               = [flash EXCEPT ![sector] = before]
    BY Zenon
  <2>2. Mem' = Mem
    BY <1>2, <1>4, <1>5, <2>1, Zenon DEF Mem
  <2> QED
    BY <1>2, <1>3, <1>5, <2>2, WantUnchanged
<1>6. CASE SectorWritten'
  <2>1. Mem' = flash' /\ i' = Limit'
    BY <1>2, <1>6, SMT DEF Mem, SectorWritten
  <2>2. \A o \in Offsets : flash'[sector][o] = Target(o)
    <3>1. ASSUME NEW o \in Offsets PROVE flash'[sector][o] = Target(o)
      <4>1. SectorProgrammed' /\ i' = Limit' /\ Target(o)' = Target(o)
        BY <1>1, <1>2, <2>1, SMT DEF WriteInv, Target, Wanted, InRange
      <4>2. CASE whole
        <5>1. i' = SectorLen
          BY <1>2, <2>1, <4>2 DEF Limit
        <5>2. o < i'
          BY <5>1, SMT DEF Offsets
        <5> QED
          BY <1>2, <4>1, <4>2, <5>2, Zenon DEF SectorProgrammed
      <4>3. CASE ~whole
        <5>1. i' = remain
          BY <1>2, <2>1, <4>3 DEF Limit
        <5>2. flash'[sector][o] = IF o < offset + i' THEN Target(o) ELSE before[o]
          BY <1>2, <4>1, <4>3, Zenon DEF SectorProgrammed
        <5> QED
          BY <5>1, <5>2, SMT DEF Target, InRange
      <4> QED
        BY <4>2, <4>3
    <3> QED
      BY <3>1
  <2>3. flash' = [flash EXCEPT ![sector] = [o \in Offsets |-> Target(o)]]
    <3>1. flash' \in [Sectors -> [Offsets -> Values]]
      BY <1>1, Zenon DEF WriteInv, TypeOK
    <3>2. flash'[sector] = [o \in Offsets |-> Target(o)]
      BY <1>1, <2>2, <3>1, SMT DEF TypeOK
    <3>3. flash' = [flash EXCEPT ![sector] = flash'[sector]]
      BY <1>1, <1>2, SMT DEF TypeOK
    <3> QED
      BY <3>2, <3>3
  <2>4. \A o \in Offsets : /\ <<sector, o>> \in Missing <=> InRange(o)
                           /\ InRange(o) => Want[<<sector, o>>] = Wanted(o - offset)
    BY <1>2, <1>3, WantHere
  <2>5. Store!Concerned(sector)
    <3>1. offset \in Offsets /\ InRange(offset)
      <4>1. 0 < remain
        BY <1>1, <1>2, SMT DEF SectorProgrammed, Limit, TypeOK
      <4> QED
        BY <1>1, <4>1, SMT DEF TypeOK, Offsets, InRange
    <3>2. <<sector, offset>> \in Missing
      BY <2>4, <3>1
    <3> QED
      BY <3>1, <3>2, Zenon DEF Store!Concerned
  <2>6. Mem' = [Mem EXCEPT ![sector] =
                  [o \in Offsets |-> IF <<sector, o>> \in DOMAIN Want THEN Want[<<sector, o>>]
                                     ELSE Mem[sector][o]]]
    <3>1. DOMAIN Want = Missing /\ Mem[sector] = before
      BY <1>1, <1>4, SMT DEF Want, TypeOK
    <3>2. ASSUME NEW o \in Offsets
          PROVE (IF <<sector, o>> \in DOMAIN Want THEN Want[<<sector, o>>] ELSE Mem[sector][o])
                = Target(o)
      BY <2>4, <3>1, Zenon DEF Target
    <3>3. [o \in Offsets |-> IF <<sector, o>> \in DOMAIN Want THEN Want[<<sector, o>>]
                             ELSE Mem[sector][o]] = [o \in Offsets |-> Target(o)]
      BY <3>2, Zenon
    <3>4. \A x : [Mem EXCEPT ![sector] = x] = [flash EXCEPT ![sector] = x]
      BY <1>4, Zenon
    <3> QED
      BY <2>1, <2>3, <3>3, <3>4, Zenon
  <2>7. Want' = [c \in {d \in DOMAIN Want : d[1] # sector} |-> Want[c]]
    <3>1. \A c : Position(c)' = Position(c) /\ Wanted(Position(c))' = Wanted(Position(c))
      BY <1>2, SMT DEF Position, Wanted
    <3>2. Missing' = {d \in Missing : d[1] # sector}
      <4>1. ASSUME NEW s \in Sectors, NEW o \in Offsets
            PROVE <<s, o>> \in Missing' <=> <<s, o>> \in Missing /\ s # sector
        <5>1. <<s, o>> \in Missing <=> Position(<<s, o>>) \in 0 .. num - 1
          BY <1>2, <1>3, MissingCells
        <5>2. <<s, o>> \in Missing' <=> Position(<<s, o>>) \in remain .. num - 1
          BY <1>2, <1>6, <3>1, Zenon DEF Missing
        <5>3. Position(<<s, o>>) \in remain .. num - 1
              <=> Position(<<s, o>>) \in 0 .. num - 1 /\ s # sector
          BY <1>2, PositionBeforeRemain
        <5> QED
          BY <5>1, <5>2, <5>3
      <4>2. Missing \subseteq Sectors \X Offsets /\ Missing' \subseteq Sectors \X Offsets
        BY DEF Missing
      <4> QED
        BY <4>1, <4>2, SMT
    <3> QED
      BY <3>1, <3>2, SMT DEF Want
  <2> QED
    BY <1>2, <2>5, <2>6, <2>7, Zenon DEF Store!WriteSector, Mem, Want
<1> QED
  BY <1>5, <1>6

LEMMA StoreReturn ==
  ASSUME WriteInv, Return
  PROVE  Store!Succeed
<1>1. /\ pc = "write" /\ i = Limit /\ num = remain /\ pc' = "idle" /\ flash' = flash
      /\ answer' = "success"
  BY SMT DEF Return, EndCall
<1>2. SectorWritten /\ answer = "busy" /\ TypeOK
  BY <1>1, SMT DEF SectorWritten, WriteInv
<1>3. Missing = {}
  <2>1. remain .. num - 1 = {}
    BY <1>1, <1>2, SMT DEF TypeOK
  <2> QED
    BY <1>2, <2>1, Zenon DEF Missing
<1>4. Want = Store!Nothing
  BY <1>3, SMT DEF Want, Store!Nothing
<1>5. Want' = Want
  <2>1. Missing' = {}
    BY <1>1 DEF Missing
  <2> QED
    BY <1>3, <2>1, SMT DEF Want
<1>6. Mem' = Mem
  BY <1>1, <1>2 DEF Mem
<1> QED
  BY <1>1, <1>2, <1>4, <1>5, <1>6, Zenon DEF Store!Succeed, Mem, Want

\* A halfword of the sector being programmed is new, erased, or what it was.
LEMMA SectorDamaged ==
  ASSUME WriteInv, pc = "write", ~SectorWritten, NEW o \in Offsets
  PROVE  Store!Damaged(sector, o, flash[sector][o])
<1>1. /\ TypeOK /\ SectorProgrammed
  BY DEF WriteInv
<1>2. Mem = [flash EXCEPT ![sector] = before]
  BY DEF Mem
<1>3. Mem[sector] = before /\ DOMAIN Want = Missing
  BY <1>1, <1>2, SMT DEF TypeOK, Want
<1>4. /\ <<sector, o>> \in Missing <=> InRange(o)
      /\ InRange(o) => Want[<<sector, o>>] = Wanted(o - offset)
  BY WantHere
<1>5. flash[sector][o] \in {Target(o), Erased, before[o]}
  BY <1>1, Zenon DEF SectorProgrammed
<1> QED
  BY <1>3, <1>4, <1>5, Zenon DEF Store!Damaged, Target, Mem, Want

\* A call that ends early damages one sector of the request at most.
LEMMA StoreFail ==
  ASSUME WriteInv, EraseFails \/ ProgramFails \/ Crash
  PROVE  Store!Fail
<1>1. /\ TypeOK /\ WriteInv' /\ pc' = "idle"
  <2>1. WriteInv'
    BY EndsInv
  <2>2. pc' = "idle"
    BY SMT DEF EraseFails, ProgramFails, Crash, ReturnError, EndCall
  <2> QED
    BY <2>1, <2>2 DEF WriteInv
<1>2. Want' = Store!Nothing
  <2>1. Missing' = {}
    BY <1>1 DEF Missing
  <2> QED
    BY <2>1, SMT DEF Want, Store!Nothing
<1>3. /\ answer' \in {"error", "none"}
      /\ answer' = "error" => answer = "busy"
  BY Zenon DEF EraseFails, ProgramFails, Crash, ReturnError, WriteInv
<1>4. Mem' = flash'
  BY <1>1 DEF Mem
<1>5. \/ UNCHANGED Mem
      \/ \E s \in Sectors :
           /\ Store!Concerned(s)
           /\ Mem' \in [Sectors -> [Offsets -> Values]]
           /\ \A o \in Offsets : Store!Damaged(s, o, Mem'[s][o])
           /\ \A t \in Sectors \ {s} : Mem'[t] = Mem[t]
  <2>1. sector \in Sectors /\ Mem' \in [Sectors -> [Offsets -> Values]]
    BY <1>1, <1>4, Zenon DEF WriteInv, TypeOK
  <2>2. ASSUME pc # "idle", ~SectorWritten, 0 < remain
        PROVE  Store!Concerned(sector)
    <3>1. offset \in Offsets /\ InRange(offset)
      BY <1>1, <2>2, SMT DEF TypeOK, Offsets, InRange
    <3>2. <<sector, offset>> \in Missing
      BY <2>2, <3>1, WantHere
    <3> QED
      BY <3>1, <3>2, Zenon DEF Store!Concerned, Want
  <2>3. CASE EraseFails
    <3>1. pc = "erase" /\ ~SectorWritten /\ Mem = flash /\ 0 < remain
      BY <2>3, SMT DEF EraseFails, SectorWritten, Mem, WriteInv, SectorRead
    <3>2. CASE flash' = flash
      BY <1>4, <3>1, <3>2
    <3>3. CASE flash' = [flash EXCEPT ![sector] = [o \in Offsets |-> Erased]]
      <4>1. \A o \in Offsets : Mem'[sector][o] = Erased
        BY <1>1, <1>4, <3>3, SMT DEF TypeOK
      <4>2. \A o \in Offsets : Store!Damaged(sector, o, Mem'[sector][o])
        BY <4>1, Zenon DEF Store!Damaged
      <4>3. \A t \in Sectors \ {sector} : Mem'[t] = Mem[t]
        BY <1>1, <1>4, <3>1, <3>3, SMT DEF TypeOK
      <4>4. Store!Concerned(sector)
        BY <2>2, <3>1
      <4> QED
        BY <2>1, <4>2, <4>3, <4>4
    <3> QED
      BY <2>3, <3>2, <3>3, Zenon DEF EraseFails
  <2>4. CASE flash' = flash /\ pc = "write" /\ ~SectorWritten
    <3>1. Mem = [flash EXCEPT ![sector] = before] /\ Mem' = flash
      BY <1>4, <2>4 DEF Mem
    <3>2. \A t \in Sectors \ {sector} : Mem'[t] = Mem[t]
      BY <1>1, <3>1, SMT DEF TypeOK
    <3>3. \A o \in Offsets : Store!Damaged(sector, o, Mem'[sector][o])
      BY <2>4, <3>1, SectorDamaged
    <3>4. CASE remain = 0
      <4>1. i < Limit \/ i = Limit
        BY <1>1, <2>4, SMT DEF WriteInv, SectorProgrammed, Limit, TypeOK
      <4>2. ~whole /\ Limit = 0
        BY <1>1, <2>4, <3>4, SMT DEF WriteInv, SectorProgrammed, Limit
      <4> QED
        BY <1>1, <2>4, <4>1, <4>2, SMT DEF TypeOK, SectorWritten
    <3>5. CASE remain # 0
      <4>1. 0 < remain
        BY <1>1, <3>5, SMT DEF TypeOK
      <4>2. Store!Concerned(sector)
        BY <2>2, <2>4, <4>1
      <4> QED
        BY <2>1, <3>2, <3>3, <4>2
    <3> QED
      BY <3>4, <3>5
  <2>5. CASE flash' = flash /\ ~(pc = "write" /\ ~SectorWritten)
    BY <1>4, <2>5 DEF Mem
  <2>6. ProgramFails \/ Crash => flash' = flash
    BY SMT DEF ProgramFails, Crash
  <2> QED
    BY <2>3, <2>4, <2>5, <2>6
<1> QED
  BY <1>2, <1>3, <1>5, Zenon DEF Store!Fail, Mem, Want

LEMMA StoreNext ==
  ASSUME WriteInv, [Next]_vars
  PROVE  [Store!Next]_(Store!storeVars)
<1>0. sector \in Sectors
  BY DEF WriteInv, TypeOK
<1>1. UNCHANGED <<Mem, Want, answer>> => UNCHANGED Store!storeVars
  BY DEF Store!storeVars, Mem, Want
<1>2. CASE UNCHANGED vars
  <2>1. UNCHANGED <<flash, answer, pc, sector, offset, remain, num, done, data, whole, i, before>>
    BY <1>2, SMT DEF vars, rangeVars
  <2>2. SectorWritten' = SectorWritten
    BY <2>1, SMT DEF SectorWritten, Limit
  <2>3. Mem' = Mem
    BY <2>1, <2>2, SMT DEF Mem
  <2>4. \A c : Position(c)' = Position(c) /\ Wanted(Position(c))' = Wanted(Position(c))
    BY <2>1, SMT DEF Position, Wanted
  <2>5. Missing' = Missing
    BY <2>1, <2>2, <2>4, SMT DEF Missing
  <2>6. Want' = Want
    BY <2>4, <2>5, SMT DEF Want
  <2> QED
    BY <1>1, <2>1, <2>3, <2>6
<1>3. CASE \E s \in Sectors, o \in Offsets :
             \E n \in 0 .. Room(s, o) : \E d \in Data[n] : Call(s, o, n, d)
  BY <1>3, StoreRequest DEF Store!Next
<1>4. CASE Step
  <2>1. CASE ReadSector \/ Erase
    BY <1>1, <2>1, StoreReadErase
  <2>2. CASE EraseFails \/ ProgramFails
    BY <2>2, StoreFail DEF Store!Next
  <2>3. CASE Program
    BY <1>0, <1>1, <2>3, StoreProgram DEF Store!Next
  <2>4. CASE NextSector
    BY <1>1, <2>4, StoreNextSector
  <2>5. CASE Return
    BY <2>5, StoreReturn DEF Store!Next
  <2> QED
    BY <1>4, <2>1, <2>2, <2>3, <2>4, <2>5 DEF Step
<1>5. CASE Crash
  BY <1>5, StoreFail DEF Store!Next
<1> QED
  BY <1>2, <1>3, <1>4, <1>5 DEF Next

\* flash_write implements FlashStore for every size of the device and every
\* request: success means that all of the range is written and nothing else is
\* changed, an error or a power failure damages one sector of it at most.
THEOREM ImplementsStore == Spec => WritesAsPromised
BY StoreInit, StoreNext, Invariance, PTL DEF Spec, WritesAsPromised, Store!Spec

=============================================================================
