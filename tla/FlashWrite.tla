----------------------------- MODULE FlashWrite -----------------------------
(***************************************************************************)
(* flash_write (src/user/flash.c): a range of halfwords is written sector  *)
(* by sector.  A sector whose part of the range is erased is programmed in *)
(* place; any other is read, erased, merged and programmed again as a      *)
(* whole.  Every erase and every program operation of the flash controller *)
(* may fail, and the power may fail between any two of them.               *)
(***************************************************************************)
EXTENDS Integers

CONSTANTS
  NSector,   \* sectors of the device
  SectorLen, \* SECTOR_SIZE / 2: halfwords of a sector
  Values,    \* what a halfword may hold
  Erased     \* 0xFFFF

Sectors == 0 .. NSector - 1
Offsets == 0 .. SectorLen - 1

ASSUME FlashAssumption ==
  /\ NSector \in Nat \ {0}
  /\ SectorLen \in Nat \ {0}
  /\ Erased \in Values

VARIABLES
  flash,    \* the device
  locked,   \* flash_lock
  answer,   \* what the last call returned, "busy" during a call
  pc,       \* the operation the call is at
  sector,   \* sector_position
  offset,   \* sector_offset
  remain,   \* sector_remain
  num,      \* num_write
  done,     \* how far p_buffer has advanced
  data,     \* the caller's buffer
  buf,      \* flash_buf
  whole,    \* the whole sector is programmed, not only the range
  i,        \* index of the loop in flash_write_nocheck
  before    \* history: the sector as ReadSector found it

rangeVars == <<sector, offset, remain, num, done, data>>
vars == <<flash, locked, answer, pc, rangeVars, buf, whole, i, before>>

\* The caller's buffer, as long as the device.
Size == NSector * SectorLen
Buffers == [0 .. Size - 1 -> Values]
\* What lies behind the n halfwords of a request does not matter.
Data == [n \in 0 .. Size |-> {d \in Buffers : \A k \in n .. Size - 1 : d[k] = Erased}]

TypeOK ==
  /\ flash \in [Sectors -> [Offsets -> Values]]
  /\ locked \in BOOLEAN
  /\ answer \in {"none", "busy", "success", "error"}
  /\ pc \in {"idle", "read", "erase", "write"}
  /\ sector \in Sectors
  /\ offset \in Offsets
  /\ remain \in 0 .. SectorLen - offset
  /\ num \in Nat /\ remain <= num
  /\ done \in Nat /\ done + num <= Size
  /\ data \in Buffers
  /\ buf \in [Offsets -> Values]
  /\ whole \in BOOLEAN
  /\ i \in 0 .. SectorLen
  /\ before \in [Offsets -> Values]

Blank == [k \in 0 .. Size - 1 |-> Erased]

Init ==
  /\ flash \in [Sectors -> [Offsets -> Values]]
  /\ locked = TRUE
  /\ answer = "none"
  /\ pc = "idle"
  /\ sector = 0 /\ offset = 0 /\ remain = 0 /\ num = 0 /\ done = 0
  /\ data = Blank
  /\ buf = [o \in Offsets |-> Erased]
  /\ whole = FALSE
  /\ i = 0
  /\ before = [o \in Offsets |-> Erased]

-----------------------------------------------------------------------------
\* Mutant: the part is not cut at the end of the sector.
FitsAlways(o, n) == n

\* The part of n halfwords that fits into a sector from offset o on.
Fits(o, n) == IF n <= SectorLen - o THEN n ELSE SectorLen - o

\* The halfwords from there to the end of the device; a range must lie in it,
\* which is the caller's duty.
Room(s, o) == (NSector - s) * SectorLen - o

\* The local variables of a call end with it.
EndCall ==
  /\ pc' = "idle"
  /\ sector' = 0 /\ offset' = 0 /\ remain' = 0 /\ num' = 0 /\ done' = 0
  /\ data' = Blank
  /\ whole' = FALSE
  /\ i' = 0
  /\ before' = [o \in Offsets |-> Erased]

Call(s, o, n, d) ==
  /\ pc = "idle"
  /\ locked' = FALSE
  /\ answer' = "busy"
  /\ pc' = "read"
  /\ sector' = s /\ offset' = o /\ num' = n
  /\ remain' = Fits(o, n)
  /\ done' = 0
  /\ data' = d
  /\ UNCHANGED <<flash, buf, whole, i, before>>

\* Mutant: p_buffer does not advance with the sectors.
WantedFromStart(k) == data[k]

\* p_buffer[k]
Wanted(k) == data[done + k]

InRange(o) == offset <= o /\ o < offset + remain

\* Mutant: the check stops before the last halfword of the range.
DirtyButLast(content) == \E o \in Offsets : InRange(o + 1) /\ InRange(o) /\ content[o] # Erased

\* A halfword of the range is not erased.
Dirty(content) == \E o \in Offsets : InRange(o) /\ content[o] # Erased

\* flash_read and the check.
ReadSector ==
  /\ pc = "read"
  /\ buf' = flash[sector]
  /\ before' = flash[sector]
  /\ whole' = Dirty(flash[sector])
  /\ i' = 0
  /\ pc' = IF Dirty(flash[sector]) THEN "erase" ELSE "write"
  /\ UNCHANGED <<flash, locked, answer, rangeVars>>

\* flash_sector_erase, and the range merged into the buffer.
Erase ==
  /\ pc = "erase"
  /\ flash' = [flash EXCEPT ![sector] = [o \in Offsets |-> Erased]]
  /\ buf' = [o \in Offsets |-> IF InRange(o) THEN Wanted(o - offset) ELSE buf[o]]
  /\ pc' = "write"
  /\ UNCHANGED <<locked, answer, rangeVars, whole, i, before>>

\* An error return: the flash stays unlocked.
ReturnError ==
  /\ answer' = "error"
  /\ EndCall
  /\ UNCHANGED <<locked, buf>>

\* The wait before the erase times out, or the erase fails.
EraseFails ==
  /\ pc = "erase"
  /\ flash' \in {flash, [flash EXCEPT ![sector] = [o \in Offsets |-> Erased]]}
  /\ ReturnError

-----------------------------------------------------------------------------
(* flash_write_nocheck, over the sector or over the range.                  *)

Limit == IF whole THEN SectorLen ELSE remain
Cell == IF whole THEN i ELSE offset + i
Halfword == IF whole THEN buf[i] ELSE Wanted(i)

Program ==
  /\ pc = "write"
  /\ i < Limit
  /\ flash' = [flash EXCEPT ![sector][Cell] = Halfword]
  /\ i' = i + 1
  /\ UNCHANGED <<locked, answer, pc, rangeVars, buf, whole, before>>

ProgramFails ==
  /\ pc = "write"
  /\ i < Limit
  /\ ReturnError
  /\ UNCHANGED flash

NextSector ==
  /\ pc = "write"
  /\ i = Limit
  /\ num # remain
  /\ sector' = sector + 1
  /\ offset' = 0
  /\ done' = done + remain
  /\ num' = num - remain
  /\ remain' = Fits(0, num - remain)
  /\ pc' = "read"
  /\ UNCHANGED <<flash, locked, answer, data, buf, whole, i, before>>

Return ==
  /\ pc = "write"
  /\ i = Limit
  /\ num = remain
  /\ locked' = TRUE
  /\ answer' = "success"
  /\ EndCall
  /\ UNCHANGED <<flash, buf>>

-----------------------------------------------------------------------------
\* The power fails and comes back.
Crash ==
  /\ locked' = TRUE
  /\ answer' = "none"
  /\ EndCall
  /\ UNCHANGED <<flash, buf>>

Step ==
  \/ ReadSector
  \/ Erase
  \/ EraseFails
  \/ Program
  \/ ProgramFails
  \/ NextSector
  \/ Return

Next ==
  \/ \E s \in Sectors, o \in Offsets :
       \E n \in 0 .. Room(s, o) : \E d \in Data[n] : Call(s, o, n, d)
  \/ Step
  \/ Crash

Spec == Init /\ [][Next]_vars

-----------------------------------------------------------------------------
\* Only an erased halfword is ever programmed: the flash controller refuses
\* any other, and the write would be lost.  The check in ReadSector and the
\* loop in flash_write_nocheck are about the same halfwords.
NeverProgramsDirty == [][Program => flash[sector][Cell] = Erased]_vars

\* The halfwords of the request that are not in the device yet, counting a
\* sector as written when its last halfword is programmed.
SectorWritten == pc = "write" /\ i = Limit
Position(c) == (c[1] - sector) * SectorLen + c[2] - offset
Missing ==
  {c \in Sectors \X Offsets :
     /\ pc # "idle"
     /\ Position(c) \in (IF SectorWritten THEN remain ELSE 0) .. num - 1}

\* flash_write keeps the promise of FlashStore: the sector that is being
\* written counts as it was before.
Store == INSTANCE FlashStore WITH
  mem <- IF pc = "write" /\ ~SectorWritten THEN [flash EXCEPT ![sector] = before] ELSE flash,
  want <- [c \in Missing |-> Wanted(Position(c))]
WritesAsPromised == Store!Spec
=============================================================================
