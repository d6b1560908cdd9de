-------------------------- MODULE BootloaderProofs --------------------------
(***************************************************************************)
(* Machine-checked proofs about the bootloader, for every size of the      *)
(* areas and of a block, every waiting time and every master.              *)
(***************************************************************************)
EXTENDS Bootloader, TLAPS

USE DEF store

LEMMA Numbers ==
  /\ Area \in Nat /\ Area > 0
  /\ Spare \in Nat /\ Spare > 0
  /\ HalfFrames \in Nat /\ HalfFrames > 0
  /\ WaitTime \in Nat
BY BootAssumption

LEMMA Layout ==
  /\ App \in Int /\ Backup \in Int /\ Parameters \in Int /\ Reach \in Nat
  /\ 0 \in Blocks /\ 0 \in Frames
  /\ Backup \in Sectors /\ Backup + 1 \in Sectors
  /\ \A b \in Blocks : b \in Nat /\ b < Reach /\ b \in 0 .. Reach /\ b + 1 \in 0 .. Area
  /\ \A f \in Frames : f \in Nat /\ f + 1 \in 0 .. 2 * HalfFrames
BY Numbers DEF App, Backup, Parameters, Reach, Blocks, Frames, Sectors

\* Facts the types do not say.
Shape ==
  /\ pc = "rest" => counter \in Frames
  /\ pc \in {"copy", "copy0", "copy1"} => at < Area
  /\ master.cut => master.failed

\* Block_copy runs only when COMPLETE was sent.
Copying ==
  /\ buf.kind = "complete" => CompleteSent
  /\ pc \in {"complete", "copy", "copy0", "copy1"} => CompleteSent

Inv == TypeOK /\ Shape /\ Copying /\ ProgramsKept

LEMMA SceneType ==
  ASSUME NEW e \in Scenes
  PROVE  /\ e.blocks \in 1 .. Area /\ e.first \in Frame
BY BootAssumption

LEMMA NoneType == None \in Frame
BY Layout DEF None, Frame, Kinds

LEMMA TokenTypes ==
  /\ Zero \in Tokens /\ Erased \in Tokens /\ Command \in Tokens
  /\ \A s \in Sectors : Old(s) \in Tokens
  /\ \A m \in Frame : Payload(m) \in Tokens
<1>1. Zero \in Tokens /\ Erased \in Tokens /\ Command \in Tokens
  BY DEF Tokens
<1>2. ASSUME NEW s \in Sectors PROVE Old(s) \in Tokens
  BY DEF Tokens
<1>3. ASSUME NEW m \in Frame PROVE Payload(m) \in Tokens
  BY <1>1 DEF Payload, Tokens, Frame
<1> QED
  BY <1>1, <1>2, <1>3

LEMMA WholeType ==
  ASSUME NEW t \in Tokens
  PROVE  Whole(t) \in Cell /\ Filled(t) \in Content
BY DEF Whole, Cell, Filled, Content

LEMMA AfterType ==
  ASSUME TypeOK, NEW m \in Frame
  PROVE  After(m) \in Frame
<1>1. scene.blocks \in 1 .. Area /\ Area \in Nat
  BY SceneType, Numbers DEF TypeOK
<1>2. /\ m.block \in Blocks /\ m.f \in Frames
      /\ m.block + 1 < scene.blocks => m.block + 1 \in Blocks
  BY <1>1 DEF Frame, Blocks
<1> QED
  BY <1>2, Layout, NoneType DEF After, Frame, Kinds, None

LEMMA HalfType ==
  ASSUME TypeOK, NEW h \in {0, 1}
  PROVE  Half(h) \in Content
<1>1. \A k \in 0 .. HalfFrames - 1 : (IF h = 0 THEN k ELSE HalfFrames + k) \in Frames
  BY Numbers DEF Frames
<1> QED
  BY <1>1 DEF Half, Content, TypeOK

LEMMA TornType ==
  ASSUME TypeOK, NEW s \in Sectors, NEW new \in Content, NEW part \in Torn(s, new)
  PROVE  part \in Content
<1>1. CASE part = flash[s]
  BY <1>1 DEF TypeOK
<1>2. CASE part # flash[s]
  <2>1. PICK n \in 0 .. 2 * HalfFrames - 1 :
          part = [k \in 0 .. HalfFrames - 1 |->
                   [first |-> IF 2 * k < n THEN new[k].first ELSE Erased,
                    rest |-> IF 2 * k + 1 < n THEN new[k].rest ELSE Erased]]
    BY <1>2 DEF Torn
  <2>2. \A k \in 0 .. HalfFrames - 1 : new[k].first \in Tokens /\ new[k].rest \in Tokens
    BY DEF Content, Cell
  <2> QED
    BY <2>1, <2>2, TokenTypes DEF Content, Cell
<1> QED
  BY <1>1, <1>2

\* What a write to a sector may do.
LEMMA SectorStep ==
  ASSUME TypeOK, NEW s \in Sectors, NEW new \in Content,
         WriteSector(s, new) \/ FailSector(s, new)
  PROVE  /\ flash' \in [Sectors -> Content] /\ flawed' \in SUBSET Sectors
         /\ \A r \in Sectors : r # s => flash'[r] = flash[r] /\ (r \in flawed <=> r \in flawed')
         /\ WriteSector(s, new) => flash'[s] = new
         /\ FailSector(s, new) => s \in flawed'
<1>1. flash \in [Sectors -> Content] /\ flawed \in SUBSET Sectors
  BY DEF TypeOK
<1>2. CASE WriteSector(s, new)
  <2>1. flash' = [flash EXCEPT ![s] = new] /\ flawed' = flawed \ {s}
    BY <1>2 DEF WriteSector
  <2>2. s \notin flawed'
    BY <2>1
  <2> QED
    BY <1>1, <2>1, <2>2 DEF FailSector
<1>3. CASE FailSector(s, new)
  <2>1. PICK part \in Torn(s, new) : flash' = [flash EXCEPT ![s] = part]
    BY <1>3 DEF FailSector
  <2>2. flawed' = flawed \cup {s}
    BY <1>3 DEF FailSector
  <2>3. part \in Content
    BY <1>1, TornType
  <2>4. ~WriteSector(s, new)
    BY <2>2 DEF WriteSector
  <2> QED
    BY <1>1, <2>1, <2>2, <2>3, <2>4
<1> QED
  BY <1>2, <1>3

LEMMA InvInit == Init => Inv
<1> SUFFICES ASSUME Init PROVE Inv
  OBVIOUS
<1>1. TypeOK
  <2>1. scene \in Scenes /\ scene.first \in Frame
    BY SceneType DEF Init
  <2>2. ram \in [Frames -> Cell] /\ flash \in [Sectors -> Content]
    BY TokenTypes, WholeType DEF Init
  <2>3. 0 \in 0 .. WaitTime + 1 /\ 0 \in 0 .. Reach /\ 0 \in 0 .. 2 * HalfFrames /\ 0 \in 0 .. Area
    BY Numbers, Layout
  <2>4. master \in [next : Frame, waits : BOOLEAN, frames : 0 .. 2 * HalfFrames,
                    blocks : 0 .. Area, gone : BOOLEAN, copied : BOOLEAN,
                    failed : BOOLEAN, cut : BOOLEAN]
    BY <2>1, <2>3 DEF Init, Beginning
  <2> QED
    BY <2>1, <2>2, <2>3, <2>4, Layout, NoneType DEF Init, TypeOK, Places, Kinds
<1>2. Shape /\ Copying
  BY DEF Init, Beginning, Shape, Copying, None
<1>3. ProgramsKept
  BY Layout, Numbers DEF Init, ProgramsKept, Backup, Sectors
<1> QED
  BY <1>1, <1>2, <1>3 DEF Inv

-----------------------------------------------------------------------------
(* Types, and what does not touch the programs.                             *)

LEMMA InitRamStep == Inv /\ InitRam => TypeOK' /\ Shape'
<1> SUFFICES ASSUME Inv, InitRam PROVE TypeOK' /\ Shape'
  OBVIOUS
<1>1. ram' \in [Frames -> Cell]
  BY TokenTypes, WholeType DEF InitRam
<1> QED
  BY <1>1, NoneType, Zenon DEF InitRam, Goto, regs, Inv, TypeOK, Shape, Places

LEMMA WaitCountStep == Inv /\ WaitCount => TypeOK' /\ Shape'
<1> SUFFICES ASSUME Inv, WaitCount PROVE TypeOK' /\ Shape'
  OBVIOUS
<1>1. delay' \in 0 .. WaitTime + 1
  BY Numbers DEF WaitCount, Inv, TypeOK
<1> QED
  BY <1>1 DEF WaitCount, Goto, regs, Inv, TypeOK, Shape, Places

LEMMA TakenStep ==
  ASSUME Inv, NEW from, NEW yes \in {"request", "isDone"}, NEW no \in {"boot", "top"},
         Taken(from, yes, no)
  PROVE  TypeOK' /\ Shape'
BY DEF Taken, regs, Inv, TypeOK, Shape, Places

LEMMA IsStep ==
  ASSUME Inv, NEW from, NEW kind \in Kinds, NEW yes \in {"answer", "number", "complete"},
         NEW no \in {"boot", "isComplete", "isGoto", "high"},
         Is(from, kind, yes, no)
  PROVE  TypeOK' /\ Shape'
BY DEF Is, Inv, TypeOK, Shape, Places

LEMMA BootTopStep ==
  ASSUME Inv, Goto("top", "boot"),
         UNCHANGED <<scene, mode, delay, regs, cmd, buf, ram, store, tx, master>>
  PROVE  TypeOK' /\ Shape'
BY DEF Goto, regs, Inv, TypeOK, Shape, Places

LEMMA AnswerStep == Inv /\ Answer => TypeOK' /\ Shape'
<1> SUFFICES ASSUME Inv, Answer PROVE TypeOK' /\ Shape'
  OBVIOUS
<1>1. tx' \in Frame
  BY Layout DEF Answer, Inv, TypeOK, Frame
<1> QED
  BY <1>1 DEF Answer, Goto, regs, Inv, TypeOK, Shape, Places

LEMMA SentStep == Inv /\ Sent => TypeOK' /\ Shape'
BY DEF Sent, Goto, regs, Inv, TypeOK, Shape, Places

LEMMA HighStep == Inv /\ High => TypeOK' /\ Shape'
BY DEF High, Goto, Inv, TypeOK, Shape, Places, Kinds

LEMMA LowStep == Inv /\ Low => TypeOK' /\ Shape'
<1> SUFFICES ASSUME Inv, Low PROVE TypeOK' /\ Shape'
  OBVIOUS
<1>1. seen.f \in Frames
  BY DEF Inv, TypeOK, Frame
<1>2. counter' \in Frames \cup {NoFrame}
  BY <1>1, Zenon DEF Low
<1> QED
  BY <1>2 DEF Low, Goto, Inv, TypeOK, Shape, Places

LEMMA CellType ==
  ASSUME Inv, NEW f \in Frames
  PROVE  /\ [ram EXCEPT ![f].first = Payload(buf)] \in [Frames -> Cell]
         /\ [ram EXCEPT ![f].rest = Payload(buf)] \in [Frames -> Cell]
<1>1. Payload(buf) \in Tokens
  BY TokenTypes DEF Inv, TypeOK
<1> QED
  BY <1>1 DEF Inv, TypeOK, Cell

LEMMA FirstStep == Inv /\ First => TypeOK' /\ Shape'
BY CellType DEF First, Goto, regs, Inv, TypeOK, Shape, Places

LEMMA RestStep == Inv /\ Rest => TypeOK' /\ Shape'
<1> SUFFICES ASSUME Inv, Rest PROVE TypeOK' /\ Shape'
  OBVIOUS
<1>1. counter \in Frames
  BY DEF Inv, Shape, Rest, Goto
<1>2. ram' \in [Frames -> Cell]
  BY <1>1, CellType DEF Rest
<1> QED
  BY <1>2, Zenon DEF Rest, Goto, regs, Inv, TypeOK, Shape, Places

LEMMA NumberStep == Inv /\ Number => TypeOK' /\ Shape'
<1> SUFFICES ASSUME Inv, Number PROVE TypeOK' /\ Shape'
  OBVIOUS
<1>1. buf.block \in 0 .. Reach /\ Reach \in 0 .. Reach
  BY Layout DEF Inv, TypeOK, Frame
<1>2. at' \in 0 .. Reach
  BY <1>1 DEF Number, BlockNumbers
<1> QED
  BY <1>2 DEF Number, Goto, Inv, TypeOK, Shape, Places

LEMMA StoreStep ==
  ASSUME Inv, NEW h \in {0, 1}, NEW from, NEW to \in {"write1", "answer"}, Store(h, from, to)
  PROVE  TypeOK' /\ Shape'
<1>1. flash' \in [Sectors -> Content] /\ flawed' \in SUBSET Sectors
  BY HalfType, SectorStep DEF Store, Inv, TypeOK
<1> QED
  BY <1>1 DEF Store, regs, Inv, TypeOK, Shape, Places

LEMMA CopyBeginStep == Inv /\ CopyBegin => TypeOK' /\ Shape'
BY Layout, Numbers DEF CopyBegin, Goto, Inv, TypeOK, Shape, Places

LEMMA CopyReadStep == Inv /\ CopyRead => TypeOK' /\ Shape'
<1> SUFFICES ASSUME Inv, CopyRead PROVE TypeOK' /\ Shape'
  OBVIOUS
<1>1. \A f \in Frames : IF f < HalfFrames THEN f \in 0 .. HalfFrames - 1
                         ELSE f - HalfFrames \in 0 .. HalfFrames - 1
  BY Numbers DEF Frames
<1>2. flash[Backup] \in Content /\ flash[Backup + 1] \in Content
  BY Layout DEF Inv, TypeOK
<1>3. ram' \in [Frames -> Cell]
  BY <1>1, <1>2 DEF CopyRead, Content
<1> QED
  BY <1>3 DEF CopyRead, Goto, regs, Inv, TypeOK, Shape, Places

LEMMA CopyWriteStep ==
  ASSUME Inv, NEW h \in {0, 1}, NEW from \in {"copy0", "copy1"}, NEW to,
         h = 0 => to = "copy1",
         h = 1 => to = CopyOn,
         CopyWrite(h, from, to)
  PROVE  TypeOK' /\ Shape'
<1>1. at \in Nat /\ at < Area /\ at + h \in Sectors
  <2>1. at \in Nat /\ at < Area
    BY Layout DEF Inv, TypeOK, Shape, CopyWrite
  <2> QED
    BY <2>1, Numbers DEF Sectors
<1>2. flash' \in [Sectors -> Content] /\ flawed' \in SUBSET Sectors
  BY <1>1, HalfType, SectorStep DEF CopyWrite, Inv
<1>3. at' \in {at + h, at + 1} /\ at' \in 0 .. Reach
  BY <1>1, Numbers DEF CopyWrite, Reach
<1>4. /\ pc' \in Places
      /\ pc' \in {"copy", "copy0", "copy1"} => at' < Area
      /\ pc' # "rest"
  <2>1. CASE at' = at + h /\ pc' \in {to, "lost"}
    BY <1>1, <2>1, Numbers DEF Places, CopyOn
  <2>2. CASE at' = at + 1 /\ pc' \in {CopyOn, "lost"}
    BY <1>1, <2>2, Numbers DEF Places, CopyOn
  <2> QED
    BY <2>1, <2>2 DEF CopyWrite
<1> QED
  BY <1>2, <1>3, <1>4, Zenon DEF CopyWrite, Inv, TypeOK, Shape

LEMMA JumpStep == Inv /\ Jump => TypeOK' /\ Shape'
BY DEF Jump, Goto, regs, Inv, TypeOK, Shape, Places

LEMMA ReceiveStep == Inv /\ Receive => TypeOK' /\ Shape'
<1> SUFFICES ASSUME Inv, Receive PROVE TypeOK' /\ Shape'
  OBVIOUS
<1>1. master.next \in Frame
  BY DEF Inv, TypeOK
<1>2. After(master.next) \in Frame
  BY <1>1, AfterType DEF Inv
<1> QED
  BY <1>1, <1>2 DEF Receive, regs, Inv, TypeOK, Shape

LEMMA DeliverStep == Inv /\ Deliver => TypeOK' /\ Shape'
<1> SUFFICES ASSUME Inv, Deliver PROVE TypeOK' /\ Shape'
  OBVIOUS
<1>1. tx.f + 1 \in 0 .. 2 * HalfFrames /\ 0 \in 0 .. 2 * HalfFrames
      /\ (master.blocks < scene.blocks => master.blocks + 1 \in 0 .. Area)
  BY Layout, Numbers, SceneType DEF Inv, TypeOK, Frame
<1> QED
  BY <1>1, NoneType DEF Deliver, regs, Inv, TypeOK, Shape

LEMMA LeaveStep == Inv /\ Leave => TypeOK' /\ Shape'
BY DEF Leave, regs, Inv, TypeOK, Shape

\* The sector that is written when the power fails, and no other.
LEMMA PowerTears ==
  ASSUME Inv, PowerFailure
  PROVE  /\ flash' \in [Sectors -> Content]
         /\ flash' = flash \/ \E w \in Written : w[1] \in Sectors /\
              \A r \in Sectors : r # w[1] => flash'[r] = flash[r]
<1>1. flash \in [Sectors -> Content]
  BY DEF Inv, TypeOK
<1>2. CASE UNCHANGED flash
  BY <1>1, <1>2
<1>3. ASSUME NEW w \in Written, w[1] \in Sectors,
             NEW part \in Torn(w[1], w[2]), flash' = [flash EXCEPT ![w[1]] = part]
      PROVE  /\ flash' \in [Sectors -> Content]
             /\ \A r \in Sectors : r # w[1] => flash'[r] = flash[r]
  <2>1. w[2] = Half(0) \/ w[2] = Half(1)
    BY <1>3 DEF Written
  <2>2. w[2] \in Content
    BY <2>1, HalfType DEF Inv
  <2>3. part \in Content
    BY <1>3, <2>2, TornType DEF Inv
  <2> QED
    BY <1>1, <1>3, <2>3
<1> QED
  BY <1>2, <1>3 DEF PowerFailure

LEMMA AfterwardsType ==
  ASSUME TypeOK, NEW m \in Afterwards
  PROVE  /\ m \in [next : Frame, waits : BOOLEAN, frames : 0 .. 2 * HalfFrames,
                    blocks : 0 .. Area, gone : BOOLEAN, copied : BOOLEAN,
                    failed : BOOLEAN, cut : BOOLEAN]
         /\ m.failed /\ m.copied = master.copied
         /\ \/ ~m.cut /\ m.next = scene.first /\ m.frames = 0 /\ m.blocks = 0
            \/ m.cut /\ m.next = master.next
         /\ ~m.waits
<1>1. scene.first \in Frame /\ 0 \in 0 .. 2 * HalfFrames /\ 0 \in 0 .. Area
  BY SceneType, Numbers DEF TypeOK
<1>2. CASE m = [Beginning EXCEPT !.gone = master.gone, !.copied = master.copied, !.failed = TRUE]
  BY <1>1, <1>2 DEF TypeOK, Beginning
<1>3. CASE \E g \in {master.gone, TRUE} :
             m = [master EXCEPT !.waits = FALSE, !.gone = g, !.failed = TRUE, !.cut = TRUE]
  BY <1>3 DEF TypeOK
<1> QED
  BY <1>2, <1>3 DEF Afterwards

LEMMA PowerFailureStep == Inv /\ PowerFailure => TypeOK' /\ Shape'
<1> SUFFICES ASSUME Inv, PowerFailure PROVE TypeOK' /\ Shape'
  OBVIOUS
<1>1. flash' \in [Sectors -> Content]
  BY PowerTears DEF Inv, TypeOK
<1>2. pc' \in {"init", "lost"}
  BY DEF PowerFailure
<1>3. 0 \in 0 .. WaitTime + 1 /\ 0 \in 0 .. Reach /\ 0 \in Frames
  BY Numbers, Layout
<1>4. ram' \in [Frames -> Cell]
  BY TokenTypes, WholeType DEF PowerFailure
<1>5. /\ master' \in [next : Frame, waits : BOOLEAN, frames : 0 .. 2 * HalfFrames,
                      blocks : 0 .. Area, gone : BOOLEAN, copied : BOOLEAN,
                      failed : BOOLEAN, cut : BOOLEAN]
      /\ master'.failed
  BY AfterwardsType DEF Inv, PowerFailure
<1>6. TypeOK'
  BY <1>1, <1>2, <1>3, <1>4, <1>5, NoneType, Zenon DEF PowerFailure, Inv, TypeOK, Places, Kinds
<1> QED
  BY <1>2, <1>5, <1>6 DEF Shape

-----------------------------------------------------------------------------
(* The bootloader and the application.                                      *)

CopyPlaces == {"complete", "copy", "copy0", "copy1"}

\* Steps that leave flash and master alone.
LEMMA KeepPrograms ==
  ASSUME Inv, UNCHANGED <<scene, flash, master>>, buf' = buf \/ buf' = None,
         pc' \in CopyPlaces => pc \in CopyPlaces \/ buf.kind = "complete"
  PROVE  Copying' /\ ProgramsKept'
<1>1. CompleteSent' = CompleteSent
  BY DEF CompleteSent
<1>2. None.kind # "complete"
  BY DEF None
<1> QED
  BY <1>1, <1>2 DEF Inv, Copying, ProgramsKept, CopyPlaces

LEMMA StorePrograms ==
  ASSUME Inv, NEW h \in {0, 1}, NEW from, NEW to \in {"write1", "answer"}, Store(h, from, to)
  PROVE  Copying' /\ ProgramsKept'
<1>1. CompleteSent' = CompleteSent /\ pc' \notin CopyPlaces /\ buf' = buf
  BY DEF CompleteSent, Store, CopyPlaces
<1>2. \A s \in 0 .. Backup - 1 : s \in Sectors /\ s # InBackup(h)
  BY Numbers, Layout DEF Inv, TypeOK, Backup, Sectors, InBackup
<1>3. flash' = flash \/ \A s \in Sectors : s # InBackup(h) => flash'[s] = flash[s]
  BY HalfType, SectorStep DEF Store, Inv
<1>4. \A s \in 0 .. Backup - 1 : flash'[s] = flash[s]
  BY <1>2, <1>3
<1> QED
  BY <1>1, <1>4 DEF Inv, Copying, ProgramsKept, CopyPlaces

LEMMA CopyWritePrograms ==
  ASSUME Inv, NEW h \in {0, 1}, NEW from \in {"copy0", "copy1"}, NEW to, CopyWrite(h, from, to)
  PROVE  Copying' /\ ProgramsKept'
BY DEF Inv, Copying, ProgramsKept, CompleteSent, CopyWrite

LEMMA ReceivePrograms == Inv /\ Receive => Copying' /\ ProgramsKept'
<1> SUFFICES ASSUME Inv, Receive PROVE Copying' /\ ProgramsKept'
  OBVIOUS
<1>1. scene' = scene /\ flash' = flash /\ pc' = pc /\ buf' = master.next
      /\ master'.copied = (master.copied \/ master.next.kind = "complete")
  BY DEF Receive, Inv, TypeOK
<1> QED
  BY <1>1 DEF Inv, Copying, ProgramsKept, CompleteSent

LEMMA PowerFailurePrograms == Inv /\ PowerFailure => Copying' /\ ProgramsKept'
<1> SUFFICES ASSUME Inv, PowerFailure PROVE Copying' /\ ProgramsKept'
  OBVIOUS
<1>1. CompleteSent' = CompleteSent /\ buf'.kind # "complete" /\ pc' \notin CopyPlaces
  BY AfterwardsType DEF PowerFailure, CompleteSent, CopyPlaces, None, Inv
<1>2. CompleteSent \/ \A s \in 0 .. Backup - 1 : flash'[s] = flash[s]
  <2>1. CASE flash' = flash
    BY <2>1
  <2>2. ASSUME NEW w \in Written, w[1] \in Sectors,
               \A r \in Sectors : r # w[1] => flash'[r] = flash[r], ~CompleteSent
        PROVE  \A s \in 0 .. Backup - 1 : flash'[s] = flash[s]
    <3>1. w[1] = InBackup(0) \/ w[1] = InBackup(1)
      BY <2>2 DEF Written, Inv, Copying
    <3>2. \A s \in 0 .. Backup - 1 : s \in Sectors /\ s # InBackup(0) /\ s # InBackup(1)
      BY Numbers, Layout DEF Inv, TypeOK, Backup, Sectors, InBackup
    <3> QED
      BY <2>2, <3>1, <3>2
  <2> QED
    BY <2>1, <2>2, PowerTears
<1> QED
  BY <1>1, <1>2 DEF Inv, Copying, ProgramsKept, CopyPlaces

LEMMA WaitingInv == Inv /\ Waiting => Inv'
<1> SUFFICES ASSUME Inv, Waiting PROVE Inv'
  OBVIOUS
<1>1. CASE WaitCount
  BY <1>1, WaitCountStep, KeepPrograms DEF Inv, WaitCount, Goto, CopyPlaces
<1>2. CASE Taken("wait", "request", "boot")
  BY <1>2, TakenStep, KeepPrograms DEF Inv, Taken, CopyPlaces
<1>3. CASE Is("request", "request", "answer", "boot")
  BY <1>3, IsStep, KeepPrograms DEF Inv, Is, CopyPlaces, Kinds
<1> QED
  BY <1>1, <1>2, <1>3 DEF Waiting

LEMMA BootingInv == Inv /\ Booting => Inv'
<1> SUFFICES ASSUME Inv, Booting PROVE Inv'
  OBVIOUS
<1>1. CASE mode = "boot" /\ Goto("top", "boot")
           /\ UNCHANGED <<scene, mode, delay, regs, cmd, buf, ram, store, tx, master>>
  BY <1>1, BootTopStep, KeepPrograms DEF Inv, Goto, CopyPlaces
<1>2. CASE Taken("boot", "isDone", "top")
  BY <1>2, TakenStep, KeepPrograms DEF Inv, Taken, CopyPlaces
<1>3. CASE Is("isDone", "done", "number", "isComplete")
  BY <1>3, IsStep, KeepPrograms DEF Inv, Is, CopyPlaces, Kinds
<1>4. CASE Is("isComplete", "complete", "complete", "isGoto")
  BY <1>4, IsStep, KeepPrograms DEF Inv, Is, CopyPlaces, Kinds
<1>5. CASE Is("isGoto", "goto", "number", "high")
  BY <1>5, IsStep, KeepPrograms DEF Inv, Is, CopyPlaces, Kinds
<1> QED
  BY <1>1, <1>2, <1>3, <1>4, <1>5 DEF Booting

LEMMA HandleInv == Inv /\ Handle => Inv'
<1> SUFFICES ASSUME Inv, Handle PROVE Inv'
  OBVIOUS
<1>1. CASE Answer
  BY <1>1, AnswerStep, KeepPrograms DEF Inv, Answer, Goto, CopyPlaces
<1>2. CASE Sent
  BY <1>2, SentStep, KeepPrograms DEF Inv, Sent, Goto, CopyPlaces
<1>3. CASE High
  BY <1>3, HighStep, KeepPrograms DEF Inv, High, Goto, CopyPlaces
<1>4. CASE Low
  BY <1>4, LowStep, KeepPrograms DEF Inv, Low, Goto, CopyPlaces
<1>5. CASE First
  BY <1>5, FirstStep, KeepPrograms DEF Inv, First, CopyPlaces
<1>6. CASE Rest
  BY <1>6, RestStep, KeepPrograms DEF Inv, Rest, Goto, CopyPlaces
<1>7. CASE Number
  BY <1>7, NumberStep, KeepPrograms DEF Inv, Number, Goto, CopyPlaces
<1>8. CASE Store(0, "write0", "write1")
  BY <1>8, StoreStep, StorePrograms DEF Inv
<1>9. CASE Store(1, "write1", "answer")
  BY <1>9, StoreStep, StorePrograms DEF Inv
<1>10. CASE CopyBegin
  BY <1>10, CopyBeginStep, KeepPrograms DEF Inv, CopyBegin, Goto, CopyPlaces
<1>11. CASE CopyRead
  BY <1>11, CopyReadStep, KeepPrograms DEF Inv, CopyRead, Goto, CopyPlaces
<1>12. CASE CopyWrite(0, "copy0", "copy1")
  BY <1>12, CopyWriteStep, CopyWritePrograms DEF Inv
<1>13. CASE CopyWrite(1, "copy1", CopyOn)
  BY <1>13, CopyWriteStep, CopyWritePrograms DEF Inv
<1> QED
  BY <1>1, <1>2, <1>3, <1>4, <1>5, <1>6, <1>7, <1>8, <1>9, <1>10, <1>11, <1>12, <1>13
     DEF Handle, DataTransmit, BlockDone, BlockCopy

LEMMA InvStep == Inv /\ [Next]_vars => Inv'
<1> SUFFICES ASSUME Inv, [Next]_vars PROVE Inv'
  OBVIOUS
<1>1. CASE InitRam
  BY <1>1, InitRamStep, KeepPrograms DEF Inv, InitRam, Goto, CopyPlaces
<1>2. CASE Waiting \/ Booting \/ Handle
  BY <1>2, WaitingInv, BootingInv, HandleInv
<1>3. CASE Jump
  BY <1>3, JumpStep, KeepPrograms DEF Inv, Jump, Goto, CopyPlaces
<1>4. CASE Receive
  BY <1>4, ReceiveStep, ReceivePrograms DEF Inv
<1>5. CASE Deliver
  <2>1. scene' = scene /\ flash' = flash /\ pc' = pc /\ buf' = buf /\ master'.copied = master.copied
    BY <1>5 DEF Deliver, Inv, TypeOK
  <2>2. CompleteSent' = CompleteSent
    BY <2>1 DEF CompleteSent
  <2> QED
    BY <1>5, <2>1, <2>2, DeliverStep DEF Inv, Copying, ProgramsKept
<1>6. CASE Leave
  <2>1. scene' = scene /\ flash' = flash /\ pc' = pc /\ buf' = buf /\ master'.copied = master.copied
    BY <1>6 DEF Leave, Inv, TypeOK
  <2>2. CompleteSent' = CompleteSent
    BY <2>1 DEF CompleteSent
  <2> QED
    BY <1>6, <2>1, <2>2, LeaveStep DEF Inv, Copying, ProgramsKept
<1>7. CASE PowerFailure
  BY <1>7, PowerFailureStep, PowerFailurePrograms DEF Inv
<1>8. CASE UNCHANGED vars
  <2>1. TypeOK'
    BY <1>8 DEF vars, regs, Inv, TypeOK
  <2>2. Shape' /\ Copying'
    BY <1>8 DEF vars, regs, Inv, Shape, Copying, CompleteSent
  <2>3. ProgramsKept'
    BY <1>8, Zenon DEF vars, Inv, ProgramsKept, CompleteSent
  <2> QED
    BY <2>1, <2>2, <2>3 DEF Inv
<1> QED
  BY <1>1, <1>2, <1>3, <1>4, <1>5, <1>6, <1>7, <1>8 DEF Next, MainLoop, Ended

\* However frames arrive, leave and overwrite each other, and whenever power or a
\* write fails, every variable keeps its type.  The number a data frame is stored
\* at is one of the block's or NoFrame, an index far outside gSysRamBuf: then the
\* processor is lost and nothing is promised of it.
THEOREM TypeCorrect == Spec => []TypeOK
<1>1. Inv => TypeOK
  BY DEF Inv
<1> QED
  BY <1>1, InvInit, InvStep, PTL DEF Spec

\* Whatever a master sends and whenever power fails, the bootloader and the
\* application stay as they were until COMPLETE is sent.
THEOREM ProgramsKeptAlways == Spec => []ProgramsKept
<1>1. Inv => ProgramsKept
  BY DEF Inv
<1> QED
  BY <1>1, InvInit, InvStep, PTL DEF Spec

-----------------------------------------------------------------------------
(* A master that waits.  While it waits, the frame in flight is in the buffer *)
(* (unless it was sent before Init_Ram cleared the buffer), and nothing else  *)
(* is on its way.                                                             *)

Steady == scene.patient /\ ~CompleteSent

\* And which has not gone on as if power had not failed.
Live == Steady /\ ~master.cut

\* Where the main loop has taken the frame and not yet replied.
Storing == {"high", "low", "first", "rest"}
Writing == {"number", "write0", "write1"}
Handling == {"isDone", "isComplete", "isGoto", "answer"} \cup Storing \cup Writing

Flight ==
  /\ master.waits /\ buf.kind # "none" =>
       buf.kind \in {"request", "data", "done", "goto"} /\ master.next = After(buf)
  /\ pc \in Handling => buf.kind # "none"
  /\ pc \in Handling \cup {"request"} => master.waits /\ ~cmd
  /\ cmd => master.waits
  /\ cmd /\ buf.kind = "none" => pc = "wait" \/ (pc = "top" /\ mode = "wait")
  /\ tx # None => /\ pc = "sent" /\ master.waits /\ ~cmd
                  /\ tx.kind = buf.kind /\ (buf.kind = "data" => tx.f = buf.f)
                  /\ tx.kind # "none"
  /\ master.next.kind = "none" => master.next = None

\* Only blocks of the image are numbered.
InImage == master.next.block < scene.blocks /\ buf.block < scene.blocks

\* The frame in flight, or else the one that is sent next, follows on what was
\* confirmed.
Due == IF master.waits /\ buf.kind # "none" THEN buf ELSE master.next
Follows == Live =>
  /\ pc = "init" => Due.kind = "request"
  /\ Due.kind = "request" => Due.block = master.blocks /\ master.frames = 0
  /\ Due.kind = "data" => Due.block = master.blocks /\ master.frames = Due.f
  /\ Due.kind = "done" => Due.block = master.blocks /\ master.frames = 2 * HalfFrames
  /\ Due.kind \in {"complete", "goto", "none"} => master.frames = 0

\* How far the main loop is with the frame.
Work ==
  /\ pc \in Writing => job = buf.kind /\ job \in {"done", "goto"}
  /\ pc = "answer" => job = buf.kind
  /\ pc \in {"isComplete", "isGoto"} \cup Storing => buf.kind # "done"
  /\ pc \in Storing => buf.kind # "goto"
  /\ pc \in {"low", "first", "rest"} => job = "data"
  /\ pc = "low" => seen = buf
  /\ pc \in {"first", "rest"} => counter = IF buf.kind = "data" THEN buf.f ELSE NoFrame
  /\ pc = "rest" => buf.kind = "data" /\ ram[buf.f].first = Payload(buf)
  /\ pc \in {"write0", "write1"} => at = IF buf.kind = "done" THEN buf.block ELSE Reach

\* What is stored when the reply is given, or is flawed.
Kept ==
  /\ (pc = "answer" \/ tx # None) /\ buf.kind = "data" => ram[buf.f] = Whole(Payload(buf))
  /\ (pc \in {"write1", "answer"} \/ tx # None) /\ buf.kind = "done" =>
       flash[Backup + buf.block] = Half(0) \/ Backup + buf.block \in flawed

\* A request is not sent again once one was accepted.
Accepted ==
  /\ pc = "sent" /\ tx # None => job = buf.kind
  /\ ~scene.each /\ (mode = "boot" \/ (pc = "sent" /\ job = "request" /\ tx = None)) =>
       master.next.kind # "request" /\ (master.waits => buf.kind # "request")
  /\ ~scene.each /\ mode = "boot" /\ pc = "lost" => buf.kind = "goto"

Patient == Flight /\ InImage /\ Follows /\ Work /\ Kept /\ Accepted

PatientInv ==
  /\ Inv /\ ParametersKept
  /\ Steady => Patient /\ AckedInRam /\ FirstHalfStored

LEMMA SteadyStays ==
  ASSUME PatientInv, scene' = scene, master'.copied = master.copied, Steady'
  PROVE  Steady /\ Patient /\ AckedInRam /\ FirstHalfStored
BY DEF PatientInv, Steady, CompleteSent

LEMMA LiveSteady == Live <=> Steady /\ ~master.cut
BY DEF Live

\* A step of the main loop that only takes it on.
LEMMA Still ==
  ASSUME PatientInv, scene' = scene, buf' = buf, ram' = ram, flash' = flash, flawed' = flawed,
         master' = master, Steady', pc' # "init"
  PROVE  /\ Steady /\ Patient
         /\ InImage' /\ Follows' /\ AckedInRam' /\ FirstHalfStored'
<1>1. Steady /\ Patient /\ AckedInRam /\ FirstHalfStored
  BY SteadyStays
<1>2. InImage' /\ Follows'
  BY <1>1 DEF Patient, InImage, Follows, Due, Live
<1>3. AckedInRam' /\ FirstHalfStored'
  BY <1>1 DEF AckedInRam, FirstHalfStored, CompleteSent
<1> QED
  BY <1>1, <1>2, <1>3

LEMMA WaitCountPatient == PatientInv /\ WaitCount /\ Steady' => (Patient /\ AckedInRam /\ FirstHalfStored)'
<1> SUFFICES ASSUME PatientInv, WaitCount, Steady'
             PROVE  (Patient /\ AckedInRam /\ FirstHalfStored)'
  OBVIOUS
<1>1. Steady /\ Patient /\ InImage' /\ Follows' /\ AckedInRam' /\ FirstHalfStored'
  BY Still DEF WaitCount, Goto
<1>2. Flight'
  BY <1>1 DEF WaitCount, Goto, Patient, Flight, Handling, Storing, Writing, After
<1>3. Work' /\ Kept'
  BY <1>1 DEF WaitCount, Goto, regs, Patient, Flight, Work, Kept, Storing, Writing, Half
<1>4. Accepted'
  BY <1>1 DEF WaitCount, Goto, regs, Patient, Accepted
<1> QED
  BY <1>1, <1>2, <1>3, <1>4 DEF Patient

LEMMA TakenPatient ==
  ASSUME PatientInv, Steady',
         Taken("wait", "request", "boot") \/ Taken("boot", "isDone", "top")
  PROVE  (Patient /\ AckedInRam /\ FirstHalfStored)'
<1>1. Steady /\ Patient /\ InImage' /\ Follows' /\ AckedInRam' /\ FirstHalfStored'
  BY Still DEF Taken
<1>2. Flight'
  BY <1>1 DEF Taken, Patient, Flight, Handling, Storing, Writing, After
<1>3. Work' /\ Kept'
  BY <1>1 DEF Taken, regs, Patient, Flight, Work, Kept, Storing, Writing, Half
<1>4. Accepted'
  BY <1>1 DEF Taken, regs, Patient, Accepted
<1> QED
  BY <1>1, <1>2, <1>3, <1>4 DEF Patient

LEMMA RequestPatient ==
  ASSUME PatientInv, Steady', Is("request", "request", "answer", "boot")
  PROVE  (Patient /\ AckedInRam /\ FirstHalfStored)'
<1>1. Steady /\ Patient /\ InImage' /\ Follows' /\ AckedInRam' /\ FirstHalfStored'
  BY Still DEF Is
<1>2. Flight'
  BY <1>1 DEF Is, Patient, Flight, Handling, Storing, Writing, After
<1>3. Work'
  BY <1>1 DEF Is, regs, Patient, Flight, Work, Handling, Storing, Writing
<1>4. Kept'
  BY <1>1 DEF Is, regs, Patient, Flight, Work, Kept, Half, Handling, Storing, Writing
<1>5. Accepted'
  BY <1>1 DEF Is, regs, Patient, Accepted, Work, Flight, Storing, Writing
<1> QED
  BY <1>1, <1>2, <1>3, <1>4, <1>5 DEF Patient

LEMMA DonePatient ==
  ASSUME PatientInv, Steady', Is("isDone", "done", "number", "isComplete")
  PROVE  (Patient /\ AckedInRam /\ FirstHalfStored)'
<1>1. Steady /\ Patient /\ InImage' /\ Follows' /\ AckedInRam' /\ FirstHalfStored'
  BY Still DEF Is
<1>2. Flight'
  BY <1>1 DEF Is, Patient, Flight, Handling, Storing, Writing, After
<1>3. Work'
  BY <1>1 DEF Is, regs, Patient, Flight, Work, Handling, Storing, Writing
<1>4. Kept'
  BY <1>1 DEF Is, regs, Patient, Flight, Work, Kept, Half, Handling, Storing, Writing
<1>5. Accepted'
  BY <1>1 DEF Is, regs, Patient, Accepted, Work, Flight, Storing, Writing
<1> QED
  BY <1>1, <1>2, <1>3, <1>4, <1>5 DEF Patient

LEMMA NotComplete ==
  ASSUME PatientInv, Steady
  PROVE  buf.kind # "complete" /\ pc \notin CopyPlaces
BY DEF PatientInv, Inv, Copying, Steady, CopyPlaces

LEMMA CompletePatient ==
  ASSUME PatientInv, Steady', Is("isComplete", "complete", "complete", "isGoto")
  PROVE  (Patient /\ AckedInRam /\ FirstHalfStored)'
<1>1. Steady /\ Patient /\ InImage' /\ Follows' /\ AckedInRam' /\ FirstHalfStored'
  BY Still DEF Is
<1>2. Flight'
  BY <1>1, NotComplete DEF Is, Patient, Flight, Handling, Storing, Writing, After
<1>3. Work'
  BY <1>1, NotComplete DEF Is, regs, Patient, Flight, Work, Handling, Storing, Writing
<1>4. Kept'
  BY <1>1, NotComplete DEF Is, regs, Patient, Flight, Work, Kept, Half, Handling, Storing, Writing
<1>5. Accepted'
  BY <1>1, NotComplete DEF Is, regs, Patient, Accepted, Work, Flight, Storing, Writing
<1> QED
  BY <1>1, <1>2, <1>3, <1>4, <1>5 DEF Patient

LEMMA GotoPatient ==
  ASSUME PatientInv, Steady', Is("isGoto", "goto", "number", "high")
  PROVE  (Patient /\ AckedInRam /\ FirstHalfStored)'
<1>1. Steady /\ Patient /\ InImage' /\ Follows' /\ AckedInRam' /\ FirstHalfStored'
  BY Still DEF Is
<1>2. Flight'
  BY <1>1 DEF Is, Patient, Flight, Handling, Storing, Writing, After
<1>3. Work'
  BY <1>1 DEF Is, regs, Patient, Flight, Work, Handling, Storing, Writing
<1>4. Kept'
  BY <1>1 DEF Is, regs, Patient, Flight, Work, Kept, Half, Handling, Storing, Writing
<1>5. Accepted'
  BY <1>1 DEF Is, regs, Patient, Accepted, Work, Flight, Storing, Writing
<1> QED
  BY <1>1, <1>2, <1>3, <1>4, <1>5 DEF Patient

LEMMA BootTopPatient ==
  ASSUME PatientInv, Steady', mode = "boot", Goto("top", "boot"),
         UNCHANGED <<scene, mode, delay, regs, cmd, buf, ram, store, tx, master>>
  PROVE  (Patient /\ AckedInRam /\ FirstHalfStored)'
<1>1. Steady /\ Patient /\ InImage' /\ Follows' /\ AckedInRam' /\ FirstHalfStored'
  BY Still DEF Goto
<1>2. Flight'
  BY <1>1 DEF Goto, Patient, Flight, Handling, Storing, Writing, After
<1>3. Work'
  BY <1>1 DEF Goto, regs, Patient, Flight, Work, Handling, Storing, Writing
<1>4. Kept'
  BY <1>1 DEF Goto, regs, Patient, Flight, Work, Kept, Half, Handling, Storing, Writing
<1>5. Accepted'
  BY <1>1 DEF Goto, regs, Patient, Accepted, Work, Flight, Storing, Writing
<1> QED
  BY <1>1, <1>2, <1>3, <1>4, <1>5 DEF Patient

LEMMA SentPatient ==
  ASSUME PatientInv, Steady', Sent
  PROVE  (Patient /\ AckedInRam /\ FirstHalfStored)'
<1>1. Steady /\ Patient /\ InImage' /\ Follows' /\ AckedInRam' /\ FirstHalfStored'
  BY Still DEF Sent, Goto
<1>2. Flight'
  BY <1>1 DEF Sent, Goto, Patient, Flight, Handling, Storing, Writing, After
<1>3. Work'
  BY <1>1 DEF Sent, Goto, regs, Patient, Flight, Work, Handling, Storing, Writing
<1>4. Kept'
  BY <1>1 DEF Sent, Goto, regs, Patient, Flight, Work, Kept, Half, Handling, Storing, Writing
<1>5. Accepted'
  BY <1>1 DEF Sent, Goto, regs, Patient, Accepted, Work, Flight, Storing, Writing
<1> QED
  BY <1>1, <1>2, <1>3, <1>4, <1>5 DEF Patient

LEMMA HighPatient ==
  ASSUME PatientInv, Steady', High
  PROVE  (Patient /\ AckedInRam /\ FirstHalfStored)'
<1>1. Steady /\ Patient /\ InImage' /\ Follows' /\ AckedInRam' /\ FirstHalfStored'
  BY Still DEF High, Goto
<1>2. Flight'
  BY <1>1 DEF High, Goto, Patient, Flight, Handling, Storing, Writing, After
<1>3. Work'
  BY <1>1 DEF High, Goto, regs, Patient, Flight, Work, Handling, Storing, Writing
<1>4. Kept'
  BY <1>1 DEF High, Goto, regs, Patient, Flight, Work, Kept, Half, Handling, Storing, Writing
<1>5. Accepted'
  BY <1>1 DEF High, Goto, regs, Patient, Accepted, Work, Flight, Storing, Writing
<1> QED
  BY <1>1, <1>2, <1>3, <1>4, <1>5 DEF Patient

LEMMA LowPatient ==
  ASSUME PatientInv, Steady', Low
  PROVE  (Patient /\ AckedInRam /\ FirstHalfStored)'
<1>1. Steady /\ Patient /\ InImage' /\ Follows' /\ AckedInRam' /\ FirstHalfStored'
  BY Still DEF Low, Goto
<1>2. Flight'
  BY <1>1 DEF Low, Goto, Patient, Flight, Handling, Storing, Writing, After
<1>3. Work'
  BY <1>1 DEF Low, Goto, regs, Patient, Flight, Work, Handling, Storing, Writing
<1>4. Kept'
  BY <1>1 DEF Low, Goto, regs, Patient, Flight, Work, Kept, Half, Handling, Storing, Writing
<1>5. Accepted'
  BY <1>1 DEF Low, Goto, regs, Patient, Accepted, Work, Flight, Storing, Writing
<1> QED
  BY <1>1, <1>2, <1>3, <1>4, <1>5 DEF Patient

LEMMA NumberPatient ==
  ASSUME PatientInv, Steady', Number
  PROVE  (Patient /\ AckedInRam /\ FirstHalfStored)'
<1>1. Steady /\ Patient /\ InImage' /\ Follows' /\ AckedInRam' /\ FirstHalfStored'
  BY Still DEF Number, Goto, BlockNumbers
<1>2. Flight'
  BY <1>1 DEF Number, Goto, BlockNumbers, Patient, Flight, Handling, Storing, Writing, After
<1>3. Work'
  BY <1>1 DEF Number, Goto, BlockNumbers, regs, Patient, Flight, Work, Handling, Storing, Writing
<1>4. Kept'
  BY <1>1 DEF Number, Goto, BlockNumbers, regs, Patient, Flight, Work, Kept, Half, Handling, Storing, Writing
<1>5. Accepted'
  BY <1>1 DEF Number, Goto, BlockNumbers, regs, Patient, Accepted, Work, Flight, Storing, Writing
<1> QED
  BY <1>1, <1>2, <1>3, <1>4, <1>5 DEF Patient

LEMMA JumpPatient ==
  ASSUME PatientInv, Steady', Jump
  PROVE  (Patient /\ AckedInRam /\ FirstHalfStored)'
<1>1. Steady /\ Patient /\ InImage' /\ Follows' /\ AckedInRam' /\ FirstHalfStored'
  BY Still DEF Jump, Goto
<1>2. Flight'
  BY <1>1 DEF Jump, Goto, Patient, Flight, Handling, Storing, Writing, After
<1>3. Work'
  BY <1>1 DEF Jump, Goto, regs, Patient, Flight, Work, Handling, Storing, Writing
<1>4. Kept'
  BY <1>1 DEF Jump, Goto, regs, Patient, Flight, Work, Kept, Half, Handling, Storing, Writing
<1>5. Accepted'
  BY <1>1 DEF Jump, Goto, regs, Patient, Accepted, Work, Flight, Storing, Writing
<1> QED
  BY <1>1, <1>2, <1>3, <1>4, <1>5 DEF Patient

LEMMA AnswerPatient ==
  ASSUME PatientInv, Steady', Answer
  PROVE  (Patient /\ AckedInRam /\ FirstHalfStored)'
<1>1. Steady /\ Patient /\ InImage' /\ Follows' /\ AckedInRam' /\ FirstHalfStored'
  BY Still DEF Answer, Goto
<1>2. buf.kind # "none" /\ job = buf.kind
  BY <1>1 DEF Answer, Goto, Patient, Flight, Work, Handling
<1>3. tx'.kind = buf.kind /\ (buf.kind = "data" => tx'.f = buf.f) /\ tx' # None
  BY <1>2 DEF Answer, None
<1>4. Flight'
  BY <1>1, <1>2, <1>3 DEF Answer, Goto, Patient, Flight, Handling, Storing, Writing, After
<1>5. Work'
  BY <1>1 DEF Answer, Goto, regs, Patient, Work, Storing, Writing
<1>6. Kept'
  BY <1>1 DEF Answer, Goto, regs, Patient, Kept, Half
<1>7. Accepted'
  BY <1>1, <1>3 DEF Answer, Goto, regs, Patient, Accepted, Work
<1> QED
  BY <1>1, <1>4, <1>5, <1>6, <1>7 DEF Patient

LEMMA FramesDistinct ==
  /\ NoFrame \notin Frames
  /\ \A f \in Frames : f < 2 * HalfFrames /\ f \in Int
  /\ \A f \in Frames : f + 1 \in Frames \/ f + 1 = 2 * HalfFrames
BY Numbers DEF Frames, NoFrame

\* The frame being stored is the one after those confirmed.
LEMMA Stored ==
  ASSUME Steady, AckedInRam, FirstHalfStored,
         scene' = scene, flash' = flash, flawed' = flawed, master' = master,
         Live => master.frames = buf.f,
         \A f \in Frames : f # buf.f => ram'[f] = ram[f]
  PROVE  AckedInRam' /\ FirstHalfStored'
<1>1. FirstHalfStored'
  BY DEF FirstHalfStored, CompleteSent
<1>2. ASSUME Live, NEW f \in Frames, f < master.frames
      PROVE  ram'[f] = Whole(<<master.blocks, f>>)
  <2>1. f # buf.f
    BY <1>2, FramesDistinct
  <2>2. ram[f] = Whole(<<master.blocks, f>>)
    BY <1>2 DEF AckedInRam, Live, Steady
  <2> QED
    BY <2>1, <2>2
<1> QED
  BY <1>1, <1>2, Zenon DEF AckedInRam, CompleteSent, Live, Steady

LEMMA FirstPatient ==
  ASSUME PatientInv, Steady', First
  PROVE  (Patient /\ AckedInRam /\ FirstHalfStored)'
<1>1. Steady /\ Patient /\ AckedInRam /\ FirstHalfStored
  BY SteadyStays DEF First
<1>2. /\ pc = "first" /\ master.waits /\ ~cmd /\ tx = None
      /\ buf.kind \in {"request", "data"}
      /\ counter = IF buf.kind = "data" THEN buf.f ELSE NoFrame
  BY <1>1 DEF First, Patient, Flight, Work, Handling, Storing
<1>3. buf \in Frame /\ buf.f \in Frames
  BY DEF PatientInv, Inv, TypeOK, Frame
<1>4. CASE buf.kind = "data"
  <2>1. /\ pc' = "rest" /\ ram' = [ram EXCEPT ![buf.f].first = Payload(buf)]
        /\ UNCHANGED <<scene, mode, delay, regs, cmd, buf, store, tx, master>>
    BY <1>2, <1>3, <1>4 DEF First
  <2>2. ram \in [Frames -> Cell]
    BY DEF PatientInv, Inv, TypeOK
  <2>3. ram'[buf.f].first = Payload(buf)
    BY <2>1, <2>2, <1>3 DEF Cell
  <2>4. \A f \in Frames : f # buf.f => ram'[f] = ram[f]
    BY <2>1, <2>2, <1>3
  <2>5. InImage' /\ Follows' /\ (Live => master.frames = buf.f)
    BY <1>1, <1>2, <1>4, <2>1 DEF Patient, InImage, Follows, Due, Live
  <2>6. AckedInRam' /\ FirstHalfStored'
    BY <1>1, <2>1, <2>4, <2>5, Stored
  <2>7. Flight'
    BY <1>1, <1>2, <2>1 DEF Patient, Flight, Handling, Storing, Writing, After
  <2>8. Work'
    BY <1>1, <1>2, <1>4, <2>1, <2>3 DEF Patient, Work, Storing, Writing, Payload, regs
  <2>9. Kept' /\ Accepted'
    BY <1>1, <1>2, <1>4, <2>1 DEF Patient, Kept, Accepted, regs
  <2> QED
    BY <2>5, <2>6, <2>7, <2>8, <2>9 DEF Patient
<1>5. CASE buf.kind = "request"
  <2>1. /\ pc' = "lost" /\ ram' = ram
        /\ UNCHANGED <<scene, mode, delay, regs, cmd, buf, store, tx, master>>
    BY <1>2, <1>5, FramesDistinct DEF First
  <2>2. InImage' /\ Follows' /\ AckedInRam' /\ FirstHalfStored'
    BY <2>1, Still
  <2>3. Flight' /\ Work' /\ Kept'
    BY <1>1, <1>2, <2>1 DEF Patient, Flight, Work, Kept, Half, Handling, Storing, Writing, After
  <2>4. Accepted'
    BY <1>1, <1>2, <1>5, <2>1 DEF Patient, Accepted, regs
  <2> QED
    BY <2>2, <2>3, <2>4 DEF Patient
<1> QED
  BY <1>2, <1>4, <1>5

LEMMA RestPatient ==
  ASSUME PatientInv, Steady', Rest
  PROVE  (Patient /\ AckedInRam /\ FirstHalfStored)'
<1>1. Steady /\ Patient /\ AckedInRam /\ FirstHalfStored
  BY SteadyStays DEF Rest
<1>2. /\ pc = "rest" /\ pc' = "answer" /\ master.waits /\ ~cmd /\ tx = None /\ job = "data"
      /\ buf.kind = "data" /\ counter = buf.f /\ ram[buf.f].first = Payload(buf)
  BY <1>1 DEF Rest, Goto, Patient, Flight, Work, Handling, Storing
<1>3. buf \in Frame /\ buf.f \in Frames
  BY DEF PatientInv, Inv, TypeOK, Frame
<1>4. /\ ram' = [ram EXCEPT ![buf.f].rest = Payload(buf)]
      /\ UNCHANGED <<scene, mode, delay, regs, cmd, buf, store, tx, master>>
  BY <1>2 DEF Rest
<1>5. ram \in [Frames -> Cell]
  BY DEF PatientInv, Inv, TypeOK
<1>6. ram'[buf.f] = Whole(Payload(buf))
  BY <1>2, <1>3, <1>4, <1>5 DEF Cell, Whole
<1>7. \A f \in Frames : f # buf.f => ram'[f] = ram[f]
  BY <1>3, <1>4, <1>5
<1>8. InImage' /\ Follows' /\ (Live => master.frames = buf.f)
  BY <1>1, <1>2, <1>4 DEF Patient, InImage, Follows, Due, Live
<1>9. AckedInRam' /\ FirstHalfStored'
  BY <1>1, <1>4, <1>7, <1>8, Stored
<1>10. Flight'
  BY <1>1, <1>2, <1>4 DEF Patient, Flight, Handling, Storing, Writing, After
<1>11. Work'
  BY <1>1, <1>2, <1>4 DEF Patient, Work, Storing, Writing, regs
<1>12. Kept'
  BY <1>2, <1>4, <1>6 DEF Kept, Payload
<1>13. Accepted'
  BY <1>1, <1>2, <1>4 DEF Patient, Accepted, regs
<1> QED
  BY <1>8, <1>9, <1>10, <1>11, <1>12, <1>13 DEF Patient

LEMMA SectorPlaces ==
  /\ \A b \in Blocks : \A h \in {0, 1} : Backup + b + h \in Sectors
  /\ \A h \in {0, 1} : Backup + Reach + h \notin Sectors
  /\ \A b, c \in Blocks : (Backup + b = Backup + c => b = c) /\ (b < c => Backup + b # Backup + c + 1)
  /\ \A b \in Blocks : b \in Int /\ Backup + b # Backup + b + 1 /\ Backup + b + 0 = Backup + b
BY Numbers, Layout DEF Backup, Reach, Sectors, Blocks

\* A block is written at its place and one sector on.
LEMMA StorePatient ==
  ASSUME PatientInv, Steady',
         NEW h \in {0, 1},
         NEW from, from = IF h = 0 THEN "write0" ELSE "write1",
         NEW to, to = IF h = 0 THEN "write1" ELSE "answer",
         Store(h, from, to)
  PROVE  (Patient /\ AckedInRam /\ FirstHalfStored)'
<1>1. Steady /\ Patient /\ AckedInRam /\ FirstHalfStored
  BY SteadyStays DEF Store
<1>2. /\ pc = from /\ master.waits /\ ~cmd /\ tx = None
      /\ job = buf.kind /\ job \in {"done", "goto"}
      /\ at = IF buf.kind = "done" THEN buf.block ELSE Reach
  BY <1>1 DEF Store, Patient, Flight, Work, Handling, Writing
<1>3. buf \in Frame /\ buf.block \in Blocks /\ flash \in [Sectors -> Content]
  BY DEF PatientInv, Inv, TypeOK, Frame
<1>4. UNCHANGED <<scene, mode, delay, regs, cmd, buf, ram, tx, master>>
      /\ pc' \in {to, "answer", "lost"}
  BY DEF Store
<1>5. InImage' /\ Follows' /\ (Live /\ buf.kind = "done" => buf.block = master.blocks)
  BY <1>1, <1>2, <1>4 DEF Patient, InImage, Follows, Due, Live
<1>6. AckedInRam'
  BY <1>1, <1>4 DEF AckedInRam, CompleteSent
<1>7. Flight'
  BY <1>1, <1>2, <1>4 DEF Patient, Flight, Handling, Storing, Writing, After
<1>8. Work'
  BY <1>1, <1>2, <1>4 DEF Patient, Work, Storing, Writing, regs
<1>9. CASE buf.kind = "done"
  <2> DEFINE s == Backup + buf.block + h
  <2>1. s = InBackup(h) /\ s \in Sectors
    BY <1>2, <1>3, <1>9, SectorPlaces DEF InBackup
  <2>2. \/ WriteSector(s, Half(h)) /\ pc' = to
        \/ FailSector(s, Half(h)) /\ pc' = "answer"
    BY <2>1 DEF Store
  <2>3. Half(h) \in Content /\ TypeOK
    BY HalfType DEF PatientInv, Inv
  <2>4. /\ \A q \in Sectors : q # s => flash'[q] = flash[q] /\ (q \in flawed <=> q \in flawed')
        /\ flash'[s] = Half(h) \/ s \in flawed'
    BY <2>1, <2>2, <2>3, SectorStep
  <2>5. flash'[Backup + buf.block] = Half(0) \/ Backup + buf.block \in flawed'
    <3>1. CASE h = 0
      BY <1>3, <2>4, <3>1, SectorPlaces
    <3>2. CASE h = 1
      <4>1. flash[Backup + buf.block] = Half(0) \/ Backup + buf.block \in flawed
        BY <1>1, <1>2, <1>9, <3>2 DEF Patient, Kept
      <4>2. Backup + buf.block \in Sectors /\ Backup + buf.block # s
        BY <1>3, <3>2, SectorPlaces, Layout DEF Sectors
      <4> QED
        BY <2>4, <4>1, <4>2
    <3> QED
      BY <3>1, <3>2
  <2>6. Kept'
    <3>1. Half(0)' = Half(0)
      BY <1>4 DEF Half
    <3> QED
      BY <1>2, <1>4, <1>9, <2>5, <3>1 DEF Kept
  <2>7. ASSUME Live, NEW b \in Blocks, b < master.blocks
        PROVE  flash'[Backup + b] = flash[Backup + b]
               /\ (Backup + b \in flawed <=> Backup + b \in flawed')
    <3>1. b < buf.block
      BY <1>5, <1>9, <2>7
    <3>2. Backup + b \in Sectors /\ Backup + b # s
      BY <1>3, <3>1, SectorPlaces, Layout
    <3> QED
      BY <2>4, <3>2
  <2>8. FirstHalfStored'
    BY <1>1, <1>4, <2>7 DEF FirstHalfStored, CompleteSent, Live, Steady
  <2>9. Accepted'
    BY <1>1, <1>2, <1>4, <1>9, <2>2 DEF Patient, Accepted, regs
  <2> QED
    BY <1>5, <1>6, <1>7, <1>8, <2>6, <2>8, <2>9 DEF Patient
<1>10. CASE buf.kind = "goto"
  <2>1. flash' = flash /\ flawed' = flawed
    BY <1>2, <1>10, SectorPlaces DEF Store, InBackup
  <2>2. Kept' /\ FirstHalfStored'
    BY <1>1, <1>2, <1>4, <1>10, <2>1 DEF Kept, FirstHalfStored, CompleteSent
  <2>3. Accepted'
    BY <1>1, <1>2, <1>4, <1>10 DEF Patient, Accepted, regs
  <2> QED
    BY <1>5, <1>6, <1>7, <1>8, <2>2, <2>3 DEF Patient
<1> QED
  BY <1>2, <1>9, <1>10

LEMMA InitRamPatient ==
  ASSUME PatientInv, Steady', InitRam
  PROVE  (Patient /\ AckedInRam /\ FirstHalfStored)'
<1>1. Steady /\ Patient /\ AckedInRam /\ FirstHalfStored
  BY SteadyStays DEF InitRam
<1>2. /\ pc = "init" /\ pc' = "top" /\ mode' = "wait" /\ buf' = None /\ tx = None
      /\ UNCHANGED <<scene, regs, cmd, store, tx, master>>
  BY <1>1 DEF InitRam, Goto, Patient, Flight
<1>3. Live => Due.kind = "request" /\ Due.block = master.blocks /\ master.frames = 0
  BY <1>1, <1>2 DEF Patient, Follows
<1>4. buf'.kind = "none" /\ buf'.block = 0
  BY <1>2 DEF None
<1>5. Due' = master.next /\ (Live' <=> Live)
  BY <1>2, <1>4 DEF Due, Live, Steady, CompleteSent
<1>6. Due' = Due \/ Due' = After(Due)
  BY <1>1, <1>5 DEF Due, Patient, Flight
<1>7. Follows'
  <2> SUFFICES ASSUME Live PROVE Follows'
    BY <1>5 DEF Follows
  <2>1. CASE Due' = Due
    BY <1>2, <1>3, <2>1 DEF Follows
  <2>2. CASE Due' = After(Due)
    BY <1>2, <1>3, <2>2 DEF Follows, After
  <2> QED
    BY <1>6, <2>1, <2>2
<1>8. InImage'
  BY <1>1, <1>2, <1>4, SceneType DEF Patient, InImage, PatientInv, Inv, TypeOK
<1>9. Flight'
  BY <1>1, <1>2, <1>4 DEF Patient, Flight, Handling, Storing, Writing
<1>10. Work' /\ Kept'
  BY <1>2 DEF Work, Kept, Storing, Writing
<1>11. Accepted'
  BY <1>2 DEF Accepted
<1>12. AckedInRam'
  <2>1. \A f \in Frames : ~(f < 0)
    BY DEF Frames
  <2>2. Live => master'.frames = 0
    BY <1>2, <1>3
  <2> QED
    BY <1>5, <2>1, <2>2, Zenon DEF AckedInRam, Live, Steady
<1>13. FirstHalfStored'
  BY <1>1, <1>2, Zenon DEF FirstHalfStored, CompleteSent
<1> QED
  BY <1>7, <1>8, <1>9, <1>10, <1>11, <1>12, <1>13 DEF Patient

LEMMA AfterInImage ==
  ASSUME TypeOK, NEW m \in Frame, m.block < scene.blocks
  PROVE  After(m).block < scene.blocks
<1>1. scene.blocks \in 1 .. Area /\ m.block \in Nat
  BY SceneType, Layout DEF TypeOK, Frame
<1> QED
  BY <1>1, Numbers DEF After, None

LEMMA AfterNoRequest ==
  ASSUME NEW m, m.kind \in {"request", "data", "done", "goto"}, ~scene.each
  PROVE  After(m).kind # "request"
<1>1. CASE m.kind = "request"
  BY <1>1 DEF After
<1>2. CASE m.kind = "data"
  BY <1>2 DEF After
<1>3. CASE m.kind = "done"
  BY <1>3 DEF After
<1>4. CASE m.kind = "goto"
  BY <1>4 DEF After, None
<1> QED
  BY <1>1, <1>2, <1>3, <1>4

LEMMA ReceivePatient ==
  ASSUME PatientInv, Steady', Receive
  PROVE  (Patient /\ AckedInRam /\ FirstHalfStored)'
<1> DEFINE m == master.next
<1>0. m \in Frame /\ TypeOK
  BY DEF PatientInv, Inv, TypeOK
<1>1. /\ buf' = m /\ cmd' /\ m # None
      /\ master'.next = After(m) /\ master'.cut = master.cut
      /\ master'.copied = (master.copied \/ m.kind = "complete")
      /\ master'.waits = (m.kind # "complete")
      /\ master'.frames = master.frames /\ master'.blocks = master.blocks
      /\ pc \notin {"app", "lost"}
      /\ UNCHANGED <<scene, mode, delay, pc, regs, ram, flash, flawed, tx>>
  BY DEF Receive, PatientInv, Inv, TypeOK
<1>2. Steady /\ m.kind # "complete" /\ ~CompleteSent /\ (Live' <=> Live)
  BY <1>1 DEF Steady, Live, CompleteSent
<1>3. Patient /\ AckedInRam /\ FirstHalfStored
  BY <1>2 DEF PatientInv
<1>4. ~master.waits
  BY <1>2 DEF Receive, Steady
<1>5. m.kind \in {"request", "data", "done", "goto"}
  BY <1>0, <1>1, <1>2, <1>3 DEF Patient, Flight, Frame, Kinds
<1>6. pc \notin Handling \cup {"request"} /\ tx = None
  BY <1>3, <1>4 DEF Patient, Flight
<1>7. Flight'
  <2>1. After(m).kind = "none" => After(m) = None
    BY <1>5 DEF After, None
  <2>2. master'.waits
    BY <1>1, <1>5
  <2> QED
    BY <1>1, <1>5, <1>6, <2>1, <2>2 DEF Flight, After
<1>8. InImage'
  BY <1>0, <1>1, <1>3, AfterInImage DEF Patient, InImage
<1>9. Due' = Due
  BY <1>1, <1>4, <1>5 DEF Due
<1>10. Follows'
  BY <1>1, <1>2, <1>3, <1>9 DEF Patient, Follows
<1>11. Work' /\ Kept'
  BY <1>1, <1>6 DEF Work, Kept, Handling, Storing, Writing
<1>12. Accepted'
  <2>1. ~scene.each => After(m).kind # "request"
    BY <1>5, AfterNoRequest
  <2> QED
    BY <1>1, <1>3, <1>6, <2>1 DEF Patient, Accepted, regs
<1>13. AckedInRam' /\ FirstHalfStored'
  BY <1>1, <1>2, <1>3, Zenon DEF AckedInRam, FirstHalfStored, CompleteSent
<1> QED
  BY <1>7, <1>8, <1>10, <1>11, <1>12, <1>13 DEF Patient

\* The reply: what was stored becomes confirmed.
LEMMA DeliverPatient ==
  ASSUME PatientInv, Steady', Deliver
  PROVE  (Patient /\ AckedInRam /\ FirstHalfStored)'
<1>0. /\ UNCHANGED <<scene, mode, delay, pc, regs, cmd, buf, ram, flash, flawed>>
      /\ tx # None /\ tx' = None
      /\ master'.next = master.next /\ master'.copied = master.copied
      /\ master'.cut = master.cut /\ master'.waits = FALSE
      /\ master'.frames = CASE tx.kind = "data" -> tx.f + 1 [] tx.kind = "done" -> 0
                             [] OTHER -> master.frames
      /\ master'.blocks = IF tx.kind = "done" /\ master.blocks < scene.blocks
                         THEN master.blocks + 1 ELSE master.blocks
  BY DEF Deliver, PatientInv, Inv, TypeOK
<1>1. Steady /\ Patient /\ AckedInRam /\ FirstHalfStored /\ (Live' <=> Live)
  BY <1>0, SteadyStays DEF Live, Steady, CompleteSent
<1>2. /\ pc = "sent" /\ ~cmd /\ buf.kind \in {"request", "data", "done", "goto"}
      /\ tx.kind = buf.kind /\ (buf.kind = "data" => tx.f = buf.f)
      /\ master.next = After(buf) /\ master.waits
  BY <1>0, <1>1 DEF Patient, Flight
<1>3. buf \in Frame /\ buf.f \in Frames /\ buf.block \in Blocks
  BY DEF PatientInv, Inv, TypeOK, Frame
<1>4. Due = buf /\ Due' = After(buf)
  BY <1>0, <1>2 DEF Due
<1>5. Live =>
      /\ master.frames = CASE buf.kind = "data" -> buf.f [] buf.kind = "done" -> 2 * HalfFrames
                           [] OTHER -> 0
      /\ buf.kind # "goto" => master.blocks = buf.block
      /\ buf.kind = "done" => master'.blocks = buf.block + 1
  <2>1. buf.block < scene.blocks
    BY <1>1 DEF Patient, InImage
  <2> QED
    BY <1>0, <1>1, <1>2, <1>4, <2>1 DEF Patient, Follows
<1>6. Follows'
  <2> SUFFICES ASSUME Live PROVE Follows'
    BY <1>1 DEF Follows
  <2>1. CASE buf.kind = "request"
    BY <1>0, <1>2, <1>4, <1>5, <2>1 DEF Follows, After
  <2>2. CASE buf.kind = "data"
    BY <1>0, <1>2, <1>3, <1>4, <1>5, <2>2, FramesDistinct DEF Follows, After
  <2>3. CASE buf.kind = "done"
    BY <1>0, <1>2, <1>4, <1>5, <2>3 DEF Follows, After
  <2>4. CASE buf.kind = "goto"
    BY <1>0, <1>2, <1>4, <1>5, <2>4 DEF Follows, After, None
  <2> QED
    BY <1>2, <2>1, <2>2, <2>3, <2>4
<1>7. Flight'
  BY <1>0, <1>1, <1>2 DEF Patient, Flight, Handling, Storing, Writing
<1>8. InImage' /\ Work'
  BY <1>0, <1>1, <1>2 DEF Patient, InImage, Work, Storing, Writing
<1>9. Kept'
  BY <1>0, <1>2 DEF Kept
<1>10. Accepted'
  BY <1>0, <1>1, <1>2 DEF Patient, Accepted, After, regs
<1>11. AckedInRam'
  <2> SUFFICES ASSUME Live, NEW f \in Frames, f < master'.frames
               PROVE  ram[f] = Whole(<<master'.blocks, f>>)
    BY <1>0, <1>1, Zenon DEF AckedInRam, Live, Steady
  <2>1. CASE buf.kind = "data"
    <3>1. ram[buf.f] = Whole(<<master.blocks, buf.f>>)
      BY <1>0, <1>1, <1>2, <1>5, <2>1 DEF Patient, Kept, Payload
    <3>2. \A g \in Frames : g < buf.f => ram[g] = Whole(<<master.blocks, g>>)
      BY <1>1, <1>5, <2>1 DEF AckedInRam, Live, Steady
    <3>3. f < buf.f \/ f = buf.f
      BY <1>0, <1>2, <1>3, <2>1, FramesDistinct
    <3> QED
      BY <1>0, <1>2, <2>1, <3>1, <3>2, <3>3
  <2>2. CASE buf.kind \in {"request", "done", "goto"}
    <3>1. master'.frames = 0
      BY <1>0, <1>2, <1>5, <2>2
    <3> QED
      BY <3>1 DEF Frames
  <2> QED
    BY <1>2, <2>1, <2>2
<1>12. FirstHalfStored'
  <2> SUFFICES ASSUME Live, NEW b \in Blocks, b < master'.blocks
               PROVE  \/ flash[Backup + b] = [k \in 0 .. HalfFrames - 1 |-> Whole(<<b, k>>)]
                      \/ Backup + b \in flawed
    BY <1>0, <1>1, Zenon DEF FirstHalfStored, Live, Steady
  <2>1. CASE b < master.blocks
    BY <1>1, <2>1, Zenon DEF FirstHalfStored, Live, Steady
  <2>2. CASE ~(b < master.blocks)
    <3>1. buf.kind = "done" /\ master.blocks = buf.block
      BY <1>0, <1>2, <1>5, <2>2
    <3>2. b = buf.block
      BY <1>3, <1>5, <2>2, <3>1, SectorPlaces
    <3>3. flash[Backup + b] = Half(0) \/ Backup + b \in flawed
      BY <1>0, <1>1, <3>1, <3>2 DEF Patient, Kept
    <3>4. \A k \in 0 .. HalfFrames - 1 : ram[k] = Whole(<<b, k>>)
      <4>1. \A k \in 0 .. HalfFrames - 1 : k \in Frames /\ k < 2 * HalfFrames
        BY Numbers DEF Frames
      <4>2. master.frames = 2 * HalfFrames /\ master.blocks = b
        BY <1>5, <3>1, <3>2
      <4> QED
        BY <1>1, <4>1, <4>2 DEF AckedInRam, Live, Steady
    <3> QED
      BY <3>3, <3>4 DEF Half
  <2> QED
    BY <2>1, <2>2
<1> QED
  BY <1>6, <1>7, <1>8, <1>9, <1>10, <1>11, <1>12 DEF Patient

LEMMA LeavePatient ==
  ASSUME PatientInv, Steady', Leave
  PROVE  (Patient /\ AckedInRam /\ FirstHalfStored)'
<1>1. /\ UNCHANGED <<scene, mode, delay, pc, regs, cmd, buf, ram, flash, flawed, tx>>
      /\ master'.next = master.next /\ master'.copied = master.copied
      /\ master'.cut = master.cut /\ master'.waits = master.waits
      /\ master'.frames = master.frames /\ master'.blocks = master.blocks
  BY DEF Leave, PatientInv, Inv, TypeOK
<1>2. Steady /\ Patient /\ AckedInRam /\ FirstHalfStored /\ (Live' <=> Live)
  BY <1>1, SteadyStays DEF Live, Steady, CompleteSent
<1>3. Due' = Due /\ Half(0)' = Half(0)
  BY <1>1 DEF Due, Half
<1>4. Flight' /\ InImage' /\ Follows'
  BY <1>1, <1>2, <1>3 DEF Patient, Flight, InImage, Follows, After
<1>5. Work' /\ Kept' /\ Accepted'
  BY <1>1, <1>2, <1>3 DEF Patient, Work, Kept, Accepted, regs
<1>6. AckedInRam' /\ FirstHalfStored'
  BY <1>1, <1>2, Zenon DEF AckedInRam, FirstHalfStored, CompleteSent
<1> QED
  BY <1>4, <1>5, <1>6 DEF Patient

-----------------------------------------------------------------------------
(* What is behind the backup.                                               *)

LEMMA SceneStays ==
  ASSUME [Next]_vars
  PROVE  scene' = scene
BY DEF Next, MainLoop, InitRam, Waiting, WaitCount, Taken, Is, Booting, Handle, Answer, Sent,
       DataTransmit, High, Low, First, Rest, BlockDone, Number, Store, BlockCopy, CopyBegin,
       CopyRead, CopyWrite, Jump, Receive, Deliver, Leave, PowerFailure, Ended, vars

LEMMA MasterStays ==
  ASSUME MainLoop
  PROVE  master' = master
BY DEF MainLoop, InitRam, Waiting, WaitCount, Taken, Is, Booting, Handle, Answer, Sent,
       DataTransmit, High, Low, First, Rest, BlockDone, Number, Store, BlockCopy, CopyBegin,
       CopyRead, CopyWrite, Jump

LEMMA CompleteStays ==
  ASSUME Inv, [Next]_vars, CompleteSent
  PROVE  CompleteSent'
<1>1. CASE Receive \/ Deliver \/ Leave
  BY <1>1 DEF Receive, Deliver, Leave, CompleteSent, Inv, TypeOK
<1>2. CASE PowerFailure
  BY <1>2, AfterwardsType DEF PowerFailure, CompleteSent, Inv
<1>3. CASE MainLoop \/ UNCHANGED vars
  BY <1>3, MasterStays DEF CompleteSent, vars
<1> QED
  BY <1>1, <1>2, <1>3 DEF Next, Ended

\* A short image is not written behind the backup.
LEMMA ShortWrites ==
  ASSUME PatientInv, scene.patient, scene.blocks < Area, ~CompleteSent
  PROVE  /\ pc \in {"write0", "write1"} => \A h \in {0, 1} :
              InBackup(h) # Parameters \/ InBackup(h) \notin Sectors
         /\ pc \notin {"copy0", "copy1"}
<1>1. pc \notin {"copy0", "copy1"}
  BY DEF PatientInv, Inv, Copying
<1>2. ASSUME pc \in {"write0", "write1"}, NEW h \in {0, 1}
      PROVE  InBackup(h) # Parameters \/ InBackup(h) \notin Sectors
  <2>2. Patient
    BY DEF PatientInv, Steady
  <2>3. at = (IF buf.kind = "done" THEN buf.block ELSE Reach) /\ buf.block < scene.blocks
    BY <1>2, <2>2 DEF Patient, Work, InImage
  <2>4. buf.block \in Blocks /\ scene.blocks \in 1 .. Area
    BY SceneType DEF PatientInv, Inv, TypeOK, Frame
  <2>5. CASE at = buf.block
    BY <2>3, <2>4, <2>5, Numbers DEF InBackup, Backup, Parameters, Blocks
  <2>6. CASE at = Reach
    BY <2>6, SectorPlaces DEF InBackup
  <2> QED
    BY <2>3, <2>5, <2>6
<1> QED
  BY <1>1, <1>2

LEMMA ParametersPlace == Parameters \in Sectors
BY Numbers DEF Parameters, Sectors

LEMMA ParametersStep == PatientInv /\ [Next]_vars => ParametersKept'
<1> SUFFICES ASSUME PatientInv, [Next]_vars,
                    scene'.patient, scene'.blocks < Area, ~CompleteSent'
             PROVE  flash'[Parameters] = Filled(Old(Parameters))
  BY DEF ParametersKept
<1>1. scene' = scene
  BY SceneStays
<1>2. ~CompleteSent
  BY CompleteStays DEF PatientInv
<1>3. flash[Parameters] = Filled(Old(Parameters)) /\ flash \in [Sectors -> Content]
  BY <1>1, <1>2 DEF PatientInv, ParametersKept, Inv, TypeOK
<1>4. /\ pc \in {"write0", "write1"} => \A h \in {0, 1} :
           InBackup(h) # Parameters \/ InBackup(h) \notin Sectors
      /\ pc \notin {"copy0", "copy1"}
  BY <1>1, <1>2, ShortWrites
<1>5. CASE BlockDone
  <2>1. CASE Number
    BY <1>3, <2>1 DEF Number
  <2>2. ASSUME NEW h \in {0, 1}, NEW to,
               Store(h, IF h = 0 THEN "write0" ELSE "write1", to)
        PROVE  flash'[Parameters] = flash[Parameters]
    <3>1. pc \in {"write0", "write1"}
      BY <2>2 DEF Store
    <3>2. InBackup(h) \in Sectors =>
            \A r \in Sectors : r # InBackup(h) => flash'[r] = flash[r]
      BY <2>2, HalfType, SectorStep DEF Store, PatientInv, Inv
    <3>3. InBackup(h) \notin Sectors => flash' = flash
      BY <2>2 DEF Store
    <3> QED
      BY <1>4, <3>1, <3>2, <3>3, ParametersPlace
  <2> QED
    BY <1>3, <1>5, <2>1, <2>2 DEF BlockDone
<1>6. CASE PowerFailure
  <2>1. ASSUME NEW w \in Written, w[1] \in Sectors PROVE w[1] # Parameters
    BY <1>4, <2>1 DEF Written
  <2> QED
    BY <1>3, <1>6, <2>1, PowerTears, ParametersPlace DEF PatientInv
<1>7. CASE BlockCopy
  BY <1>3, <1>4, <1>7 DEF BlockCopy, CopyBegin, CopyRead, CopyWrite
<1>8. CASE InitRam \/ Waiting \/ Booting \/ Answer \/ Sent \/ DataTransmit \/ Jump
  BY <1>3, <1>8 DEF InitRam, Waiting, WaitCount, Taken, Is, Booting, Answer, Sent,
         DataTransmit, High, Low, First, Rest, Jump
<1>9. CASE Receive \/ Deliver \/ Leave \/ UNCHANGED vars
  BY <1>3, <1>9 DEF Receive, Deliver, Leave, vars
<1> QED
  BY <1>5, <1>6, <1>7, <1>8, <1>9 DEF Next, MainLoop, Handle, Ended

-----------------------------------------------------------------------------
(* The whole.                                                               *)

LEMMA FirstFrame ==
  ASSUME NEW e \in Scenes, e.patient
  PROVE  e.first = [kind |-> "request", block |-> 0, f |-> 0]
BY BootAssumption

LEMMA PatientInit == Init => PatientInv
<1> SUFFICES ASSUME Init PROVE PatientInv
  OBVIOUS
<1>1. Inv
  BY InvInit
<1>2. ParametersKept
  BY ParametersPlace DEF Init, ParametersKept
<1>3. ASSUME Steady PROVE Patient /\ AckedInRam /\ FirstHalfStored
  <2>1. /\ scene \in Scenes /\ scene.patient /\ scene.blocks \in 1 .. Area
        /\ scene.first = [kind |-> "request", block |-> 0, f |-> 0]
    BY <1>3, FirstFrame, SceneType DEF Init, Steady
  <2>2. /\ master.next = [kind |-> "request", block |-> 0, f |-> 0] /\ ~master.waits
        /\ master.frames = 0 /\ master.blocks = 0 /\ buf = None /\ tx = None /\ ~cmd
        /\ pc = "init" /\ mode = "init"
    BY <2>1 DEF Init, Beginning
  <2>3. Flight
    BY <2>2 DEF Flight, Handling, Storing, Writing
  <2>4. InImage
    BY <2>1, <2>2, Numbers DEF InImage, None
  <2>5. Follows
    BY <2>2 DEF Follows, Due
  <2>6. Work /\ Kept /\ Accepted
    BY <2>2 DEF Work, Kept, Accepted, Storing, Writing
  <2>7. (\A f \in Frames : ~(f < 0)) /\ (\A b \in Blocks : ~(b < 0))
    BY DEF Frames, Blocks
  <2>8. AckedInRam /\ FirstHalfStored
    BY <2>2, <2>7, Zenon DEF AckedInRam, FirstHalfStored
  <2> QED
    BY <2>3, <2>4, <2>5, <2>6, <2>8 DEF Patient
<1> QED
  BY <1>1, <1>2, <1>3 DEF PatientInv

LEMMA MainLoopPatient ==
  ASSUME PatientInv, Steady', MainLoop
  PROVE  (Patient /\ AckedInRam /\ FirstHalfStored)'
<1>1. CASE InitRam
  BY <1>1, InitRamPatient
<1>2. CASE Waiting
  BY <1>2, WaitCountPatient, TakenPatient, RequestPatient DEF Waiting
<1>3. CASE Booting
  <2>1. CASE Taken("boot", "isDone", "top")
    BY <2>1, TakenPatient
  <2>2. CASE /\ mode = "boot"
             /\ Goto("top", "boot")
             /\ UNCHANGED <<scene, mode, delay, regs, cmd, buf, ram, store, tx, master>>
    BY <2>2, BootTopPatient
  <2> QED
    BY <1>3, <2>1, <2>2, DonePatient, CompletePatient, GotoPatient DEF Booting
<1>4. CASE Answer \/ Sent \/ DataTransmit
  BY <1>4, AnswerPatient, SentPatient, HighPatient, LowPatient, FirstPatient, RestPatient
     DEF DataTransmit
<1>5. CASE BlockDone
  <2>1. CASE Store(0, "write0", "write1")
    BY <2>1, StorePatient
  <2>2. CASE Store(1, "write1", "answer")
    BY <2>2, StorePatient
  <2> QED
    BY <1>5, <2>1, <2>2, NumberPatient DEF BlockDone
<1>6. ~BlockCopy
  <2>1. ASSUME BlockCopy PROVE FALSE
    <3>1. pc \in CopyPlaces /\ scene' = scene /\ master' = master
      BY <2>1, MasterStays DEF BlockCopy, CopyBegin, CopyRead, CopyWrite, Goto, CopyPlaces, Handle, MainLoop
    <3>2. Steady
      BY <3>1 DEF Steady, CompleteSent
    <3> QED
      BY <3>1, <3>2, NotComplete
  <2> QED
    BY <2>1
<1>7. CASE Jump
  BY <1>7, JumpPatient
<1> QED
  BY <1>1, <1>2, <1>3, <1>4, <1>5, <1>6, <1>7 DEF MainLoop, Handle

LEMMA StutterPatient ==
  ASSUME PatientInv, Steady', UNCHANGED vars
  PROVE  (Patient /\ AckedInRam /\ FirstHalfStored)'
<1>1. Steady /\ Patient /\ AckedInRam /\ FirstHalfStored
  BY SteadyStays DEF vars
<1>2. Flight' /\ InImage' /\ Follows' /\ Work' /\ Accepted'
  BY <1>1 DEF vars, regs, Patient, Flight, InImage, Follows, Due, Work, Accepted, After, Live, Steady,
         CompleteSent
<1>3. Kept' /\ AckedInRam' /\ FirstHalfStored'
  BY <1>1 DEF vars, Patient, Kept, Half, AckedInRam, FirstHalfStored, CompleteSent
<1> QED
  BY <1>2, <1>3 DEF Patient

\* After a power failure the master sends nothing before the board is up, and what
\* it sends then is the beginning, or it has gone on.
LEMMA PowerFailurePatient ==
  ASSUME PatientInv, Steady', PowerFailure
  PROVE  (Patient /\ AckedInRam /\ FirstHalfStored)'
<1>1. /\ pc' \in {"init", "lost"} /\ mode' = "init" /\ buf' = None /\ tx' = None /\ ~cmd'
      /\ scene' = scene /\ master' \in Afterwards
  BY DEF PowerFailure
<1>2. /\ master'.copied = master.copied /\ ~master'.waits
      /\ \/ ~master'.cut /\ master'.next = scene.first /\ master'.frames = 0 /\ master'.blocks = 0
         \/ master'.cut /\ master'.next = master.next
  BY <1>1, AfterwardsType DEF PatientInv, Inv
<1>3. Patient
  BY <1>1, <1>2 DEF PatientInv, Steady, CompleteSent
<1>4. /\ scene \in Scenes /\ scene.blocks \in 1 .. Area
      /\ scene.first = [kind |-> "request", block |-> 0, f |-> 0]
  BY <1>1, FirstFrame, SceneType DEF PatientInv, Inv, TypeOK, Steady
<1>5. buf'.kind = "none" /\ buf'.block = 0
  BY <1>1 DEF None
<1>6. Flight'
  BY <1>1, <1>2, <1>3, <1>4 DEF Patient, Flight, Handling, Storing, Writing
<1>7. InImage'
  BY <1>1, <1>2, <1>3, <1>4, <1>5 DEF Patient, InImage
<1>8. Follows'
  <2> SUFFICES ASSUME ~master'.cut PROVE Follows'
    BY DEF Follows, Live
  <2>1. Due' = scene.first
    BY <1>2, <1>5 DEF Due
  <2> QED
    BY <1>1, <1>2, <1>4, <2>1 DEF Follows
<1>9. Work' /\ Kept' /\ Accepted'
  BY <1>1, <1>2 DEF Work, Kept, Accepted, Storing, Writing
<1>10. AckedInRam' /\ FirstHalfStored'
  <2>1. (\A f \in Frames : ~(f < 0)) /\ (\A b \in Blocks : ~(b < 0))
    BY DEF Frames, Blocks
  <2> QED
    BY <1>2, <2>1, Zenon DEF AckedInRam, FirstHalfStored
<1> QED
  BY <1>6, <1>7, <1>8, <1>9, <1>10 DEF Patient

LEMMA PatientStep == PatientInv /\ [Next]_vars => PatientInv'
<1> SUFFICES ASSUME PatientInv, [Next]_vars PROVE PatientInv'
  OBVIOUS
<1>1. Inv' /\ ParametersKept'
  BY InvStep, ParametersStep DEF PatientInv
<1>2. ASSUME Steady' PROVE (Patient /\ AckedInRam /\ FirstHalfStored)'
  <2>1. CASE MainLoop
    BY <1>2, <2>1, MainLoopPatient
  <2>2. CASE Receive \/ Deliver \/ Leave
    BY <1>2, <2>2, ReceivePatient, DeliverPatient, LeavePatient
  <2>3. CASE PowerFailure
    BY <1>2, <2>3, PowerFailurePatient
  <2>4. CASE UNCHANGED vars
    BY <1>2, <2>4, StutterPatient
  <2> QED
    BY <2>1, <2>2, <2>3, <2>4 DEF Next, Ended
<1> QED
  BY <1>1, <1>2 DEF PatientInv

LEMMA PatientAlways == Spec => []PatientInv
BY PatientInit, PatientStep, PTL DEF Spec

\* For every image, block size and master that waits for its replies: whatever
\* interrupt, loop pass or bus delay comes between, each frame it saw confirmed
\* is whole in gSysRamBuf, and again when it begins anew after a power failure.
THEOREM AckedInRamAlways == Spec => []AckedInRam
<1>1. PatientInv => AckedInRam
  BY Zenon DEF PatientInv, Steady, AckedInRam
<1> QED
  BY <1>1, PatientAlways, PTL

\* Of every block it saw confirmed, the first half is in its sector of the backup,
\* or the last flash_write there failed: the reply says the same in both cases.
THEOREM FirstHalfStoredAlways == Spec => []FirstHalfStored
<1>1. PatientInv => FirstHalfStored
  BY Zenon DEF PatientInv, Steady, FirstHalfStored
<1> QED
  BY <1>1, PatientAlways, PTL

\* An image shorter than the backup never reaches the parameters behind it, not
\* even when power fails in the middle of a write.
THEOREM ParametersKeptAlways == Spec => []ParametersKept
<1>1. PatientInv => ParametersKept
  BY DEF PatientInv
<1> QED
  BY <1>1, PatientAlways, PTL

\* Once its request was accepted, no frame of the image stops the processor,
\* whether or not power failed before.
THEOREM NoFaultOnceAcceptedAlways == Spec => []NoFaultOnceAccepted
<1>1. PatientInv => NoFaultOnceAccepted
  <2> SUFFICES ASSUME PatientInv, scene.patient, ~scene.each, ~CompleteSent,
                      mode = "boot", pc = "lost"
               PROVE  buf.kind = "goto"
    BY DEF NoFaultOnceAccepted
  <2> QED
    BY DEF PatientInv, Steady, Patient, Accepted
<1> QED
  BY <1>1, PatientAlways, PTL

-----------------------------------------------------------------------------
(* No frame is overlooked: the receive flag is cleared before the frame is   *)
(* looked at, so whatever the master waits for is always in somebody's hands. *)

\* The frame in flight is flagged, being handled or replied to.
InHand == cmd \/ pc \in Handling \/ tx # None

Heard ==
  /\ pc \in {"wait", "request"} => mode # "boot"
  /\ pc = "sent" \/ mode = "boot" =>
       buf.kind # "none" /\ (master.waits => InHand \/ pc = "lost")

\* What comes after the blocks comes after all of them.
AllSeen == Due.kind \in {"complete", "goto", "none"} => master.blocks = scene.blocks

HeardInv == PatientInv /\ (Live => Heard /\ AllSeen)

\* A master goes on only when power has failed, which it does once.
LEMMA LiveWas ==
  ASSUME PatientInv, [Next]_vars, Live'
  PROVE  Live /\ Patient /\ Follows'
<1>1. Steady
  BY CompleteStays, SceneStays DEF Live, Steady, PatientInv
<1>2. ~master.cut
  <2>1. CASE MainLoop \/ UNCHANGED vars
    BY <2>1, MasterStays DEF vars, Live
  <2>2. CASE Receive \/ Deliver \/ Leave
    BY <2>2 DEF Receive, Deliver, Leave, Live, PatientInv, Inv, TypeOK
  <2>3. CASE PowerFailure
    BY <2>3 DEF PowerFailure, PatientInv, Inv, Shape
  <2> QED
    BY <2>1, <2>2, <2>3 DEF Next, Ended
<1>3. Follows'
  BY PatientStep DEF PatientInv, Live, Patient
<1> QED
  BY <1>1, <1>2, <1>3 DEF Live, PatientInv

LEMMA LoopHeard ==
  ASSUME PatientInv, Live, Steady, Patient, Heard, MainLoop
  PROVE  Heard'
<1> USE DEF Heard, InHand
<1>1. CASE InitRam \/ WaitCount \/ Jump
  BY <1>1 DEF InitRam, WaitCount, Jump, Goto
<1>2. CASE Taken("wait", "request", "boot") \/ Is("request", "request", "answer", "boot")
  BY <1>2 DEF Taken, Is
<1>3. CASE Booting
  BY <1>3, NotComplete DEF Booting, Taken, Is, Goto, regs, Handling, Storing, Writing
<1>4. CASE Answer
  <2>1. tx' # None /\ buf.kind # "none" /\ pc' = "sent" /\ buf' = buf
    BY <1>4 DEF Answer, Goto, PatientInv, Patient, Work, Flight, Handling, None
  <2> QED
    BY <2>1
<1>5. CASE Sent
  BY <1>5 DEF Sent, Goto, Handling, Storing, Writing
<1>6. CASE DataTransmit
  BY <1>6 DEF DataTransmit, High, Low, First, Rest, Goto, regs, Handling, Storing, Writing
<1>7. CASE BlockDone
  BY <1>7 DEF BlockDone, Number, Store, Goto, regs, Handling, Storing, Writing
<1>8. ~BlockCopy
  BY NotComplete DEF BlockCopy, CopyBegin, CopyRead, CopyWrite, Goto, CopyPlaces
<1> QED
  BY <1>1, <1>2, <1>3, <1>4, <1>5, <1>6, <1>7, <1>8 DEF MainLoop, Waiting, Handle

LEMMA LoopAllSeen ==
  ASSUME PatientInv, Live, Steady, Patient, AllSeen, MainLoop
  PROVE  AllSeen'
<1>1. scene' = scene /\ master' = master
  BY SceneStays, MasterStays DEF Next
<1>2. CASE InitRam
  <2>1. Due.kind = "request" /\ Due' = master.next
    BY <1>1, <1>2 DEF InitRam, Goto, PatientInv, Patient, Follows, Due, None
  <2>2. Due' = Due \/ Due' = After(Due)
    BY <2>1 DEF Due, PatientInv, Patient, Flight
  <2>3. After(Due).kind = "data"
    BY <2>1 DEF After
  <2> QED
    BY <2>1, <2>2, <2>3 DEF AllSeen
<1>3. CASE ~InitRam
  <2>1. buf' = buf
    BY <1>3 DEF MainLoop, Waiting, WaitCount, Taken, Is, Booting, Handle, Answer, Sent,
         DataTransmit, High, Low, First, Rest, BlockDone, Number, Store, BlockCopy, CopyBegin,
         CopyRead, CopyWrite, Jump
  <2> QED
    BY <1>1, <2>1 DEF AllSeen, Due
<1> QED
  BY <1>2, <1>3

LEMMA ReceiveHeard ==
  ASSUME PatientInv, Live, Steady, Patient, Heard, AllSeen, Receive, Live'
  PROVE  Heard' /\ AllSeen'
<1>1. /\ buf' = master.next /\ cmd' /\ master.next # None /\ ~master.waits
      /\ master'.waits = (master.next.kind # "complete")
      /\ master'.next = After(master.next) /\ master'.blocks = master.blocks
      /\ UNCHANGED <<scene, mode, pc>>
  BY DEF Receive, Steady, PatientInv, Inv, TypeOK
<1>2. master.next.kind # "none"
  BY <1>1 DEF PatientInv, Patient, Flight
<1>3. master.next.kind # "complete"
  BY <1>1 DEF Receive, Live, Steady, CompleteSent, PatientInv, Inv, TypeOK
<1>4. Due' = Due
  BY <1>1, <1>2, <1>3 DEF Due
<1> QED
  BY <1>1, <1>2, <1>4 DEF Heard, InHand, AllSeen

LEMMA DeliverHeard ==
  ASSUME PatientInv, Live, Steady, Patient, Heard, AllSeen, Deliver
  PROVE  Heard' /\ AllSeen'
<1>1. /\ UNCHANGED <<scene, mode, pc, buf>> /\ ~master'.waits /\ master'.next = master.next
      /\ tx # None
      /\ master'.blocks = IF tx.kind = "done" /\ master.blocks < scene.blocks
                         THEN master.blocks + 1 ELSE master.blocks
  BY DEF Deliver, PatientInv, Inv, TypeOK
<1>2. tx.kind = buf.kind /\ buf.kind \in {"request", "data", "done", "goto"} /\ master.waits
      /\ master.next = After(buf)
  BY <1>1 DEF PatientInv, Patient, Flight
<1>3. buf.block < scene.blocks /\ buf.block \in Nat /\ scene.blocks \in Nat
  BY SceneType, Numbers DEF PatientInv, Patient, InImage, Inv, TypeOK, Frame, Blocks
<1>4. Due = buf /\ Due' = After(buf) /\ (buf.kind = "done" => master.blocks = buf.block)
  BY <1>1, <1>2 DEF Due, Patient, Follows
<1>5. AllSeen'
  <2>1. CASE buf.kind \in {"request", "data"}
    BY <1>4, <2>1 DEF AllSeen, After
  <2>2. CASE buf.kind = "done"
    BY <1>1, <1>2, <1>3, <1>4, <2>2 DEF AllSeen, After
  <2>3. CASE buf.kind = "goto"
    BY <1>1, <1>2, <1>4, <2>3 DEF AllSeen
  <2> QED
    BY <1>2, <2>1, <2>2, <2>3
<1> QED
  BY <1>1, <1>5 DEF Heard

LEMMA HeardStep == HeardInv /\ [Next]_vars => HeardInv'
<1> SUFFICES ASSUME HeardInv, [Next]_vars, Live' PROVE Heard' /\ AllSeen'
  BY PatientStep DEF HeardInv
<1>1. PatientInv /\ Live /\ Heard /\ AllSeen /\ Steady /\ Patient
  BY LiveWas DEF HeardInv, Live
<1>2. CASE MainLoop
  BY <1>1, <1>2, LoopHeard, LoopAllSeen
<1>3. CASE Receive \/ Deliver
  BY <1>1, <1>3, ReceiveHeard, DeliverHeard
<1>4. CASE Leave
  <2>1. /\ master'.next = master.next /\ master'.waits = master.waits
        /\ master'.blocks = master.blocks /\ UNCHANGED <<scene, mode, pc, cmd, buf, tx>>
    BY <1>1, <1>4 DEF Leave, PatientInv, Inv, TypeOK
  <2> QED
    BY <1>1, <2>1 DEF Heard, InHand, AllSeen, Due
<1>5. CASE PowerFailure
  <2>1. pc' \in {"init", "lost"} /\ mode' = "init"
    BY <1>5 DEF PowerFailure
  <2>2. /\ scene.first.kind = "request" /\ ~master'.cut /\ master'.next = scene.first
        /\ ~master'.waits
    BY <1>1, <1>5, AfterwardsType, FirstFrame
       DEF PowerFailure, Live, Steady, PatientInv, Inv, TypeOK
  <2> QED
    BY <2>1, <2>2 DEF Heard, AllSeen, Due
<1>6. CASE UNCHANGED vars
  BY <1>1, <1>6 DEF vars, Heard, InHand, AllSeen, Due
<1> QED
  BY <1>2, <1>3, <1>4, <1>5, <1>6 DEF Next, Ended

\* The upload of a master that waits, once its request was accepted: until all
\* blocks are confirmed there is a frame for it to send, or the one it sent is
\* flagged, handled or replied to.
UploadGoesOn ==
  Live /\ ~scene.each /\ mode = "boot" /\ ~master.gone =>
    \/ master.blocks = scene.blocks
    \/ ~master.waits /\ master.next # None
    \/ master.waits /\ InHand

\* Whenever a frame arrives, before, while or after the main loop looks at the
\* flag, neither the loop nor the master is left waiting for the other.
THEOREM UploadGoesOnAlways == Spec => []UploadGoesOn
<1>1. Init => HeardInv
  <2> SUFFICES ASSUME Init PROVE Live => Heard /\ AllSeen
    BY PatientInit DEF HeardInv
  <2>1. pc = "init" /\ mode = "init"
    BY DEF Init
  <2>2. Live => Due.kind = "request"
    BY <2>1, PatientInit DEF PatientInv, Patient, Follows, Live
  <2> QED
    BY <2>1, <2>2 DEF Heard, AllSeen
<1>2. HeardInv => UploadGoesOn
  <2> SUFFICES ASSUME HeardInv, Live, ~scene.each, mode = "boot", ~master.gone,
                      master.blocks # scene.blocks
               PROVE  (~master.waits /\ master.next # None) \/ (master.waits /\ InHand)
    BY DEF UploadGoesOn
  <2>1. Heard /\ AllSeen /\ Patient /\ master.waits \in BOOLEAN
    BY DEF HeardInv, PatientInv, Inv, TypeOK, Live
  <2>2. Due.kind \notin {"goto", "none"}
    BY <2>1 DEF AllSeen
  <2>3. CASE master.waits
    <3>1. pc = "lost" => Due.kind = "goto"
      BY <2>1, <2>3 DEF Heard, Patient, Accepted, Due
    <3> QED
      BY <2>1, <2>2, <2>3, <3>1 DEF Heard
  <2>4. CASE ~master.waits
    BY <2>2, <2>4 DEF Due, None
  <2> QED
    BY <2>1, <2>3, <2>4
<1> QED
  BY <1>1, <1>2, HeardStep, PTL DEF Spec

-----------------------------------------------------------------------------
(* Outside Mode_BOOT the loop counts to the application, whatever arrives.   *)

\* The longest pass of Mode_WAIT: COMPLETE arrives and Block_copy is run.
Pass == 3 * Area + 15

\* How much of a pass is left at most, from each place.
Left ==
  CASE pc = "wait" -> Pass
    [] pc = "request" -> Pass - 1
    [] pc = "answer" /\ job = "request" -> Pass - 2
    [] pc = "sent" /\ job = "request" -> Pass - 3
    [] pc = "boot" -> Pass - 4
    [] pc = "isDone" -> Pass - 5
    [] pc = "isComplete" -> Pass - 6
    [] pc = "complete" -> 3 * Area + 2
    [] pc = "copy" -> 3 * (Area - 1 - at) + 4
    [] pc = "copy0" -> 3 * (Area - 1 - at) + 3
    [] pc = "copy1" -> 3 * (Area - 1 - at) + 2
    [] pc = "isGoto" -> 8
    [] pc = "high" -> 7
    [] pc \in {"low", "number"} -> 6
    [] pc \in {"first", "write0"} -> 5
    [] pc \in {"rest", "write1"} -> 4
    [] pc = "answer" /\ job # "request" -> 3
    [] pc = "sent" /\ job # "request" -> 2
    [] pc = "init" -> 2
    [] OTHER -> 1

\* How many steps of the main loop there are to the application at most.
Distance == IF pc = "app" THEN 0 ELSE Pass * (WaitTime + 1 - delay) + Left

\* Power up, the time of waiting, and what a frame in hand is not.
Counting ==
  /\ pc = "init" => mode = "init" /\ delay = 0
  /\ mode = "init" => pc \in {"init", "lost"}
  /\ mode = "wait" => delay <= WaitTime
  /\ pc \in {"low", "first", "rest", "number", "write0", "write1"} => job # "request"

CountInv == Inv /\ Counting

LEMMA LeftType ==
  ASSUME Inv
  PROVE  Left \in Nat /\ Left > 0 /\ Left <= Pass
<1>1. Area \in Nat /\ Area > 0 /\ at \in Nat
  BY Numbers, Layout DEF Inv, TypeOK
<1>2. pc \in {"copy", "copy0", "copy1"} => at < Area
  BY DEF Inv, Shape
<1>3. CASE pc = "copy"
  BY <1>1, <1>2, <1>3 DEF Left, Pass
<1>4. CASE pc = "copy0"
  BY <1>1, <1>2, <1>4 DEF Left, Pass
<1>5. CASE pc = "copy1"
  BY <1>1, <1>2, <1>5 DEF Left, Pass
<1>6. CASE pc \notin {"copy", "copy0", "copy1"}
  <2>1. Left \in {Pass, Pass - 1, Pass - 2, Pass - 3, Pass - 4, Pass - 5, Pass - 6, 3 * Area + 2}
                 \cup (1 .. 8)
    BY <1>6 DEF Left
  <2> QED
    BY <1>1, <2>1 DEF Pass
<1> QED
  BY <1>3, <1>4, <1>5, <1>6

LEMMA CountNat ==
  ASSUME TypeOK, Left \in Nat
  PROVE  Distance \in Int
<1>1. Pass \in Int /\ WaitTime + 1 - delay \in Int
  BY Numbers DEF TypeOK, Pass
<1>2. Pass * (WaitTime + 1 - delay) \in Int
  BY <1>1
<1> QED
  BY <1>2 DEF Distance, Pass

\* Where the pass goes on.
LEMMA Lower ==
  ASSUME Inv, TypeOK', pc # "app", pc' # "app", delay' = delay, Left' \in Nat, Left' < Left
  PROVE  Distance' < Distance
<1>1. Left \in Nat /\ Left' \in Nat
  BY LeftType
<1>2. Pass * (WaitTime + 1 - delay) \in Int
  BY Numbers DEF Inv, TypeOK, Pass
<1> QED
  BY <1>1, <1>2 DEF Distance, Pass

LEMMA WaitingCounts ==
  ASSUME CountInv, Waiting, mode # "boot"
  PROVE  Distance' < Distance
<1>1. Inv /\ Inv' /\ Area \in Nat /\ Area > 0
  BY WaitingInv, Numbers DEF CountInv
<1>2. CASE WaitCount
  <2>1. delay \in Nat /\ delay <= WaitTime /\ delay' = delay + 1 /\ WaitTime \in Nat
    BY <1>2, Numbers DEF WaitCount, CountInv, Counting, Inv, TypeOK
  <2>2. Left = 1 /\ Left' = Pass /\ pc # "app" /\ pc' # "app"
    BY <1>2 DEF WaitCount, Goto, Left
  <2>3. Pass \in Nat
    BY <1>1 DEF Pass
  <2>4. Pass * (WaitTime + 1 - (delay + 1)) + Pass = Pass * (WaitTime + 1 - delay)
    BY <2>1, <2>3
  <2>5. Distance = Pass * (WaitTime + 1 - delay) + 1
        /\ Distance' = Pass * (WaitTime + 1 - (delay + 1)) + Pass
    BY <2>1, <2>2 DEF Distance, Pass
  <2>6. Pass * (WaitTime + 1 - delay) \in Int
    BY <2>1, <2>3
  <2> QED
    BY <2>4, <2>5, <2>6
<1>3. CASE Taken("wait", "request", "boot")
  <2>1. Left' < Left /\ Left' \in Nat /\ pc # "app" /\ pc' # "app" /\ delay' = delay
    BY <1>1, <1>3 DEF Taken, Left, Pass
  <2> QED
    BY <1>1, <2>1, Lower DEF Inv
<1>4. CASE Is("request", "request", "answer", "boot")
  <2>1. Left' < Left /\ Left' \in Nat /\ pc # "app" /\ pc' # "app" /\ delay' = delay
    BY <1>1, <1>4 DEF Is, Left, Pass
  <2> QED
    BY <1>1, <2>1, Lower DEF Inv
<1> QED
  BY <1>2, <1>3, <1>4 DEF Waiting

LEMMA BootingCounts ==
  ASSUME CountInv, Booting, mode # "boot"
  PROVE  Distance' < Distance
<1>1. Inv /\ Inv' /\ Area \in Nat /\ Area > 0
  BY BootingInv, Numbers DEF CountInv
<1>2. Left' < Left /\ Left' \in Nat /\ pc # "app" /\ pc' # "app" /\ delay' = delay
  <2>1. CASE Taken("boot", "isDone", "top")
    BY <1>1, <2>1 DEF Taken, Left, Pass
  <2>2. CASE Is("isDone", "done", "number", "isComplete")
    BY <1>1, <2>2 DEF Is, Left, Pass
  <2>3. CASE Is("isComplete", "complete", "complete", "isGoto")
    BY <1>1, <2>3 DEF Is, Left, Pass
  <2>4. CASE Is("isGoto", "goto", "number", "high")
    <3>1. pc = "isGoto" /\ pc' \in {"number", "high"} /\ delay' = delay
      BY <2>4 DEF Is
    <3>2. Left = 8 /\ Left' \in {6, 7}
      BY <3>1 DEF Left
    <3> QED
      BY <3>1, <3>2
  <2> QED
    BY <2>1, <2>2, <2>3, <2>4 DEF Booting
<1> QED
  BY <1>1, <1>2, Lower DEF Inv

LEMMA CopyCounts ==
  ASSUME CountInv, BlockCopy
  PROVE  pc' = "lost" \/ (Left' < Left /\ Left' \in Nat /\ pc' # "app")
<1>1. Area \in Nat /\ Area > 0 /\ at \in Nat
  BY Numbers, Layout DEF CountInv, Inv, TypeOK
<1>2. pc \in {"copy", "copy0", "copy1"} => at < Area
  BY DEF CountInv, Inv, Shape
<1>3. CASE CopyBegin
  <2>1. pc = "complete" /\ pc' = "copy" /\ at' = 0
    BY <1>3 DEF CopyBegin, Goto
  <2> QED
    BY <1>1, <2>1 DEF Left
<1>6. CASE CopyRead
  <2>1. pc = "copy" /\ pc' = "copy0" /\ at' = at
    BY <1>6 DEF CopyRead, Goto, regs
  <2> QED
    BY <1>1, <1>2, <2>1 DEF Left
<1>4. CASE CopyWrite(0, "copy0", "copy1")
  <2>1. /\ pc = "copy0"
        /\ (at' = at /\ pc' \in {"copy1", "lost"}) \/ (at' = at + 1 /\ pc' \in {CopyOn, "lost"})
    BY <1>1, <1>4 DEF CopyWrite
  <2> QED
    BY <1>1, <1>2, <2>1 DEF CopyOn, Left
<1>5. CASE CopyWrite(1, "copy1", CopyOn)
  <2>1. pc = "copy1" /\ at' = at + 1 /\ pc' \in {CopyOn, "lost"}
    BY <1>5 DEF CopyWrite
  <2> QED
    BY <1>1, <1>2, <2>1 DEF CopyOn, Left
<1> QED
  BY <1>3, <1>4, <1>5, <1>6 DEF BlockCopy

LEMMA HandleCounts ==
  ASSUME CountInv, Handle, mode # "boot"
  PROVE  mode' = "boot" \/ pc' = "lost" \/ Distance' < Distance
<1>1. Inv /\ Inv' /\ Area \in Nat /\ Area > 0
  BY HandleInv, Numbers DEF CountInv
<1>2. pc # "app" /\ delay' = delay
  BY DEF Handle, Answer, Sent, DataTransmit, High, Low, First, Rest, BlockDone, Number, Store,
         BlockCopy, CopyBegin, CopyRead, CopyWrite, Goto
<1>3. mode' = "boot" \/ pc' = "lost" \/ (Left' < Left /\ Left' \in Nat /\ pc' # "app")
  <2>1. CASE Answer
    BY <1>1, <2>1 DEF Answer, Goto, regs, Left, Pass
  <2>2. CASE Sent
    BY <1>1, <2>2 DEF Sent, Goto, regs, Left, Pass
  <2>3. CASE DataTransmit
    BY <2>3 DEF DataTransmit, High, Low, First, Rest, Goto, regs, Left, CountInv, Counting
  <2>4. CASE BlockDone
    BY <2>4 DEF BlockDone, Number, Store, Goto, regs, Left, CountInv, Counting
  <2>5. CASE BlockCopy
    BY <2>5, CopyCounts
  <2> QED
    BY <2>1, <2>2, <2>3, <2>4, <2>5 DEF Handle
<1> QED
  BY <1>1, <1>2, <1>3, Lower DEF Inv

LEMMA LoopCounts ==
  ASSUME CountInv, MainLoop, mode # "boot"
  PROVE  mode' = "boot" \/ pc' = "lost" \/ Distance' < Distance
<1>1. CASE InitRam
  <2>1. Inv /\ Inv'
    BY <1>1, InitRamStep, KeepPrograms DEF CountInv, Inv, InitRam, Goto, CopyPlaces
  <2>2. Left' < Left /\ Left' \in Nat /\ pc # "app" /\ pc' # "app" /\ delay' = delay
    BY <1>1 DEF InitRam, Goto, Left
  <2> QED
    BY <2>1, <2>2, Lower DEF Inv
<1>2. CASE Jump
  <2>1. pc = "top" /\ pc' = "app"
    BY <1>2 DEF Jump, Goto
  <2>2. Pass * (WaitTime + 1 - delay) >= 0
    <3>1. Pass \in Nat /\ WaitTime + 1 - delay \in Nat
      BY Numbers DEF Pass, CountInv, Inv, TypeOK
    <3> QED
      BY <3>1
  <2>3. Pass * (WaitTime + 1 - delay) \in Int
    BY Numbers DEF Pass, CountInv, Inv, TypeOK
  <2>4. Left = 1
    BY <2>1 DEF Left
  <2>5. Distance = Pass * (WaitTime + 1 - delay) + 1 /\ Distance' = 0
    BY <2>1, <2>4 DEF Distance
  <2> HIDE DEF Pass
  <2> QED
    BY <2>2, <2>3, <2>5
<1> QED
  BY <1>1, <1>2, WaitingCounts, BootingCounts, HandleCounts DEF MainLoop

LEMMA CountingLoop ==
  ASSUME CountInv, MainLoop
  PROVE  Counting'
<1> USE DEF Counting
<1>1. CASE InitRam
  BY <1>1, Numbers DEF InitRam, Goto, CountInv
<1>2. CASE WaitCount
  <2>1. delay \in Nat /\ WaitTime \in Nat
    BY Numbers DEF CountInv, Inv, TypeOK
  <2> QED
    BY <1>2, <2>1 DEF WaitCount, Goto, regs, CountInv
<1>3. CASE Taken("wait", "request", "boot") \/ Is("request", "request", "answer", "boot")
  BY <1>3 DEF Taken, Is, regs, CountInv
<1>4. CASE Booting
  BY <1>4 DEF Booting, Taken, Is, Goto, regs, CountInv
<1>5. CASE Answer \/ Sent
  BY <1>5 DEF Answer, Sent, Goto, regs, CountInv
<1>6. CASE DataTransmit
  BY <1>6 DEF DataTransmit, High, Low, First, Rest, Goto, regs, CountInv
<1>7. CASE BlockDone
  BY <1>7 DEF BlockDone, Number, Store, Goto, regs, CountInv, Inv, Copying
<1>8. CASE BlockCopy
  BY <1>8 DEF BlockCopy, CopyBegin, CopyRead, CopyWrite, CopyOn, Goto, regs, CountInv
<1>9. CASE Jump
  BY <1>9 DEF Jump, Goto, regs, CountInv
<1> QED
  BY <1>1, <1>2, <1>3, <1>4, <1>5, <1>6, <1>7, <1>8, <1>9 DEF MainLoop, Waiting, Handle

LEMMA CountStep == CountInv /\ [Next]_vars => CountInv'
<1> SUFFICES ASSUME CountInv, [Next]_vars PROVE Counting'
  BY InvStep DEF CountInv
<1>1. CASE MainLoop
  BY <1>1, CountingLoop
<1>2. CASE Receive \/ Deliver \/ Leave \/ UNCHANGED vars
  BY <1>2 DEF Receive, Deliver, Leave, vars, regs, CountInv, Counting
<1>3. CASE PowerFailure
  BY <1>3 DEF PowerFailure, Counting
<1> QED
  BY <1>1, <1>2, <1>3 DEF Next, Ended

LEMMA CountAlways == Spec => []CountInv
<1>1. Init => CountInv
  BY InvInit DEF Init, CountInv, Counting
<1> QED
  BY <1>1, CountStep, PTL DEF Spec

\* Outside Mode_BOOT, whatever a master sends and whether or not power failed
\* before: every step of the main loop brings the application nearer, and no other
\* step but a power failure takes it further away, until the application runs, a
\* request is accepted (there Mode_BOOT has no timeout) or a frame stops the
\* processor.
CountsDown ==
  [][mode # "boot" =>
       \/ PowerFailure
       \/ mode' = "boot" \/ pc' = "lost"
       \/ Distance' <= Distance /\ (MainLoop => Distance' < Distance)]_vars

NearEnough == Distance \in 0 .. Pass * (WaitTime + 2)

\* For every waiting time, area and master, before and after a power failure: of
\* these steps there are at most (3 * Area + 15) * (WaitTime + 2) until then.
THEOREM CountsDownAlways ==
  Spec => CountsDown /\ []NearEnough
<1>0. CountInv => NearEnough
  <2> SUFFICES ASSUME CountInv PROVE Distance \in 0 .. Pass * (WaitTime + 2)
    BY DEF NearEnough
  <2>1. WaitTime + 1 - delay \in 0 .. WaitTime + 1 /\ WaitTime \in Nat
    BY Numbers DEF CountInv, Inv, TypeOK
  <2>2. Left \in Nat /\ Left <= Pass /\ Pass \in Nat
    BY LeftType, Numbers DEF CountInv, Pass
  <2>3. \A p, n, w \in Nat : n <= w => p * n \in 0 .. p * w
    OBVIOUS
  <2>4. Pass * (WaitTime + 1 - delay) \in 0 .. Pass * (WaitTime + 1)
    BY <2>1, <2>2, <2>3
  <2>5. Pass * (WaitTime + 2) = Pass * (WaitTime + 1) + Pass
    BY <2>1, <2>2
  <2>6. Pass * (WaitTime + 1) \in Nat
    BY <2>1, <2>2
  <2> HIDE DEF Pass
  <2> QED
    BY <2>2, <2>4, <2>5, <2>6 DEF Distance
<1>1. CountInv /\ NearEnough /\ NearEnough' /\ [Next]_vars =>
        [mode # "boot" =>
           \/ PowerFailure
           \/ mode' = "boot" \/ pc' = "lost"
           \/ Distance' <= Distance /\ (MainLoop => Distance' < Distance)]_vars
  <2> SUFFICES ASSUME CountInv, NearEnough, NearEnough', Next, mode # "boot", ~PowerFailure,
                      mode' # "boot", pc' # "lost"
               PROVE  Distance' <= Distance /\ (MainLoop => Distance' < Distance)
    OBVIOUS
  <2>1. Distance \in Int /\ Distance' \in Int
    BY DEF NearEnough
  <2>2. CASE MainLoop
    BY <2>1, <2>2, LoopCounts
  <2>3. CASE ~MainLoop
    <3>1. Distance' = Distance
      BY <2>3 DEF Next, Receive, Deliver, Leave, Ended, vars, regs, Distance, Left, Pass
    <3> QED
      BY <2>1, <2>3, <3>1
  <2> QED
    BY <2>2, <2>3
<1> QED
  BY <1>0, <1>1, CountStep, CountAlways, PTL DEF Spec, CountsDown
=============================================================================
