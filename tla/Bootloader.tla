----------------------------- MODULE Bootloader -----------------------------
(***************************************************************************)
(* The CAN bootloader (02BootCode): the main loop of main.c, the receive   *)
(* interrupt that overwrites the one frame it reads, and the master that   *)
(* sends an image block by block.  Power may fail once, at any time, and   *)
(* every operation of the flash controller may fail.                       *)
(*                                                                         *)
(* The flash is a row of sectors of 2048 bytes: the bootloader, the        *)
(* application and the backup, Area sectors each, and then others, the     *)
(* first of which holds the stored parameters.  A block fills the buffer   *)
(* gSysRamBuf and that is two sectors.                                     *)
(***************************************************************************)
EXTENDS Integers

CONSTANTS
  Area,        \* TOTALBLOCK, sectors in each of the three areas
  Spare,       \* sectors behind the backup
  HalfFrames,  \* data frames in half a block
  Base,        \* how many values the low byte of a frame's number has
  WaitTime,    \* BOOTWAITTIME
  Scenes       \* masters and boards, one record each:
               \*   blocks   length of the image
               \*   patient  waits for the reply to each frame
               \*   each     requests every block (the protocol document)
               \*   copies   sends COMPLETE
               \*   first    the frame it begins with
               \*   leaves   may disappear
               \*   worn     its flash may fail

Blocks == 0 .. Area - 1
Frames == 0 .. 2 * HalfFrames - 1
Sectors == 0 .. 3 * Area + Spare - 1
App == Area                \* APP_ADDRESS
Backup == 2 * Area         \* BACKUPADDRESS
Parameters == 3 * Area     \* behind the backup (README)
Reach == Area + Spare      \* a block number beyond the flash
NoFrame == -1              \* an index far beyond the RAM

Kinds == {"request", "data", "done", "complete", "goto", "none"}
Frame == [kind : Kinds, block : Blocks, f : Frames]
None == [kind |-> "none", block |-> 0, f |-> 0]

ASSUME BootAssumption ==
  /\ Area \in Nat /\ Area > 0
  /\ Spare \in Nat /\ Spare > 0
  /\ HalfFrames \in Nat /\ HalfFrames > 0
  /\ Base \in Nat /\ Base > 0
  /\ WaitTime \in Nat
  /\ \A e \in Scenes :
       /\ e.blocks \in 1 .. Area /\ e.first \in Frame
       /\ e.patient \in BOOLEAN /\ e.each \in BOOLEAN
       /\ e.copies \in BOOLEAN /\ e.leaves \in BOOLEAN /\ e.worn \in BOOLEAN
       /\ e.patient => e.first = [kind |-> "request", block |-> 0, f |-> 0]

\* What half of a frame's bytes hold, as far as it matters where they are from.
Zero == <<-1, 0>>
Erased == <<-2, 0>>
Command == <<-3, 0>>
Old(s) == <<-4, s>>
Tokens == (Blocks \X Frames) \cup {Zero, Erased, Command} \cup {Old(s) : s \in Sectors}
Cell == [first : Tokens, rest : Tokens]
Whole(t) == [first |-> t, rest |-> t]
Payload(frame) == IF frame.kind = "data" THEN <<frame.block, frame.f>> ELSE Command
Content == [0 .. HalfFrames - 1 -> Cell]
Filled(t) == [k \in 0 .. HalfFrames - 1 |-> Whole(t)]

VARIABLES
  scene,   \* the master and the board; it never changes
  mode,    \* workmode
  delay,   \* gBootDelayCnt
  pc,      \* where the main loop is
  job,     \* what it is doing there
  cmd,     \* canRxCmd
  buf,     \* canRxBuf
  seen,    \* the frame whose first byte main_data_transmit has read
  counter, \* counter of main_data_transmit
  at,      \* the block number of a write, i of Block_copy
  ram,     \* gSysRamBuf, by frame
  flash,   \* by sector
  flawed,  \* history: the sectors whose last flash_write failed
  tx,      \* the reply in the mailbox
  master   \* the frame it sends next, whether it waits, and how many frames
           \* of this block and how many blocks it saw confirmed; whether it
           \* disappeared; whether it sent COMPLETE, power failed, and it went
           \* on all the same (history)

regs == <<job, seen, counter, at>>
store == <<flash, flawed>>
vars == <<scene, mode, delay, pc, regs, cmd, buf, ram, store, tx, master>>

Places == {"init", "top", "wait", "request", "boot", "isDone", "isComplete", "isGoto",
           "high", "low", "first", "rest", "number", "write0", "write1", "answer", "sent",
           "complete", "copy", "copy0", "copy1", "app", "lost"}

TypeOK ==
  /\ scene \in Scenes
  /\ mode \in {"init", "wait", "boot", "jump"}
  /\ delay \in 0 .. WaitTime + 1
  /\ pc \in Places
  /\ job \in Kinds
  /\ cmd \in BOOLEAN
  /\ buf \in Frame
  /\ seen \in Frame
  /\ counter \in Frames \cup {NoFrame}
  /\ at \in 0 .. Reach
  /\ ram \in [Frames -> Cell]
  /\ flash \in [Sectors -> Content]
  /\ flawed \subseteq Sectors
  /\ tx \in Frame
  /\ master \in [next : Frame, waits : BOOLEAN, frames : 0 .. 2 * HalfFrames,
                 blocks : 0 .. Area, gone : BOOLEAN, copied : BOOLEAN,
                 failed : BOOLEAN, cut : BOOLEAN]

\* A master that has sent nothing.
Beginning == [next |-> scene.first, waits |-> FALSE, frames |-> 0, blocks |-> 0,
              gone |-> FALSE, copied |-> FALSE, failed |-> FALSE, cut |-> FALSE]

Init ==
  /\ scene \in Scenes
  /\ mode = "init" /\ delay = 0 /\ pc = "init" /\ job = "none"
  /\ cmd = FALSE /\ buf = None /\ seen = None /\ tx = None
  /\ counter = 0 /\ at = 0
  /\ ram = [f \in Frames |-> Whole(Zero)]
  /\ flash = [s \in Sectors |-> Filled(Old(s))]
  /\ flawed = {}
  /\ master = Beginning

-----------------------------------------------------------------------------
(* The master, the bus and the receive interrupt.                           *)

\* What a master sends after this frame.
After(m) ==
  LET data(b, f) == [kind |-> "data", block |-> b, f |-> f]
      command(k, b) == [kind |-> k, block |-> b, f |-> 0] IN
  CASE m.kind = "request" -> data(m.block, 0)
    [] m.kind = "data" -> IF m.f + 1 \in Frames THEN data(m.block, m.f + 1)
                          ELSE command("done", m.block)
    [] m.kind = "done" -> IF m.block + 1 < scene.blocks
                          THEN IF scene.each THEN command("request", m.block + 1)
                               ELSE data(m.block + 1, 0)
                          ELSE command(IF scene.copies THEN "complete" ELSE "goto", 0)
    [] m.kind = "complete" -> command("goto", 0)
    [] OTHER -> None

\* A frame arrives and USBFS_L_CAN1_RX0_IRQHandler copies it over the last one.
\* COMPLETE is the one frame without a reply to wait for.
Receive ==
  /\ pc \notin {"app", "lost"}
  /\ ~master.gone /\ master.next # None
  /\ scene.patient => ~master.waits
  /\ buf' = master.next
  /\ cmd' = TRUE
  /\ master' = [master EXCEPT
       !.next = After(@),
       !.waits = master.next.kind # "complete",
       !.copied = @ \/ master.next.kind = "complete"]
  /\ UNCHANGED <<scene, mode, delay, pc, regs, ram, store, tx>>

\* The reply leaves the mailbox and the master takes it for what it is.  It
\* counts the blocks itself.
Deliver ==
  /\ tx # None
  /\ tx' = None
  /\ master' = [master EXCEPT
       !.waits = FALSE,
       !.frames = CASE tx.kind = "data" -> tx.f + 1
                    [] tx.kind = "done" -> 0
                    [] OTHER -> @,
       !.blocks = IF tx.kind = "done" /\ @ < scene.blocks THEN @ + 1 ELSE @]
  /\ UNCHANGED <<scene, mode, delay, pc, regs, cmd, buf, ram, store>>

Leave ==
  /\ scene.leaves /\ ~master.gone
  /\ master' = [master EXCEPT !.gone = TRUE]
  /\ UNCHANGED <<scene, mode, delay, pc, regs, cmd, buf, ram, store, tx>>

-----------------------------------------------------------------------------
(* The main loop.                                                           *)

Goto(from, to) == pc = from /\ pc' = to

InitRam ==
  /\ Goto("init", "top")
  /\ mode' = "wait"
  /\ ram' = [f \in Frames |-> Whole(Zero)]
  /\ buf' = None
  /\ UNCHANGED <<scene, delay, regs, cmd, store, tx, master>>

\* Mutant: the counter runs on and on.
WaitCountOn ==
  /\ mode = "wait"
  /\ Goto("top", "wait")
  /\ delay' = delay + 1
  /\ UNCHANGED <<scene, mode, regs, cmd, buf, ram, store, tx, master>>

\* Mutant: the time of waiting never ends.
WaitCountForEver ==
  /\ mode = "wait"
  /\ Goto("top", "wait")
  /\ UNCHANGED <<scene, mode, delay, regs, cmd, buf, ram, store, tx, master>>

\* case Mode_WAIT: another pass.
WaitCount ==
  /\ mode = "wait"
  /\ Goto("top", "wait")
  /\ delay' = IF delay < WaitTime THEN delay + 1 ELSE WaitTime + 1
  /\ mode' = IF delay + 1 > WaitTime THEN "jump" ELSE mode
  /\ UNCHANGED <<scene, regs, cmd, buf, ram, store, tx, master>>

\* Mutant: the flag is not cleared.
Takes(from, yes, no) ==
  /\ pc = from
  /\ pc' = IF cmd THEN yes ELSE no
  /\ UNCHANGED <<scene, mode, delay, regs, cmd, buf, ram, store, tx, master>>

\* A frame is there: the flag is cleared before the frame is looked at.
Taken(from, yes, no) ==
  /\ pc = from
  /\ pc' = IF cmd THEN yes ELSE no
  /\ cmd' = FALSE
  /\ UNCHANGED <<scene, mode, delay, regs, buf, ram, store, tx, master>>

\* The comparison of canRxBuf with one of the commands.
Is(from, kind, yes, no) ==
  /\ pc = from
  /\ IF buf.kind = kind THEN pc' = yes /\ job' = kind ELSE pc' = no /\ UNCHANGED job
  /\ UNCHANGED <<scene, mode, delay, seen, counter, at, cmd, buf, ram, store, tx, master>>

\* There is no break: case Mode_WAIT runs on into case Mode_BOOT.
Waiting ==
  \/ WaitCount
  \/ Taken("wait", "request", "boot")
  \/ Is("request", "request", "answer", "boot")

Booting ==
  \/ /\ mode = "boot"
     /\ Goto("top", "boot")
     /\ UNCHANGED <<scene, mode, delay, regs, cmd, buf, ram, store, tx, master>>
  \/ Taken("boot", "isDone", "top")
  \/ Is("isDone", "done", "number", "isComplete")
  \/ Is("isComplete", "complete", "complete", "isGoto")
  \/ Is("isGoto", "goto", "number", "high")

\* The replies of can_transmit_req, main_data_transmit, Block_done, Relay_Reset.
\* Block_done sets one byte of the block number twice and the other never.
Answer ==
  /\ Goto("answer", "sent")
  /\ tx' = [kind |-> job,
            block |-> IF job = "request" THEN buf.block ELSE 0,
            f |-> IF job = "data" THEN buf.f ELSE 0]
  /\ UNCHANGED <<scene, mode, delay, regs, cmd, buf, ram, store, master>>

\* Mutant: the flag is cleared when the frame has been handled.
SentClears ==
  /\ tx = None
  /\ Goto("sent", IF job = "request" THEN "boot" ELSE "top")
  /\ mode' = CASE job = "request" -> "boot" [] job = "goto" -> "jump" [] OTHER -> mode
  /\ cmd' = FALSE
  /\ UNCHANGED <<scene, delay, regs, buf, ram, store, tx, master>>

\* The loop until the mailbox is empty, and what the caller does next.
Sent ==
  /\ tx = None
  /\ Goto("sent", IF job = "request" THEN "boot" ELSE "top")
  /\ mode' = CASE job = "request" -> "boot" [] job = "goto" -> "jump" [] OTHER -> mode
  /\ UNCHANGED <<scene, delay, regs, cmd, buf, ram, store, tx, master>>

\* main_data_transmit, up to the reply.  The index of a command is far out.
High ==
  /\ Goto("high", "low")
  /\ seen' = buf
  /\ job' = "data"
  /\ UNCHANGED <<scene, mode, delay, counter, at, cmd, buf, ram, store, tx, master>>

\* The second byte of a command is any.
Low ==
  /\ Goto("low", "first")
  /\ IF seen.kind # "data" THEN counter' = NoFrame
     ELSE IF buf = seen THEN counter' = seen.f
     ELSE \E low \in IF buf.kind = "data" THEN {buf.f % Base} ELSE 0 .. Base - 1 :
            LET c == (seen.f \div Base) * Base + low IN
              counter' = IF c \in Frames THEN c ELSE NoFrame
  /\ UNCHANGED <<scene, mode, delay, job, seen, at, cmd, buf, ram, store, tx, master>>

First ==
  /\ pc = "first"
  /\ IF counter \in Frames
     THEN pc' = "rest" /\ ram' = [ram EXCEPT ![counter].first = Payload(buf)]
     ELSE pc' = "lost" /\ UNCHANGED ram
  /\ UNCHANGED <<scene, mode, delay, regs, cmd, buf, store, tx, master>>

\* Mutant: the reply is sent while half of the frame is still to be stored.
RestForgotten ==
  /\ Goto("rest", "answer")
  /\ UNCHANGED <<scene, mode, delay, regs, cmd, buf, ram, store, tx, master>>

Rest ==
  /\ Goto("rest", "answer")
  /\ ram' = [ram EXCEPT ![counter].rest = Payload(buf)]
  /\ UNCHANGED <<scene, mode, delay, regs, cmd, buf, store, tx, master>>

DataTransmit == High \/ Low \/ First \/ Rest

\* Mutant: blocks are counted from one.
BlockNumbersFromOne ==
  CASE buf.kind = "done" -> {buf.block + 1}
    [] buf.kind = "goto" -> {Reach}
    [] OTHER -> 0 .. Reach

\* Bytes 3 and 4 of the frame: letters in GOTOAPP, anything in a data frame.
BlockNumbers ==
  CASE buf.kind = "done" -> {buf.block}
    [] buf.kind = "goto" -> {Reach}
    [] OTHER -> 0 .. Reach

\* Block_done, and Relay_Reset which does the same, up to the reply.
Number ==
  /\ Goto("number", "write0")
  /\ at' \in BlockNumbers
  /\ UNCHANGED <<scene, mode, delay, job, seen, counter, cmd, buf, ram, store, tx, master>>

\* Mutant: the halves are exchanged.
HalfExchanged(h) == [k \in 0 .. HalfFrames - 1 |-> ram[IF h = 1 THEN k ELSE HalfFrames + k]]

Half(h) == [k \in 0 .. HalfFrames - 1 |-> ram[IF h = 0 THEN k ELSE HalfFrames + k]]

\* Mutant: a block is written where the bootloader is.
InPlace(h) == at + h

\* The sector where half a block goes.
InBackup(h) == Backup + at + h

\* What a sector may hold when the write of new stops in it: what it held, or the
\* first of the halfwords behind which it is erased.
Torn(s, new) ==
  {flash[s]} \cup
  {[k \in 0 .. HalfFrames - 1 |->
      [first |-> IF 2 * k < n THEN new[k].first ELSE Erased,
       rest |-> IF 2 * k + 1 < n THEN new[k].rest ELSE Erased]] : n \in 0 .. 2 * HalfFrames - 1}

\* One sector of a flash_write.
WriteSector(s, new) ==
  /\ flash' = [flash EXCEPT ![s] = new]
  /\ flawed' = flawed \ {s}

\* The flash controller refuses an operation: flash_write returns ERROR at once.
FailSector(s, new) ==
  /\ scene.worn
  /\ \E part \in Torn(s, new) : flash' = [flash EXCEPT ![s] = part]
  /\ flawed' = flawed \cup {s}

\* flash_write in Block_done and Relay_Reset, sector by sector.  The result is put
\* in err_status and not looked at: the reply is given all the same.  Where there
\* is no flash the processor may stop.
Store(h, from, to) ==
  /\ pc = from
  /\ IF InBackup(h) \in Sectors
     THEN \/ WriteSector(InBackup(h), Half(h)) /\ pc' = to
          \/ FailSector(InBackup(h), Half(h)) /\ pc' = "answer"
     ELSE pc' \in {to, "answer", "lost"} /\ UNCHANGED store
  /\ UNCHANGED <<scene, mode, delay, regs, cmd, buf, ram, tx, master>>

BlockDone ==
  \/ Number
  \/ Store(0, "write0", "write1")
  \/ Store(1, "write1", "answer")

\* Block_copy: always the first two sectors of the backup, and no reply because
\* i is TOTALBLOCK in the end.  It overwrites the program that runs.
CopyBegin ==
  /\ Goto("complete", "copy")
  /\ at' = 0
  /\ UNCHANGED <<scene, mode, delay, job, seen, counter, cmd, buf, ram, store, tx, master>>

CopyRead ==
  /\ Goto("copy", "copy0")
  /\ ram' = [f \in Frames |-> IF f < HalfFrames THEN flash[Backup][f]
                              ELSE flash[Backup + 1][f - HalfFrames]]
  /\ UNCHANGED <<scene, mode, delay, regs, cmd, buf, store, tx, master>>

\* The next turn of the loop of Block_copy, or its end.
CopyOn == IF at + 1 < Area THEN "copy" ELSE "top"

\* flash_write in Block_copy; here, too, the result is not looked at.
CopyWrite(h, from, to) ==
  /\ pc = from
  /\ \/ /\ WriteSector(at + h, Half(h))
        /\ at' = at + h
        /\ pc' \in {to, "lost"}
     \/ /\ FailSector(at + h, Half(h))
        /\ at' = at + 1
        /\ pc' \in {CopyOn, "lost"}
  /\ UNCHANGED <<scene, mode, delay, job, seen, counter, cmd, buf, ram, tx, master>>

BlockCopy ==
  \/ CopyBegin
  \/ CopyRead
  \/ CopyWrite(0, "copy0", "copy1")
  \/ CopyWrite(1, "copy1", CopyOn)

\* boot_jump_to_app.
Jump ==
  /\ mode = "jump"
  /\ Goto("top", "app")
  /\ UNCHANGED <<scene, mode, delay, regs, cmd, buf, ram, store, tx, master>>

\* A frame is handled.
Handle == Answer \/ Sent \/ DataTransmit \/ BlockDone \/ BlockCopy

MainLoop == InitRam \/ Waiting \/ Booting \/ Handle \/ Jump

-----------------------------------------------------------------------------
\* The sector that is being written, and what with.
Written ==
  CASE pc = "write0" -> {<<InBackup(0), Half(0)>>}
    [] pc = "write1" -> {<<InBackup(1), Half(1)>>}
    [] pc = "copy0" -> {<<at, Half(0)>>}
    [] pc = "copy1" -> {<<at + 1, Half(1)>>}
    [] OTHER -> {}

\* After a power failure the master begins again, or goes on with its next frame
\* as if nothing had happened, or has disappeared.
Afterwards ==
  {[Beginning EXCEPT !.gone = master.gone, !.copied = master.copied, !.failed = TRUE]} \cup
  {[master EXCEPT !.waits = FALSE, !.gone = g, !.failed = TRUE, !.cut = TRUE] :
     g \in {master.gone, TRUE}}

\* Power fails, once, and comes back.  The sector that was being written is torn;
\* the bootloader runs again if it is whole, and its variables are cleared.
PowerFailure ==
  /\ ~master.failed
  /\ \/ UNCHANGED flash
     \/ \E w \in Written :
          /\ w[1] \in Sectors
          /\ \E part \in Torn(w[1], w[2]) : flash' = [flash EXCEPT ![w[1]] = part]
  /\ pc' = IF \A s \in 0 .. Area - 1 : flash'[s] = Filled(Old(s)) THEN "init" ELSE "lost"
  /\ mode' = "init" /\ delay' = 0 /\ job' = "none"
  /\ cmd' = FALSE /\ buf' = None /\ seen' = None /\ tx' = None
  /\ counter' = 0 /\ at' = 0
  /\ ram' = [f \in Frames |-> Whole(Zero)]
  /\ master' \in Afterwards
  /\ UNCHANGED <<scene, flawed>>

\* What the application, or a program that is lost, does is not modelled.
Ended == pc \in {"app", "lost"} /\ UNCHANGED vars

Next == MainLoop \/ Receive \/ Deliver \/ Leave \/ PowerFailure \/ Ended

Spec == Init /\ [][Next]_vars

\* The processor runs, frames are sent in the end, and the master goes on.
FairSpec == Spec /\ WF_vars(MainLoop) /\ WF_vars(Deliver) /\ WF_vars(Receive)

-----------------------------------------------------------------------------
CompleteSent == master.copied

\* What a master that waits for replies saw confirmed of the present block is in
\* the buffer, both halves of each frame, whatever comes in meanwhile, and also
\* when it begins again after a power failure.
AckedInRam ==
  scene.patient /\ ~master.cut /\ ~CompleteSent =>
    \A f \in Frames : f < master.frames => ram[f] = Whole(<<master.blocks, f>>)

\* Of every block it saw confirmed the first half is in the backup, in its
\* sector, unless flash_write failed there, which the reply does not tell; the
\* second half is overwritten by the next block.
FirstHalfStored ==
  scene.patient /\ ~master.cut /\ ~CompleteSent =>
    \A b \in Blocks : b < master.blocks =>
      \/ flash[Backup + b] = [k \in 0 .. HalfFrames - 1 |-> Whole(<<b, k>>)]
      \/ Backup + b \in flawed

\* Until COMPLETE was sent, nothing a master sends, whenever it comes, no power
\* failure and no failing write changes the bootloader or the application.
ProgramsKept ==
  ~CompleteSent => \A s \in 0 .. Backup - 1 : flash[s] = Filled(Old(s))

\* A transfer to the backup by a master that waits leaves the parameters behind
\* it alone, if the image is shorter than the backup: the last block would not.
ParametersKept ==
  scene.patient /\ scene.blocks < Area /\ ~CompleteSent =>
    flash[Parameters] = Filled(Old(Parameters))

\* Once the request of a master that waits was accepted, none of its frames
\* stops the processor, up to GOTOAPP.
NoFaultOnceAccepted ==
  scene.patient /\ ~scene.each /\ ~CompleteSent /\ mode = "boot" /\ pc = "lost" =>
    buf.kind = "goto"

\* A master that waits and whose request was accepted sees all its blocks
\* confirmed, unless it disappears or power fails: no frame of it is overlooked.
UploadEnds ==
  (scene.patient /\ ~scene.each /\ mode = "boot")
  ~> (master.blocks = scene.blocks \/ master.gone \/ mode = "init")

\* After power up, the first time and after a failure, the application runs if
\* nobody sends; and whatever a master sends, going on in the middle of a
\* transfer or beginning again, only an accepted request (Mode_BOOT has no
\* timeout) or a frame that stops the processor keeps it away.
ApplicationReturns ==
  /\ (pc = "init" /\ master.gone /\ ~cmd) ~> pc = "app"
  /\ pc = "init" ~> (pc \in {"app", "lost"} \/ mode = "boot")
=============================================================================
