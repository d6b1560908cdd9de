# Verification of canopen-site-firmware

TLA+ modules, TLC configurations and TLAPS proofs for the firmware of the
measuring site: a CANopen node on an AT32F403A (`src/user`), its CAN bootloader
(`src/02BootCode`), and the older application (`src/01AppCode`).  The vendored
code (`src/canopen`, `src/user/littlefs`, `src/Libraries`, `src/OpenOCD`) is
modelled only where the project's own code meets it.

Run everything from this directory: `tlc -workers 2 -config X.cfg MCM.tla` for a
run, `tlapm XProofs.tla` for the proofs.

## 1. The system

One processor without an operating system.  Three levels of execution share all
state, and nothing but `PRIMASK` (all interrupts off) protects it:

| level | what runs | priority |
|---|---|---|
| main loop | `canopen_app_process` (SDO server, NMT, heartbeat, EMCY), storage | lowest |
| TMR6 interrupt, every 1 ms | `get_ticks` counter, every function given to `timer_add_tick`: `canopen_app_interrupt` (SYNC, RPDO, TPDO), `ui_tick`, `keyboard_tick`, `simple_servo_tick`, ... | 1 |
| CAN interrupts | receive matching, `CO_CANinterrupt_TX`, bus errors | 0, preempts TMR6 |

The controller, the bus, the flash and the keys run beside them.

### Components

| component | source | state | operations | what is hard | what makes it correct |
|---|---|---|---|---|---|
| CAN transmit path | `user/canopen/driver/CO_driver_STM32.c`, `CO_driver_target.h` | `bufferFull` of each buffer, `CANtxCount`, `firstCANtxMessage`, `bufferInhibitFlag`, mailboxes | `CO_CANsend`, `CO_CANclearPendingSyncPDOs`, `CO_CANinterrupt_TX` | sends from two levels, completion interrupts, counter and flags that no longer agree | no frame forgotten, a waiting frame has an interrupt to come, overflow reported, counter drains |
| Critical sections | `CO_driver_target.h`, `CO_storageLittleFS.c` | `PRIMASK`, one saved copy per kind of lock | `CO_LOCK_*`/`CO_UNLOCK_*` from all levels, nested | one slot per kind: nesting, preemption between save and disable | masked while held; unmasked again afterwards; the timer runs again |
| CAN receive, bus errors | `CO_driver_STM32.c`, `user/can.c` | error status, error counters | receive interrupt, `CO_CANmodule_process`, status-change interrupt | status bits that stay, unreachable recovery branch | error bits follow the controller |
| CANopen application | `user/canopen/application/CO_app_STM32.c` | `CO` heap objects, `CANnormal`, node ids, `time_old` | `canopen_app_init`, `_process`, `_interrupt`, `_resetCommunication`, `canopen_update_node_id` | objects deleted and used again while the timer interrupt still runs | no use of a deleted object, the node id used is the one stored |
| Application entry and UI callbacks | `user/main.c` | station id, timeout, calibration values in the object dictionary | store/load callbacks from the UI (in the timer interrupt) | widths of object dictionary entries, values not validated | a stored id is a valid node id |
| Parameter storage | `CO_storageLittleFS.c`, `user/flash.c` | flash sectors, `littlefs` files | store, restore, init, `block_device_prog/erase/read`, `flash_write` | read-erase-write of a sector and a reset in between | a write changes only its range, a reset loses at most one sector |
| Timer | `user/subsystem/timer.c` | tick counter, callback table | `get_ticks`, `ticks_diff`, `timer_add_tick`, TMR6 interrupt | wrap-around, registration while the interrupt runs | elapsed time is right across the wrap; each callback once |
| Keyboard | `user/subsystem/keyboard.c` | per key state, event queue | `keyboard_tick`, `keyboard_get_event`, `keyboard_suppress` | debouncing, queue at its limit, events lost | one press per press, repeats only while held |
| User interface | `user/subsystem/ui.c`, `oled.c` | screen state, edited value, timeout | `ui_tick`, key handlers | underflow, timeouts, events out of date | cursor and value stay in range, leaves the menu |
| Servo, homing, stall detection | `user/subsystem/simple_servo.c`, `homing_logic.c`, `stall_detect.c` | trackers, motor state, homing phase | `simple_servo_goto`, tick, homing tick | list shifted while pointers into it are kept, completion callbacks, timeouts | a motor has one tracker; a finished motion is stopped; homing ends |
| Serial sensors and steppers | `rs232.c`, `rs485.c`, `modbus_rtu.c`, `laser_displacement.c`, `motor_485.c` | receive buffers, frame position | request/response, byte interrupts | resynchronisation, timeouts, late answers | a value published comes from one valid frame |
| Capacitive displacement sensor | `cap_displacement.c`, `mod_cap_displacement.c` | bit counter, shift register | clock edge interrupt | interrupt out of step with the frame | a value published is one frame |
| Slave board links | `gpiolink_crc8.c`, `one_wire.c`, `crc8.c` | bit timing | byte transfer | pure timing | CRC rejects a damaged byte |
| Drivers | `pwm.c`, `motor.c`, `ad7705.c`, `pid.c`, `gpio.c`, `i2c*.c`, `spi.c`, `adc.c`, `fan.c`, `log.c`, `mod_psu.c` | registers | set/get | mostly I/O | - |
| Bootloader | `02BootCode/*.c` | protocol state, block buffer, block and byte counters | main loop state machine, CAN receive interrupt | frames lost or out of order while a block is written, jump with a partial image | the application area holds the image that was sent |
| Old application | `01AppCode/*.c` | transmit request, boot request flag | main loop, CAN interrupt | handshake with the bootloader | - |
| Slave board firmware | `at32f421_firmware`, `ihplate_firmware` | - | - | - | - |

### Interaction

`CO_process` (main) and `canopen_app_interrupt` (timer) both call `CO_CANsend`;
`CO_CANinterrupt_TX` empties what they could not send.  The SDO server (main)
writes the object dictionary under `CO_LOCK_OD`; a write to 0x1010/0x1011 calls
the storage, which erases and programs flash under the same lock.  The timer
interrupt calls every tick function, among them the UI, whose callbacks in
`main.c` write the object dictionary, store it, and may call
`canopen_update_node_id`, which deletes and rebuilds the CANopen objects under
the main loop's feet.  The servo reads a displacement callback (laser, capacitive
sensor) and drives a motor callback.  The application jumps to the bootloader
through a RAM flag and a system reset; the bootloader programs the flash and
jumps back.

## 2. Modules and runs

| module | extends / uses | models | proofs |
|---|---|---|---|
| `CanTx` | - | CAN transmit path | `CanTxProofs` |
| `CriticalSections` | - | the locks of all levels | `CriticalSectionsProofs` |
| `CommLifecycle` | - | life of the CANopen objects, node id | `CommLifecycleProofs` |
| `FlashStore` | - | abstract: what a write to flash promises | - |
| `FlashWrite` | refines `FlashStore` | `flash_write` | `FlashWriteProofs` |
| `Keyboard` | - | keys and event queue | with `Ui` |
| `Ui` | extends `Keyboard` | panel | `UiProofs` |
| `Servo` | - | positioning, homing, stall detection | `ServoProofs` |
| `Bootloader` | `flash_write` as a whole, see `FlashWrite` | bootloader, its master, the jump | `BootloaderProofs` |
| `LaserLink` | - | serial line of the laser sensor, ticks | `LaserLinkProofs` |

`CanTx` and `CommLifecycle` take it as given that a section masks the interrupts and
gives them back; `CriticalSections` is where that is examined, and where it fails
(`crit_store`). `Ui` takes a confirmed id to the object dictionary; what
`canopen_update_node_id` does with it is `CommLifecycle`.

Modules with a theorem have no RECURSIVE operator; parameters are CONSTANTS with a
named assumption.

| run | distinct states | question |
|---|---|---|
| `can_tx`, `can_tx_pending` | 413 thousand | is a frame forgotten when senders and the transmit interrupt meet |
| `crit_sections`, `crit_store` | 295 | do the locks mask and release |
| `comm`, `comm_race` | 21 thousand | does the node keep one id through resets |
| `flash` | 153 thousand | is a write all that was asked and nothing else |
| `panel`, `keyboard_click` | 479 thousand | does the panel follow the keys |
| `servo` | 148 thousand | is every motor that turns watched, what does a homing report |
| `boot` | 689 thousand | does a transfer arrive, and what survives a power failure in it |
| `laser` | 1.1 million | is time measured right, does a disturbed line recover |

## 3. CanTx: the transmit path of the CAN driver

`CanTx.tla`, `CanTxProofs.tla`, `MCCanTx.tla`.

State: `bufferFull` is the flag of each `CO_CANtx_t`; `txCount`, `firstTx`,
`inhibit`, `txOverflow` are fields and error bits of
`CO_CANmodule_t`; `pastEnd` is what the memory behind `txArray` looks like,
because `CO_CANclearPendingSyncPDOs` reads and clears `txArray[txSize]`.  `mbox`,
`tcf`, `onWire` are the controller.  `mainPc`, `timer`, `isr` say where the
three levels are.  `unsent` is a history variable: a payload was written and not
yet copied to a mailbox.

| action | code |
|---|---|
| `MainWrite`, `MainCheck`, `MainLock`, `MainSend` | a sender of the main loop and the steps of `CO_CANsend`: overflow test, lock, critical section |
| `MainErrors`, `MainStatus` | `CO_CANmodule_process`: `CANerrorStatus` is copied when the error register has changed, and written back |
| `TimerEnter`, `TimerClearSync`, `TimerSend`, `TimerExit` | `canopen_app_interrupt`: `CO_LOCK_OD`, `CO_process_SYNC` (and `CO_CANclearPendingSyncPDOs` when the window has passed), `CO_process_TPDO` in index order, `CO_UNLOCK_OD` |
| `IsrEnter`, `IsrTry`, `IsrExit` | `USBFS_H_CAN1_TX_IRQHandler` and `CO_CANinterrupt_TX`, one step per turn of its loop |
| `BusStart`, `BusLost`, `BusDone` | controller and bus: the smallest identifier first, the lower mailbox between equal ones; arbitration may be lost |

The interrupt preempts the main loop and the timer unless `PRIMASK` is set; the
main loop runs only when no interrupt is pending.  `CO_CANsend` in the timer is
one step, because it runs inside the masked section.  A transmit request clears
or keeps a completion flag of its mailbox (`keep` in `Load`): the properties
hold for both behaviours of the controller.

| run | instance | shows |
|---|---|---|
| `can_tx` | EMCY (its owner looks at `bufferFull` first) and heartbeat from the main loop, a synchronous TPDO from the timer, two mailboxes | `CountedHasInterrupt`, `NoFrameForgotten`, `InhibitMeansSyncFrame`, `TimerOverflowReported`; under fairness `CounterDrains` |
| `can_tx_pending` | the same | **finding**: `PendingHasInterrupt` fails, a full buffer waits with no interrupt to come |

Two mailboxes suffice to have one empty and one busy, three buffers to have a
synchronous one between two others, and `MaxTxCount = 2` to count a buffer twice
and to go below zero (`CountModulus` keeps the width).  The bound stops the
senders, never the interrupt.

Fairness: weak fairness of each level says that the processor runs; strong
fairness of `BusDone` that the bus lets a frame through in the end.
`CompletionsSeen`, the hypothesis of `CounterDrains`, excludes that every
completion for ever falls into a masked section whose sender refills the same
mailbox; without it the counter need not drain.

The bits that `CO_CANmodule_process` derives from the error register are not in the
model, only that it writes back an old copy of the overflow bit: an overflow which
the timer reports between lines 439 and 471 is lost. `TimerOverflowReported`
therefore says that the report is made, not that the emergency producer finds it.

The model also shows three disagreements with the documentation that have no run
of their own: `CO_CANsend` takes a free mailbox past full buffers of lower index
(`CO_driver.h:289-291` promises the order of indices); two frames of one buffer
leave in mailbox order, not in FIFO order (`CO_driver_STM32.c:341`);
`CO_CANclearPendingSyncPDOs` clears only the flag, and the synchronous frame in
the mailbox is sent all the same (`CO_driver.h:338-340`).

What is proved, for every number of buffers and mailboxes, every division of the
buffers among the senders and every bound: `TypeCorrect`,
`CountedHasInterruptAlways`, `NoFrameForgottenAlways`,
`InhibitMeansSyncFrameAlways` and `TimerOverflowReportedAlways`.  Each invariant
is inductive together with `TypeOK`, which carries the strengthening that a
sender inside `CO_CANsend` names a main-loop buffer.  `TimerOverflowReported`
follows from `NoFrameForgotten`: a TPDO payload that waits is not in a sender's
hands, so its buffer is full.  Assumptions: `TxAssumption`.

## 4. Critical sections: CriticalSections, CriticalSectionsProofs

`CO_driver_target.h` implements the three locks of CANopenNode with one saved
PRIMASK per *kind* of lock (`primask_send`, `primask_emcy`, `primask_od`).
`slot` is those fields, `held[l]` the stack of locks level `l` is inside, and a
lock is two actions, `Save` (read PRIMASK) and `Disable`, because an interrupt
can be taken between the two. `Nest` lists which stacks a level may build; its
values in `MCCriticalSections` are read off the code: in the main loop the SDO
server (`CO_SDOserver.c:560` and others), inside it `storeLittleFS` and
`restoreLittleFS` (`CO_storageLittleFS.c:164`, `:205`), the emergency object
(`CO_Emergency.c:829`) and `CO_CANsend` (`CO_driver_STM32.c:374`); in the timer
`canopen_app_interrupt`, whose PDO processing inside `CO_LOCK_OD`
(`CO_app_STM32.c:293`) sends and reports errors; `CO_CANinterrupt_TX`
(`CO_driver_STM32.c:583`) in the CAN interrupt.

| run | nesting | shows |
|---|---|---|
| `crit_sections` | all of the above | a level inside a section is the one that runs, with interrupts masked; the locks stop giving interrupts back at a `Clash` and at nothing else; without one the timer runs for ever |
| `crit_store` | the SDO write to 0x1010/0x1011 alone, a timer that sends and reports nothing | **finding**: the nested `CO_LOCK_OD` leaves interrupts off |

The firmware's nestings hold two kinds of clash, and the run `crit_sections` meets
both. The store's inner `CO_LOCK_OD` writes the slot of its own outer lock. And `TMR6`
may preempt the main loop between the two halves of its `CO_LOCK_CAN_SEND` and store
TRUE in the shared `primask_send` when it sends a PDO inside `CO_LOCK_OD` (the same with
`CO_LOCK_EMCY` when it reports an error): the unlock of the main loop then leaves
interrupts disabled. `LostByClash` says that these are all: as long as things are
`Intact` (interrupts are masked only while a lock is held, and the slot of every
outermost lock says "enabled"), they cease to be in exactly the steps in which a nested
lock saves PRIMASK over a slot that is still needed. `TimerAliveIfKept` says that the
timer goes on if the slots are kept; `crit_store` shows what happens if they are not.

Fairness: a section ends (no code inside one waits: weak fairness of `Disable`
and `Unlock`, strong of the outermost `Unlock`, so a level does not lock and
nest for ever); a handler returns; an interrupt that is pending again and again
is taken.

Proved for every set of levels, kinds and nestings, without any assumption on the
nesting: `TypeCorrect`; `ExclusiveAlways`, whose inductive invariant `NestedSlots` says
that the slot of every lock but the outermost holds "masked"; and `LostByClashAlways`,
both directions: `ReleasedStep` (a step without a clash keeps `Intact`) and `ClashLoses`
(a nested lock finds interrupts masked, so its save spoils the slot). A nesting without
clashes, for instance with one slot per stack instead of one per kind, is therefore safe
for any number of levels. `TimerAlive` and `TimerAliveIfKept` stay with TLC.

## 5. The life of the CANopen objects: CommLifecycle, CommLifecycleProofs

`canopen_app_init` creates the `CO_t` objects once; every communication reset
deletes them (`CO_delete`) and runs `canopen_app_resetCommunication` on them
again. Two levels do so: the main loop, when `CO_process` reports
`CO_RESET_COMM`, and the timer interrupt, when the UI draws the status page or
stores an id (`ui_get_id_cb`, `ui_store_id_cb` of `main.c`, both through
`canopen_update_node_id`). `pc[l]` is the step of the reset level `l` is at,
`arg[l]` the node id it has already loaded as an argument: the reset reads
`activeNodeID` twice, for `CO_CANopenInit` and for `CO_CANopenInitPDO`, and can
be preempted in between. `commId` and `pdoId` are what the objects were given.
`CO_new` runs only at power up, so a reset goes on with the freed objects;
`free` writes into the freed block: `unconfigured`, the first word of `CO_t`,
is any value until it is initialised again.

What the masters and the user do is a record of `Scenes`, chosen in `Init` and
then kept in `scene`.

| run | scenes | shows |
|---|---|---|
| `comm` | `UserScene`: three valid ids, two invalid ones, any file, any assignment by the LSS master, any store short of 255, no reset from the bus. `ResetScene`: NMT resets, nobody gives another id | `OneId`, `GateClosed` (after `CANnormal = false` the timer keeps out), `ShownIsValid`; under fairness `Recovers` |
| `comm_race` | NMT resets, LSS assignments, and the user looking at the status page | **finding**: SDO/heartbeat and PDO objects with different ids |

The passing run separates the actors because their combination is what fails:
with no reset from the bus the timer is the only one that resets, and the node
keeps one id.  Besides the sets of ids there is no bound; three valid ids let
one be loaded, one stored and one assigned.

The model also shows, without a run: the pending node id of the LSS slave
changes during a reset (`CO_LSSslave.h:127` forbids it); `CO_delete` frees the
objects at every reset and the node goes on using them (`CANopen.h:437`: "Must
be called at program exit"); `CANnormal` is cleared only after `CO_delete`, so
the timer can process PDOs of freed objects in between; `CO_LSS_NODE_ID_VALID`
lets 255 pass as a station id, which unconfigures the node (`main.c:46`:
"ensure we return a valid id").

Fairness: a reset that began goes on (weak for the timer's, strong for the main
loop's, which the timer preempts again and again); the main loop goes round; the
timer draws the page or writes the id by itself. Keys and bus commands have
none: the user may go away.

Proved for every set of ids: `TypeCorrect`; and, for all environments in which the
levels do not reset at the same time (`Apart`: either the bus resets nothing and
nobody chooses 255, or the masters reset and nobody gives the node another id; both
scenes of `comm` are of these kinds, that of `comm_race` is not), `OneIdKept`,
`GateKept` and `ShownIsUsedAlways`: on the status page there is no id the node does
not answer to. The three rest on one inductive invariant, `ApartInv`, of two parts.
`TimerResets` says step by step what the reset in the timer interrupt has
established: not in normal mode from `lss` on, `desired = active` until it is copied,
`active` a valid id from there, then the loaded argument, `commId` and `pdoId` equal
to it in turn. `MainResets` says that the timer finds the id the node has already, so
only the main loop resets, and that `normal` is off from `lss` to `start`.
`ShownIsValidAlways` needs less: nobody chooses 255 for the station; the masters may
do what they like (`PageShowsId`: neither the dictionary nor the file holds 255).
`Recovers` is liveness and stays with TLC.

## 6. Writing flash: FlashStore, FlashWrite, FlashWriteProofs

`flash_write` (`user/flash.c`, called by the bootloader) writes a range of
halfwords sector by sector: a sector whose part of the range is erased is
programmed in place, any other is read, erased, merged and programmed as a whole
(`ReadSector`, `Erase`, `Program` once per halfword, `NextSector`, `Return`).
The locals of the function are the variables, `whole` tells which of the two
calls of `flash_write_nocheck` runs, `before` remembers the sector as it was
read. Erase and program operations may fail at any time (`EraseFails`,
`ProgramFails`), and so may the power (`Crash`).

`FlashStore` is the promise: a memory and a set of cells still to be replaced;
`WriteSector` replaces all of them that lie in one sector at once, `Succeed`
answers when none is left, `Fail` ends a request with one sector damaged (each
halfword what it was, erased, or already new) or none. `FlashWrite` implements
it with `mem` = the device, in which the sector being programmed counts as
`before` until its last halfword is done, and `want` = what the buffer still
holds for positions not written yet.

The run `flash` takes three sectors of two halfwords, every initial content over
two values, every range and every buffer: the range can start and end inside a
sector, cover a whole one in between, and meet erased and programmed sectors.

Proved for every size: `TypeCorrect`, `OnlyErasedProgrammed`, and the refinement
`ImplementsStore`. The invariant `WriteInv` says how far the sector is
programmed (`SectorProgrammed`: the target up to the index, erased or as before
after it), that a sector about to be erased is in the buffer (`SectorRead`), and
that the rest of the range lies in the device (`InRoom`). The arithmetic of
positions (`PositionSector`, `MissingCells`) tells the cells of the current
sector from those after it.

## 7. The panel: Keyboard, Ui, UiProofs

`Keyboard` is `keyboard.c`: per key the level last taken over, `count_down` and
`restart`, and the queue of events. A tick finds for each key what it samples
(`Pressed`, `Clicked`, `Released`, `Repeating`, `LongPressed`); `NextCount`,
`Status` and `Put` say what follows. Of several keys with something to report
only the last gets into the queue, as in the code. `Ui` EXTENDS it with `ui.c`
and the callbacks of `main.c`: an interrupt is one `Sample` (`keyboard_tick`),
then one `UiEvent` for each event in the queue, then one `UiTick`. `MoveKey`
comes between any two of them, so `keyboard_suppress_longpress` may read another
level than the sample did.

| action | code |
|---|---|
| `DoSelect`, `DoConfirm`, `DoIncrement`, `DoQuit`, `DoWake`, `TurnOffByEvent`, `Ignore` | `keyboard_triggered_state_transfer`, one branch each |
| `Start`, `WriteId`, `Show`, `CountDown`, `TurnOff`, `Stay` | `tick_triggered_state_transfer`, then the drawing in `ui_tick` (`Draw`) |

A page is a pair: the state it was drawn for and the number on it. `anew` is a
history variable for `OneHoldOneAction`.

The run `panel` has two ids of which one is valid, two timeouts in the list and a
stored one outside of it, long presses of three ticks, a second of one tick, and
timeouts of none and one second, so that the wrap of `screen_timeout_current`
below zero happens; a queue of two is never full because the panel empties it in every
interrupt (`QueueInv`). `ShowEnds` assumes that the timer interrupt keeps coming
(weak fairness of `Interrupt`) and nothing of the keys.

The run `keyboard_click` (**finding**) takes a key alone, with a reader that may
come late: `ClickedIsNotHeld` fails. A contact that bounces for the one tick in
which the click is reported is both clicked and held.

Proved for all sizes: `TypeCorrect`, `ScreenIsUpToDate`, `OneHoldActsOnce`,
`StoresTheShownId`. Their invariant `PanelInv` has three parts. `QueueInv`: at
most one event waits, and none when the keys are sampled. `EnterInv`: as long as
Enter has not gone down again after a confirmation, it waits for a press, its
level is taken as down if it is down (so no tick can find it pressed), and no
event of it waits. `ScreenInv`: the page is that of `last_ui_state` unless it is
forced, and `last_ui_state` is `ui_state` whenever an event is looked at.
`NoEventIsDropped` follows from `QueueInv`: `keyboard_tick` never finds the queue full.

`TimeoutIsExact` is the safety part of `ShowEnds`: `Left` is what remains of the timeout,
seconds and ticks of a second taken together; each `CountDown` takes one from it,
nothing else changes it while the page is up, and at zero the page is left. So the
page is lit for `(Second + 1) * (Seconds[screen_timeout] + 1)` ticks, and the decrement
of a counter that is zero does no harm. `ShowEnds` itself, that the ticks come, stays
with TLC, as every liveness property does.

The model follows the code in three points that a reader might not expect.
`ui_store_timeout_cb` stores nothing: `OD_set_u8` refuses an object of two bytes
(`CO_ODinterface.c:328`), so `stored_timeout` never changes here.
`timeout_to_seconds` ignores its parameter and looks at `screen_timeout`
(`ui.c:97`), so a timeout counts from the next status page on even if the edit was
quit, and the stored one only once its menu has been opened. `KEY_RELEASE` is
never sent, because `restart` is set just before it is tested
(`keyboard.c:102-103`).

## 8. Servos: Servo, ServoProofs

`Servo` is `simple_servo.c` with both functions of `homing_logic.c` and
`stall_detect.c`. `slot`, `num` and `cur` are `tracker`, `tracker_num` and the
`_cur_tracker` of every servo. Each servo has a place on a track of its own and a
motor that moves it between two ticks unless it is held up; pins and displacement
are functions of the place.

| action | code |
|---|---|
| `Home`, `HomeArm`, `Count` | `ss_home` with lines 60-69 of `start_homing`, lines 70-82, line 83: write the slot, set the pointers, count the slot. Every statement reads `tracker_num` again; the tick comes between these three groups, not inside one |
| `Position`, `PositionArm`, `Count` | the same in `ss_go_position_absolute` |
| `Overrun` | either command on a full list: the model stops there |
| `Wait` | the loops around `ss_is_homing` and `ss_is_moving` (`tests/test_simple_servo_motor.c`) |
| `TickBegin`, `TickEnd` | 500 ms pass; the loop of `tick_simple_servo` begins and ends |
| `Positioning`, `HomingBySwitch`, `HomingByDisplacement` | one turn of that loop: `tick_position`, `tick_homing`, and the removal of a finished tracker |
| `Wild` | a tracker whose pointers are overlaid: the model stops there |

A scene is the hardware and the habits of the user. The run `servo` has 12 places,
a zone of one for a switch, a fast speed of three places per tick and a slow one of
one; stop, stall and release times are the smallest number of ticks that is longer
than the constants (1 s, 5 s, 1 s at 500 ms) with one tick less for the stall, so
that a stop and a stall remain apart. Every kind of homing runs once from the ends
and the middle with motors that jam, and then several times, with positionings in
between, and with two servos whose user does not wait. `MaxTracker` is the length of the list,
`starts` bounds the commands; in one scene it is more than `MaxTracker`.

What the code does and a reader may not expect, all of it in the model:

- `min` and `max` are exchanged in `log.h:18-19`: a positioning always drives at full
  speed towards smaller positions (`Positioning`), and the travel limit of a homing is
  the larger of the two numbers.
- The travel comparison is unsigned: a servo below its start counts as having left the
  limit (`Limited`), so homing towards smaller positions from there ends at once.
- The tracker of a homing that succeeded stays in the list. It sets the origin at
  every tick; by displacement, some seconds later the stall detection turns
  `HR_SUCCESS` into `HR_NO_MOVE`, the result whose comment says "not moved at all".
- So the list fills up: `ASSERT` of a full list (`simple_servo.c:63`, `276`) only prints
  (`log.h:13`), and the command after `MAX_TRACKER` = 10 successful homings writes
  behind the array. That is `Overrun`; what follows is undefined and not modelled.
- While it stays, a second homing of the same servo is answered by the old tracker.
- A limit input that reads high ends the homing, one that reads low is the hit that
  the homing waits for; a homing on a limit input succeeds never (`LimitNeverHomes`).
- A tick that removes a tracker while `start_homing` runs moves `tracker_num`: the
  new tracker is lost and the last one counted a second time. `HomingTracked` and
  `Driven` hold all the same for one servo, because what is counted twice is a
  tracker of the same servo; with two, the second may wait for nothing.
- A tracker that `ss_go_position_absolute` began in one slot and finished in another
  one that holds a homing has wild pointers.
- Through `_cur_tracker == NULL` the stall detection reads whatever is there: `Fed`
  takes any result.

`HomingEnds` assumes weak fairness of the tick, that is of the timer. It is stated
for homing by displacement only: on a switch `MAX_WAITING_MS` is unused and a servo
that is held up waits for ever.

Proved for every number of servos, length of list and track, speed and time:
`TypeCorrect`, `DrivenAlways` (invariant `Inv`: a command that has begun on a list
with room keeps its slot, and the tracker of a turning motor survives every shift),
`FirstCommandsFit` (no more trackers than commands, counted or begun, so the list
overruns after `MaxTracker` commands at the earliest),
`HomingTrackedAlways` (`AloneInv`: if one servo alone is homed, every slot that is
counted belongs to it), `HomedOnSwitchAlways` and `LimitNeverHomesAlways`
(`SoloInv`: what each phase of a single homing says of the motor, the place and the
result).
`HomedAtEndAlways` needs a hypothesis on the constants, `Tuned`: `Slow * StopTicks >
StopDistance`, in `StopTicks` ticks the slow approach leaves the range within which the
detector takes it for stopped. The homing speed is the caller's choice
(`init_simple_servo`), so the code does not ensure it; without it the detector stops
the approach on its way and TLC finds the wrong origin (`StopTicks = 2` in the run). The
invariant `EndInv` counts: since the detector saw the servo move last, a homing in its
second approach is `Slow` steps further for every quiet tick or it is at the end
(`Approach`), and the stall detection that is fed is its own, armed (`Watching`).
`HomingEnds` is liveness and stays with TLC. Its safety part for a single homing is
`HomingCountsDownAlways`, a theorem no run repeats: from `Count` until a result is told, each step
of each tick lowers a number (`Left`) that is at most `Most`, and the steps of the main
loop do not touch it. Its digits are the stage of the homing, the way from where
movement was seen last to the end of the track, the ticks until a stall, and the steps
of the tick. That the second digit never grows is the point: the detector may overlook
`StopDistance` of movement, but in each stage the motor turns in one direction
only, so movement that is seen leads on (`GoingInv`, with `Turns`). It holds
whenever the servo is held up and for however long. The hypothesis
`StallTicks > 0` stands for `SD_STALL_TICK_THRESHOLD`, 5000 ms.
## 9. Bootloader: Bootloader, BootloaderProofs

`Bootloader` is `main.c`, `can.c` and `boot.c` of `02BootCode`: the modes of the
main loop, the receive interrupt, the functions that answer a frame, and the flash
they write. `mode`, `delay`, `cmd`, `buf`, `counter`, `ram` are `workmode`,
`gBootDelayCnt`, `canRxCmd`, `canRxBuf`, `counter`, `gSysRamBuf`; `at` is the block
number of a write or `i` of `Block_copy`; `tx` is the mailbox the code waits for.
`flawed` is history: the sectors whose last `flash_write` failed.

| action | code |
|---|---|
| `InitRam`, `WaitCount`, `Taken`, `Is` | `Init_Ram`; a pass of `Mode_WAIT`; the test of `canRxCmd`; one comparison of `canRxBuf` with a command |
| `Waiting`, `Booting` | the two cases; the first has no `break` and runs on into the second |
| `High`, `Low`, `First`, `Rest` | `main_data_transmit`: the two bytes of the number and the two halves of the data are read one after the other |
| `Number`, `Store` | `Block_done` and `Relay_Reset`: the block number, then `flash_write` sector by sector (`WriteSector`); where one fails (`FailSector`, `Torn`) the function goes on with the reply, as the code does |
| `CopyBegin`, `CopyRead`, `CopyWrite` | `Block_copy` |
| `Answer`, `Sent` | the reply, and the loop until the mailbox is empty |
| `Jump` | `boot_jump_to_app` |
| `Receive` | `USBFS_L_CAN1_RX0_IRQHandler`, between any two of these |
| `Deliver`, `Leave`, `PowerFailure` | bus, master, supply: external |

A master is a record: the length of its image, whether it waits for replies, whether
it requests every block (as the protocol document, 4.2, has it) or once, whether it
sends COMPLETE, the frame it begins with, whether it may disappear, whether its
board's flash may fail. A frame is its kind, block and number; a cell of the buffer
is where its two halves are from; a sector of the flash is half a block of cells. A
reply is taken for what it says. Left out of it is the checksum, which
`main_data_transmit` (`can.c:245`) sums up from a second reading of `canRxBuf` and not
from what it stored, and so are bytes the code never sets: `Block_done` sets `data[3]`
twice (278-279) and `data[4]` not at all, so the reply carries no block number and the
model's master counts the blocks itself.

Power fails once, at any time. The sector that is being written is torn (`Torn`: what
it held, or a beginning of the new content with erased halfwords behind it), the
variables are cleared and the bootloader runs again if its own sectors are whole. The
master then begins again, goes on with its next frame as if nothing had happened
(`cut`), or has gone (`Afterwards`).

The run `boot` has three sectors per area, one behind the backup, two frames per
block (so that a block has a first half and a second, and the two bytes of a number
can be of different frames), masters that wait with images of one and three blocks, with
and without COMPLETE, one of two blocks on a flash that fails at any sector, one that
requests every block, and five that do not wait: beginning with a request, a data
frame, DOE, COMPLETE or GOTOAPP, the last three also on a flash that fails. Three is the least area with a block that has a neighbour on both
sides. Weak fairness is assumed of the main loop (the processor runs), of the bus
and of a master that has not disappeared.

What the code does and a reader may not expect, all of it in the model:

- A block is 2048 halfwords, one byte in each, and fills two sectors; blocks are
  written 2048 bytes apart. Each overwrites the second half of the one before
  (`FirstHalfStored` says what remains), and the last of an image of 100 kB the
  sector at `0x0804B000`, where the old application keeps its parameters
  (`ParametersKept` is for shorter ones).
- A request is understood in `Mode_WAIT` only. A second one, one that arrives between
  the two tests of `canRxCmd`, and every request for a further block is taken for a
  data frame with number 0x5245, whose place is outside the RAM: pc is `lost`.
- A request received before `Init_Ram` is cleared by it; its flag remains.
- `GOTOAPP` is answered by `Relay_Reset`, which writes the buffer to block 0x4F41 first,
  far outside the flash: the processor may stop there, or nothing happens.
- `Block_copy` copies the first block of the backup again and again, from
  `INITADDRESS` on: over the bootloader that is running. It never replies, because
  `i` is `TOTALBLOCK` after the loop. `README.md:25-26` and the protocol document
  (4.2.4) mean the application's area. All invariants but `TypeOK` end where
  COMPLETE is sent.
- `flash_write` may fail; `can.c` puts the result in `err_status` in lines 268, 291 and
  324 and looks at none of them. The block is confirmed all the same, although the
  protocol document (4.2.3) has the reply sent when the data has been written: what
  `FirstHalfStored` promises of a confirmed block ends at a failed write, and no reply
  tells the master.
- The pass of `Mode_WAIT` that ends the waiting may still accept a request.
- `Mode_BOOT` has no timeout. `UploadEnds` therefore allows a master that disappears
  and a power failure, and `ApplicationReturns` says of a board that starts (the first
  time or after the failure) that the application runs if nobody sends, and that
  otherwise only an accepted request or a frame that stops the processor keeps it away.

Proved for every size of block and area, every waiting time and every set of masters:
`TypeCorrect` and `ProgramsKeptAlways` (invariant `Inv`), and, for a master that
waits, `AckedInRamAlways`, `FirstHalfStoredAlways`, `ParametersKeptAlways` and
`NoFaultOnceAcceptedAlways` from `PatientInv`: while the master waits, the frame in
flight is the one in `canRxBuf` and nothing else is on its way (`Flight`), it follows
on what was confirmed (`Follows`), and what the main loop has done of it is known at each
place (`Work`, `Kept`). `Follows` holds while the master is `Live`, that is until power
fails under it and it goes on all the same: its frames then meet a bootloader that knows
nothing of the transfer. A master that begins again is as good as a new one, on a flash
that may hold anything behind the programs. Masters that do not wait break all of them
but `ProgramsKept`; the document's 3 ms between frames are no guarantee, as a write to
flash takes longer. `TypeCorrect` is no bounds check: the index that
`main_data_transmit` computes from a command is `NoFrame`, and the processor is lost
there; that this does not happen to a master that waits is `NoFaultOnceAccepted`.

The liveness properties stay with TLC, but what could go wrong in them without any
question of fairness is proved. `UploadGoesOnAlways`: until all blocks of a master that
has not disappeared are confirmed, either the bootloader has its frame in hand, or the
master does not wait and has one to send; so the flag that the interrupt sets between
the tests of the main loop is never overlooked, and the two never wait for each other
(`HeardInv`). `CountsDownAlways`: outside `Mode_BOOT`, whatever frames arrive and whether
or not power failed before, every step of the main loop brings the application nearer
and no other step takes it further away (`Distance`: the passes of `Mode_WAIT` still to
come, `Pass` steps each, and what is left of this one), until a request is accepted, a
frame stops the processor, or power fails; at the start there are at most
`(3 * Area + 15) * (WaitTime + 2)` such steps. What is left to fairness is that the main
loop, the bus and the master take steps.

## 10. Laser sensor: LaserLink, LaserLinkProofs

`LaserLink` is a reading of the laser sensor that sends on its own, from the
interrupt handler of `tests/test_laser_displacement.c` through
`laser_displacement_get_distance`, `ModbusRTU_ReadResponse` and the two loops of
`rs232.c` down to the data register, with `get_ticks` and `ticks_diff` of `timer.c`.
A byte is its place in the frame; `whole` says that the bytes read so far are a
frame from its first on. `waited` and `polled` are history: how many ticks the timer
counted since the waiting began, and whether the loop has run since the last of them.

| action | code |
|---|---|
| `Interrupt`, `Store` | `USART3_IRQHandler`: the first byte raises it; it stores the distance or -1 |
| `Receive`, `TimedOut` | a turn of `rs232_receive`, and its timeout |
| `HeaderRead`, `RestRead` | `ModbusRTU_ReadResponse`: length or refusal, CRC |
| `Resync`, `ResyncTurn`, `ResyncFull` | `laser_displacement_resync` and the loop of `rs232_receive_variable` |
| `Tick`, `Count`, `TicksDiff` | `TMR6_GLOBAL_IRQHandler`, which preempts the handler; `ticks_diff` |
| `Send`, `Fault` | sensor, line: external |

The receiver is enabled anywhere in a frame, with an empty data register; a byte left in
it from before is one of the faults below. A header that is not whole is refused or gives
any length; the CRC is taken to find any damage. A fault is a byte lost, damaged or
added, a second tick before the loop runs, or an overflow of the timer that is
cleared at `timer.c:90` without having been counted. A reading is followed over any
number of frames; frames are sent within two ticks and are `Gap` apart.

The run `laser` has frames of four bytes (two parts of two), a message of six (so
that a wrong length ends before the next frame or in it), a tick counter of 21,
which goes round several times between two faults, and two faults of any kind at
any time: one may come while the other is still being recovered from.

- `Gap > Silence + 2`: a byte may be read one tick late, the last tick may come
  before the loop runs, and the turn of the counter loses one. With a shorter gap
  the resynchronisation ends at 260 bytes only, in the middle of a frame.
- `ticks_diff` is one short when the counter goes round (`4294967295 - last + tick`).
  `TimeoutsRight` says that nothing else is wrong with counted ticks: the time is never
  too long, and short by that one millisecond only. An overflow that is cleared at
  `timer.c:90` is no counted tick: it makes every wait under way a millisecond longer,
  and no property speaks of that millisecond. `ReadsAgain` meets it as a fault.
- `rs232_receive` with timeout 0 waits for ever (`motor_485_read_response`); any
  reading from the timer interrupt, as `simple_servo.c:140` could make one, could
  not time out, because the counter stands still there. Neither is in this model.
- A sensor that stops between two frames leaves the last distance in place: no byte,
  no interrupt. `ReadsAgain` assumes it goes on.

Fairness is weak, of handler, timer and sensor.

Proved for every frame, buffer, tick range, timeout and number of faults:
`TypeCorrect` (no length a header can hold leads out of the buffer) and
`TimeoutsRightAlways`. Invariant: what `rs232_receive` has summed up to its last turn
is right, or one short and then the counter went round so recently that it does
not again (`ReceiveClock`); `rs232_receive_variable` measures from the last byte
(`ResyncClock`).

Proved as well, for timeouts and a silence of more than a millisecond and a message that
is more than one byte longer than a frame (`Ample`; the code has 10, 3 and 260):
`StaysInStepAlways` and `OneBadReadingAlways`. A receiver is `Aligned` if the next byte, in
the register or on the line, is the one it takes it for, and will come before the loop
gives up. It stays so in every step in which nothing fails, and refuses no frame. One
that is enabled in the middle of a frame is `Searching`: what it reads is no frame, the
resynchronisation reads the end of one frame at most (`Resyncing`), cannot be full by
then, and ends in the silence behind it. So before the first fault only the first reading
can fail. The gap of `Silence + 2` is used where the resynchronisation, late by a tick
and by the turn of the counter, must still end before the next frame. TLC checked
`Aligned`, `Found` and both properties on the instance of the run `laser` before.
`ReadsAgain` stays with TLC: after a fault the receiver may be anywhere, and that it
is aligned again needs fairness.

## 11. What is proved, what is only checked, what is not modelled

Proved for every value of the constants, and checked by TLC on the instances
above: the type invariants of all eight parts (that of `LaserLink` by proof only), the four invariants of the transmit path and of its overflow report,
that sections of different levels exclude each other and that PRIMASK is lost by no
other way than a clash of two sections over one slot, one node id and a closed gate as long as the two levels
do not reset at once, a valid id on the status page and one the node uses, erased-before-programmed and the refinement of `FlashStore`, the
screen and the two rules of the panel, that every turning motor is watched and what
a homing reports, what a transfer to the bootloader leaves in RAM and flash,
what a timeout measures of the ticks that are counted, and that a serial receiver stays with its frames. Each rests on an inductive invariant,
named in its section. Assumptions are those of the constants (`TxAssumption`,
`UiAssumption`, ...), which TLC evaluates in every run.

Only model-checked: `CounterDrains`, `TimerAliveIfKept`, `Recovers`, `ShowEnds`,
`HomingEnds`, `UploadEnds`, `ApplicationReturns`, `ReadsAgain`, because the prover
does not handle fairness. Of four of them the part that is safety is proved:
`TimeoutIsExact` (the page is lit for just its timeout), `UploadGoesOnAlways` (nobody waits
for a frame that was overlooked), `CountsDownAlways` and `HomingCountsDownAlways` (a measure that each step
of the main loop, and of a tick, lowers); of `ReadsAgain`, that alignment is kept and found without faults
(`StaysInStepAlways`, `OneBadReadingAlways`). Four runs expect a violation; they show
where the code does not do what it or its documentation says, and have a counterexample
instead of a theorem.

Fairness is weak for whatever the processor or the timer runs next. It is strong where
the code's progress is interrupted again and again: the bus (section 3), the entry, the
exit and the outermost unlock of a level that others preempt (section 4), and the main
loop's resets between those of the timer (section 5). Nothing is assumed of
users and other nodes; the bootloader's master is fair until it disappears (section 9),
the laser sensor goes on sending (section 10).

Not modelled, and why:

- generated tables, vendored code, register-level drivers, the links to the slave
  boards and their firmware, the old application: sequential, or no state of their own;
- reception on the CAN bus (a sequential scan into callbacks of CANopenNode) and which
  error bits `CO_CANmodule_process` derives from the controller;
- requests over the serial lines and their answers (`modbus_rtu.c:86` compares an
  answer with nothing of its request): one transfer that the caller waits for, and
  whether a device answers late enough to be mistaken is not in the code;
- the capacitive sensor: its value depends on the electrical clock and on when the
  reader looks, and nothing promises a reader more than the last three bytes;
- the block device under littlefs: sequential address arithmetic for vendored code.
  `block_device_erase` takes the start of the first bank, where the program is, and
  unlocks the second; read and program use the storage area (`CO_storageLittleFS.c:103`
  against lines 45 and 62). It does so at every call, which needs no search to see;
- timing is modelled by order, except where ticks are counted (sections 8 to 10): how
  long an interrupt takes, or a bus frame, appears nowhere.
