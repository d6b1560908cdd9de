------------------------------ MODULE Keyboard ------------------------------
(***************************************************************************)
(* The keys (src/user/subsystem/keyboard.c).  Every millisecond the timer  *)
(* interrupt samples every key, counts, and puts at most one event into a  *)
(* queue.                                                                  *)
(***************************************************************************)
EXTENDS Integers, Sequences

CONSTANTS
  NKey,      \* keyboard_monitor_num
  Cycle,     \* REPEATIVE_TRIGGER_CYCLE
  QueueSize  \* KEYBOARD_MAX_KEYS

Keys == 0 .. NKey - 1

\* SCHMITT_TRIGGER_PRESS
PressCount == 2

ASSUME KeyboardAssumption ==
  /\ NKey \in Nat \ {0}
  /\ Cycle \in Nat /\ Cycle > PressCount
  /\ QueueSize \in Nat \ {0}

VARIABLES
  down,     \* the key is pushed down
  taken,    \* key_last_val: "up", "down", or "new", which is neither
  count,    \* count_down
  restart,  \* waiting for a press only
  queue     \* keyboard_event_queue

keyVars == <<down, taken, count, restart, queue>>

Statuses == {"press", "clicked", "longpress"}
Events == [key : Keys, status : Statuses]

KeyboardTypeOK ==
  /\ down \in [Keys -> BOOLEAN]
  /\ taken \in [Keys -> {"up", "down", "new"}]
  /\ count \in [Keys -> 0 .. Cycle]
  /\ restart \in [Keys -> BOOLEAN]
  /\ queue \in Seq(Events) /\ Len(queue) <= QueueSize

KeyboardInit ==
  /\ down \in [Keys -> BOOLEAN]
  /\ taken = [k \in Keys |-> "new"]
  /\ count = [k \in Keys |-> 0]
  /\ restart = [k \in Keys |-> TRUE]
  /\ queue = <<>>

\* The user, or a bouncing contact.
Flip(k) ==
  /\ down' = [down EXCEPT ![k] = ~down[k]]
  /\ UNCHANGED <<taken, count, restart, queue>>

-----------------------------------------------------------------------------
Level(k) == IF down[k] THEN "down" ELSE "up"
Changed(k) == taken[k] # Level(k)

\* What a sample finds.
Pressed(k) == Changed(k) /\ down[k] /\ count[k] = 1
Clicked(k) == Changed(k) /\ ~down[k] /\ count[k] = 2 /\ ~restart[k]
Released(k) == Changed(k) /\ ~down[k] /\ count[k] = 1
Repeating(k) == ~Changed(k) /\ down[k] /\ ~restart[k]
LongPressed(k) == Repeating(k) /\ count[k] = 1

Status(k) ==
  CASE Pressed(k) -> "press" [] Clicked(k) -> "clicked" [] LongPressed(k) -> "longpress"

\* count_down runs down to the next event; a level that is not taken yet
\* starts it.
NextCount(k) ==
  CASE Pressed(k) \/ LongPressed(k) -> Cycle
    [] Changed(k) /\ count[k] = 0 -> IF down[k] THEN PressCount - 1 ELSE PressCount
    [] OTHER -> IF (Changed(k) \/ Repeating(k)) /\ count[k] > 0 THEN count[k] - 1 ELSE count[k]

\* The keys that have something to report; only the last of them does.
Triggered == {k \in Keys : Pressed(k) \/ Clicked(k) \/ LongPressed(k)}
Last == CHOOSE k \in Triggered : \A j \in Triggered : j <= k

Put ==
  queue' = IF Triggered # {} /\ Len(queue) < QueueSize
           THEN Append(queue, [key |-> Last, status |-> Status(Last)])
           ELSE queue

KeyboardTick ==
  /\ Put
  /\ count' = [k \in Keys |-> NextCount(k)]
  /\ taken' = [k \in Keys |-> IF Pressed(k) \/ Released(k) THEN Level(k) ELSE taken[k]]
  /\ restart' = [k \in Keys |-> IF Pressed(k) THEN FALSE ELSE Released(k) \/ restart[k]]
  /\ UNCHANGED down

\* keyboard_get_event
Get ==
  /\ queue # <<>>
  /\ queue' = Tail(queue)

\* Mutant: the suppressed key is not told to wait for a press.
SuppressKeepsRestart(k) ==
  /\ count' = [count EXCEPT ![k] = 0]
  /\ taken' = [taken EXCEPT ![k] = Level(k)]
  /\ restart' = restart

\* keyboard_suppress_longpress, with the level it reads.
Suppress(k) ==
  /\ count' = [count EXCEPT ![k] = 0]
  /\ taken' = [taken EXCEPT ![k] = Level(k)]
  /\ restart' = [restart EXCEPT ![k] = TRUE]

-----------------------------------------------------------------------------
\* A user and a reader on their own, as in tests/test_keyboard.c.
Environment ==
  \/ \E k \in Keys : Flip(k)
  \/ Get /\ UNCHANGED <<down, taken, count, restart>>

KeyboardNext == KeyboardTick \/ Environment

KeyboardSpec == KeyboardInit /\ [][KeyboardNext]_keyVars
=============================================================================
