--------------------------------- MODULE Ui ---------------------------------
(***************************************************************************)
(* The panel of the site (src/user/subsystem/ui.c) on top of its two keys: *)
(* menus, the station id, the screen timeout.  Both run in the timer       *)
(* interrupt, first keyboard_tick, then ui_tick_wrap, which calls ui_tick  *)
(* until the event queue is empty; the keys move at any time.              *)
(***************************************************************************)
EXTENDS Keyboard

CONSTANTS
  NId,       \* 256: station ids
  Valid,     \* what CO_LSS_NODE_ID_VALID lets pass
  DefaultId, \* 1
  NTimeout,  \* SCREENTIMEOUT_COUNT
  Seconds,   \* timeout_to_seconds, a function
  Second     \* ticks of a second: 1000

Enter == 0
Select == 1

Ids == 0 .. NId - 1
\* A timeout that is stored need not be one of the list.
Timeouts == 0 .. NTimeout

\* The range of a uint16_t.
Width == 65536

ASSUME UiAssumption ==
  /\ NKey = 2
  /\ NId \in Nat \ {0}
  /\ Valid \subseteq Ids /\ DefaultId \in Ids
  /\ NTimeout \in Nat \ {0}
  /\ Seconds \in [Timeouts -> 0 .. Width - 1]
  /\ Second \in Nat

VARIABLES
  state,          \* ui_state
  last,           \* last_ui_state
  lit,            \* the display is on
  page,           \* what the display shows: a state and a number
  station_id,     \* the id being edited
  stored_id,      \* object 0x2114
  screen_timeout, \* the timeout being edited, and in use
  stored_timeout, \* object 0x2115
  current,        \* screen_timeout_current
  ms,             \* screen_timeout_current_ms_counter
  pc,             \* what the timer interrupt runs next
  anew            \* history: Enter went down since it last confirmed something

uiVars == <<state, last, lit, page, station_id, stored_id, screen_timeout, stored_timeout,
            current, ms, pc, anew>>
vars == <<keyVars, uiVars>>

Menus == {"menuStatus", "menuSetup", "menuScreenoff", "menuTimeout"}
Edits == {"setId", "setTimeout"}
States == Menus \cup Edits \cup
  {"init", "doShow", "show", "doScreenoff", "waiting", "doWrite"}

TypeOK ==
  /\ KeyboardTypeOK
  /\ state \in States /\ last \in States
  /\ lit \in BOOLEAN
  /\ page \in States \X Nat
  /\ station_id \in Ids /\ stored_id \in Ids
  /\ screen_timeout \in Timeouts /\ stored_timeout \in Timeouts
  /\ current \in 0 .. Width - 1
  /\ ms \in 0 .. Second
  /\ pc \in {"keys", "ui"}
  /\ anew \in BOOLEAN

Init ==
  /\ KeyboardInit
  /\ state = "init" /\ last = "init"
  /\ lit = TRUE
  /\ page = <<"init", 0>>
  /\ station_id = 0 /\ stored_id \in Ids
  /\ screen_timeout = 0 /\ stored_timeout \in Timeouts
  /\ current = 0 /\ ms = 0
  /\ pc = "keys"
  /\ anew = TRUE

\* ui_get_id_cb
GetId == IF stored_id \in Valid THEN stored_id ELSE DefaultId

MoveKey(k) ==
  /\ Flip(k)
  /\ anew' = (anew \/ (k = Enter /\ down'[k]))
  /\ UNCHANGED <<state, last, lit, page, station_id, stored_id, screen_timeout, stored_timeout,
                 current, ms, pc>>

Sample ==
  /\ pc = "keys"
  /\ KeyboardTick
  /\ pc' = "ui"
  /\ UNCHANGED <<state, last, lit, page, station_id, stored_id, screen_timeout, stored_timeout,
                 current, ms, anew>>

-----------------------------------------------------------------------------
(* keyboard_triggered_state_transfer                                        *)

Is(key, statuses) == Head(queue).key = key /\ Head(queue).status \in statuses

\* Where a click of Select goes, and a long press of Enter.
Selected ==
  [s \in Menus |->
     CASE s = "menuStatus" -> "menuSetup"
       [] s = "menuSetup" -> "menuScreenoff"
       [] s = "menuScreenoff" -> "menuTimeout"
       [] s = "menuTimeout" -> "menuStatus"]
Confirmed ==
  [s \in {"show"} \cup Menus \cup Edits |->
     CASE s = "show" -> "menuStatus"
       [] s = "menuStatus" -> "doShow"
       [] s = "menuSetup" -> "setId"
       [] s = "menuScreenoff" -> "doScreenoff"
       [] s = "menuTimeout" -> "setTimeout"
       [] s = "setId" -> "doWrite"
       [] s = "setTimeout" -> "doShow"]

Selects == state \in DOMAIN Selected /\ Is(Select, {"clicked"})
Confirms == state \in DOMAIN Confirmed /\ Is(Enter, {"longpress"})
Increments == state \in Edits /\ Is(Select, {"clicked", "longpress"})
Quits == state \in Edits /\ Is(Enter, {"clicked"})
Wakes == state = "waiting" /\ (Is(Select, {"clicked"}) \/ Is(Enter, {"clicked"}))

\* An event is taken from the queue; all but a confirmation leave the keys alone.
Event == pc = "ui" /\ Get
KeysAlone == UNCHANGED <<down, taken, count, restart>>

DoSelect ==
  /\ Event /\ Selects /\ KeysAlone
  /\ state' = Selected[state]
  /\ UNCHANGED <<last, lit, page, station_id, stored_id, screen_timeout, stored_timeout,
                 current, ms, pc, anew>>

\* The callback that stores a confirmed timeout writes one byte to an object of
\* two, which the object dictionary refuses.
DoConfirm ==
  /\ Event /\ Confirms
  /\ Suppress(Enter) /\ UNCHANGED down
  /\ state' = Confirmed[state]
  /\ station_id' = IF state = "menuSetup" THEN GetId ELSE station_id
  /\ screen_timeout' = IF state = "menuTimeout" THEN stored_timeout ELSE screen_timeout
  /\ anew' = FALSE
  /\ UNCHANGED <<last, lit, page, stored_id, stored_timeout, current, ms, pc>>

\* Mutant: the page is not drawn again.
IncrementUnseen == last' = last

\* Make ui_tick draw the page again.
ForceRefresh == last' = "init"

\* Mutant: no way back to the first.
IncrementUnbounded(x, n) == x + 1

Increment(x, n) == (x + 1) % n

DoIncrement ==
  /\ Event /\ Increments /\ KeysAlone
  /\ ForceRefresh
  /\ station_id' = IF state = "setId" THEN Increment(station_id, NId) ELSE station_id
  /\ screen_timeout' = IF state = "setTimeout" THEN Increment(screen_timeout, NTimeout)
                       ELSE screen_timeout
  /\ UNCHANGED <<state, lit, page, stored_id, stored_timeout, current, ms, pc, anew>>

DoQuit ==
  /\ Event /\ Quits /\ KeysAlone
  /\ state' = "doShow"
  /\ UNCHANGED <<last, lit, page, station_id, stored_id, screen_timeout, stored_timeout,
                 current, ms, pc, anew>>

\* Mutant: the menu is entered in the dark.
WakesDark == lit' = lit

\* oled_display_on, but not for the status page: its tick does that.
WakesLit == lit' = (lit \/ Is(Select, {"clicked"}))

DoWake ==
  /\ Event /\ Wakes /\ KeysAlone
  /\ state' = IF Is(Select, {"clicked"}) THEN "menuStatus" ELSE "doShow"
  /\ WakesLit
  /\ UNCHANGED <<last, page, station_id, stored_id, screen_timeout, stored_timeout,
                 current, ms, pc, anew>>

\* Any event finds the screen about to be turned off.
TurnOffByEvent ==
  /\ Event /\ KeysAlone
  /\ state = "doScreenoff"
  /\ state' = "waiting" /\ lit' = FALSE
  /\ UNCHANGED <<last, page, station_id, stored_id, screen_timeout, stored_timeout,
                 current, ms, pc, anew>>

Ignore ==
  /\ Event /\ KeysAlone
  /\ state # "doScreenoff"
  /\ ~(Selects \/ Confirms \/ Increments \/ Quits \/ Wakes)
  /\ UNCHANGED uiVars

-----------------------------------------------------------------------------
(* tick_triggered_state_transfer, and the drawing of a new page.            *)

\* What the page of a state shows.
Content(s) ==
  CASE s = "show" -> <<s, GetId>>
    [] s = "setId" -> <<s, station_id>>
    [] s = "setTimeout" -> <<s, screen_timeout>>
    [] s \in Menus -> <<s, 0>>
    [] OTHER -> <<"init", 0>>

Draw ==
  /\ page' = IF last # state' THEN Content(state') ELSE page
  /\ last' = state'
  /\ pc' = "keys"

Tick == pc = "ui" /\ queue = <<>> /\ UNCHANGED <<keyVars, station_id, anew>>

Start ==
  /\ Tick /\ state = "init"
  /\ state' = "doShow"
  /\ Draw
  /\ UNCHANGED <<lit, stored_id, screen_timeout, stored_timeout, current, ms>>

\* ui_store_id_cb
WriteId ==
  /\ Tick /\ state = "doWrite"
  /\ state' = "doShow"
  /\ stored_id' = station_id
  /\ Draw
  /\ UNCHANGED <<lit, screen_timeout, stored_timeout, current, ms>>

\* timeout_to_seconds does not look at its parameter, the stored timeout, but
\* at screen_timeout.
Show ==
  /\ Tick /\ state = "doShow"
  /\ state' = "show"
  /\ ms' = Second /\ current' = Seconds[screen_timeout]
  /\ lit' = TRUE
  /\ Draw
  /\ UNCHANGED <<stored_id, screen_timeout, stored_timeout>>

\* Mutant: the last second does not pass.
NextSecondStays == current' = IF current <= 1 THEN current ELSE current - 1

NextSecond == current' = (current - 1) % Width

CountDown ==
  /\ Tick /\ state = "show"
  /\ IF ms = 0
     THEN /\ ms' = Second
          /\ state' = IF current = 0 THEN "doScreenoff" ELSE state
          /\ NextSecond
     ELSE /\ ms' = ms - 1
          /\ UNCHANGED <<state, current>>
  /\ Draw
  /\ UNCHANGED <<lit, stored_id, screen_timeout, stored_timeout>>

TurnOff ==
  /\ Tick /\ state = "doScreenoff"
  /\ state' = "waiting" /\ lit' = FALSE
  /\ Draw
  /\ UNCHANGED <<stored_id, screen_timeout, stored_timeout, current, ms>>

Stay ==
  /\ Tick /\ state \in Menus \cup Edits \cup {"waiting"}
  /\ state' = state
  /\ Draw
  /\ UNCHANGED <<lit, stored_id, screen_timeout, stored_timeout, current, ms>>

-----------------------------------------------------------------------------
UiEvent ==
  \/ DoSelect
  \/ DoConfirm
  \/ DoIncrement
  \/ DoQuit
  \/ DoWake
  \/ TurnOffByEvent
  \/ Ignore

UiTick ==
  \/ Start
  \/ WriteId
  \/ Show
  \/ CountDown
  \/ TurnOff
  \/ Stay

Interrupt == Sample \/ UiEvent \/ UiTick

Next == (\E k \in Keys : MoveKey(k)) \/ Interrupt

Spec == Init /\ [][Next]_vars

\* The timer interrupt comes every millisecond.
FairSpec == Spec /\ WF_vars(Interrupt)

-----------------------------------------------------------------------------
\* After every ui_tick_wrap the display shows the page of the state with the
\* number being edited, although a page is drawn only when the state changes
\* (last_ui_state), and it is dark only while the panel waits to be woken.
ScreenUpToDate ==
  pc = "keys" /\ state \notin {"init", "doShow"} =>
    /\ lit <=> state # "waiting"
    /\ lit => page = Content(state)

\* A confirmation or a way out by Enter takes a push of its own: holding the key
\* confirms once, and letting go of it after that is not a click.
OneHoldOneAction == [][UiEvent /\ (Confirms \/ Quits) => anew]_vars

\* The id that is stored is the one the display showed when it was confirmed.
StoresWhatWasShown == [][stored_id' # stored_id => page = <<"setId", stored_id'>>]_vars

\* The status page comes to an end whether or not keys are touched.
ShowEnds == (state = "show") ~> (state # "show")
=============================================================================
