------------------------------ MODULE UiProofs ------------------------------
(* Theorems about Ui: types, the screen, the keys and the screen timeout.   *)
EXTENDS Ui, TLAPS

LEMMA WidthNat == Width \in Nat \ {0}
BY SMT DEF Width

USE KeyboardAssumption, UiAssumption

-----------------------------------------------------------------------------
(* The keys.                                                                *)

LEMMA TwoKeys == Keys = {Enter, Select} /\ Enter # Select
BY SMT DEF Keys, Enter, Select

\* If a key has something to report, Last is one that has.
LEMMA LastTriggered == Triggered # {} => Last \in Triggered
<1>1. Triggered \subseteq {0, 1}
  BY SMT DEF Triggered, Keys
<1>2. ASSUME Triggered # {}
      PROVE \E k \in Triggered : \A j \in Triggered : j <= k
  <2>1. CASE 1 \in Triggered
    <3>1. \A j \in Triggered : j <= 1
      BY <1>1, SMT
    <3> QED
      BY <2>1, <3>1
  <2>2. CASE 1 \notin Triggered
    <3>1. Triggered = {0}
      BY <1>1, <1>2, <2>2
    <3> QED
      BY <3>1, SMT
  <2> QED
    BY <2>1, <2>2
<1> QED
  BY <1>2, Zenon DEF Last

LEMMA StatusType ==
  ASSUME NEW k \in Triggered
  PROVE  [key |-> k, status |-> Status(k)] \in Events
<1>1. Pressed(k) \/ Clicked(k) \/ LongPressed(k)
  BY DEF Triggered
<1>2. Status(k) \in Statuses
  BY <1>1 DEF Status, Statuses
<1>3. k \in Keys
  BY DEF Triggered
<1> QED
  BY <1>2, <1>3, Zenon DEF Events

\* A tick puts one event of a key that has something to report, or none.
LEMMA PutEvent ==
  ASSUME KeyboardTypeOK, Put
  PROVE  \/ queue' = queue
         \/ \E k \in Triggered : /\ Len(queue) < QueueSize
                                 /\ queue' = Append(queue, [key |-> k, status |-> Status(k)])
<1>1. CASE Triggered # {} /\ Len(queue) < QueueSize
  BY <1>1, LastTriggered, Zenon DEF Put
<1>2. CASE ~(Triggered # {} /\ Len(queue) < QueueSize)
  BY <1>2, Zenon DEF Put
<1> QED
  BY <1>1, <1>2

LEMMA CountType ==
  ASSUME KeyboardTypeOK, NEW k \in Keys
  PROVE  NextCount(k) \in 0 .. Cycle
<1>1. count[k] \in 0 .. Cycle
  BY Zenon DEF KeyboardTypeOK
<1>2. 1 \in 0 .. Cycle /\ 2 \in 0 .. Cycle /\ Cycle \in 0 .. Cycle
  BY SMT DEF PressCount
<1>3. count[k] > 0 => count[k] - 1 \in 0 .. Cycle
  BY <1>1, SMT
<1>4. CASE Pressed(k) \/ LongPressed(k)
  <2>1. ~(Changed(k) /\ count[k] = 0)
    BY <1>4, SMT DEF Pressed, LongPressed
  <2> QED
    BY <1>2, <1>4, <2>1, Zenon DEF NextCount
<1>5. CASE Changed(k) /\ count[k] = 0
  <2>1. ~(Pressed(k) \/ LongPressed(k))
    BY <1>5, SMT DEF Pressed, LongPressed
  <2>2. NextCount(k) = IF down[k] THEN PressCount - 1 ELSE PressCount
    BY <1>5, <2>1, Zenon DEF NextCount
  <2> QED
    BY <2>2, SMT DEF PressCount
<1>6. CASE ~(Pressed(k) \/ LongPressed(k)) /\ ~(Changed(k) /\ count[k] = 0)
  <2>1. NextCount(k) = IF (Changed(k) \/ Repeating(k)) /\ count[k] > 0 THEN count[k] - 1 ELSE count[k]
    BY <1>6, Zenon DEF NextCount
  <2> QED
    BY <1>1, <1>3, <2>1, Zenon
<1> QED
  BY <1>4, <1>5, <1>6

LEMMA KeyboardTickType ==
  ASSUME KeyboardTypeOK, KeyboardTick
  PROVE  KeyboardTypeOK'
<1>1. queue' \in Seq(Events) /\ Len(queue') <= QueueSize
  <2>1. CASE queue' = queue
    BY <2>1 DEF KeyboardTypeOK
  <2>2. CASE \E k \in Triggered : /\ Len(queue) < QueueSize
                                  /\ queue' = Append(queue, [key |-> k, status |-> Status(k)])
    <3>1. PICK k \in Triggered : /\ Len(queue) < QueueSize
                                 /\ queue' = Append(queue, [key |-> k, status |-> Status(k)])
      BY <2>2
    <3>2. [key |-> k, status |-> Status(k)] \in Events
      BY StatusType
    <3>3. queue \in Seq(Events)
      BY DEF KeyboardTypeOK
    <3> QED
      BY <3>1, <3>2, <3>3, SMT
  <2> QED
    BY <2>1, <2>2, PutEvent DEF KeyboardTick
<1>2. count' \in [Keys -> 0 .. Cycle]
  BY CountType, Zenon DEF KeyboardTick
<1>3. taken' \in [Keys -> {"up", "down", "new"}]
  <2>1. \A k \in Keys : (IF Pressed(k) \/ Released(k) THEN Level(k) ELSE taken[k]) \in {"up", "down", "new"}
    BY Zenon DEF KeyboardTypeOK, Level
  <2> QED
    BY <2>1, Zenon DEF KeyboardTick
<1>4. restart' \in [Keys -> BOOLEAN]
  <2>1. \A k \in Keys : (IF Pressed(k) THEN FALSE ELSE Released(k) \/ restart[k]) \in BOOLEAN
    BY Zenon
  <2> QED
    BY <2>1, Zenon DEF KeyboardTick
<1> QED
  BY <1>1, <1>2, <1>3, <1>4, Zenon DEF KeyboardTick, KeyboardTypeOK

LEMMA GetType ==
  ASSUME KeyboardTypeOK, Get
  PROVE  /\ queue' \in Seq(Events) /\ Len(queue') <= QueueSize
         /\ Len(queue') = Len(queue) - 1 /\ Len(queue) \in Nat /\ Len(queue') \in Nat
         /\ Head(queue) \in Events
BY SMT DEF KeyboardTypeOK, Get

LEMMA SuppressType ==
  ASSUME KeyboardTypeOK, Suppress(Enter)
  PROVE  /\ count' \in [Keys -> 0 .. Cycle]
         /\ taken' \in [Keys -> {"up", "down", "new"}]
         /\ restart' \in [Keys -> BOOLEAN]
<1>1. Enter \in Keys /\ 0 \in 0 .. Cycle
  BY TwoKeys, SMT
<1>2. Level(Enter) \in {"up", "down", "new"}
  BY DEF Level
<1> QED
  BY <1>1, <1>2, Zenon DEF KeyboardTypeOK, Suppress

LEMMA FlipType ==
  ASSUME KeyboardTypeOK, NEW k \in Keys, Flip(k)
  PROVE  KeyboardTypeOK'
<1>1. down' \in [Keys -> BOOLEAN]
  BY Zenon DEF KeyboardTypeOK, Flip
<1> QED
  BY <1>1, Zenon DEF KeyboardTypeOK, Flip

-----------------------------------------------------------------------------
(* Types.                                                                   *)

LEMMA EventKeys ==
  ASSUME TypeOK, Event, KeysAlone
  PROVE  KeyboardTypeOK'
<1>1. queue' \in Seq(Events) /\ Len(queue') <= QueueSize
  BY GetType DEF TypeOK, Event
<1> QED
  BY <1>1, Zenon DEF TypeOK, KeyboardTypeOK, KeysAlone

LEMMA ConfirmKeys ==
  ASSUME TypeOK, DoConfirm
  PROVE  KeyboardTypeOK'
<1>1. queue' \in Seq(Events) /\ Len(queue') <= QueueSize
  BY GetType DEF TypeOK, Event, DoConfirm
<1>2. /\ count' \in [Keys -> 0 .. Cycle]
      /\ taken' \in [Keys -> {"up", "down", "new"}]
      /\ restart' \in [Keys -> BOOLEAN]
  BY SuppressType DEF TypeOK, DoConfirm
<1> QED
  BY <1>1, <1>2, Zenon DEF TypeOK, KeyboardTypeOK, DoConfirm

LEMMA SelectedFacts ==
  \A s \in DOMAIN Selected : s \in Menus /\ Selected[s] \in Menus /\ Selected[s] # s
BY Zenon DEF Selected, Menus

LEMMA ConfirmedFacts ==
  /\ DOMAIN Confirmed = {"show"} \cup Menus \cup Edits
  /\ Confirmed["show"] = "menuStatus"
  /\ Confirmed["menuStatus"] = "doShow"
  /\ Confirmed["menuSetup"] = "setId"
  /\ Confirmed["menuScreenoff"] = "doScreenoff"
  /\ Confirmed["menuTimeout"] = "setTimeout"
  /\ Confirmed["setId"] = "doWrite"
  /\ Confirmed["setTimeout"] = "doShow"
BY Zenon DEF Confirmed, Menus, Edits

LEMMA ConfirmedStates ==
  \A s \in DOMAIN Confirmed : Confirmed[s] \in States
BY ConfirmedFacts, SMT DEF States, Menus, Edits

LEMMA IncrementType ==
  ASSUME NEW n \in Nat \ {0}, NEW x \in Nat
  PROVE  Increment(x, n) \in 0 .. n - 1
BY SMT DEF Increment

\* What Draw and the pages are made of.
LEMMA ContentType ==
  ASSUME TypeOK, NEW s \in States
  PROVE  Content(s) \in States \X Nat
<1>1. GetId \in Nat /\ station_id \in Nat /\ screen_timeout \in Nat
  BY SMT DEF TypeOK, GetId, Ids, Timeouts
<1>2. "init" \in States /\ 0 \in Nat
  BY DEF States
<1> QED
  BY <1>1, <1>2, SMT DEF Content

LEMMA InitType == Init => TypeOK
<1> SUFFICES ASSUME Init PROVE TypeOK
  OBVIOUS
<1>1. 0 \in 0 .. Cycle /\ 0 \in Ids /\ 0 \in Timeouts /\ 0 \in 0 .. Width - 1
      /\ 0 \in 0 .. Second /\ 0 <= QueueSize
  BY WidthNat, SMT DEF Ids, Timeouts
<1>2. <<>> \in Seq(Events) /\ Len(<<>>) = 0
  OBVIOUS
<1>3. KeyboardTypeOK
  BY <1>1, <1>2, Zenon DEF Init, KeyboardInit, KeyboardTypeOK
<1>4. "init" \in States /\ <<"init", 0>> \in States \X Nat
  BY DEF States
<1> QED
  BY <1>1, <1>3, <1>4, Zenon DEF Init, TypeOK

LEMMA MoveKeyType ==
  ASSUME TypeOK, NEW k \in Keys, MoveKey(k)
  PROVE  TypeOK'
<1>1. KeyboardTypeOK'
  BY FlipType DEF TypeOK, MoveKey
<1>2. anew' \in BOOLEAN
  <2>1. anew' = (anew \/ (k = Enter /\ down'[k]))
    BY DEF MoveKey
  <2>2. (anew \/ (k = Enter /\ down'[k])) \in BOOLEAN
    BY Zenon
  <2> QED
    BY <2>1, <2>2, Zenon
<1> QED
  BY <1>1, <1>2, Zenon DEF TypeOK, MoveKey

LEMMA SampleType ==
  ASSUME TypeOK, Sample
  PROVE  TypeOK'
<1>1. KeyboardTypeOK'
  BY KeyboardTickType DEF TypeOK, Sample
<1> QED
  BY <1>1, Zenon DEF TypeOK, Sample

LEMMA EventType ==
  ASSUME TypeOK, UiEvent
  PROVE  TypeOK'
<1>1. CASE DoSelect
  <2>1. KeyboardTypeOK'
    BY <1>1, EventKeys DEF DoSelect
  <2>2. state' \in States
    BY <1>1, SelectedFacts, SMT DEF DoSelect, Selects, States
  <2> QED
    BY <1>1, <2>1, <2>2, Zenon DEF TypeOK, DoSelect
<1>2. CASE DoConfirm
  <2>1. KeyboardTypeOK'
    BY <1>2, ConfirmKeys
  <2>2. state' \in States
    BY <1>2, ConfirmedStates, Zenon DEF DoConfirm, Confirms
  <2>3. station_id' \in Ids /\ screen_timeout' \in Timeouts
    BY <1>2, Zenon DEF TypeOK, DoConfirm, GetId
  <2> QED
    BY <1>2, <2>1, <2>2, <2>3, Zenon DEF TypeOK, DoConfirm
<1>3. CASE DoIncrement
  <2>1. KeyboardTypeOK'
    BY <1>3, EventKeys DEF DoIncrement
  <2>2. Increment(station_id, NId) \in Ids
    <3>1. station_id \in Nat
      BY SMT DEF TypeOK, Ids
    <3> QED
      BY <3>1, IncrementType DEF Ids
  <2>3. Increment(screen_timeout, NTimeout) \in Timeouts
    <3>1. screen_timeout \in Nat
      BY SMT DEF TypeOK, Timeouts
    <3>2. Increment(screen_timeout, NTimeout) \in 0 .. NTimeout - 1
      BY <3>1, IncrementType
    <3> QED
      BY <3>2, SMT DEF Timeouts
  <2>4. last' = "init" /\ "init" \in States
    BY <1>3 DEF DoIncrement, ForceRefresh, States
  <2> QED
    BY <1>3, <2>1, <2>2, <2>3, <2>4, Zenon DEF TypeOK, DoIncrement
<1>4. CASE DoQuit
  <2>1. KeyboardTypeOK' /\ "doShow" \in States
    BY <1>4, EventKeys DEF DoQuit, States
  <2> QED
    BY <1>4, <2>1, Zenon DEF TypeOK, DoQuit
<1>5. CASE DoWake
  <2>1. KeyboardTypeOK' /\ "doShow" \in States /\ "menuStatus" \in States
    BY <1>5, EventKeys DEF DoWake, States, Menus
  <2>2. lit' \in BOOLEAN
    BY <1>5, Zenon DEF DoWake, WakesLit
  <2> QED
    BY <1>5, <2>1, <2>2, Zenon DEF TypeOK, DoWake
<1>6. CASE TurnOffByEvent
  <2>1. KeyboardTypeOK' /\ "waiting" \in States
    BY <1>6, EventKeys DEF TurnOffByEvent, States
  <2> QED
    BY <1>6, <2>1, Zenon DEF TypeOK, TurnOffByEvent
<1>7. CASE Ignore
  <2>1. KeyboardTypeOK'
    BY <1>7, EventKeys DEF Ignore
  <2> QED
    BY <1>7, <2>1, Zenon DEF TypeOK, Ignore, uiVars
<1> QED
  BY <1>1, <1>2, <1>3, <1>4, <1>5, <1>6, <1>7 DEF UiEvent

LEMMA TickType ==
  ASSUME TypeOK, UiTick
  PROVE  TypeOK'
<1>1. KeyboardTypeOK' /\ UNCHANGED <<station_id, anew>>
  BY SMT DEF UiTick, Start, WriteId, Show, CountDown, TurnOff, Stay, Tick, keyVars,
     TypeOK, KeyboardTypeOK
<1>2. state' \in States
  BY Zenon DEF UiTick, Start, WriteId, Show, CountDown, TurnOff, Stay, States, TypeOK
<1>3. stored_id' \in Ids /\ UNCHANGED <<screen_timeout, stored_timeout>>
  BY SMT DEF UiTick, Start, WriteId, Show, CountDown, TurnOff, Stay, TypeOK
<1>4. lit' \in BOOLEAN
  BY Zenon DEF UiTick, Start, WriteId, Show, CountDown, TurnOff, Stay, TypeOK
<1>5. ms' \in 0 .. Second
  BY SMT DEF UiTick, Start, WriteId, Show, CountDown, TurnOff, Stay, TypeOK
<1>6. current' \in 0 .. Width - 1
  <2>2. (current - 1) % Width \in 0 .. Width - 1
    <3>1. current - 1 \in Int
      BY WidthNat, SMT DEF TypeOK
    <3> QED
      BY WidthNat, <3>1, SMT
  <2>3. Seconds[screen_timeout] \in 0 .. Width - 1
    BY Zenon DEF TypeOK
  <2> QED
    BY <2>2, <2>3, Zenon DEF UiTick, Start, WriteId, Show, CountDown, NextSecond, TurnOff, Stay, TypeOK
<1>7. Draw
  BY DEF UiTick, Start, WriteId, Show, CountDown, TurnOff, Stay
<1>8. page' \in States \X Nat
  <2>3. Content(state') \in States \X Nat
    BY <1>2, ContentType
  <2> QED
    BY <1>7, <2>3, Zenon DEF Draw, TypeOK
<1> QED
  BY <1>1, <1>2, <1>3, <1>4, <1>5, <1>6, <1>7, <1>8, Zenon DEF TypeOK, Draw

LEMMA NextType ==
  ASSUME TypeOK, [Next]_vars
  PROVE  TypeOK'
<1>1. CASE UNCHANGED vars
  BY <1>1, SMT DEF vars, keyVars, uiVars, TypeOK, KeyboardTypeOK
<1>2. CASE \E k \in Keys : MoveKey(k)
  BY <1>2, MoveKeyType
<1>3. CASE Interrupt
  BY <1>3, SampleType, EventType, TickType DEF Interrupt
<1> QED
  BY <1>1, <1>2, <1>3 DEF Next

\* For every number of ids and timeouts and every behaviour of the contacts, the
\* variables of the keys and of the panel keep their types.
THEOREM TypeCorrect == Spec => []TypeOK
BY InitType, NextType, PTL DEF Spec

-----------------------------------------------------------------------------
(* The inductive invariant.                                                 *)

\* ui_tick_wrap empties the queue before the keys are sampled again.
QueueInv == Len(queue) <= 1 /\ (pc = "keys" => queue = <<>>)

\* An event of Enter that the panel would act on.
EnterEvent ==
  /\ queue # <<>>
  /\ Head(queue).key = Enter /\ Head(queue).status \in {"clicked", "longpress"}

\* A suppressed key that has not been let go is taken as down, and one that has
\* waits for a press.
EnterInv ==
  ~anew => /\ restart[Enter]
           /\ down[Enter] => taken[Enter] = "down"
           /\ ~EnterEvent

\* The page on display is that of last_ui_state, unless that is to be drawn again.
PageInv == last # "init" => page = Content(last)

\* Outside of ui_tick_wrap, and when it begins, last_ui_state is ui_state.
SettledInv == pc = "keys" \/ queue # <<>> => last = state

\* An id is written from the page that shows it.
WriteInv == state = "doWrite" => last = "setId"

\* The display is dark only while waiting.
LitInv == state \notin {"init", "doShow"} => (lit <=> state # "waiting")

ScreenInv == PageInv /\ SettledInv /\ WriteInv /\ LitInv

PanelInv == TypeOK /\ QueueInv /\ EnterInv /\ ScreenInv

LEMMA QueueNext ==
  ASSUME TypeOK, QueueInv, [Next]_vars
  PROVE  QueueInv'
<1>1. queue \in Seq(Events) /\ Len(queue) \in Nat
  BY SMT DEF TypeOK, KeyboardTypeOK
<1>2. CASE UNCHANGED vars
  BY <1>2, SMT DEF vars, keyVars, uiVars, QueueInv
<1>3. CASE \E k \in Keys : MoveKey(k)
  BY <1>3, SMT DEF MoveKey, Flip, QueueInv
<1>4. CASE Sample
  <2>1. queue = <<>> /\ pc' = "ui"
    BY <1>4, SMT DEF Sample, QueueInv
  <2>2. queue' = queue \/ \E e \in Events : queue' = Append(queue, e)
    BY <1>4, PutEvent, StatusType, Zenon DEF Sample, KeyboardTick, TypeOK
  <2>3. <<>> \in Seq(Events) /\ Len(<<>>) = 0
    OBVIOUS
  <2>4. \A e \in Events : Len(Append(<<>>, e)) = 1
    BY <2>3, SMT
  <2>5. Len(queue') = 0 \/ Len(queue') = 1
    BY <2>1, <2>2, <2>3, <2>4, Zenon
  <2>6. 0 <= 1 /\ 1 <= 1
    BY SMT
  <2>7. Len(queue') <= 1
    BY <2>5, <2>6, Zenon
  <2> QED
    BY <2>1, <2>7, Zenon DEF QueueInv
<1>5. CASE UiEvent
  <2>1. Event /\ pc' = pc
    BY <1>5, SMT DEF UiEvent, DoSelect, DoConfirm, DoIncrement, DoQuit, DoWake, TurnOffByEvent,
       Ignore, uiVars
  <2>2. Len(queue') = Len(queue) - 1
    BY <2>1, GetType DEF Event, TypeOK
  <2>3. pc' = "ui"
    BY <2>1 DEF Event
  <2>4. Len(queue) <= 1
    BY DEF QueueInv
  <2>5. Len(queue') <= 1
    BY <1>1, <2>2, <2>4, SMT
  <2> QED
    BY <2>3, <2>5, Zenon DEF QueueInv
<1>6. CASE UiTick
  <2>1. queue = <<>> /\ queue' = queue
    BY <1>6, SMT DEF UiTick, Start, WriteId, Show, CountDown, TurnOff, Stay, Tick, keyVars
  <2> QED
    BY <2>1, SMT DEF QueueInv
<1> QED
  BY <1>2, <1>3, <1>4, <1>5, <1>6 DEF Next, Interrupt

\* After an event the queue is empty.
LEMMA EventEmpties ==
  ASSUME TypeOK, QueueInv, Event
  PROVE  queue # <<>> /\ queue' = <<>>
<1>1. queue \in Seq(Events) /\ queue # <<>> /\ queue' = Tail(queue) /\ Len(queue) <= 1
  BY DEF TypeOK, KeyboardTypeOK, QueueInv, Event, Get
<1>2. queue' \in Seq(Events) /\ Len(queue') = Len(queue) - 1 /\ Len(queue') \in Nat
  BY GetType DEF TypeOK, Event
<1>3. Len(queue') = 0
  BY <1>1, <1>2, SMT
<1> QED
  BY <1>1, <1>2, <1>3, SMT

LEMMA EnterNext ==
  ASSUME TypeOK, QueueInv, EnterInv, [Next]_vars
  PROVE  EnterInv'
<1>1. CASE UNCHANGED vars
  BY <1>1, SMT DEF vars, keyVars, uiVars, EnterInv, EnterEvent
<1>2. ASSUME NEW k \in Keys, MoveKey(k)
      PROVE  EnterInv'
  <2>1. /\ UNCHANGED <<taken, restart, queue>> /\ down' = [down EXCEPT ![k] = ~down[k]]
        /\ anew' = (anew \/ (k = Enter /\ down'[k]))
    BY <1>2, SMT DEF MoveKey, Flip
  <2>2. ASSUME ~anew', down'[Enter]
        PROVE  ~anew /\ down[Enter]
    <3>1. ~anew /\ k # Enter
      BY <2>1, <2>2
    <3>2. down'[Enter] = down[Enter]
      BY <2>1, <3>1, TwoKeys, Zenon DEF TypeOK, KeyboardTypeOK
    <3> QED
      BY <2>2, <3>1, <3>2
  <2>3. EnterEvent' <=> EnterEvent
    BY <2>1 DEF EnterEvent
  <2> QED
    BY <2>1, <2>2, <2>3, Zenon DEF EnterInv
<1>3. CASE Sample
  <2>1. KeyboardTick /\ anew' = anew /\ down' = down /\ queue = <<>>
    BY <1>3, SMT DEF Sample, KeyboardTick, QueueInv
  <2>2. SUFFICES ASSUME ~anew' PROVE EnterInv'
    BY DEF EnterInv
  <2>3. restart[Enter] /\ (down[Enter] => taken[Enter] = "down")
    BY <2>1, <2>2 DEF EnterInv
  <2>4. ~Pressed(Enter) /\ ~Clicked(Enter) /\ ~LongPressed(Enter)
    BY <2>3, Zenon DEF Pressed, Clicked, LongPressed, Repeating, Changed, Level
  <2>5. Enter \in Keys
    BY TwoKeys
  <2>6. restart'[Enter]
    BY <2>1, <2>3, <2>4, <2>5, Zenon DEF KeyboardTick
  <2>7. taken'[Enter] = IF Released(Enter) THEN Level(Enter) ELSE taken[Enter]
    BY <2>1, <2>4, <2>5, Zenon DEF KeyboardTick
  <2>8. down'[Enter] => taken'[Enter] = "down"
    BY <2>1, <2>3, <2>7, Zenon DEF Released
  <2>9. ~EnterEvent'
    <3>1. Enter \notin Triggered
      BY <2>4 DEF Triggered
    <3>2. CASE queue' = queue
      BY <2>1, <3>2 DEF EnterEvent
    <3>3. CASE \E k \in Triggered : queue' = Append(queue, [key |-> k, status |-> Status(k)])
      <4>1. PICK k \in Triggered : queue' = Append(queue, [key |-> k, status |-> Status(k)])
        BY <3>3
      <4>2. Head(queue') = [key |-> k, status |-> Status(k)]
        BY <2>1, <4>1, SMT
      <4>3. Head(queue').key = k
        BY <4>2
      <4> QED
        BY <3>1, <4>3, Zenon DEF EnterEvent
    <3> QED
      BY <2>1, <3>2, <3>3, PutEvent, Zenon DEF KeyboardTick, TypeOK
  <2> QED
    BY <2>6, <2>8, <2>9 DEF EnterInv
<1>4. CASE UiEvent
  <2>1. Event
    BY <1>4 DEF UiEvent, DoSelect, DoConfirm, DoIncrement, DoQuit, DoWake, TurnOffByEvent, Ignore
  <2>2. ~EnterEvent'
    BY <2>1, EventEmpties DEF EnterEvent
  <2>3. CASE DoConfirm
    <3>1. Suppress(Enter) /\ down' = down /\ Enter \in Keys
      BY <2>3, TwoKeys DEF DoConfirm
    <3>2. restart'[Enter] /\ taken'[Enter] = Level(Enter)
      BY <3>1, Zenon DEF Suppress, TypeOK, KeyboardTypeOK
    <3> QED
      BY <2>2, <3>1, <3>2 DEF EnterInv, Level
  <2>4. CASE ~DoConfirm
    <3>1. KeysAlone /\ anew' = anew
      BY <1>4, <2>4, SMT DEF UiEvent, DoSelect, DoIncrement, DoQuit, DoWake, TurnOffByEvent, Ignore, uiVars
    <3> QED
      BY <2>2, <3>1, SMT DEF KeysAlone, EnterInv
  <2> QED
    BY <2>3, <2>4
<1>5. CASE UiTick
  <2>1. UNCHANGED <<down, taken, restart, queue, anew>>
    BY <1>5, SMT DEF UiTick, Start, WriteId, Show, CountDown, TurnOff, Stay, Tick, keyVars
  <2> QED
    BY <2>1, SMT DEF EnterInv, EnterEvent
<1> QED
  BY <1>1, <1>2, <1>3, <1>4, <1>5 DEF Next, Interrupt

-----------------------------------------------------------------------------
(* The screen.                                                              *)

\* An event leaves the page alone, and changes the number on it only when the
\* page is to be drawn again.
LEMMA ScreenEvent ==
  ASSUME TypeOK, QueueInv, ScreenInv, UiEvent
  PROVE  ScreenInv'
<1>1. Event /\ page' = page /\ pc' = "ui" /\ stored_id' = stored_id
  BY SMT DEF UiEvent, DoSelect, DoConfirm, DoIncrement, DoQuit, DoWake, TurnOffByEvent, Ignore,
     Event, uiVars
<1>2. queue' = <<>> /\ queue # <<>>
  BY <1>1, EventEmpties
<1>3. SettledInv'
  BY <1>1, <1>2, Zenon DEF SettledInv
<1>4. last = state /\ PageInv /\ WriteInv /\ LitInv
  BY <1>2, Zenon DEF ScreenInv, SettledInv
<1>5. PageInv'
  <2>1. CASE DoConfirm
    <3>1. last' = last /\ state \in DOMAIN Confirmed
      BY <2>1 DEF DoConfirm, Confirms
    <3>2. CASE state \in Menus
      BY <1>1, <1>4, <3>1, <3>2, Zenon DEF PageInv, Content, Menus
    <3>3. CASE state \notin Menus
      <4>1. station_id' = station_id /\ screen_timeout' = screen_timeout
        BY <2>1, <3>3, Zenon DEF DoConfirm, Menus
      <4> QED
        BY <1>1, <1>4, <3>1, <4>1, Zenon DEF PageInv, Content, GetId
    <3> QED
      BY <3>2, <3>3
  <2>2. CASE DoIncrement
    BY <2>2, Zenon DEF DoIncrement, ForceRefresh, PageInv
  <2>3. CASE ~DoConfirm /\ ~DoIncrement
    <3>1. last' = last /\ UNCHANGED <<station_id, screen_timeout>>
      BY <2>3, SMT DEF UiEvent, DoSelect, DoQuit, DoWake, TurnOffByEvent, Ignore, uiVars
    <3> QED
      BY <1>1, <1>4, <3>1, Zenon DEF PageInv, Content, GetId
  <2> QED
    BY <2>1, <2>2, <2>3
<1>6. WriteInv' /\ LitInv'
  <2>1. CASE DoSelect
    <3>1. state \in Menus /\ state' \in Menus /\ lit' = lit
      BY <2>1, SelectedFacts DEF DoSelect, Selects
    <3> QED
      BY <1>4, <3>1, SMT DEF WriteInv, LitInv, Menus
  <2>2. CASE DoConfirm
    <3>1. state \in {"show"} \cup Menus \cup Edits /\ state' = Confirmed[state] /\ lit' = lit
          /\ last' = last
      BY <2>2, ConfirmedFacts DEF DoConfirm, Confirms
    <3>2. state' # "waiting" /\ (state' = "doWrite" => state = "setId")
      BY <3>1, ConfirmedFacts, SMT DEF Menus, Edits
    <3>3. state # "waiting" /\ state \notin {"init", "doShow"}
      BY <3>1, SMT DEF Menus, Edits
    <3> QED
      BY <1>4, <3>1, <3>2, <3>3, Zenon DEF WriteInv, LitInv
  <2>3. CASE DoIncrement
    BY <1>4, <2>3, SMT DEF DoIncrement, Increments, Edits, WriteInv, LitInv
  <2>4. CASE DoQuit
    BY <1>4, <2>4, SMT DEF DoQuit, WriteInv, LitInv
  <2>5. CASE DoWake
    <3>1. CASE Is(Select, {"clicked"})
      BY <2>5, <3>1, Zenon DEF DoWake, WakesLit, WriteInv, LitInv
    <3>2. CASE ~Is(Select, {"clicked"})
      BY <2>5, <3>2, Zenon DEF DoWake, WriteInv, LitInv
    <3> QED
      BY <3>1, <3>2
  <2>6. CASE TurnOffByEvent
    BY <2>6, Zenon DEF TurnOffByEvent, WriteInv, LitInv
  <2>7. CASE Ignore
    BY <1>4, <2>7, Zenon DEF Ignore, uiVars, WriteInv, LitInv
  <2> QED
    BY <2>1, <2>2, <2>3, <2>4, <2>5, <2>6, <2>7 DEF UiEvent
<1> QED
  BY <1>3, <1>5, <1>6 DEF ScreenInv

\* ui_tick draws the page of the state it ends in, if the state changed.
LEMMA ScreenTick ==
  ASSUME TypeOK, ScreenInv, UiTick
  PROVE  ScreenInv'
<1>1. Draw /\ queue' = <<>> /\ station_id' = station_id /\ screen_timeout' = screen_timeout
  BY SMT DEF UiTick, Start, WriteId, Show, CountDown, TurnOff, Stay, Tick, keyVars
<1>2. last' = state' /\ page' = IF last # state' THEN Content(state') ELSE page
  BY <1>1 DEF Draw
<1>3. SettledInv'
  BY <1>2 DEF SettledInv
<1>4. state' # "init" /\ state' # "doWrite"
  BY SMT DEF UiTick, Start, WriteId, Show, CountDown, TurnOff, Stay, Menus, Edits
<1>5. WriteInv'
  BY <1>4, Zenon DEF WriteInv
<1>6. LitInv'
  <2>1. CASE Start \/ WriteId
    BY <2>1, Zenon DEF Start, WriteId, LitInv
  <2>2. CASE Show \/ TurnOff
    BY <2>2, Zenon DEF Show, TurnOff, LitInv
  <2>3. CASE CountDown
    <3>1. state = "show" /\ lit' = lit /\ state' \in {"show", "doScreenoff"}
      BY <2>3, Zenon DEF CountDown
    <3> QED
      BY <3>1, SMT DEF ScreenInv, LitInv
  <2>4. CASE Stay
    BY <2>4, SMT DEF Stay, ScreenInv, LitInv
  <2> QED
    BY <2>1, <2>2, <2>3, <2>4 DEF UiTick
<1>7. PageInv'
  <2>1. CASE state' = "doShow"
    <3>1. Content("doShow") = <<"init", 0>>
      BY Zenon DEF Content, Menus
    <3>2. page' = <<"init", 0>>
      BY <1>2, <2>1, <3>1, Zenon DEF ScreenInv, PageInv
    <3> QED
      BY <1>2, <2>1, <3>2, Zenon DEF PageInv, Content, Menus
  <2>2. CASE state' # "doShow"
    <3>1. stored_id' = stored_id
      BY <2>2, SMT DEF UiTick, Start, WriteId, Show, CountDown, TurnOff, Stay
    <3> QED
      BY <1>1, <1>2, <1>4, <2>2, <3>1, Zenon DEF ScreenInv, PageInv, Content, GetId
  <2> QED
    BY <2>1, <2>2
<1> QED
  BY <1>3, <1>5, <1>6, <1>7 DEF ScreenInv

LEMMA ScreenNext ==
  ASSUME TypeOK, QueueInv, ScreenInv, [Next]_vars
  PROVE  ScreenInv'
<1>1. CASE UNCHANGED vars
  BY <1>1, Zenon DEF vars, keyVars, uiVars, ScreenInv, PageInv, SettledInv, WriteInv, LitInv, Content, GetId
<1>2. CASE \E k \in Keys : MoveKey(k)
  <2>1. UNCHANGED <<queue, state, last, lit, page, pc, station_id, stored_id, screen_timeout>>
    BY <1>2, SMT DEF MoveKey, Flip
  <2> QED
    BY <2>1, Zenon DEF ScreenInv, PageInv, SettledInv, WriteInv, LitInv, Content, GetId
<1>3. CASE Sample
  <2>1. UNCHANGED <<state, last, lit, page, station_id, stored_id, screen_timeout>> /\ pc = "keys"
    BY <1>3, SMT DEF Sample
  <2> QED
    BY <2>1, Zenon DEF ScreenInv, PageInv, SettledInv, WriteInv, LitInv, Content, GetId
<1>4. CASE UiEvent
  BY <1>4, ScreenEvent
<1>5. CASE UiTick
  BY <1>5, ScreenTick
<1> QED
  BY <1>1, <1>2, <1>3, <1>4, <1>5 DEF Next, Interrupt

-----------------------------------------------------------------------------
(* The theorems.                                                            *)

LEMMA PanelInit == Init => PanelInv
<1> SUFFICES ASSUME Init PROVE PanelInv
  OBVIOUS
<1>1. QueueInv
  BY SMT DEF Init, KeyboardInit, QueueInv
<1>2. ScreenInv
  BY Zenon DEF Init, ScreenInv, PageInv, SettledInv, WriteInv, LitInv
<1> QED
  BY <1>1, <1>2, InitType, Zenon DEF Init, EnterInv, PanelInv

LEMMA PanelNext == PanelInv /\ [Next]_vars => PanelInv'
BY NextType, QueueNext, EnterNext, ScreenNext DEF PanelInv

LEMMA PanelInvariant == Spec => []PanelInv
BY PanelInit, PanelNext, PTL DEF Spec

\* After every ui_tick_wrap the page and the number on display are those of the
\* state, whatever the keys did, for every number of ids and timeouts.
THEOREM ScreenIsUpToDate == Spec => []ScreenUpToDate
<1>1. PanelInv => ScreenUpToDate
  <2> SUFFICES ASSUME PanelInv, pc = "keys", state \notin {"init", "doShow"}
               PROVE  (lit <=> state # "waiting") /\ page = Content(state)
    BY DEF ScreenUpToDate
  <2>1. last = state
    BY DEF PanelInv, ScreenInv, SettledInv
  <2> QED
    BY <2>1, Zenon DEF PanelInv, ScreenInv, PageInv, LitInv
<1> QED
  BY <1>1, PanelInvariant, PTL

\* The panel acts on Enter only if Enter went down after its last confirmation.
THEOREM OneHoldActsOnce == Spec => OneHoldOneAction
<1>1. PanelInv /\ [Next]_vars => [UiEvent /\ (Confirms \/ Quits) => anew]_vars
  <2> SUFFICES ASSUME PanelInv, UiEvent, Confirms \/ Quits
               PROVE  anew
    OBVIOUS
  <2>1. queue # <<>>
    BY DEF UiEvent, DoSelect, DoConfirm, DoIncrement, DoQuit, DoWake, TurnOffByEvent, Ignore,
       Event, Get
  <2>2. EnterEvent
    BY <2>1, Zenon DEF Confirms, Quits, Is, EnterEvent
  <2> QED
    BY <2>2 DEF PanelInv, EnterInv
<1> QED
  BY <1>1, PanelInvariant, PTL DEF Spec, OneHoldOneAction

\* An id reaches the object dictionary only from the page that shows it.
THEOREM StoresTheShownId == Spec => StoresWhatWasShown
<1>1. PanelInv /\ [Next]_vars => [stored_id' # stored_id => page = <<"setId", stored_id'>>]_vars
  <2> SUFFICES ASSUME PanelInv, Next, stored_id' # stored_id
               PROVE  page = <<"setId", stored_id'>>
    BY DEF vars, uiVars
  <2>1. WriteId
    BY SMT DEF Next, Interrupt, MoveKey, Sample, UiEvent, DoSelect, DoConfirm, DoIncrement, DoQuit,
       DoWake, TurnOffByEvent, Ignore, uiVars, UiTick, Start, Show, CountDown, TurnOff, Stay
  <2>2. last = "setId" /\ stored_id' = station_id
    BY <2>1 DEF WriteId, PanelInv, ScreenInv, WriteInv
  <2>3. page = Content("setId")
    BY <2>2 DEF PanelInv, ScreenInv, PageInv
  <2>4. Content("setId") = <<"setId", station_id>>
    BY Zenon DEF Content, Menus
  <2> QED
    BY <2>2, <2>3, <2>4
<1> QED
  BY <1>1, PanelInvariant, PTL DEF Spec, StoresWhatWasShown

-----------------------------------------------------------------------------
(* The screen timeout.                                                      *)

\* The ticks until the status page goes dark.
Left == (Second + 1) * current + ms

InTime == state = "show" => current <= Seconds[screen_timeout]

LEMMA SecondLess ==
  ASSUME NEW c \in Nat
  PROVE  /\ (Second + 1) * c \in Nat
         /\ c = 0 => (Second + 1) * c = 0
         /\ c # 0 => (Second + 1) * c = (Second + 1) * (c - 1) + Second + 1
<1>1. Second \in Nat
  OBVIOUS
<1>2. (Second + 1) * c \in Nat /\ (c = 0 => (Second + 1) * c = 0)
  BY <1>1, SMT
<1>3. ASSUME c # 0 PROVE (Second + 1) * c = (Second + 1) * (c - 1) + Second + 1
  BY <1>1, <1>3, SMT
<1> QED
  BY <1>2, <1>3

\* A tick of the page takes one of them, the last one turns it off.
LEMMA TickLeft ==
  ASSUME TypeOK, CountDown
  PROVE  IF Left = 0 THEN state' = "doScreenoff" ELSE state' = "show" /\ Left' = Left - 1
<1>1. /\ current \in Nat /\ current < Width /\ ms \in Nat /\ Second \in Nat /\ Width \in Nat
      /\ Second + 1 > 0
  BY WidthNat, SMT DEF TypeOK
<1>2. state = "show"
  BY DEF CountDown
<1>3. CASE ms # 0
  <2>1. state' = "show" /\ current' = current /\ ms' = ms - 1
    BY <1>2, <1>3 DEF CountDown
  <2>2. Left # 0
    BY <1>1, <1>3, SecondLess, SMT DEF Left
  <2>3. Left' = Left - 1
    BY <1>1, <2>1, SecondLess, SMT DEF Left
  <2> QED
    BY <2>1, <2>2, <2>3
<1>4. CASE ms = 0 /\ current = 0
  <2>1. state' = "doScreenoff"
    BY <1>4 DEF CountDown
  <2>2. Left = 0
    BY <1>1, <1>4, SecondLess, SMT DEF Left
  <2> QED
    BY <2>1, <2>2
<1>5. CASE ms = 0 /\ current # 0
  <2>1. state' = "show" /\ ms' = Second /\ current' = (current - 1) % Width
    BY <1>2, <1>5 DEF CountDown, NextSecond
  <2>2. current' = current - 1
    BY <1>1, <1>5, <2>1, SMT
  <2>3. (Second + 1) * current = (Second + 1) * (current - 1) + Second + 1
        /\ (Second + 1) * (current - 1) \in Nat
    <3>1. current - 1 \in Nat
      BY <1>1, <1>5, SMT
    <3> QED
      BY <1>1, <1>5, <3>1, SecondLess
  <2>4. Left # 0 /\ Left' = Left - 1
    <3> DEFINE p == (Second + 1) * (current - 1)
    <3>1. Left = (p + Second + 1) + 0 /\ Left' = p + Second
      BY <1>5, <2>1, <2>2, <2>3, Zenon DEF Left
    <3>2. p \in Nat /\ Second \in Nat
      BY <1>1, <2>3
    <3> HIDE DEF p
    <3> QED
      BY <3>1, <3>2, SMT
  <2> QED
    BY <2>1, <2>4
<1> QED
  BY <1>3, <1>4, <1>5

\* No key keeps the page lit, or shortens it.
LEMMA KeysLeaveTime ==
  ASSUME TypeOK, [Next]_vars, state = "show", ~CountDown
  PROVE  state' # "show" \/ UNCHANGED <<state, current, ms, screen_timeout>>
<1>1. CASE UNCHANGED vars \/ (\E k \in Keys : MoveKey(k)) \/ Sample
  BY <1>1 DEF vars, uiVars, MoveKey, Sample
<1>2. CASE UiEvent
  BY <1>2 DEF UiEvent, DoSelect, DoConfirm, DoIncrement, DoQuit, DoWake, TurnOffByEvent,
     Ignore, uiVars, Selects, Selected, Confirms, Confirmed, Increments, Edits, Menus
<1>3. ~UiTick
  BY DEF UiTick, Start, WriteId, Show, TurnOff, Stay, Menus, Edits
<1> QED
  BY <1>1, <1>2, <1>3 DEF Next, Interrupt

LEMMA InTimeNext == TypeOK /\ InTime /\ [Next]_vars => InTime'
<1> SUFFICES ASSUME TypeOK, InTime, [Next]_vars, state' = "show"
             PROVE  current' <= Seconds'[screen_timeout']
  BY DEF InTime
<1>0. /\ Seconds \in [Timeouts -> 0 .. Width - 1] /\ screen_timeout \in Timeouts
      /\ current \in Nat /\ Width \in Nat /\ current < Width /\ Seconds[screen_timeout] \in Nat
  BY WidthNat, SMT DEF TypeOK
<1>1. CASE state = "show" /\ ~CountDown
  BY <1>1, KeysLeaveTime DEF InTime
<1>2. CASE CountDown
  <2>1. screen_timeout' = screen_timeout /\ state = "show"
    BY <1>2 DEF CountDown
  <2>2. ms # 0 => current' = current
    BY <1>2 DEF CountDown
  <2>3. ms = 0 => current # 0 /\ current' = (current - 1) % Width
    BY <1>2 DEF CountDown, NextSecond
  <2>4. current' <= current
    BY <1>0, <2>2, <2>3, SMT
  <2> DEFINE c == Seconds[screen_timeout]
  <2>5. current <= c /\ c \in Nat
    BY <1>0, <2>1 DEF InTime
  <2>6. current' \in Int
    BY <1>0, <2>2, <2>3, SMT
  <2> HIDE DEF c
  <2>7. current' <= c
    BY <1>0, <2>4, <2>5, <2>6, SMT
  <2> QED
    BY <2>1, <2>7, Zenon DEF c
<1>3. CASE state # "show"
  <2>1. Show
    BY <1>3 DEF Next, Interrupt, MoveKey, Sample, UiEvent, DoSelect, DoConfirm, DoIncrement,
       DoQuit, DoWake, TurnOffByEvent, Ignore, uiVars, vars, UiTick, Start, WriteId, CountDown,
       TurnOff, Stay, Selects, Selected, Confirms, Confirmed, Increments, Edits, Menus
  <2> QED
    BY <1>0, <2>1, SMT DEF Show
<1> QED
  BY <1>1, <1>2, <1>3 DEF CountDown

\* The status page is lit for Seconds[screen_timeout] + 1 times Second + 1 ticks
\* of its own, unless it is left: a key that is touched neither prolongs nor
\* shortens that time, and the counter never runs past zero.
TimeoutExact ==
  [][state = "show" =>
       IF CountDown
       THEN IF Left = 0 THEN state' = "doScreenoff" ELSE state' = "show" /\ Left' = Left - 1
       ELSE state' # "show" \/ Left' = Left]_vars
InTimeLeft == state = "show" => Left < (Second + 1) * (Seconds[screen_timeout] + 1)

\* For every list of timeouts and every length of a second, whatever the keys do.
THEOREM TimeoutIsExact == Spec => TimeoutExact /\ []InTimeLeft
<1>1. TypeOK /\ [Next]_vars =>
        [state = "show" =>
           IF CountDown
           THEN IF Left = 0 THEN state' = "doScreenoff" ELSE state' = "show" /\ Left' = Left - 1
           ELSE state' # "show" \/ Left' = Left]_vars
  <2> SUFFICES ASSUME TypeOK, [Next]_vars, state = "show"
               PROVE  IF CountDown
                      THEN IF Left = 0 THEN state' = "doScreenoff"
                           ELSE state' = "show" /\ Left' = Left - 1
                      ELSE state' # "show" \/ Left' = Left
    OBVIOUS
  <2>1. CASE CountDown
    BY <2>1, TickLeft
  <2>2. CASE ~CountDown
    BY <2>2, KeysLeaveTime DEF Left
  <2> QED
    BY <2>1, <2>2
<1>2. Init => InTime
  BY DEF Init, InTime
<1>3. TypeOK /\ InTime => InTimeLeft
  <2> SUFFICES ASSUME TypeOK, state = "show", current <= Seconds[screen_timeout]
               PROVE  Left < (Second + 1) * (Seconds[screen_timeout] + 1)
    BY DEF InTime, InTimeLeft
  <2> DEFINE c == Seconds[screen_timeout]
  <2>1. c \in Nat /\ current \in Nat /\ ms \in Nat /\ ms <= Second /\ Second \in Nat
        /\ current <= c
    BY WidthNat, SMT DEF TypeOK
  <2> HIDE DEF c
  <2>2. (Second + 1) * current <= (Second + 1) * c
    <3>1. PICK d \in Nat : c = current + d
      BY <2>1, SMT
    <3>2. (Second + 1) * c = (Second + 1) * current + (Second + 1) * d
          /\ (Second + 1) * d \in Nat /\ (Second + 1) * current \in Nat
      BY <2>1, <3>1, SMT
    <3> QED
      BY <3>2, SMT
  <2>3. (Second + 1) * (c + 1) = (Second + 1) * c + Second + 1
        /\ (Second + 1) * c \in Nat /\ (Second + 1) * current \in Nat
    BY <2>1, SMT
  <2>4. Left < (Second + 1) * (c + 1)
    BY <2>1, <2>2, <2>3, SMT DEF Left
  <2> QED
    BY <2>4 DEF c
<1> QED
  BY <1>1, <1>2, <1>3, InTimeNext, TypeCorrect, PTL DEF Spec, TimeoutExact

-----------------------------------------------------------------------------
(* The queue.                                                               *)

\* ui_tick_wrap empties the queue in every interrupt, so that keyboard_tick
\* never finds it full and drops what a key did.
NoEventDropped ==
  [][Sample /\ Triggered # {} => queue' = <<[key |-> Last, status |-> Status(Last)]>>]_vars

\* For every size of the queue, and every key.
THEOREM NoEventIsDropped == Spec => NoEventDropped
<1>1. PanelInv /\ [Next]_vars =>
        [Sample /\ Triggered # {} => queue' = <<[key |-> Last, status |-> Status(Last)]>>]_vars
  <2> SUFFICES ASSUME PanelInv, Sample, Triggered # {}
               PROVE  queue' = <<[key |-> Last, status |-> Status(Last)]>>
    OBVIOUS
  <2>1. queue = <<>> /\ Put
    BY DEF PanelInv, QueueInv, Sample, KeyboardTick
  <2>2. Len(<<>>) = 0 /\ 0 < QueueSize
    BY SMT
  <2>3. queue' = Append(<<>>, [key |-> Last, status |-> Status(Last)])
    BY <2>1, <2>2, Zenon DEF Put
  <2> QED
    BY <2>3
<1> QED
  BY <1>1, PanelInvariant, PTL DEF Spec, NoEventDropped
=============================================================================
