----------------------------- MODULE MCKeyboard -----------------------------
(* Model-checking instance of Keyboard with a history of its events.        *)
EXTENDS Keyboard

VARIABLE clicked  \* KEY_CLICKED was the last event of the key

historyVars == <<keyVars, clicked>>

HistoryInit == KeyboardInit /\ clicked = [k \in Keys |-> FALSE]

HistoryNext ==
  \/ /\ KeyboardTick
     /\ clicked' = [k \in Keys |-> IF k \in Triggered THEN Clicked(k) ELSE clicked[k]]
  \/ /\ Environment
     /\ UNCHANGED clicked

HistorySpec == HistoryInit /\ [][HistoryNext]_historyVars

\* "pressed->release => key clicked", "pressed for long time => key longpress"
\* (keyboard.h:15-16): a key that was clicked is pressed again before it can have
\* been pressed for long.
ClickedIsNotHeld ==
  [][\A k \in Keys : KeyboardTick /\ LongPressed(k) => ~clicked[k]]_historyVars
=============================================================================
