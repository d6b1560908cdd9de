------------------------ MODULE MCCriticalSections ------------------------
(* Model-checking instances of CriticalSections: main loop, TMR6, CAN.     *)
EXTENDS CriticalSections

Timer == 1
Can == 2
MCKinds == {"send", "emcy", "od"}

\* The SDO server, also where it writes to 0x1010 or 0x1011 (storeLittleFS,
\* restoreLittleFS), error reports and CO_CANsend of the main loop.
MainNest == {<<"od">>, <<"od", "od">>, <<"emcy">>, <<"send">>}
\* canopen_app_interrupt, whose PDOs are sent and whose errors are reported inside
\* its CO_LOCK_OD.
TimerNest == {<<"od">>, <<"od", "send">>, <<"od", "emcy">>}
\* CO_CANinterrupt_TX.
CanNest == {<<"send">>}
\* The store alone, while the node sends no PDO and reports no error.
StoreNest == {<<"od">>, <<"od", "od">>}

NestOf(main, timer) ==
  [l \in 0 .. 2 |-> CASE l = 0 -> main [] l = Timer -> timer [] l = Can -> CanNest]

Firmware == NestOf(MainNest, TimerNest)
Storing == NestOf(StoreNest, {<<"od">>})
=============================================================================
