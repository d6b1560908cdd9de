------------------------------- MODULE Servo -------------------------------
(***************************************************************************)
(* Servos and their trackers (simple_servo.c, homing_logic.c and           *)
(* stall_detect.c).  The main loop puts a tracker at the end of the list   *)
(* to home or position a servo; every 500 ms tick_simple_servo, in the     *)
(* timer interrupt, advances each tracker and removes the finished ones.   *)
(* The tick comes between any two steps of the main loop.                  *)
(*                                                                         *)
(* A position is a place on a track of Track steps, time is counted in     *)
(* ticks.  Each servo moves along its own track and may jam.               *)
(***************************************************************************)
EXTENDS Integers

CONSTANTS
  Servos,
  MaxTracker,    \* MAX_TRACKER, length of the list
  Track,         \* length of the track
  Zone,          \* how far from an end its switch is pressed
  Fast, Slow,    \* steps per tick at the homing speed and at a fifth of it
  StopDistance,  \* SD_STOP_THRESHOLD
  StopTicks,     \* ticks longer than SD_STOP_TICK_THRESHOLD
  StallTicks,    \* ticks longer than SD_STALL_TICK_THRESHOLD
  RevertTicks,   \* ticks longer than REVERT_TIME
  Scenes         \* hardware and user, one record per environment:
                 \*   servos   the servos the user homes
                 \*   kind     homing by "switch", "limit" switch or "displace"
                 \*   dir      1: homing goes towards larger positions
                 \*   at       positions before the first homing
                 \*   travel   the travel limit of a homing
                 \*   patient  the user waits for ss_is_homing, ss_is_moving
                 \*   targets  positions the user goes to
                 \*   jams     a motor may be held up
                 \*   starts   how often the user starts anything

Slots == 0 .. MaxTracker - 1
Idle == -1                    \* no tick is running
NoSlot == -1                  \* _cur_tracker is NULL
Places == 0 .. Track

ASSUME ServoAssumption ==
  /\ MaxTracker \in Nat /\ MaxTracker > 0
  /\ Track \in Nat /\ Zone \in Places
  /\ Fast \in Nat /\ Slow \in Nat /\ StopDistance \in Nat
  /\ StopTicks \in Nat /\ StallTicks \in Nat /\ RevertTicks \in Nat
  /\ Servos # {}
  /\ \A e \in Scenes :
       /\ e.servos \subseteq Servos
       /\ e.kind \in {"switch", "limit", "displace"}
       /\ e.dir \in {0, 1} /\ e.at \subseteq Places
       /\ e.travel \in Nat /\ e.targets \subseteq Places
       /\ e.patient \in BOOLEAN /\ e.jams \in BOOLEAN
       /\ e.starts \in Nat

\* What a slot of the list holds: a homing or a position tracker in a union,
\* and a stall detection beside it.
Statuses == {"start", "engage", "endstop1", "revert", "again", "endstop2"}
StallDetect == [inited : BOOLEAN, armed : BOOLEAN, last : Places, quiet : 0 .. StallTicks]
Tracker ==
  [tt : {"undefined", "position", "homing", "wild"},
   devport : Servos, status : Statuses, dir : {0, 1},
   mark : Places,             \* ht.start_pos, and pt.target_pos at the same place
   last : Places,             \* ht.last_pos
   age : 0 .. RevertTicks,    \* ticks since ht.last_tick
   sd : StallDetect]

VARIABLES
  scene,   \* the environment; it never changes
  slot,    \* tracker
  num,     \* tracker_num
  cur,     \* per servo: the slot _cur_tracker points to
  result,  \* per servo: _homing_result
  motor,   \* per servo: steps per tick and direction
  pos,     \* per servo: where it is
  origin,  \* per servo: homed_position
  i,       \* loop index of tick_simple_servo
  user,    \* what the main loop does, and with which servo
  starts   \* how often it started something

list == <<slot, num, cur>>
body == <<motor, pos, origin>>
vars == <<scene, list, result, body, i, user, starts>>

Results == {"none", "limit", "noMove", "success"}
Speeds == -Fast .. Fast \cup -Slow .. Slow

TypeOK ==
  /\ scene \in Scenes
  /\ slot \in [Slots -> Tracker]
  /\ num \in 0 .. MaxTracker
  /\ cur \in [Servos -> Slots \cup {NoSlot}]
  /\ result \in [Servos -> Results]
  /\ motor \in [Servos -> Speeds]
  /\ pos \in [Servos -> Places]
  /\ origin \in [Servos -> Places]
  /\ i \in Slots \cup {Idle, MaxTracker}
  /\ user \in [at : {"idle", "home", "homeArmed", "homing",
                     "position", "positionArmed", "moving", "lost"}, devport : Servos]
  /\ starts \in 0 .. scene.starts

Blank ==
  [tt |-> "undefined", devport |-> CHOOSE s \in Servos : TRUE, status |-> "start",
   dir |-> 0, mark |-> 0, last |-> 0, age |-> 0,
   sd |-> [inited |-> FALSE, armed |-> FALSE, last |-> 0, quiet |-> 0]]

\* init_simple_servo was called for every servo.
Init ==
  /\ scene \in Scenes
  /\ slot = [k \in Slots |-> Blank] /\ num = 0
  /\ cur = [s \in Servos |-> NoSlot]
  /\ result = [s \in Servos |-> "none"]
  /\ motor = [s \in Servos |-> 0]
  /\ \E p \in scene.at : pos = [s \in Servos |-> p]
  /\ origin = [s \in Servos |-> 0]
  /\ i = Idle
  /\ user = [at |-> "idle", devport |-> Blank.devport]
  /\ starts = 0

-----------------------------------------------------------------------------
(* The main loop.  What Home and HomeArm, Position and PositionArm write,   *)
(* each finds by tracker_num anew.                                          *)

Main(at) == i = Idle /\ user.at = at

Starts(s) ==
  /\ Main("idle")
  /\ s \in scene.servos
  /\ starts < scene.starts
  /\ starts' = starts + 1

\* The ASSERT of both commands only prints.  On a full list they write behind the
\* array; what that does is undefined, and the model ends there.
Overrun(s) ==
  /\ Starts(s)
  /\ num \notin Slots
  /\ user' = [at |-> "lost", devport |-> s]
  /\ UNCHANGED <<scene, list, result, body, i>>

\* ss_home and the first half of start_homing.
Home(s) ==
  /\ Starts(s)
  /\ num \in Slots
  /\ slot' = [slot EXCEPT ![num].tt = "homing", ![num].devport = s,
                          ![num].status = "start", ![num].dir = scene.dir]
  /\ user' = [at |-> "home", devport |-> s]
  /\ UNCHANGED <<scene, num, cur, result, body, i>>

\* A patient user waits before the next command.
After(wait) == IF scene.patient THEN wait ELSE "idle"

\* Mutant: the pointer is taken after the tracker was counted.
PointsPast(s) == cur' = [cur EXCEPT ![s] = num + 1]

\* devport->_cur_tracker = &tracker[tracker_num]
Points(s) == cur' = [cur EXCEPT ![s] = num]

\* The rest of it, short of counting the tracker.
HomeArm ==
  /\ Main("home")
  /\ LET s == user.devport IN
       /\ slot' = [slot EXCEPT ![num].mark = pos[s], ![num].last = pos[s], ![num].age = 0,
                               ![num].sd = [@ EXCEPT !.inited = FALSE, !.armed = TRUE]]
       /\ result' = [result EXCEPT ![s] = "none"]
       /\ Points(s)
  /\ user' = [user EXCEPT !.at = "homeArmed"]
  /\ UNCHANGED <<scene, num, body, i, starts>>

\* ss_go_position_absolute; the result of the homing is only logged.
Position(s) ==
  /\ scene.targets # {}
  /\ Starts(s)
  /\ num \in Slots
  /\ slot' = [slot EXCEPT ![num].tt = "position"]
  /\ user' = [at |-> "position", devport |-> s]
  /\ UNCHANGED <<scene, num, cur, result, body, i>>

\* In a slot that is a homing tracker after all, the pointer to the servo
\* overlays the status and the speed overlays the pointer.
PositionArm ==
  /\ Main("position")
  /\ LET s == user.devport IN
       /\ \E target \in scene.targets :
            slot' = IF slot[num].tt = "homing"
                    THEN [slot EXCEPT ![num].tt = "wild"]
                    ELSE [slot EXCEPT ![num].devport = s, ![num].mark = target]
       /\ Points(s)
  /\ user' = [user EXCEPT !.at = "positionArmed"]
  /\ UNCHANGED <<scene, num, result, body, i, starts>>

\* tracker_num += 1 with the timer paused.
Count ==
  /\ \/ Main("homeArmed") /\ user' = [user EXCEPT !.at = After("homing")]
     \/ Main("positionArmed") /\ user' = [user EXCEPT !.at = After("moving")]
  /\ num' = num + 1
  /\ UNCHANGED <<scene, slot, cur, result, body, i, starts>>

\* The loops around ss_is_homing and ss_is_moving.
Wait ==
  /\ \/ Main("homing") /\ result[user.devport] # "none"
     \/ Main("moving") /\ cur[user.devport] = NoSlot
  /\ user' = [user EXCEPT !.at = "idle"]
  /\ UNCHANGED <<scene, list, result, body, i, starts>>

MainLoop ==
  \/ \E s \in Servos : Home(s) \/ Position(s) \/ Overrun(s)
  \/ HomeArm
  \/ PositionArm
  \/ Count
  \/ Wait

-----------------------------------------------------------------------------
(* The timer interrupt: tick_simple_servo.                                  *)

Clamp(p) == IF p < 0 THEN 0 ELSE IF p > Track THEN Track ELSE p
Older(t, bound) == IF t < bound THEN t + 1 ELSE t
Aged(t) == [t EXCEPT !.age = Older(t.age, RevertTicks),
                     !.sd = [t.sd EXCEPT !.quiet = Older(t.sd.quiet, StallTicks)]]
Far(p, q, d) == p - q > d \/ q - p > d

\* 500 ms pass and the tick begins; a motor that is held up stays where it is.
TickBegin ==
  /\ i = Idle /\ user.at # "lost"
  /\ i' = 0
  /\ pos' \in [Servos -> Places]
  /\ \A s \in Servos :
       pos'[s] = Clamp(pos[s] + motor[s]) \/ (scene.jams /\ pos'[s] = pos[s])
  /\ slot' = [k \in Slots |-> Aged(slot[k])]
  /\ UNCHANGED <<scene, num, cur, result, motor, origin, user, starts>>

TickEnd ==
  /\ i # Idle /\ i >= num
  /\ i' = Idle
  /\ UNCHANGED <<scene, list, result, body, user, starts>>

At(tt) == i # Idle /\ i < num /\ slot[i].tt = tt

\* The loop goes on with the next tracker, slots being changed to table.
Keep(table) ==
  /\ slot' = table
  /\ i' = i + 1
  /\ UNCHANGED <<num, cur>>

\* The tracker is finished: those behind it move up, and the loop looks at
\* this place again.
Remove(table) ==
  /\ slot' = [k \in Slots |-> IF i <= k /\ k < num - 1 THEN table[k + 1] ELSE table[k]]
  /\ num' = num - 1
  /\ cur' = [cur EXCEPT ![slot[i].devport] = NoSlot]
  /\ UNCHANGED i

\* ss_set_speed: steps per tick at this speed in this direction.
Speed(speed, dir) == IF dir = 0 THEN 0 - speed ELSE speed
Drives(s, speed) == motor' = [motor EXCEPT ![s] = speed]

\* tick_position.  min and max are exchanged in log.h: the speed is always
\* -100.  The track ends on the target, once its time is over.
Positioning ==
  /\ At("position")
  /\ LET s == slot[i].devport IN
       \/ Drives(s, Speed(Fast, 0)) /\ Keep(slot)
       \/ pos[s] = slot[i].mark /\ Drives(s, 0) /\ Remove(slot)
  /\ UNCHANGED <<scene, result, pos, origin, user, starts>>

\* Mutant: a stall is never told from a stop.
FeedNoStall(sd, p) ==
  IF ~sd.inited
  THEN [sr |-> "unknown", sd |-> [sd EXCEPT !.inited = TRUE, !.last = p, !.quiet = 0]]
  ELSE IF Far(p, sd.last, StopDistance)
  THEN [sr |-> "moving", sd |-> [sd EXCEPT !.last = p, !.quiet = 0]]
  ELSE [sr |-> IF sd.quiet >= StopTicks THEN "stop" ELSE "unknown", sd |-> sd]

\* Mutant: the time without movement is taken for a stop at once.
FeedHasty(sd, p) ==
  IF ~sd.inited
  THEN [sr |-> "unknown", sd |-> [sd EXCEPT !.inited = TRUE, !.last = p, !.quiet = 0]]
  ELSE IF Far(p, sd.last, StopDistance)
  THEN [sr |-> "moving", sd |-> [sd EXCEPT !.last = p, !.quiet = 0]]
  ELSE [sr |-> IF sd.quiet >= StallTicks THEN "stall" ELSE "stop", sd |-> sd]

\* stall_detect_feed: its result, and what it leaves in sd.
Feed(sd, p) ==
  IF ~sd.inited
  THEN [sr |-> "unknown", sd |-> [sd EXCEPT !.inited = TRUE, !.last = p, !.quiet = 0]]
  ELSE IF Far(p, sd.last, IF sd.armed THEN StopDistance ELSE 0)
  THEN [sr |-> "moving", sd |-> [sd EXCEPT !.last = p, !.quiet = 0]]
  ELSE [sr |-> IF sd.quiet >= (IF sd.armed THEN StallTicks ELSE 1) THEN "stall"
               ELSE IF sd.armed /\ sd.quiet >= StopTicks THEN "stop" ELSE "unknown",
        sd |-> sd]

\* gpio_read of a switch: pulled up, low when pressed.
AtEnd(p, zone) ==
  \/ scene.dir = 0 /\ p <= zone
  \/ scene.dir = 1 /\ p >= Track - zone
Pressed(s) == AtEnd(pos[s], Zone)
Released(s) == ~Pressed(s)

\* The switch of both homing functions: t is the tracker, hit and left tell
\* whether the end is reached and left.  What it makes of the tracker, the
\* motor, the result and the origin; each function reads last or age only.
Advance(t, hit, left) ==
  LET s == t.devport
      same == [t |-> t, motor |-> motor[s], result |-> result[s], origin |-> origin[s]]
      to(status, dir, speed) ==
        [same EXCEPT !.t.status = status, !.t.dir = dir, !.motor = Speed(speed, dir)]
  IN CASE t.status = "start" -> to("engage", t.dir, Fast)
       [] t.status = "engage" /\ hit ->
            [same EXCEPT !.t.status = "endstop1", !.t.last = pos[s]]
       [] t.status = "endstop1" -> [to("revert", 1 - t.dir, Fast) EXCEPT !.t.age = 0]
       [] t.status = "revert" /\ left -> to("again", 1 - t.dir, Slow)
       [] t.status = "again" /\ hit -> to("endstop2", t.dir, 0)
       [] t.status = "endstop2" -> [same EXCEPT !.result = "success", !.origin = pos[s]]
       [] OTHER -> same

\* Mutant: the limit switches are not looked at.
LimitedByTravel(t) ==
  LET s == t.devport IN pos[s] < t.mark \/ pos[s] - t.mark > scene.travel

\* The limit switch in the homing direction reads high, or the servo went
\* further than the travel limit: an unsigned comparison.
Limited(t) ==
  LET s == t.devport IN
    \/ scene.kind = "limit" /\ Released(s)
    \/ pos[s] < t.mark
    \/ pos[s] - t.mark > scene.travel

\* Mutant: the motor is not stopped.
EndsRunning(s, res) == UNCHANGED motor /\ result' = [result EXCEPT ![s] = res]

\* Mutant: the end is not told.
EndsSilently(s, res) == Drives(s, 0) /\ UNCHANGED result

Ends(s, res) == Drives(s, 0) /\ result' = [result EXCEPT ![s] = res]

\* The rest of tick_homing after one of the two functions.
Homed(table, out) ==
  LET s == out.t.devport
      next == [table EXCEPT ![i] = out.t] IN
    /\ origin' = [origin EXCEPT ![s] = out.origin]
    /\ IF Limited(out.t)
       THEN Ends(s, "limit") /\ Remove(next)
       ELSE /\ Drives(s, out.motor)
            /\ result' = [result EXCEPT ![s] = out.result]
            /\ Keep(next)

\* Mutant: the second hit is not waited for.
HomingByFirstHit ==
  /\ At("homing")
  /\ scene.kind \in {"switch", "limit"}
  /\ LET t == slot[i]
         s == t.devport IN
       Homed(slot, Advance(t, Pressed(s) \/ t.status = "again",
                           Released(s) /\ t.age >= RevertTicks))
  /\ UNCHANGED <<scene, pos, user, starts>>

\* tick_homing_with_signal_sensor_available, and the rest of tick_homing.
HomingBySwitch ==
  /\ At("homing")
  /\ scene.kind \in {"switch", "limit"}
  /\ LET t == slot[i]
         s == t.devport IN
       Homed(slot, Advance(t, Pressed(s), Released(s) /\ t.age >= RevertTicks))
  /\ UNCHANGED <<scene, pos, user, starts>>

\* The stall detection of _cur_tracker, whichever slot that is; through a NULL
\* pointer it may give any result.
Fed(s) ==
  IF cur[s] = NoSlot
  THEN [sr : {"unknown", "stop", "moving", "stall"}, table : {slot}]
  ELSE LET f == Feed(slot[cur[s]].sd, pos[s]) IN
         {[sr |-> f.sr, table |-> [slot EXCEPT ![cur[s]].sd = f.sd]]}

\* tick_homing_with_displace_sensor_only, and the rest of tick_homing.
HomingByDisplacement ==
  /\ At("homing")
  /\ scene.kind = "displace"
  /\ LET s == slot[i].devport IN
       \E f \in Fed(s) :
         LET t == f.table[i] IN
           IF f.sr = "stall"
           THEN Ends(s, "noMove") /\ Remove(f.table) /\ UNCHANGED origin
           ELSE Homed(f.table, Advance(t, f.sr = "stop",
                                       f.sr = "moving" /\ Far(pos[s], t.last, 1)))
  /\ UNCHANGED <<scene, pos, user, starts>>

\* What a tracker with wild pointers does is undefined; the model ends here.
Wild == At("wild") /\ UNCHANGED vars

Tick ==
  \/ TickBegin
  \/ Positioning
  \/ HomingBySwitch
  \/ HomingByDisplacement
  \/ Wild
  \/ TickEnd

\* After an overrun.
Ended == user.at = "lost" /\ UNCHANGED vars

Next == MainLoop \/ Tick \/ Ended

Spec == Init /\ [][Next]_vars

\* The timer interrupt comes every 500 ms and ends.
FairSpec == Spec /\ WF_vars(Tick)

-----------------------------------------------------------------------------
\* A motor that turns has a tracker in the list that will stop it, whatever
\* is started and removed in between.
Driven ==
  \A s \in Servos :
    motor[s] # 0 => \E k \in Slots : k < num /\ slot[k].devport = s

\* When the only homing of a servo with a homing switch succeeds, the origin is
\* a place where the switch is pressed, however the servo was held up.
HomedOnSwitch ==
  \A s \in Servos :
    scene.starts = 1 /\ scene.kind = "switch" /\ result[s] = "success" => AtEnd(origin[s], Zone)

\* When the only homing by displacement of a servo that is not held up succeeds,
\* the origin is the very end of the track.
HomedAtEnd ==
  \A s \in Servos :
    scene.starts = 1 /\ scene.kind = "displace" /\ ~scene.jams /\ result[s] = "success" =>
      AtEnd(origin[s], 0)

\* While a user with one servo waits for its homing, the list holds the tracker
\* that will end it, even when the tick removed another one as it was started.
HomingTracked ==
  \A s \in Servos :
    scene.servos = {s} /\ scene.targets = {}
      /\ user = [at |-> "homing", devport |-> s] /\ result[s] = "none" =>
        \E k \in Slots : k < num /\ slot[k].tt = "homing" /\ slot[k].devport = s

\* A homing on the limit switch never succeeds for a user who waits for it:
\* the homing takes a low level for a hit, the limit check a high one.
LimitNeverHomes ==
  \A s \in Servos : scene.kind = "limit" /\ scene.patient => result[s] # "success"

\* A homing by displacement ends, however the servo is held up.
HomingEnds ==
  \A s \in Servos :
    (scene.kind = "displace" /\ scene.patient /\ scene.targets = {}
      /\ user = [at |-> "homing", devport |-> s])
    ~> (user.at # "homing" \/ result[s] # "none")
=============================================================================
