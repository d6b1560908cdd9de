---------------------------- MODULE ServoProofs ----------------------------
(***************************************************************************)
(* Machine-checked proofs about servos and their trackers, for every       *)
(* number of servos, length of the list and of the track, speed and time.  *)
(***************************************************************************)
EXTENDS Servo, TLAPS

LEMMA Numbers ==
  /\ MaxTracker \in Nat /\ MaxTracker > 0
  /\ Track \in Nat /\ Fast \in Nat /\ Slow \in Nat
  /\ StallTicks \in Nat /\ RevertTicks \in Nat
  /\ 0 \in Places /\ 0 \in 0 .. StallTicks /\ 0 \in 0 .. RevertTicks
BY ServoAssumption DEF Places

\* A command that has been begun has a free slot: ticks only shorten the list.
Room ==
  user.at \in {"home", "homeArmed", "position", "positionArmed"} => num < MaxTracker

Table == [Slots -> Tracker]

LEMMA SpeedType ==
  ASSUME NEW speed \in {0, Fast, Slow}, NEW dir \in {0, 1}
  PROVE  Speed(speed, dir) \in Speeds
BY Numbers DEF Speed, Speeds

LEMMA SpeedZero ==
  ASSUME NEW dir
  PROVE  Speed(0, dir) = 0
BY DEF Speed

LEMMA ClampType ==
  ASSUME NEW p \in Int
  PROVE  Clamp(p) \in Places
BY Numbers DEF Clamp, Places

LEMMA OlderType ==
  ASSUME NEW bound \in Nat, NEW t \in 0 .. bound
  PROVE  Older(t, bound) \in 0 .. bound
BY DEF Older

LEMMA AgedType ==
  ASSUME NEW t \in Tracker
  PROVE  Aged(t) \in Tracker /\ Aged(t).devport = t.devport
         /\ Aged(t).tt = t.tt /\ Aged(t).status = t.status
<1> DEFINE a == Older(t.age, RevertTicks)
           d == [t.sd EXCEPT !.quiet = Older(t.sd.quiet, StallTicks)]
<1>1. a \in 0 .. RevertTicks /\ Older(t.sd.quiet, StallTicks) \in 0 .. StallTicks
  BY OlderType, Numbers DEF Tracker, StallDetect
<1>2. d \in StallDetect
  BY <1>1 DEF Tracker, StallDetect
<1>3. Aged(t) = [t EXCEPT !.age = a, !.sd = d]
  BY DEF Aged
<1> HIDE DEF a, d
<1> QED
  BY <1>1, <1>2, <1>3 DEF Tracker

LEMMA BlankType == Blank \in Tracker
<1>1. Blank.devport \in Servos
  BY ServoAssumption DEF Blank
<1> QED
  BY <1>1, Numbers DEF Blank, Tracker, StallDetect, Statuses

LEMMA FeedType ==
  ASSUME NEW sd \in StallDetect, NEW p \in Places
  PROVE  Feed(sd, p).sd \in StallDetect
<1>1. [sd EXCEPT !.inited = TRUE, !.last = p, !.quiet = 0] \in StallDetect
  BY Numbers DEF StallDetect
<1>2. [sd EXCEPT !.last = p, !.quiet = 0] \in StallDetect
  BY Numbers DEF StallDetect
<1> QED
  BY <1>1, <1>2 DEF Feed

LEMMA FedType ==
  ASSUME TypeOK, NEW s \in Servos, NEW f \in Fed(s)
  PROVE  /\ f.table \in Table
         /\ \A k \in Slots : /\ f.table[k].devport = slot[k].devport
                             /\ f.table[k].tt = slot[k].tt
                             /\ f.table[k].status = slot[k].status
<1>1. CASE cur[s] = NoSlot
  BY <1>1 DEF Fed, TypeOK, Table
<1>2. CASE cur[s] # NoSlot
  <2> DEFINE g == Feed(slot[cur[s]].sd, pos[s])
  <2>1. cur[s] \in Slots /\ pos[s] \in Places
    BY <1>2 DEF TypeOK
  <2>2. slot[cur[s]] \in Tracker
    BY <2>1 DEF TypeOK
  <2>3. g.sd \in StallDetect
    BY <2>1, <2>2, FeedType DEF Tracker
  <2>4. f.table = [slot EXCEPT ![cur[s]].sd = g.sd]
    BY <1>2 DEF Fed
  <2> HIDE DEF g
  <2>5. [slot[cur[s]] EXCEPT !.sd = g.sd] \in Tracker
    BY <2>2, <2>3 DEF Tracker
  <2> QED
    <3>1. f.table = [slot EXCEPT ![cur[s]] = [slot[cur[s]] EXCEPT !.sd = g.sd]]
      BY <2>4
    <3>2. slot \in [Slots -> Tracker]
      BY DEF TypeOK
    <3>3. f.table \in [Slots -> Tracker]
      BY <2>1, <2>5, <3>1, <3>2
    <3>4. \A k \in Slots \ {cur[s]} : f.table[k] = slot[k]
      BY <3>1, <3>2
    <3>5. f.table[cur[s]] = [slot[cur[s]] EXCEPT !.sd = g.sd]
      BY <2>1, <3>1, <3>2
    <3>6. /\ f.table[cur[s]].devport = slot[cur[s]].devport
          /\ f.table[cur[s]].tt = slot[cur[s]].tt
          /\ f.table[cur[s]].status = slot[cur[s]].status
      BY <2>2, <3>5 DEF Tracker
    <3> QED
      BY <3>3, <3>4, <3>6 DEF Table
<1> QED
  BY <1>1, <1>2

\* What the steps of a homing make of a tracker and its servo.
LEMMA AdvanceType ==
  ASSUME TypeOK, NEW t \in Tracker, NEW hit \in BOOLEAN, NEW left \in BOOLEAN,
         NEW out, out = Advance(t, hit, left)
  PROVE  /\ out.t \in Tracker /\ out.t.devport = t.devport /\ out.t.tt = t.tt
         /\ out.motor \in Speeds /\ out.result \in Results /\ out.origin \in Places
<1> DEFINE s == t.devport
<1>0. /\ s \in Servos /\ t.dir \in {0, 1} /\ 1 - t.dir \in {0, 1}
      /\ pos[s] \in Places /\ motor[s] \in Speeds
      /\ result[s] \in Results /\ origin[s] \in Places
  <2>1. s \in Servos /\ t.dir \in {0, 1}
    BY DEF Tracker
  <2>2. 1 - t.dir \in {0, 1}
    BY <2>1
  <2>3. /\ pos \in [Servos -> Places] /\ motor \in [Servos -> Speeds]
        /\ result \in [Servos -> Results] /\ origin \in [Servos -> Places]
    BY DEF TypeOK
  <2> QED
    BY <2>1, <2>2, <2>3
<1>1. Speed(Fast, t.dir) \in Speeds /\ Speed(0, t.dir) \in Speeds
      /\ Speed(Fast, 1 - t.dir) \in Speeds /\ Speed(Slow, 1 - t.dir) \in Speeds
  BY <1>0, SpeedType
<1>2. CASE t.status = "start"
  BY <1>0, <1>1, <1>2 DEF Advance, Tracker, Statuses
<1>3. CASE t.status = "engage"
  BY <1>0, <1>1, <1>3 DEF Advance, Tracker, Statuses
<1>4. CASE t.status = "endstop1"
  BY <1>0, <1>1, <1>4, Numbers DEF Advance, Tracker, Statuses
<1>5. CASE t.status = "revert"
  BY <1>0, <1>1, <1>5 DEF Advance, Tracker, Statuses
<1>6. CASE t.status = "again"
  BY <1>0, <1>1, <1>6 DEF Advance, Tracker, Statuses
<1>7. CASE t.status = "endstop2"
  BY <1>0, <1>1, <1>7 DEF Advance, Tracker, Statuses, Results
<1> QED
  BY <1>2, <1>3, <1>4, <1>5, <1>6, <1>7 DEF Tracker, Statuses

Inv == TypeOK /\ Room /\ Driven

LEMMA Ranges ==
  ASSUME TypeOK
  PROVE  num \in 0 .. MaxTracker /\ starts \in 0 .. scene.starts /\ slot \in Table
         /\ scene \in Scenes
BY Zenon DEF TypeOK, Table

LEMMA FreeSlot ==
  ASSUME TypeOK, num < MaxTracker
  PROVE  num \in Slots
BY Ranges, Numbers DEF Slots

LEMMA SceneType ==
  ASSUME TypeOK
  PROVE  /\ scene.dir \in {0, 1} /\ scene.targets \subseteq Places
         /\ scene.starts \in Nat /\ scene.servos \subseteq Servos
BY Ranges, ServoAssumption

\* A slot that is not counted may be rewritten.
LEMMA Rewritten ==
  ASSUME Inv, NEW t \in Tracker, num < MaxTracker,
         slot' = [slot EXCEPT ![num] = t], UNCHANGED <<num, motor>>
  PROVE  slot' \in Table /\ Driven'
<1>1. num \in Slots /\ slot \in Table
  BY FreeSlot, Ranges DEF Inv
<1>2. slot' \in Table
  BY <1>1 DEF Table
<1>3. \A k \in Slots : k < num => slot'[k] = slot[k]
  BY <1>1 DEF Table, Slots
<1> QED
  BY <1>2, <1>3 DEF Inv, Driven

LEMMA InvInit == Init => Inv
<1> SUFFICES ASSUME Init PROVE Inv
  OBVIOUS
<1>1. slot \in [Slots -> Tracker]
  BY BlankType DEF Init
<1>2. pos \in [Servos -> Places]
  BY ServoAssumption DEF Init
<1>3. 0 \in Speeds /\ "none" \in Results
  BY Numbers DEF Speeds, Results
<1>4. user.at = "idle" /\ user.devport \in Servos
  BY ServoAssumption DEF Init, Blank
<1>5. user \in [at : {"idle", "home", "homeArmed", "homing",
                      "position", "positionArmed", "moving", "lost"}, devport : Servos]
  BY <1>4 DEF Init
<1>6. Driven
  BY DEF Init, Driven
<1> QED
  BY <1>1, <1>2, <1>3, <1>4, <1>5, <1>6, Numbers, ServoAssumption DEF Init, Inv, TypeOK, Room

LEMMA MainStep ==
  ASSUME Inv, MainLoop
  PROVE  Inv'
<1>0. TypeOK /\ Room /\ num \in Int
  BY Ranges, Numbers DEF Inv
<1>1. ASSUME NEW s \in Servos, Home(s) PROVE Inv'
  <2>1. num < MaxTracker /\ num \in Slots
    BY <1>0, <1>1, Numbers DEF Home, Slots
  <2>2. scene.dir \in {0, 1} /\ starts' \in 0 .. scene.starts
    BY <1>0, <1>1, SceneType, Ranges, Numbers DEF Home, Starts
  <2> DEFINE t == [slot[num] EXCEPT !.tt = "homing", !.devport = s,
                                    !.status = "start", !.dir = scene.dir]
  <2>3. slot[num] \in Tracker
    BY <1>0, <2>1 DEF TypeOK
  <2>4. t \in Tracker
    BY <2>2, <2>3 DEF Tracker, Statuses
  <2>5. slot' = [slot EXCEPT ![num] = t]
    BY <1>1 DEF Home
  <2> HIDE DEF t
  <2>6. slot' \in Table /\ Driven'
    BY <1>1, <2>1, <2>4, <2>5, Rewritten DEF Home, body
  <2> QED
    BY <1>0, <1>1, <2>1, <2>2, <2>6 DEF Home, body, TypeOK, Room, Inv, Table
<1>2. CASE HomeArm
  <2>1. num < MaxTracker /\ num \in Slots
    BY <1>0, <1>2, FreeSlot DEF HomeArm, Main, Room
  <2> DEFINE s == user.devport
             t == [slot[num] EXCEPT !.mark = pos[s], !.last = pos[s], !.age = 0,
                                    !.sd = [@ EXCEPT !.inited = FALSE, !.armed = TRUE]]
  <2>2. s \in Servos
    BY <1>0 DEF TypeOK
  <2>3. slot[num] \in Tracker /\ pos[s] \in Places
    BY <1>0, <2>1, <2>2 DEF TypeOK
  <2>4. t \in Tracker
    BY <2>3, Numbers DEF Tracker, StallDetect
  <2>5. slot' = [slot EXCEPT ![num] = t]
    BY <1>2 DEF HomeArm
  <2>6. /\ result' = [result EXCEPT ![s] = "none"]
        /\ cur' = [cur EXCEPT ![s] = num]
        /\ user' = [user EXCEPT !.at = "homeArmed"]
    BY <1>2 DEF HomeArm, Points
  <2> HIDE DEF t, s
  <2>7. slot' \in Table /\ Driven'
    BY <1>2, <2>1, <2>4, <2>5, Rewritten DEF HomeArm, body
  <2>8. result' \in [Servos -> Results] /\ cur' \in [Servos -> Slots \cup {NoSlot}]
    BY <1>0, <2>1, <2>6 DEF TypeOK, Results
  <2> QED
    BY <1>0, <1>2, <2>1, <2>6, <2>7, <2>8 DEF HomeArm, body, TypeOK, Room, Inv, Table
<1>3. ASSUME NEW s \in Servos, Position(s) PROVE Inv'
  <2>1. num < MaxTracker /\ num \in Slots
    BY <1>0, <1>3, Numbers DEF Position, Slots
  <2>2. starts' \in 0 .. scene.starts
    BY <1>0, <1>3, SceneType, Ranges, Numbers DEF Position, Starts
  <2> DEFINE t == [slot[num] EXCEPT !.tt = "position"]
  <2>3. slot[num] \in Tracker
    BY <1>0, <2>1 DEF TypeOK
  <2>4. t \in Tracker
    BY <2>3 DEF Tracker
  <2>5. slot' = [slot EXCEPT ![num] = t]
    BY <1>3 DEF Position
  <2> HIDE DEF t
  <2>6. slot' \in Table /\ Driven'
    BY <1>3, <2>1, <2>4, <2>5, Rewritten DEF Position, body
  <2> QED
    BY <1>0, <1>3, <2>1, <2>2, <2>6 DEF Position, body, TypeOK, Room, Inv, Table
<1>4. CASE PositionArm
  <2>1. num < MaxTracker /\ num \in Slots
    BY <1>0, <1>4, FreeSlot DEF PositionArm, Main, Room
  <2> DEFINE s == user.devport
  <2>2. s \in Servos /\ slot[num] \in Tracker /\ scene.targets \subseteq Places
    BY <1>0, <2>1, SceneType DEF TypeOK
  <2>3. PICK target \in scene.targets :
          slot' = IF slot[num].tt = "homing"
                  THEN [slot EXCEPT ![num].tt = "wild"]
                  ELSE [slot EXCEPT ![num].devport = s, ![num].mark = target]
    BY <1>4 DEF PositionArm
  <2> DEFINE t == IF slot[num].tt = "homing" THEN [slot[num] EXCEPT !.tt = "wild"]
                  ELSE [slot[num] EXCEPT !.devport = s, !.mark = target]
  <2>4. t \in Tracker
    BY <2>2 DEF Tracker
  <2>5. slot' = [slot EXCEPT ![num] = t]
    BY <2>3
  <2>6. /\ cur' = [cur EXCEPT ![s] = num]
        /\ user' = [user EXCEPT !.at = "positionArmed"]
    BY <1>4 DEF PositionArm, Points
  <2> HIDE DEF t, s
  <2>7. slot' \in Table /\ Driven'
    BY <1>4, <2>1, <2>4, <2>5, Rewritten DEF PositionArm, body
  <2>8. cur' \in [Servos -> Slots \cup {NoSlot}]
    BY <1>0, <2>1, <2>6 DEF TypeOK
  <2> QED
    BY <1>0, <1>4, <2>1, <2>6, <2>7, <2>8 DEF PositionArm, body, TypeOK, Room, Inv, Table
<1>5. CASE Count
  <2>1. num < MaxTracker /\ num' = num + 1
    BY <1>0, <1>5 DEF Count, Main, Room
  <2>2. num' \in 0 .. MaxTracker
    BY <1>0, <2>1, Ranges, Numbers
  <2>3. user'.at \in {"idle", "homing", "moving"}
    BY <1>0, <1>5 DEF Count, After, TypeOK
  <2>4. user' \in [at : {"idle", "home", "homeArmed", "homing",
                         "position", "positionArmed", "moving", "lost"}, devport : Servos]
    BY <1>0, <1>5 DEF Count, After, TypeOK
  <2>5. Driven'
    <3>1. UNCHANGED <<slot, motor>>
      BY <1>5 DEF Count, body
    <3>2. \A k \in Slots : k < num => k < num'
      BY <1>0, <2>1, Numbers DEF Slots
    <3> QED
      BY <3>1, <3>2 DEF Inv, Driven
  <2> QED
    BY <1>0, <1>5, <2>2, <2>3, <2>4, <2>5 DEF Count, body, TypeOK, Room, Inv
<1>6. CASE Wait
  <2>1. user' = [user EXCEPT !.at = "idle"]
    BY <1>6 DEF Wait
  <2>2. Driven'
    BY <1>6 DEF Wait, list, body, Inv, Driven
  <2> QED
    BY <1>0, <1>6, <2>1, <2>2 DEF Wait, list, body, TypeOK, Room, Inv
<1>7. ASSUME NEW s \in Servos, Overrun(s) PROVE Inv'
  <2>1. user' = [at |-> "lost", devport |-> s] /\ starts' \in 0 .. scene.starts
    BY <1>0, <1>7, SceneType, Ranges, Numbers DEF Overrun, Starts
  <2>2. Driven'
    BY <1>7 DEF Overrun, list, body, Inv, Driven
  <2> QED
    BY <1>0, <1>7, <2>1, <2>2 DEF Overrun, list, body, TypeOK, Room, Inv
<1> QED
  BY <1>1, <1>2, <1>3, <1>4, <1>5, <1>6, <1>7 DEF MainLoop

\* A tick looks at one of the counted trackers.
LEMMA Looking ==
  ASSUME TypeOK, i # Idle, i < num
  PROVE  /\ i \in Slots /\ num \in 1 .. MaxTracker
         /\ slot[i] \in Tracker /\ slot[i].devport \in Servos
<1>1. i \in Slots \cup {Idle, MaxTracker}
  BY Zenon DEF TypeOK
<1>2. i \in Slots /\ num \in 1 .. MaxTracker
  BY <1>1, Ranges, Numbers DEF Slots
<1>3. slot[i] \in Tracker
  BY <1>2, Ranges DEF Table
<1> QED
  BY <1>2, <1>3 DEF Tracker

\* The types of what Keep and Remove change.
ListOK ==
  /\ slot' \in Table /\ num' \in 0 .. MaxTracker /\ motor' \in [Servos -> Speeds]
  /\ cur' \in [Servos -> Slots \cup {NoSlot}]
  /\ i' \in Slots \cup {Idle, MaxTracker}

LEMMA KeepStep ==
  ASSUME Inv, i # Idle, i < num, NEW table \in Table,
         \A k \in Slots : table[k].devport = slot[k].devport,
         Keep(table), NEW v \in Speeds, Drives(slot[i].devport, v)
  PROVE  ListOK /\ num' <= num /\ Driven'
<1> DEFINE s == slot[i].devport
<1>0. TypeOK /\ i \in Slots /\ num \in 1 .. MaxTracker /\ s \in Servos
  BY Looking DEF Inv
<1>1. slot' = table /\ num' = num /\ cur' = cur /\ i' = i + 1
  BY DEF Keep
<1>2. motor' = [motor EXCEPT ![s] = v]
  BY DEF Drives
<1>3. motor \in [Servos -> Speeds] /\ cur \in [Servos -> Slots \cup {NoSlot}]
  BY <1>0, Zenon DEF TypeOK
<1>4. i' \in Slots \cup {Idle, MaxTracker}
  BY <1>0, <1>1, Numbers DEF Slots
<1>5. ListOK /\ num' <= num
  BY <1>0, <1>1, <1>2, <1>3, <1>4 DEF ListOK
<1>6. ASSUME NEW q \in Servos, motor'[q] # 0
      PROVE  \E k \in Slots : k < num' /\ slot'[k].devport = q
  <2>1. CASE q = s
    BY <1>0, <1>1, <2>1
  <2>2. CASE q # s
    <3>1. motor[q] # 0
      BY <1>2, <1>3, <1>6, <2>2
    <3>2. PICK k \in Slots : k < num /\ slot[k].devport = q
      BY <3>1 DEF Inv, Driven
    <3> QED
      BY <1>1, <3>2
  <2> QED
    BY <2>1, <2>2
<1> QED
  BY <1>5, <1>6 DEF Driven

LEMMA RemoveStep ==
  ASSUME Inv, i # Idle, i < num, NEW table \in Table,
         \A k \in Slots : table[k].devport = slot[k].devport,
         Remove(table), Drives(slot[i].devport, 0)
  PROVE  ListOK /\ num' <= num /\ Driven'
<1> DEFINE s == slot[i].devport
<1>0. TypeOK /\ i \in Slots /\ num \in 1 .. MaxTracker /\ s \in Servos
  BY Looking DEF Inv
<1>1. /\ slot' = [k \in Slots |-> IF i <= k /\ k < num - 1 THEN table[k + 1] ELSE table[k]]
      /\ num' = num - 1 /\ cur' = [cur EXCEPT ![s] = NoSlot] /\ i' = i
  BY DEF Remove
<1>2. motor' = [motor EXCEPT ![s] = 0]
  BY DEF Drives
<1>3. motor \in [Servos -> Speeds] /\ cur \in [Servos -> Slots \cup {NoSlot}]
  BY <1>0, Zenon DEF TypeOK
<1>4. ASSUME NEW k \in Slots, i <= k, k < num - 1
      PROVE  k + 1 \in Slots
  BY <1>0, <1>4, Numbers DEF Slots
<1>5. slot' \in Table
  BY <1>1, <1>4 DEF Table
<1>6. num' \in 0 .. MaxTracker /\ num' <= num
  BY <1>0, <1>1, Numbers
<1>7. motor' \in [Servos -> Speeds]
  <2>1. 0 \in Speeds
    BY Numbers DEF Speeds
  <2> QED
    BY <1>2, <1>3, <2>1
<1>8. ListOK
  BY <1>0, <1>1, <1>3, <1>5, <1>6, <1>7 DEF ListOK
<1>9. ASSUME NEW q \in Servos, motor'[q] # 0
      PROVE  \E k \in Slots : k < num' /\ slot'[k].devport = q
  <2>1. q # s /\ motor[q] # 0
    BY <1>0, <1>2, <1>3, <1>9
  <2>2. PICK k \in Slots : k < num /\ slot[k].devport = q
    BY <2>1 DEF Inv, Driven
  <2>3. k # i
    BY <2>1, <2>2
  <2>4. CASE k < i
    <3>1. k < num' /\ slot'[k] = table[k]
      BY <1>0, <1>1, <2>4 DEF Slots
    <3> QED
      BY <2>2, <3>1
  <2>5. CASE i < k
    <3>1. k - 1 \in Slots /\ i <= k - 1 /\ k - 1 < num - 1 /\ (k - 1) + 1 = k
      BY <1>0, <2>2, <2>5, Numbers DEF Slots
    <3>2. slot'[k - 1] = table[k]
      BY <1>1, <3>1
    <3> QED
      BY <1>1, <2>2, <3>1, <3>2
  <2> QED
    BY <1>0, <2>3, <2>4, <2>5 DEF Slots
<1> QED
  BY <1>6, <1>8, <1>9 DEF Driven

\* The rest of TypeOK and Room when the list is in order.
LEMMA Assembled ==
  ASSUME Inv, ListOK, num' <= num, Driven', UNCHANGED <<scene, pos, user, starts>>,
         result' \in [Servos -> Results], origin' \in [Servos -> Places]
  PROVE  Inv'
<1>1. TypeOK'
  BY Zenon DEF Inv, ListOK, TypeOK, Table
<1>2. num \in Int /\ num' \in Int /\ MaxTracker \in Int
  BY <1>1, Ranges, Numbers DEF Inv, ListOK
<1>3. Room'
  <2>1. UNCHANGED user
    OBVIOUS
  <2>2. num < MaxTracker => num' < MaxTracker
    BY <1>2
  <2> QED
    BY <2>1, <2>2 DEF Inv, Room
<1> QED
  BY <1>1, <1>3 DEF Inv

LEMMA HomedStep ==
  ASSUME Inv, i # Idle, i < num, NEW table \in Table,
         \A k \in Slots : table[k].devport = slot[k].devport,
         NEW out, out.t \in Tracker, out.t.devport = slot[i].devport,
         out.motor \in Speeds, out.result \in Results, out.origin \in Places,
         Homed(table, out), UNCHANGED <<scene, pos, user, starts>>
  PROVE  Inv'
<1> DEFINE s == out.t.devport
           next == [table EXCEPT ![i] = out.t]
<1>0. TypeOK /\ i \in Slots /\ s \in Servos
  BY Looking DEF Inv
<1>1. next \in Table
  BY <1>0 DEF Table
<1>2. \A k \in Slots : next[k].devport = slot[k].devport
  BY <1>0 DEF Table
<1>3. origin' \in [Servos -> Places]
  <2>1. origin \in [Servos -> Places]
    BY <1>0, Zenon DEF TypeOK
  <2>2. origin' = [origin EXCEPT ![s] = out.origin]
    BY DEF Homed
  <2> QED
    BY <2>1, <2>2
<1>4. result \in [Servos -> Results] /\ "limit" \in Results
  BY <1>0, Zenon DEF TypeOK, Results
<1> HIDE DEF next
<1>5. CASE Limited(out.t)
  <2>1. Drives(s, 0) /\ result' = [result EXCEPT ![s] = "limit"] /\ Remove(next)
    BY <1>5 DEF Homed, Ends, next
  <2>2. ListOK /\ num' <= num /\ Driven'
    BY <1>1, <1>2, <2>1, RemoveStep
  <2> QED
    BY <1>3, <1>4, <2>1, <2>2, Assembled
<1>6. CASE ~Limited(out.t)
  <2>1. Drives(s, out.motor) /\ result' = [result EXCEPT ![s] = out.result] /\ Keep(next)
    BY <1>6 DEF Homed, next
  <2>2. ListOK /\ num' <= num /\ Driven'
    BY <1>1, <1>2, <2>1, KeepStep
  <2> QED
    BY <1>3, <1>4, <2>1, <2>2, Assembled
<1> QED
  BY <1>5, <1>6

LEMMA TickStep ==
  ASSUME Inv, Tick
  PROVE  Inv'
<1>0. TypeOK /\ slot \in Table
  BY Ranges DEF Inv
<1>1. CASE TickBegin
  <2>1. ASSUME NEW k \in Slots PROVE slot'[k] \in Tracker /\ slot'[k].devport = slot[k].devport
    <3>1. slot[k] \in Tracker
      BY <1>0 DEF Table
    <3>2. slot'[k] = Aged(slot[k])
      BY <1>1 DEF TickBegin
    <3> QED
      BY <3>1, <3>2, AgedType
  <2>2. slot' \in Table
    <3>1. slot' = [k \in Slots |-> slot'[k]]
      BY <1>1 DEF TickBegin
    <3> QED
      BY <2>1, <3>1 DEF Table
  <2>3. i' \in Slots
    <3>1. i' = 0
      BY <1>1, Zenon DEF TickBegin
    <3> QED
      BY <3>1, Numbers DEF Slots
  <2>4. Driven'
    <3>1. UNCHANGED <<num, motor>>
      BY <1>1, Zenon DEF TickBegin
    <3> QED
      BY <2>1, <3>1 DEF Inv, Driven
  <2>5. pos' \in [Servos -> Places]
    BY <1>1, Zenon DEF TickBegin
  <2>6. TypeOK'
    BY <1>0, <1>1, <2>2, <2>3, <2>5, Zenon DEF TickBegin, TypeOK, Table
  <2> QED
    BY <1>1, <2>4, <2>6 DEF TickBegin, Inv, Room
<1>2. CASE Positioning
  <2>1. At("position") /\ i # Idle /\ i < num /\ slot[i].devport \in Servos
    BY <1>0, <1>2, Looking DEF Positioning, At
  <2>2. /\ \/ Drives(slot[i].devport, Speed(Fast, 0)) /\ Keep(slot)
           \/ Drives(slot[i].devport, 0) /\ Remove(slot)
        /\ UNCHANGED <<scene, result, pos, origin, user, starts>>
    BY <1>2 DEF Positioning
  <2>3. ListOK /\ num' <= num /\ Driven'
    BY <1>0, <2>1, <2>2, KeepStep, RemoveStep, SpeedType
  <2>4. result' \in [Servos -> Results] /\ origin' \in [Servos -> Places]
    BY <1>0, <2>2, Zenon DEF TypeOK
  <2> QED
    BY <2>2, <2>3, <2>4, Assembled
<1>3. CASE HomingBySwitch
  <2> DEFINE t == slot[i]
             hit == Pressed(t.devport)
             left == Released(t.devport) /\ t.age >= RevertTicks
             out == Advance(t, hit, left)
  <2>1. i # Idle /\ i < num /\ t \in Tracker
    BY <1>0, <1>3, Looking DEF HomingBySwitch, At
  <2>2. Homed(slot, out) /\ UNCHANGED <<scene, pos, user, starts>>
    BY <1>3 DEF HomingBySwitch
  <2>3. hit \in BOOLEAN /\ left \in BOOLEAN
    BY DEF Pressed, Released, AtEnd
  <2> HIDE DEF hit, left
  <2>4. /\ out.t \in Tracker /\ out.t.devport = t.devport
        /\ out.motor \in Speeds /\ out.result \in Results /\ out.origin \in Places
    BY <1>0, <2>1, <2>3, AdvanceType
  <2> HIDE DEF out, t
  <2> QED
    BY <1>0, <2>1, <2>2, <2>4, HomedStep DEF t
<1>4. CASE HomingByDisplacement
  <2> DEFINE s == slot[i].devport
  <2>1. At("homing") /\ i # Idle /\ i < num /\ i \in Slots /\ s \in Servos
    BY <1>0, <1>4, Looking DEF HomingByDisplacement, At
  <2>2. PICK f \in Fed(s) :
          IF f.sr = "stall"
          THEN Ends(s, "noMove") /\ Remove(f.table) /\ UNCHANGED origin
          ELSE Homed(f.table, Advance(f.table[i], f.sr = "stop",
                     f.sr = "moving" /\ Far(pos[s], f.table[i].last, 1)))
    BY <1>4 DEF HomingByDisplacement
  <2>3. UNCHANGED <<scene, pos, user, starts>>
    BY <1>4 DEF HomingByDisplacement
  <2>4. /\ f.table \in Table
        /\ \A k \in Slots : f.table[k].devport = slot[k].devport
    BY <1>0, <2>1, FedType
  <2>5. CASE f.sr = "stall"
    <3>1. Drives(s, 0) /\ result' = [result EXCEPT ![s] = "noMove"]
          /\ Remove(f.table) /\ UNCHANGED origin
      BY <2>2, <2>5 DEF Ends
    <3>2. ListOK /\ num' <= num /\ Driven'
      BY <2>1, <2>4, <3>1, RemoveStep
    <3>3. result \in [Servos -> Results] /\ origin \in [Servos -> Places]
          /\ "noMove" \in Results
      BY <1>0, Zenon DEF TypeOK, Results
    <3>4. result' \in [Servos -> Results] /\ origin' \in [Servos -> Places]
      BY <3>1, <3>3
    <3> QED
      BY <2>3, <3>2, <3>4, Assembled
  <2>6. CASE f.sr # "stall"
    <3> DEFINE t == f.table[i]
               hit == f.sr = "stop"
               left == f.sr = "moving" /\ Far(pos[s], f.table[i].last, 1)
               out == Advance(t, hit, left)
    <3>1. Homed(f.table, out)
      BY <2>2, <2>6
    <3>2. t \in Tracker /\ t.devport = s
      BY <2>1, <2>4 DEF Table
    <3>3. hit \in BOOLEAN /\ left \in BOOLEAN
      BY Zenon
    <3> HIDE DEF hit, left, t
    <3>4. /\ out.t \in Tracker /\ out.t.devport = t.devport
          /\ out.motor \in Speeds /\ out.result \in Results /\ out.origin \in Places
      BY <1>0, <3>2, <3>3, AdvanceType
    <3> HIDE DEF out
    <3> QED
      BY <2>1, <2>3, <2>4, <3>1, <3>2, <3>4, HomedStep
  <2> QED
    BY <2>5, <2>6
<1>5. CASE Wild
  BY <1>5, Zenon DEF Wild, vars, list, body, Inv, TypeOK, Room, Driven
<1>6. CASE TickEnd
  <2>1. TypeOK'
    BY <1>0, <1>6, Zenon DEF TickEnd, list, body, TypeOK
  <2> QED
    BY <1>6, <2>1 DEF TickEnd, list, body, Inv, Room, Driven
<1> QED
  BY <1>1, <1>2, <1>3, <1>4, <1>5, <1>6 DEF Tick

LEMMA InvStep == Inv /\ [Next]_vars => Inv'
<1> SUFFICES ASSUME Inv, [Next]_vars PROVE Inv'
  OBVIOUS
<1>1. CASE UNCHANGED vars
  BY <1>1, Zenon DEF vars, list, body, Inv, TypeOK, Room, Driven
<1> QED
  BY <1>1, MainStep, TickStep DEF Next, Ended

\* Every variable keeps its type however commands and ticks interleave, until a
\* command begins on a full list and writes behind it: a command that began on one
\* with room still has it when it counts its tracker.
THEOREM TypeCorrect == Spec => []TypeOK
<1>1. Inv => TypeOK
  BY DEF Inv
<1> QED
  BY <1>1, InvInit, InvStep, PTL DEF Spec

\* A motor that turns always has a tracker that will stop it, even when the
\* tick removes a tracker in the middle of start_homing.
THEOREM DrivenAlways == Spec => []Driven
<1>1. Inv => Driven
  BY DEF Inv
<1> QED
  BY <1>1, InvInit, InvStep, PTL DEF Spec

-----------------------------------------------------------------------------
(* The list overruns only after more commands than it has places.           *)

Begun == IF user.at \in {"home", "homeArmed", "position", "positionArmed"} THEN 1 ELSE 0

\* Every tracker, counted or about to be, is of a command of its own.
Fits ==
  /\ num + Begun <= starts
  /\ user.at = "lost" => starts > MaxTracker

FitsInv == Inv /\ Fits

LEMMA LessStill ==
  ASSUME NEW less \in Int, NEW more \in Int, NEW other \in {0, 1}, NEW sum \in Int,
         less <= more, more + other <= sum
  PROVE  less + other <= sum
OBVIOUS

\* A tick leaves the commands alone and never adds a tracker.
LEMMA TickShortens ==
  ASSUME Inv, Tick
  PROVE  num' \in Int /\ num' <= num /\ UNCHANGED <<user, starts>>
<1>0. num \in Int
  BY Ranges, Numbers DEF Inv
<1>1. CASE TickBegin \/ TickEnd \/ Wild
  BY <1>0, <1>1 DEF TickBegin, TickEnd, Wild, list, vars
<1>2. CASE Positioning
  <2>1. num' \in {num, num - 1} /\ UNCHANGED <<user, starts>>
    BY <1>2 DEF Positioning, Keep, Remove
  <2> QED
    BY <1>0, <2>1
<1>3. CASE HomingBySwitch \/ HomingByDisplacement
  <2>1. num' \in {num, num - 1} /\ UNCHANGED <<user, starts>>
    BY <1>3 DEF HomingBySwitch, HomingByDisplacement, Homed, Keep, Remove
  <2> QED
    BY <1>0, <2>1
<1> QED
  BY <1>1, <1>2, <1>3 DEF Tick

LEMMA FitsMain ==
  ASSUME Inv, Fits, MainLoop
  PROVE  Fits'
<1>0. num \in 0 .. MaxTracker /\ starts \in Nat /\ MaxTracker \in Nat
  BY Ranges, SceneType, Numbers DEF Inv
<1>1. ASSUME NEW s \in Servos, Home(s) \/ Position(s) PROVE Fits'
  <2>1. user.at = "idle" /\ user'.at \in {"home", "position"} /\ num' = num
        /\ starts' = starts + 1
    BY <1>1 DEF Home, Position, Starts, Main
  <2> QED
    BY <1>0, <2>1 DEF Fits, Begun
<1>2. CASE HomeArm \/ PositionArm
  <2>1. /\ user.at \in {"home", "position"} /\ num' = num /\ starts' = starts
        /\ user'.at \in {"homeArmed", "positionArmed"}
    BY <1>2 DEF HomeArm, PositionArm, Main, Inv, TypeOK
  <2> QED
    BY <1>0, <2>1 DEF Fits, Begun
<1>3. CASE Count
  <2>1. /\ user.at \in {"homeArmed", "positionArmed"} /\ num' = num + 1 /\ starts' = starts
        /\ user'.at \in {"idle", "homing", "moving"}
    BY <1>3 DEF Count, Main, After, Inv, TypeOK
  <2> QED
    BY <1>0, <2>1 DEF Fits, Begun
<1>4. CASE Wait
  <2>1. /\ user.at \in {"homing", "moving"} /\ num' = num /\ starts' = starts
        /\ user'.at = "idle"
    BY <1>4 DEF Wait, Main, list, Inv, TypeOK
  <2> QED
    BY <1>0, <2>1 DEF Fits, Begun
<1>5. ASSUME NEW s \in Servos, Overrun(s) PROVE Fits'
  <2>1. user.at = "idle" /\ user'.at = "lost" /\ num' = num /\ starts' = starts + 1
    BY <1>5 DEF Overrun, Starts, Main, list
  <2>2. num = MaxTracker
    BY <1>0, <1>5 DEF Overrun, Slots
  <2> QED
    BY <1>0, <2>1, <2>2 DEF Fits, Begun
<1> QED
  BY <1>1, <1>2, <1>3, <1>4, <1>5 DEF MainLoop

\* The first MaxTracker commands find room and count their trackers inside the
\* array, however ticks come between their halves and whatever they remove; and
\* at no time are there more trackers than commands.
THEOREM FirstCommandsFit ==
  Spec => [](num <= starts /\ (starts <= MaxTracker => user.at # "lost"))
<1>1. Init => FitsInv
  BY InvInit DEF Init, FitsInv, Fits, Begun
<1>2. FitsInv /\ [Next]_vars => FitsInv'
  <2> SUFFICES ASSUME Inv, Fits, [Next]_vars PROVE Fits'
    BY InvStep DEF FitsInv
  <2>0. num \in Int /\ starts \in Int
    BY Ranges, SceneType, Numbers DEF Inv
  <2>1. CASE MainLoop
    BY <2>1, FitsMain
  <2>2. CASE Tick
    <3>1. num' \in Int /\ num' <= num /\ UNCHANGED <<user, starts>>
      BY <2>2, TickShortens
    <3>2. Begun' = Begun /\ Begun \in {0, 1}
      BY <3>1 DEF Begun
    <3>3. num + Begun <= starts /\ (user.at = "lost" => starts > MaxTracker)
      BY DEF Fits
    <3>4. starts' = starts /\ user' = user
      BY <3>1
    <3>5. num' + Begun' <= starts'
      <4>1. num' + Begun <= starts
        BY <2>0, <3>1, <3>2, <3>3, LessStill
      <4> QED
        BY <3>2, <3>4, <4>1
    <3> QED
      BY <3>3, <3>4, <3>5 DEF Fits
  <2>3. CASE UNCHANGED vars
    BY <2>3 DEF vars, list, Fits, Begun
  <2> QED
    BY <2>1, <2>2, <2>3 DEF Next, Ended
<1>3. FitsInv => num <= starts /\ (starts <= MaxTracker => user.at # "lost")
  <2> SUFFICES ASSUME FitsInv
               PROVE  num <= starts /\ (starts <= MaxTracker => user.at # "lost")
    OBVIOUS
  <2>1. num \in Int /\ starts \in Int /\ MaxTracker \in Int
    BY Ranges, SceneType, Numbers DEF FitsInv, Inv
  <2> QED
    BY <2>1 DEF FitsInv, Fits, Begun
<1> QED
  BY <1>1, <1>2, <1>3, PTL DEF Spec

-----------------------------------------------------------------------------
(* HomingTracked.  With one servo and no positioning every counted tracker  *)
(* is a homing of that servo, and so is the slot at the end of the list     *)
(* while a homing is being started: a removal in between leaves there the   *)
(* tracker that was the last.                                               *)

Its(s, k) == slot[k].tt = "homing" /\ slot[k].devport = s

OnlyHomings(s) ==
  /\ \A k \in Slots : k < num => Its(s, k)
  /\ user.at \in {"home", "homeArmed"} => Its(s, num) /\ user.devport = s
  /\ user.at \notin {"position", "positionArmed"}
  /\ user = [at |-> "homing", devport |-> s] /\ result[s] = "none" => num > 0

Alone(s) == scene.servos = {s} /\ scene.targets = {}

AloneInv == Inv /\ \A s \in Servos : Alone(s) => OnlyHomings(s)

LEMMA KeepOnly ==
  ASSUME Inv, NEW s \in Servos, OnlyHomings(s), i # Idle, i < num, NEW table \in Table,
         \A k \in Slots : table[k].devport = slot[k].devport /\ table[k].tt = slot[k].tt,
         Keep(table), UNCHANGED user
  PROVE  OnlyHomings(s)'
<1>1. slot' = table /\ num' = num
  BY DEF Keep
<1>2. num > 0
  BY Looking DEF Inv
<1>3. user.at \in {"home", "homeArmed"} => num \in Slots
  BY FreeSlot DEF Inv, Room
<1> QED
  BY <1>1, <1>2, <1>3 DEF OnlyHomings, Its

LEMMA RemoveOnly ==
  ASSUME Inv, NEW s \in Servos, OnlyHomings(s), i # Idle, i < num, NEW table \in Table,
         \A k \in Slots : table[k].devport = slot[k].devport /\ table[k].tt = slot[k].tt,
         Remove(table), UNCHANGED user,
         NEW res, res # "none", Ends(slot[i].devport, res)
  PROVE  OnlyHomings(s)'
<1>0. i \in Slots /\ num \in 1 .. MaxTracker
  BY Looking DEF Inv
<1>1. /\ slot' = [k \in Slots |-> IF i <= k /\ k < num - 1 THEN table[k + 1] ELSE table[k]]
      /\ num' = num - 1
  BY DEF Remove
<1>2. \A k \in Slots : k < num => table[k].devport = s /\ table[k].tt = "homing"
  BY DEF OnlyHomings, Its
<1>3. \A k \in Slots : k < num => slot'[k].devport = s /\ slot'[k].tt = "homing"
  <2> TAKE k \in Slots
  <2> HAVE k < num
  <2>1. CASE i <= k /\ k < num - 1
    <3>1. k + 1 \in Slots /\ k + 1 < num
      BY <1>0, <2>1, Numbers, SMTT(30) DEF Slots
    <3> QED
      BY <1>1, <1>2, <2>1, <3>1
  <2>2. CASE ~(i <= k /\ k < num - 1)
    BY <1>1, <1>2, <2>2
  <2> QED
    BY <2>1, <2>2
<1>4. num' \in Slots /\ num' < num
  BY <1>0, <1>1, Numbers DEF Slots
<1>5. result'[s] # "none"
  <2>1. slot[i].devport = s
    BY <1>0 DEF OnlyHomings, Its
  <2>2. result \in [Servos -> Results]
    BY Zenon DEF Inv, TypeOK
  <2> QED
    BY <2>1, <2>2 DEF Ends
<1>6. \A k \in Slots : k < num' => k < num
  BY <1>0, <1>1, Numbers DEF Slots
<1> QED
  BY <1>3, <1>4, <1>5, <1>6 DEF OnlyHomings, Its

LEMMA AloneStep == AloneInv /\ [Next]_vars => AloneInv'
<1> SUFFICES ASSUME AloneInv, [Next]_vars, NEW s \in Servos, Alone(s)'
             PROVE  OnlyHomings(s)'
  BY InvStep DEF AloneInv
<1>0. Inv /\ TypeOK /\ slot \in Table
  BY Ranges DEF AloneInv, Inv
<1>1. UNCHANGED scene
  BY Zenon DEF Next, MainLoop, Home, HomeArm, Position, PositionArm, Count, Wait, Overrun, Ended, Tick,
     TickBegin, Positioning, HomingBySwitch, HomingByDisplacement, Wild, TickEnd, vars
<1>2. OnlyHomings(s) /\ scene.servos = {s} /\ scene.targets = {}
  BY <1>1 DEF AloneInv, Alone
<1>3. ASSUME NEW k \in Slots PROVE slot[k] \in Tracker
  BY <1>0 DEF Table
<1>4. ASSUME NEW q \in Servos, Home(q) PROVE OnlyHomings(s)'
  <2>1. num \in Slots /\ q = s
    BY <1>0, <1>2, <1>4, FreeSlot DEF Home, Starts
  <2>2. slot'[num].tt = "homing" /\ slot'[num].devport = s
    BY <1>0, <1>3, <1>4, <2>1 DEF Home, Table, Tracker
  <2>3. \A k \in Slots : k < num => slot'[k] = slot[k]
    BY <1>0, <1>4, <2>1 DEF Home, Table, Slots
  <2>4. user' = [at |-> "home", devport |-> s] /\ num' = num
    BY <1>4, <2>1 DEF Home
  <2> QED
    BY <1>2, <2>2, <2>3, <2>4 DEF OnlyHomings, Its
<1>5. CASE HomeArm
  <2>1. num \in Slots /\ user.at = "home"
    BY <1>0, <1>5, FreeSlot DEF HomeArm, Main, Room, Inv
  <2>2. slot'[num].tt = slot[num].tt /\ slot'[num].devport = slot[num].devport
    <3>1. slot[num] \in Tracker
      BY <1>3, <2>1
    <3> DEFINE p == pos[user.devport]
               d == [slot[num].sd EXCEPT !.inited = FALSE, !.armed = TRUE]
    <3>2. slot'[num] = [slot[num] EXCEPT !.mark = p, !.last = p, !.age = 0, !.sd = d]
      BY <1>0, <1>5, <2>1, <3>1 DEF HomeArm, Table, Tracker
    <3> HIDE DEF p, d
    <3> QED
      BY <3>1, <3>2 DEF Tracker
  <2>3. \A k \in Slots : k < num => slot'[k] = slot[k]
    <3>1. \A k \in Slots \ {num} : slot'[k] = slot[k]
      BY <1>0, <1>5, <2>1 DEF HomeArm, Table
    <3> QED
      BY <2>1, <3>1, Numbers DEF Slots
  <2>4. user' = [user EXCEPT !.at = "homeArmed"] /\ num' = num
    BY <1>5 DEF HomeArm
  <2>5. user'.at = "homeArmed" /\ user'.devport = user.devport
    BY <1>0, <2>4 DEF TypeOK
  <2> QED
    BY <1>2, <2>1, <2>2, <2>3, <2>4, <2>5 DEF OnlyHomings, Its
<1>6. ASSUME NEW q \in Servos, Position(q) PROVE FALSE
  BY <1>2, <1>6 DEF Position
<1>7. CASE PositionArm
  BY <1>2, <1>7 DEF PositionArm, Main, OnlyHomings
<1>8. CASE Count
  <2>1. user.at = "homeArmed" /\ user' = [user EXCEPT !.at = After("homing")]
        /\ num' = num + 1 /\ UNCHANGED slot
    BY <1>2, <1>8 DEF Count, Main, OnlyHomings
  <2>2. num \in Slots
    BY <1>0, <2>1, FreeSlot DEF Room, Inv
  <2>3. user'.at \in {"homing", "idle"}
    BY <1>0, <2>1 DEF After, TypeOK
  <2>4. num' = num + 1
    BY <2>1
  <2>5. num' > 0 /\ \A k \in Slots : k < num' => k < num \/ k = num
    BY <2>2, <2>4, Numbers DEF Slots
  <2> QED
    BY <1>2, <2>1, <2>3, <2>4, <2>5 DEF OnlyHomings, Its
<1>9. CASE Wait
  <2>1. user' = [user EXCEPT !.at = "idle"] /\ UNCHANGED <<slot, num>>
    BY <1>9 DEF Wait, list
  <2>2. user'.at = "idle"
    BY <1>0, <2>1 DEF TypeOK
  <2> QED
    BY <1>2, <2>1, <2>2 DEF OnlyHomings, Its
<1>10. CASE TickBegin
  <2>1. \A k \in Slots : slot'[k].tt = slot[k].tt /\ slot'[k].devport = slot[k].devport
    <3> TAKE k \in Slots
    <3>1. slot'[k] = Aged(slot[k])
      BY <1>10 DEF TickBegin
    <3> QED
      BY <1>3, <3>1, AgedType
  <2>2. UNCHANGED <<num, user, result>>
    BY <1>10, Zenon DEF TickBegin
  <2>3. user.at \in {"home", "homeArmed"} => num \in Slots
    BY <1>0, FreeSlot DEF Inv, Room
  <2> QED
    BY <1>2, <2>1, <2>2, <2>3 DEF OnlyHomings, Its
<1>11. CASE Positioning
  BY <1>0, <1>2, <1>11, Looking DEF Positioning, At, OnlyHomings, Its
<1>12. CASE HomingBySwitch
  <2> DEFINE t == slot[i]
             hit == Pressed(t.devport)
             left == Released(t.devport) /\ t.age >= RevertTicks
             out == Advance(t, hit, left)
             next == [slot EXCEPT ![i] = out.t]
  <2>1. i # Idle /\ i < num /\ i \in Slots /\ t \in Tracker
    BY <1>0, <1>12, Looking DEF HomingBySwitch, At
  <2>2. Homed(slot, out) /\ UNCHANGED user
    BY <1>12 DEF HomingBySwitch
  <2>3. hit \in BOOLEAN /\ left \in BOOLEAN
    BY DEF Pressed, Released, AtEnd
  <2> HIDE DEF hit, left
  <2>4. out.t \in Tracker /\ out.t.devport = t.devport /\ out.t.tt = t.tt
    BY <1>0, <2>1, <2>3, AdvanceType
  <2> HIDE DEF out
  <2>5. /\ next \in Table
        /\ \A k \in Slots : next[k].devport = slot[k].devport /\ next[k].tt = slot[k].tt
    BY <1>0, <2>1, <2>4 DEF Table
  <2>6. IF Limited(out.t) THEN Ends(t.devport, "limit") /\ Remove(next) ELSE Keep(next)
    BY <2>2, <2>4 DEF Homed
  <2> HIDE DEF next, t
  <2> QED
    BY <1>0, <1>2, <2>1, <2>2, <2>5, <2>6, KeepOnly, RemoveOnly DEF t
<1>13. CASE HomingByDisplacement
  <2> DEFINE q == slot[i].devport
  <2>1. i # Idle /\ i < num /\ i \in Slots /\ q \in Servos
    BY <1>0, <1>13, Looking DEF HomingByDisplacement, At
  <2>2. PICK f \in Fed(q) :
          IF f.sr = "stall"
          THEN Ends(q, "noMove") /\ Remove(f.table) /\ UNCHANGED origin
          ELSE Homed(f.table, Advance(f.table[i], f.sr = "stop",
                     f.sr = "moving" /\ Far(pos[q], f.table[i].last, 1)))
    BY <1>13 DEF HomingByDisplacement
  <2>3. UNCHANGED user
    BY <1>13 DEF HomingByDisplacement
  <2>4. /\ f.table \in Table
        /\ \A k \in Slots : f.table[k].devport = slot[k].devport /\ f.table[k].tt = slot[k].tt
    BY <1>0, <2>1, FedType
  <2>5. CASE f.sr = "stall"
    BY <1>0, <1>2, <2>1, <2>2, <2>3, <2>4, <2>5, RemoveOnly
  <2>6. CASE f.sr # "stall"
    <3> DEFINE t == f.table[i]
               hit == f.sr = "stop"
               left == f.sr = "moving" /\ Far(pos[q], f.table[i].last, 1)
               out == Advance(t, hit, left)
               next == [f.table EXCEPT ![i] = out.t]
    <3>1. Homed(f.table, out)
      BY <2>2, <2>6
    <3>2. t \in Tracker /\ t.devport = q /\ t.tt = slot[i].tt
      BY <2>1, <2>4 DEF Table
    <3>3. hit \in BOOLEAN /\ left \in BOOLEAN
      BY Zenon
    <3> HIDE DEF hit, left, t
    <3>4. out.t \in Tracker /\ out.t.devport = t.devport /\ out.t.tt = t.tt
      BY <1>0, <3>2, <3>3, AdvanceType
    <3> HIDE DEF out
    <3>5. /\ next \in Table
          /\ \A k \in Slots : next[k].devport = slot[k].devport /\ next[k].tt = slot[k].tt
      BY <2>1, <2>4, <3>2, <3>4 DEF Table
    <3>6. IF Limited(out.t) THEN Ends(q, "limit") /\ Remove(next) ELSE Keep(next)
      BY <3>1, <3>2, <3>4 DEF Homed
    <3> HIDE DEF next
    <3> QED
      BY <1>0, <1>2, <2>1, <2>3, <3>5, <3>6, KeepOnly, RemoveOnly
  <2> QED
    BY <2>5, <2>6
<1>14. CASE TickEnd \/ UNCHANGED vars
  <2>1. UNCHANGED <<slot, num, user, result>>
    BY <1>14, Zenon DEF TickEnd, vars, list
  <2> QED
    BY <1>2, <2>1 DEF OnlyHomings, Its
<1>15. CASE Wild
  BY <1>0, <1>2, <1>15, Looking DEF Wild, At, OnlyHomings, Its
<1>16. ASSUME NEW q \in Servos, Overrun(q) PROVE OnlyHomings(s)'
  <2>1. user' = [at |-> "lost", devport |-> q] /\ UNCHANGED <<slot, num, result>>
    BY <1>16 DEF Overrun, list
  <2> QED
    BY <1>2, <2>1 DEF OnlyHomings, Its
<1> QED
  BY <1>4, <1>5, <1>6, <1>7, <1>8, <1>9, <1>10, <1>11, <1>12, <1>13, <1>14, <1>15, <1>16
     DEF Next, MainLoop, Tick, Ended

\* While a user with one servo waits for its homing, a homing tracker of that
\* servo is in the list: the race with the tick never leaves it waiting for
\* nothing.
THEOREM HomingTrackedAlways == Spec => []HomingTracked
<1>1. Init => AloneInv
  <2> SUFFICES ASSUME Init, NEW s \in Servos PROVE OnlyHomings(s)
    BY InvInit DEF AloneInv
  <2>1. num = 0 /\ user.at = "idle"
    BY DEF Init
  <2> QED
    BY <2>1 DEF OnlyHomings, Slots
<1>2. AloneInv => HomingTracked
  <2> SUFFICES ASSUME AloneInv, NEW s \in Servos, Alone(s),
                      user = [at |-> "homing", devport |-> s], result[s] = "none"
               PROVE  \E k \in Slots : k < num /\ Its(s, k)
    BY DEF HomingTracked, Alone, Its
  <2>1. OnlyHomings(s) /\ num > 0
    BY DEF AloneInv, OnlyHomings
  <2>2. 0 \in Slots /\ 0 < num
    BY <2>1, Numbers DEF Slots
  <2> QED
    BY <2>1, <2>2 DEF OnlyHomings
<1> QED
  BY <1>1, <1>2, AloneStep, PTL DEF Spec

-----------------------------------------------------------------------------
(* LimitNeverHomes and HomedOnSwitch.  A user who starts one thing only, or *)
(* waits for homings on a limit switch, has one tracker at a time.          *)

Solo == scene.starts = 1 \/ (scene.kind = "limit" /\ scene.patient)

\* A homing on a limit switch never gets past reversing; one on the homing
\* switch that is done stands still on it.
FirstGood ==
  slot[0].tt = "homing" =>
    /\ scene.kind = "limit" => slot[0].status \in {"start", "engage", "endstop1", "revert"}
    /\ scene.kind = "switch" /\ slot[0].status = "endstop2" =>
         motor[slot[0].devport] = 0 /\ AtEnd(pos[slot[0].devport], Zone)

Reported ==
  \A s \in Servos :
    result[s] = "success" => /\ scene.kind # "limit"
                             /\ scene.kind = "switch" => AtEnd(origin[s], Zone)

\* What a user who waits waits for.
Awaited ==
  /\ slot[0].devport = user.devport
  /\ user.at = "homing" => slot[0].tt = "homing" /\ result[user.devport] = "none"
  /\ user.at = "moving" => cur[user.devport] # NoSlot

SoloOK ==
  /\ num <= 1
  /\ num = 1 => slot[0].tt \in {"homing", "position"} /\ FirstGood
  /\ user.at = "idle" /\ starts < scene.starts => num = 0
  /\ user.at \in {"home", "homeArmed"} =>
       num = 0 /\ slot[0].tt = "homing" /\ slot[0].status = "start"
               /\ slot[0].devport = user.devport
  /\ user.at \in {"position", "positionArmed"} => num = 0 /\ slot[0].tt = "position"
  /\ user.at = "homeArmed" => result[user.devport] = "none"
  /\ user.at = "positionArmed" => slot[0].devport = user.devport /\ cur[user.devport] # NoSlot
  /\ scene.kind = "limit" /\ scene.patient /\ user.at \in {"homing", "moving"} /\ num = 1 =>
       Awaited
  /\ user.at # "idle" => starts >= scene.starts \/ (scene.kind = "limit" /\ scene.patient)
  /\ Reported

SoloInv == Inv /\ (Solo => SoloOK)

LEMMA FirstSlot == 0 \in Slots
BY Numbers DEF Slots

\* The only tracker a tick can look at is the first one.
LEMMA LookingSolo ==
  ASSUME Inv, SoloOK, i # Idle, i < num
  PROVE  i = 0 /\ num = 1
<1>1. i \in Slots /\ num \in 1 .. MaxTracker
  BY Looking DEF Inv
<1>2. num <= 1
  BY DEF SoloOK
<1> QED
  BY <1>1, <1>2, Numbers DEF Slots

\* A tick that keeps the tracker.
LEMMA KeepSolo ==
  ASSUME Inv, SoloOK, i # Idle, i < num, NEW table \in Table, Keep(table),
         table[0].tt = slot[0].tt, table[0].devport = slot[0].devport,
         FirstGood', UNCHANGED <<scene, user, starts>>,
         user.at = "homing" /\ scene.kind = "limit" => UNCHANGED result,
         Reported'
  PROVE  SoloOK'
<1>0. i = 0 /\ num = 1
  BY LookingSolo
<1>1. slot' = table /\ num' = 1 /\ cur' = cur
  BY <1>0 DEF Keep
<1>2. user.at \notin {"home", "homeArmed", "position", "positionArmed"}
  BY <1>0 DEF SoloOK
<1>3. scene.kind = "limit" /\ scene.patient /\ user.at \in {"homing", "moving"} => Awaited'
  BY <1>0, <1>1 DEF SoloOK, Awaited
<1> QED
  BY <1>0, <1>1, <1>2, <1>3 DEF SoloOK

\* A tick that removes it.
LEMMA RemoveSolo ==
  ASSUME Inv, SoloOK, i # Idle, i < num, NEW table \in Table, Remove(table),
         UNCHANGED <<scene, user, starts>>, Reported'
  PROVE  SoloOK'
<1>0. i = 0 /\ num = 1
  BY LookingSolo
<1>1. num' = 0
  BY <1>0 DEF Remove
<1>2. user.at \notin {"home", "homeArmed", "position", "positionArmed"}
  BY <1>0 DEF SoloOK
<1> QED
  BY <1>0, <1>1, <1>2 DEF SoloOK

\* One tracker at a time never fills the list.
LEMMA SoloFits ==
  ASSUME SoloOK, NEW s \in Servos
  PROVE  ~Overrun(s)
<1> SUFFICES ASSUME Overrun(s) PROVE FALSE
  OBVIOUS
<1>1. num = 0
  BY DEF Overrun, Starts, Main, SoloOK
<1> QED
  BY <1>1, FirstSlot DEF Overrun

LEMMA SoloMain ==
  ASSUME Inv, SoloOK, Solo, MainLoop
  PROVE  SoloOK'
<1>0. TypeOK /\ slot \in Table /\ num \in 0 .. MaxTracker
  BY Ranges DEF Inv
<1>00. slot[0] \in Tracker /\ user.devport \in Servos
  BY <1>0, FirstSlot DEF Table, TypeOK
<1>01. starts \in Nat /\ scene.starts \in Nat
  BY Ranges, SceneType, Numbers DEF Inv
<1>1. ASSUME NEW s \in Servos, Home(s) PROVE SoloOK'
  <2>1. user.at = "idle" /\ starts < scene.starts /\ starts' = starts + 1
    BY <1>1 DEF Home, Starts, Main
  <2>2. num = 0
    BY <2>1 DEF SoloOK
  <2>3. slot'[0].tt = "homing" /\ slot'[0].status = "start" /\ slot'[0].devport = s
    BY <1>0, <1>00, <1>1, <2>2, FirstSlot DEF Home, Table, Tracker
  <2>4. /\ user' = [at |-> "home", devport |-> s]
        /\ UNCHANGED <<scene, num, cur, result, body, i>>
    BY <1>1 DEF Home
  <2>5. Reported'
    BY <2>4 DEF SoloOK, Reported, body, AtEnd
  <2>6. starts' >= scene'.starts \/ (scene'.kind = "limit" /\ scene'.patient)
    <3>1. starts' >= scene.starts \/ (scene.kind = "limit" /\ scene.patient)
      BY <1>01, <2>1 DEF Solo
    <3> QED
      BY <2>4, <3>1
  <2> QED
    BY <2>2, <2>3, <2>4, <2>5, <2>6 DEF SoloOK
<1>2. CASE HomeArm
  <2>1. user.at = "home"
    BY <1>2 DEF HomeArm, Main
  <2>2. num = 0 /\ slot[0].tt = "homing" /\ slot[0].status = "start"
        /\ slot[0].devport = user.devport
    BY <2>1 DEF SoloOK
  <2>3. slot'[0].tt = slot[0].tt /\ slot'[0].status = slot[0].status
        /\ slot'[0].devport = slot[0].devport
    <3> DEFINE p == pos[user.devport]
               d == [slot[0].sd EXCEPT !.inited = FALSE, !.armed = TRUE]
    <3>1. slot'[0] = [slot[0] EXCEPT !.mark = p, !.last = p, !.age = 0, !.sd = d]
      BY <1>0, <1>00, <1>2, <2>2, FirstSlot DEF HomeArm, Table, Tracker
    <3> HIDE DEF p, d
    <3> QED
      BY <1>00, <3>1 DEF Tracker
  <2>4. /\ user' = [user EXCEPT !.at = "homeArmed"]
        /\ result' = [result EXCEPT ![user.devport] = "none"]
        /\ UNCHANGED <<scene, num, body, i, starts>>
    BY <1>2 DEF HomeArm
  <2>5. user'.at = "homeArmed" /\ user'.devport = user.devport
    BY <1>0, <2>4 DEF TypeOK
  <2>6. result \in [Servos -> Results]
    BY <1>0, Zenon DEF TypeOK
  <2>7. result'[user.devport] = "none" /\ Reported'
    BY <1>00, <2>4, <2>6 DEF SoloOK, Reported, body, AtEnd
  <2> QED
    BY <2>1, <2>2, <2>3, <2>4, <2>5, <2>7 DEF SoloOK
<1>3. ASSUME NEW s \in Servos, Position(s) PROVE SoloOK'
  <2>1. user.at = "idle" /\ starts < scene.starts /\ starts' = starts + 1
    BY <1>3 DEF Position, Starts, Main
  <2>2. num = 0
    BY <2>1 DEF SoloOK
  <2>3. slot'[0].tt = "position"
    BY <1>0, <1>00, <1>3, <2>2, FirstSlot DEF Position, Table, Tracker
  <2>4. /\ user' = [at |-> "position", devport |-> s]
        /\ UNCHANGED <<scene, num, cur, result, body, i>>
    BY <1>3 DEF Position
  <2>5. Reported'
    BY <2>4 DEF SoloOK, Reported, body, AtEnd
  <2>6. starts' >= scene'.starts \/ (scene'.kind = "limit" /\ scene'.patient)
    <3>1. starts' >= scene.starts \/ (scene.kind = "limit" /\ scene.patient)
      BY <1>01, <2>1 DEF Solo
    <3> QED
      BY <2>4, <3>1
  <2> QED
    BY <2>2, <2>3, <2>4, <2>5, <2>6 DEF SoloOK
<1>4. CASE PositionArm
  <2>1. user.at = "position"
    BY <1>4 DEF PositionArm, Main
  <2>2. num = 0 /\ slot[0].tt = "position"
    BY <2>1 DEF SoloOK
  <2>3. PICK target \in scene.targets :
          slot' = [slot EXCEPT ![0].devport = user.devport, ![0].mark = target]
    BY <1>4, <2>2 DEF PositionArm
  <2>4. slot'[0].tt = "position" /\ slot'[0].devport = user.devport
    BY <1>0, <1>00, <2>2, <2>3, FirstSlot DEF Table, Tracker
  <2>5. /\ user' = [user EXCEPT !.at = "positionArmed"]
        /\ cur' = [cur EXCEPT ![user.devport] = 0]
        /\ UNCHANGED <<scene, num, result, body, i, starts>>
    BY <1>4, <2>2 DEF PositionArm, Points
  <2>6. user'.at = "positionArmed" /\ user'.devport = user.devport
    BY <1>0, <2>5 DEF TypeOK
  <2>7. cur'[user.devport] = 0 /\ 0 # NoSlot
    <3>1. cur \in [Servos -> Slots \cup {NoSlot}]
      BY <1>0, Zenon DEF TypeOK
    <3> QED
      BY <1>00, <2>5, <3>1 DEF NoSlot
  <2>8. Reported'
    BY <2>5 DEF SoloOK, Reported, body, AtEnd
  <2> QED
    BY <2>1, <2>2, <2>4, <2>5, <2>6, <2>7, <2>8 DEF SoloOK
<1>5. CASE Count
  <2>1. /\ user.at = "homeArmed" => user' = [user EXCEPT !.at = After("homing")]
        /\ user.at = "positionArmed" => user' = [user EXCEPT !.at = After("moving")]
        /\ user.at \in {"homeArmed", "positionArmed"}
    BY <1>5 DEF Count, Main
  <2>2. num' = num + 1 /\ UNCHANGED <<scene, slot, cur, result, body, i, starts>>
    BY <1>5 DEF Count
  <2>3. num = 0 /\ num' = 1
    BY <2>1, <2>2 DEF SoloOK
  <2>4. user'.devport = user.devport
    BY <1>0, <2>1 DEF TypeOK
  <2>5. /\ user.at = "homeArmed" => user'.at = After("homing")
        /\ user.at = "positionArmed" => user'.at = After("moving")
    BY <1>0, <2>1 DEF TypeOK
  <2>6. Reported'
    BY <2>2 DEF SoloOK, Reported, body, AtEnd
  <2>7. slot[0].tt \in {"homing", "position"} /\ (slot[0].tt = "homing" => slot[0].status = "start")
    BY <2>1 DEF SoloOK
  <2>8. FirstGood'
    BY <2>2, <2>7 DEF FirstGood
  <2>9. starts >= scene.starts \/ (scene.kind = "limit" /\ scene.patient)
    BY <2>1 DEF SoloOK
  <2>10. user'.at = "idle" => starts' >= scene'.starts
    BY <2>1, <2>2, <2>5, <2>9 DEF After
  <2>11. user'.at \in {"homing", "moving"} => Awaited'
    BY <2>1, <2>2, <2>4, <2>5 DEF SoloOK, Awaited, After
  <2>12. user'.at \in {"idle", "homing", "moving"}
    BY <2>1, <2>5 DEF After
  <2> QED
    BY <1>01, <2>2, <2>3, <2>6, <2>7, <2>8, <2>9, <2>10, <2>11, <2>12 DEF SoloOK
<1>6. CASE Wait
  <2>1. /\ user.at \in {"homing", "moving"}
        /\ user.at = "homing" => result[user.devport] # "none"
        /\ user.at = "moving" => cur[user.devport] = NoSlot
        /\ user' = [user EXCEPT !.at = "idle"]
        /\ UNCHANGED <<scene, list, result, body, i, starts>>
    BY <1>6 DEF Wait, Main
  <2>2. user'.at = "idle" /\ UNCHANGED <<slot, num>>
    BY <1>0, <2>1 DEF TypeOK, list
  <2>3. Reported'
    BY <2>1 DEF SoloOK, Reported, body, AtEnd
  <2>4. starts < scene.starts => num = 0
    BY <1>0, <1>01, <2>1 DEF SoloOK, Awaited
  <2>5. FirstGood' <=> FirstGood
    BY <2>1, <2>2 DEF FirstGood, body, AtEnd
  <2> QED
    BY <2>1, <2>2, <2>3, <2>4, <2>5 DEF SoloOK
<1> QED
  BY <1>1, <1>2, <1>3, <1>4, <1>5, <1>6, SoloFits DEF MainLoop

\* What a step makes of the status, the motor, the result and the origin.
LEMMA AdvanceSolo ==
  ASSUME TypeOK, NEW t \in Tracker, NEW hit \in BOOLEAN, NEW left \in BOOLEAN,
         NEW out, out = Advance(t, hit, left)
  PROVE  /\ out.result # result[t.devport] => out.result = "success" /\ t.status = "endstop2"
         /\ out.origin # origin[t.devport] => out.origin = pos[t.devport]
         /\ t.status = "endstop2" => /\ out.origin = pos[t.devport]
                                     /\ out.motor = motor[t.devport]
         /\ out.t.status = "endstop2" =>
              t.status = "endstop2" \/ (t.status = "again" /\ hit /\ out.motor = 0)
         /\ out.t.status = "again" => t.status = "again" \/ (t.status = "revert" /\ left)
         /\ t.status \in {"start", "engage", "endstop1"} =>
              out.t.status \in {"start", "engage", "endstop1", "revert"}
         /\ t.status = "revert" => out.t.status \in {"revert", "again"}
         /\ out.t.mark = t.mark
<1>1. CASE t.status = "start"
  BY <1>1 DEF Advance, Tracker
<1>2. CASE t.status = "engage"
  BY <1>2 DEF Advance, Tracker
<1>3. CASE t.status = "endstop1"
  BY <1>3 DEF Advance, Tracker
<1>4. CASE t.status = "revert"
  BY <1>4 DEF Advance, Tracker
<1>5. CASE t.status = "again"
  <2>1. Speed(0, t.dir) = 0
    BY SpeedZero
  <2> QED
    BY <1>5, <2>1 DEF Advance, Tracker
<1>6. CASE t.status = "endstop2"
  BY <1>6 DEF Advance, Tracker
<1> QED
  BY <1>1, <1>2, <1>3, <1>4, <1>5, <1>6 DEF Tracker, Statuses

\* The rest of tick_homing: table holds the only tracker, t, and out is what the
\* homing function made of it.
LEMMA HomedSolo ==
  ASSUME Inv, SoloOK, Solo, i # Idle, i < num, slot[0].tt = "homing",
         NEW table \in Table, table[0].devport = slot[0].devport,
         table[0].status = slot[0].status, table[0].tt = slot[0].tt,
         NEW hit \in BOOLEAN, NEW left \in BOOLEAN, NEW out,
         out = Advance(table[0], hit, left),
         scene.kind # "displace" => hit = Pressed(slot[0].devport)
                                    /\ (left => ~Pressed(slot[0].devport)),
         Homed(table, out), UNCHANGED <<scene, pos, user, starts>>
  PROVE  SoloOK'
<1> DEFINE t == table[0]
           s == t.devport
           next == [table EXCEPT ![0] = out.t]
<1>0. TypeOK /\ i = 0 /\ num = 1 /\ 0 \in Slots /\ t \in Tracker /\ s \in Servos
  BY LookingSolo, FirstSlot DEF Inv, Table, Tracker
<1>1. /\ out.t \in Tracker /\ out.t.devport = s /\ out.t.tt = t.tt
      /\ out.motor \in Speeds /\ out.result \in Results /\ out.origin \in Places
  BY <1>0, AdvanceType
<1>2. /\ out.result # result[s] => out.result = "success" /\ t.status = "endstop2"
      /\ out.origin # origin[s] => out.origin = pos[s]
      /\ t.status = "endstop2" => out.origin = pos[s] /\ out.motor = motor[s]
      /\ out.t.status = "endstop2" =>
           t.status = "endstop2" \/ (t.status = "again" /\ hit /\ out.motor = 0)
      /\ out.t.status = "again" => t.status = "again" \/ (t.status = "revert" /\ left)
      /\ t.status \in {"start", "engage", "endstop1"} =>
           out.t.status \in {"start", "engage", "endstop1", "revert"}
      /\ t.status = "revert" => out.t.status \in {"revert", "again"}
  BY <1>0, AdvanceSolo
<1>3. FirstGood /\ Reported
  BY <1>0 DEF SoloOK
<1>4. next \in Table /\ next[0] = out.t
  BY <1>0, <1>1 DEF Table
<1>5. /\ origin' = [origin EXCEPT ![s] = out.origin]
      /\ IF Limited(out.t)
         THEN Ends(s, "limit") /\ Remove(next)
         ELSE Drives(s, out.motor) /\ result' = [result EXCEPT ![s] = out.result] /\ Keep(next)
  BY <1>0, <1>1 DEF Homed
<1>6. /\ result \in [Servos -> Results] /\ origin \in [Servos -> Places]
      /\ motor \in [Servos -> Speeds]
  BY <1>0, Zenon DEF TypeOK
<1>7. /\ scene.kind = "limit" => t.status \in {"start", "engage", "endstop1", "revert"}
      /\ scene.kind = "switch" /\ t.status = "endstop2" => motor[s] = 0 /\ AtEnd(pos[s], Zone)
  BY <1>3 DEF FirstGood
<1> HIDE DEF next, t, s
<1>8. CASE Limited(out.t)
  <2>1. result' = [result EXCEPT ![s] = "limit"] /\ Remove(next)
    BY <1>5, <1>8 DEF Ends
  <2>2. ASSUME NEW q \in Servos, result'[q] = "success"
        PROVE  q # s /\ result[q] = "success" /\ origin'[q] = origin[q]
    BY <1>0, <1>5, <1>6, <2>1, <2>2
  <2>3. Reported'
    BY <1>3, <2>2 DEF Reported, AtEnd
  <2> QED
    BY <1>4, <2>1, <2>3, RemoveSolo
<1>9. CASE ~Limited(out.t)
  <2>1. Drives(s, out.motor) /\ result' = [result EXCEPT ![s] = out.result] /\ Keep(next)
    BY <1>5, <1>9
  <2>2. scene.kind = "limit" => out.result = result[s] /\ out.t.status # "again"
    <3>1. scene.kind = "limit" => Pressed(s)
      BY <1>1, <1>9 DEF Limited, Released
    <3> QED
      BY <1>2, <1>7, <3>1 DEF t, s
  <2>3. scene.kind = "switch" /\ out.result = "success" => AtEnd(out.origin, Zone)
    <3>1. CASE out.result = result[s] /\ out.origin = origin[s]
      BY <1>0, <1>3, <3>1 DEF Reported
    <3>2. CASE t.status = "endstop2"
      BY <1>2, <1>7, <3>2
    <3>3. CASE out.origin # origin[s] /\ t.status # "endstop2"
      BY <1>0, <3>3 DEF Advance, Tracker, t, s
    <3> QED
      BY <1>2, <3>1, <3>2, <3>3
  <2>4. ASSUME NEW q \in Servos, result'[q] = "success"
        PROVE  /\ scene.kind # "limit"
               /\ scene.kind = "switch" => AtEnd(origin'[q], Zone)
    <3>1. CASE q = s
      <4>1. result'[q] = out.result /\ origin'[q] = out.origin
        BY <1>0, <1>5, <1>6, <2>1, <3>1
      <4> QED
        BY <1>0, <1>3, <2>2, <2>3, <2>4, <3>1, <4>1 DEF Reported
    <3>2. CASE q # s
      BY <1>3, <1>5, <1>6, <2>1, <2>4, <3>2 DEF Reported
    <3> QED
      BY <3>1, <3>2
  <2>5. Reported'
    BY <2>4 DEF Reported, AtEnd
  <2>6. motor'[s] = out.motor /\ slot'[0] = out.t
    BY <1>0, <1>4, <1>6, <2>1 DEF Drives, Keep
  <2>7. scene.kind = "switch" /\ out.t.status = "endstop2" =>
          out.motor = 0 /\ AtEnd(pos[s], Zone)
    BY <1>2, <1>7 DEF Pressed, t, s
  <2>8. scene.kind = "limit" => out.t.status \in {"start", "engage", "endstop1", "revert"}
    BY <1>2, <1>7, <2>2
  <2>9. FirstGood'
    BY <1>1, <2>6, <2>7, <2>8 DEF FirstGood, AtEnd
  <2>10. scene.kind = "limit" => UNCHANGED result
    BY <1>0, <1>6, <2>1, <2>2
  <2> QED
    BY <1>1, <1>4, <2>1, <2>5, <2>9, <2>10, KeepSolo DEF t, s
<1> QED
  BY <1>8, <1>9

LEMMA ClampStill ==
  ASSUME NEW p \in Places
  PROVE  Clamp(p + 0) = p
BY Numbers DEF Clamp, Places

LEMMA SoloTick ==
  ASSUME Inv, SoloOK, Solo, Tick
  PROVE  SoloOK'
<1>0. TypeOK /\ slot \in Table /\ num \in 0 .. MaxTracker
  BY Ranges DEF Inv
<1>00. slot[0] \in Tracker /\ slot[0].devport \in Servos
  BY <1>0, FirstSlot DEF Table, Tracker
<1>1. CASE TickBegin
  <2>1. /\ UNCHANGED <<scene, num, cur, result, motor, origin, user, starts>>
        /\ slot' = [k \in Slots |-> Aged(slot[k])]
        /\ \A s \in Servos :
             pos'[s] = Clamp(pos[s] + motor[s]) \/ (scene.jams /\ pos'[s] = pos[s])
    BY <1>1 DEF TickBegin
  <2>2. slot'[0].tt = slot[0].tt /\ slot'[0].status = slot[0].status
        /\ slot'[0].devport = slot[0].devport
    BY <1>00, <2>1, FirstSlot, AgedType
  <2>3. ASSUME NEW s \in Servos, motor[s] = 0 PROVE pos'[s] = pos[s]
    <3>1. pos[s] \in Places
      BY <1>0 DEF TypeOK
    <3> QED
      BY <2>1, <2>3, <3>1, ClampStill
  <2>4. FirstGood => FirstGood'
    BY <1>00, <2>1, <2>2, <2>3 DEF FirstGood, AtEnd
  <2>5. Reported'
    BY <2>1 DEF SoloOK, Reported, AtEnd
  <2> QED
    BY <2>1, <2>2, <2>4, <2>5 DEF SoloOK, Awaited
<1>2. CASE Positioning
  <2> DEFINE s == slot[0].devport
  <2>1. i # Idle /\ i < num /\ slot[i].tt = "position"
    BY <1>2 DEF Positioning, At
  <2>2. i = 0 /\ num = 1
    BY <2>1, LookingSolo
  <2>3. /\ \/ Drives(s, Speed(Fast, 0)) /\ Keep(slot)
           \/ Drives(s, 0) /\ Remove(slot)
        /\ UNCHANGED <<scene, result, pos, origin, user, starts>>
    BY <1>2, <2>2 DEF Positioning
  <2>4. Reported'
    BY <2>3 DEF SoloOK, Reported, AtEnd
  <2>5. CASE Keep(slot)
    <3>1. FirstGood'
      BY <2>1, <2>2, <2>5 DEF FirstGood, Keep
    <3> QED
      BY <1>0, <2>1, <2>3, <2>4, <2>5, <3>1, KeepSolo
  <2>6. CASE Remove(slot)
    BY <1>0, <2>1, <2>3, <2>4, <2>6, RemoveSolo
  <2> QED
    BY <2>3, <2>5, <2>6
<1>3. CASE HomingBySwitch
  <2> DEFINE t == slot[0]
             hit == Pressed(t.devport)
             left == Released(t.devport) /\ t.age >= RevertTicks
             out == Advance(t, hit, left)
  <2>1. i # Idle /\ i < num /\ slot[i].tt = "homing"
    BY <1>3 DEF HomingBySwitch, At
  <2>2. i = 0
    BY <2>1, LookingSolo
  <2>3. Homed(slot, out) /\ UNCHANGED <<scene, pos, user, starts>>
    BY <1>3, <2>2 DEF HomingBySwitch
  <2>4. hit \in BOOLEAN /\ left \in BOOLEAN
    BY DEF Pressed, Released, AtEnd
  <2>5. hit = Pressed(slot[0].devport) /\ (left => ~Pressed(slot[0].devport))
    BY DEF Released
  <2> HIDE DEF hit, left
  <2> QED
    BY <1>0, <2>1, <2>2, <2>3, <2>4, <2>5, HomedSolo
<1>4. CASE HomingByDisplacement
  <2> DEFINE s == slot[0].devport
  <2>1. i # Idle /\ i < num /\ slot[i].tt = "homing" /\ scene.kind = "displace"
    BY <1>4 DEF HomingByDisplacement, At
  <2>2. i = 0
    BY <2>1, LookingSolo
  <2>3. PICK f \in Fed(s) :
          IF f.sr = "stall"
          THEN Ends(s, "noMove") /\ Remove(f.table) /\ UNCHANGED origin
          ELSE Homed(f.table, Advance(f.table[0], f.sr = "stop",
                     f.sr = "moving" /\ Far(pos[s], f.table[0].last, 1)))
    BY <1>4, <2>2 DEF HomingByDisplacement
  <2>4. UNCHANGED <<scene, pos, user, starts>>
    BY <1>4 DEF HomingByDisplacement
  <2>5. f.table \in Table /\ f.table[0].devport = s /\ f.table[0].tt = slot[0].tt
        /\ f.table[0].status = slot[0].status
    BY <1>0, <1>00, FedType, FirstSlot
  <2>6. CASE f.sr = "stall"
    <3>1. Reported'
      BY <2>1, <2>4 DEF Reported
    <3> QED
      BY <2>1, <2>3, <2>4, <2>5, <2>6, <3>1, RemoveSolo
  <2>7. CASE f.sr # "stall"
    <3> DEFINE hit == f.sr = "stop"
               left == f.sr = "moving" /\ Far(pos[s], f.table[0].last, 1)
    <3>1. hit \in BOOLEAN /\ left \in BOOLEAN
      BY Zenon
    <3>2. Homed(f.table, Advance(f.table[0], hit, left))
      BY <2>3, <2>7
    <3> HIDE DEF hit, left
    <3> QED
      BY <2>1, <2>2, <2>4, <2>5, <3>1, <3>2, HomedSolo
  <2> QED
    BY <2>6, <2>7
<1>5. CASE Wild
  <2>1. i # Idle /\ i < num /\ slot[i].tt = "wild"
    BY <1>5 DEF Wild, At
  <2>2. i = 0 /\ num = 1
    BY <2>1, LookingSolo
  <2> QED
    BY <2>1, <2>2 DEF SoloOK
<1>6. CASE TickEnd
  <2>1. UNCHANGED <<scene, slot, num, cur, result, motor, pos, origin, user, starts>>
    BY <1>6 DEF TickEnd, list, body
  <2> QED
    BY <2>1 DEF SoloOK, Awaited, FirstGood, Reported, AtEnd
<1> QED
  BY <1>1, <1>2, <1>3, <1>4, <1>5, <1>6 DEF Tick

LEMMA SoloStep == SoloInv /\ [Next]_vars => SoloInv'
<1> SUFFICES ASSUME Inv, Solo' => Solo, SoloOK, Solo, [Next]_vars PROVE SoloOK'
  <2>1. ASSUME [Next]_vars PROVE Solo' => Solo
    <3>1. UNCHANGED scene
      BY <2>1, Zenon DEF Next, MainLoop, Home, HomeArm, Position, PositionArm, Count, Wait,
         Overrun, Ended, Tick, TickBegin, Positioning, HomingBySwitch, HomingByDisplacement, Wild, TickEnd, vars
    <3> QED
      BY <3>1 DEF Solo
  <2> QED
    BY <2>1, InvStep DEF SoloInv
<1>1. CASE UNCHANGED vars
  BY <1>1 DEF vars, list, body, SoloOK, Awaited, FirstGood, Reported, AtEnd
<1> QED
  BY <1>1, SoloMain, SoloTick DEF Next, Ended

LEMMA SoloInit == Init => SoloInv
<1> SUFFICES ASSUME Init PROVE SoloOK
  BY InvInit DEF SoloInv
<1>1. num = 0 /\ user.at = "idle" /\ \A s \in Servos : result[s] = "none"
  BY DEF Init
<1> QED
  BY <1>1 DEF SoloOK, Reported

\* A homing on a limit switch never succeeds for a user who waits for it,
\* wherever it starts and however the servo is held up.
THEOREM LimitNeverHomesAlways == Spec => []LimitNeverHomes
<1>1. SoloInv => LimitNeverHomes
  BY DEF SoloInv, Solo, SoloOK, Reported, LimitNeverHomes
<1> QED
  BY <1>1, SoloInit, SoloStep, PTL DEF Spec

\* The only homing of a servo with a homing switch succeeds on the switch.
THEOREM HomedOnSwitchAlways == Spec => []HomedOnSwitch
<1>1. SoloInv => HomedOnSwitch
  BY DEF SoloInv, Solo, SoloOK, Reported, HomedOnSwitch
<1> QED
  BY <1>1, SoloInit, SoloStep, PTL DEF Spec

-----------------------------------------------------------------------------
(* HomedAtEnd.  A single homing by displacement of a servo that is not held *)
(* up: the second hit is reported at the very end of the track, because     *)
(* until then the slow approach moves further than the detector forgives.   *)

\* Within the time after which it tells a stop, the slow approach covers more
\* than the distance the detector takes for standing still.
Tuned == Slow * StopTicks > StopDistance

Unhindered == scene.starts = 1 /\ scene.kind = "displace" /\ ~scene.jams

\* How far a place lies ahead of another one on the way home.
Ahead(p, last) == IF scene.dir = 0 THEN last - p ELSE p - last

\* The first tracker goes home, or away from it to come back slowly.
Homeward == slot[0].dir = IF slot[0].status = "revert" THEN 1 - scene.dir ELSE scene.dir

\* Its own stall detection is the one that is fed.
Watching(s) == slot[0].sd.armed /\ cur[s] = 0

\* Since the detector saw movement last, the slow approach made its way with
\* every tick, or it is at the end; a homing that is done stands there.
Approach(t, speed, p) ==
  /\ t.status = "again" =>
       /\ t.sd.inited
       /\ speed = Speed(Slow, scene.dir)
       /\ AtEnd(p, 0) \/ Ahead(p, t.sd.last) >= Slow * t.sd.quiet
  /\ t.status = "endstop2" => speed = 0 /\ AtEnd(p, 0)

Approaching == Approach(slot[0], motor[slot[0].devport], pos[slot[0].devport])

EndOK ==
  /\ num = 1 /\ slot[0].tt = "homing" =>
       Watching(slot[0].devport) /\ Homeward /\ Approaching
  /\ user.at \in {"home", "homeArmed"} => Homeward
  /\ user.at = "homeArmed" => Watching(user.devport)
  /\ \A s \in Servos : result[s] = "success" => AtEnd(origin[s], 0)

EndInv == SoloInv /\ (Unhindered => EndOK)

LEMMA SlowWay ==
  ASSUME NEW q \in Nat
  PROVE  /\ Slow * q \in Nat /\ Slow * 0 = 0
         /\ Slow * (q + 1) = Slow * q + Slow
         /\ q >= StopTicks => Slow * q >= Slow * StopTicks
<1>1. Slow \in Nat /\ StopTicks \in Nat
  BY ServoAssumption
<1>2. Slow * q \in Nat /\ Slow * 0 = 0 /\ Slow * (q + 1) = Slow * q + Slow
  BY <1>1
<1>3. ASSUME q >= StopTicks PROVE Slow * q >= Slow * StopTicks
  <2>1. PICK d \in Nat : q = StopTicks + d
    <3>1. q - StopTicks \in Nat /\ q = StopTicks + (q - StopTicks)
      BY <1>1, <1>3
    <3> QED
      BY <3>1
  <2>2. Slow * q = Slow * StopTicks + Slow * d
    BY <1>1, <2>1
  <2>3. Slow * d \in Nat /\ Slow * StopTicks \in Nat
    BY <1>1
  <2> QED
    BY <2>2, <2>3
<1> QED
  BY <1>2, <1>3

\* What an armed stall detection says of where the servo is.
LEMMA FeedSays ==
  ASSUME NEW sd \in StallDetect, sd.armed, NEW p \in Places, NEW f, f = Feed(sd, p)
  PROVE  /\ f.sd.armed
         /\ f.sr = "moving" => f.sd.inited /\ f.sd.last = p /\ f.sd.quiet = 0
         /\ f.sr = "stop" => sd.quiet >= StopTicks /\ ~Far(p, sd.last, StopDistance)
         /\ sd.inited => \/ f.sd = sd
                         \/ f.sd.inited /\ f.sd.last = p /\ f.sd.quiet = 0
<1>1. CASE ~sd.inited
  BY <1>1 DEF Feed, StallDetect
<1>2. CASE sd.inited /\ Far(p, sd.last, StopDistance)
  BY <1>2 DEF Feed, StallDetect
<1>3. CASE sd.inited /\ ~Far(p, sd.last, StopDistance)
  BY <1>3 DEF Feed, StallDetect
<1> QED
  BY <1>1, <1>2, <1>3

\* The way of a tracker through the steps of a homing.
Way(t, hit, left, out) ==
  /\ out.t.sd = t.sd
  /\ t.status \in {"start", "engage"} =>
       out.t.status \in {"engage", "endstop1"} /\ out.t.dir = t.dir
  /\ t.status = "endstop1" => out.t.status = "revert" /\ out.t.dir = 1 - t.dir
  /\ t.status = "revert" =>
       \/ out.t.status = "revert" /\ out.t.dir = t.dir
       \/ /\ left /\ out.t.status = "again" /\ out.t.dir = 1 - t.dir
          /\ out.motor = Speed(Slow, 1 - t.dir)
  /\ t.status = "again" =>
       \/ out.t.status = "again" /\ out.t.dir = t.dir /\ out.motor = motor[t.devport]
       \/ hit /\ out.t.status = "endstop2" /\ out.t.dir = t.dir /\ out.motor = 0
  /\ t.status = "endstop2" =>
       /\ out.t.status = "endstop2" /\ out.t.dir = t.dir
       /\ out.motor = motor[t.devport]

LEMMA AdvanceWay ==
  ASSUME TypeOK, NEW t \in Tracker, NEW hit \in BOOLEAN, NEW left \in BOOLEAN,
         NEW out, out = Advance(t, hit, left)
  PROVE  Way(t, hit, left, out)
<1>1. CASE t.status = "start"
  BY <1>1 DEF Way, Advance, Tracker
<1>2. CASE t.status = "engage"
  BY <1>2 DEF Way, Advance, Tracker
<1>3. CASE t.status = "endstop1"
  BY <1>3 DEF Way, Advance, Tracker
<1>4. CASE t.status = "revert"
  BY <1>4 DEF Way, Advance, Tracker
<1>5. CASE t.status = "again"
  <2>1. Speed(0, t.dir) = 0
    BY SpeedZero
  <2> QED
    BY <1>5, <2>1 DEF Way, Advance, Tracker
<1>6. CASE t.status = "endstop2"
  BY <1>6 DEF Way, Advance, Tracker
<1> QED
  BY <1>1, <1>2, <1>3, <1>4, <1>5, <1>6 DEF Tracker, Statuses

\* What a tick makes of the slow approach: the motor turns on, and the time
\* without movement grows by one tick at most.
LEMMA SlowTick ==
  ASSUME scene.dir \in {0, 1}, NEW p \in Places, NEW last \in Places,
         NEW q \in Nat, NEW q2 \in {q, q + 1},
         AtEnd(p, 0) \/ Ahead(p, last) >= Slow * q,
         NEW p2, p2 = Clamp(p + Speed(Slow, scene.dir))
  PROVE  AtEnd(p2, 0) \/ Ahead(p2, last) >= Slow * q2
<1> DEFINE w == Slow * q
           w2 == Slow * q2
<1>1. Slow \in Nat /\ Track \in Nat /\ p \in 0 .. Track /\ last \in 0 .. Track
  BY Numbers DEF Places
<1>2. w \in Nat /\ w2 \in {w, w + Slow}
  BY SlowWay
<1>3. AtEnd(p, 0) \/ Ahead(p, last) >= w
  OBVIOUS
<1> HIDE DEF w, w2
<1>4. ASSUME scene.dir = 0 PROVE AtEnd(p2, 0) \/ Ahead(p2, last) >= w2
  BY <1>1, <1>2, <1>3, <1>4 DEF AtEnd, Ahead, Clamp, Speed
<1>5. ASSUME scene.dir = 1 PROVE AtEnd(p2, 0) \/ Ahead(p2, last) >= w2
  BY <1>1, <1>2, <1>3, <1>5 DEF AtEnd, Ahead, Clamp, Speed
<1> QED
  BY <1>4, <1>5 DEF w2

LEMMA EndMain ==
  ASSUME Inv, SoloOK, EndOK, Unhindered, MainLoop
  PROVE  EndOK'
<1>0. TypeOK /\ slot \in Table /\ num \in 0 .. MaxTracker /\ Solo
  BY Ranges DEF Inv, Unhindered, Solo
<1>00. slot[0] \in Tracker /\ user.devport \in Servos
  BY <1>0, FirstSlot DEF Table, TypeOK
<1>01. result \in [Servos -> Results] /\ cur \in [Servos -> Slots \cup {NoSlot}]
  BY <1>0, Zenon DEF TypeOK
<1>1. ASSUME NEW s \in Servos, Home(s) PROVE EndOK'
  <2>1. num = 0 /\ user' = [at |-> "home", devport |-> s]
        /\ UNCHANGED <<scene, num, cur, result, body, i>>
    BY <1>1 DEF Home, Starts, Main, SoloOK
  <2>2. slot'[0].status = "start" /\ slot'[0].dir = scene.dir
    BY <1>0, <1>00, <1>1, <2>1, FirstSlot DEF Home, Table, Tracker
  <2>3. Homeward'
    BY <2>1, <2>2 DEF Homeward
  <2> QED
    BY <2>1, <2>3 DEF EndOK, body, AtEnd
<1>2. CASE HomeArm
  <2>1. user.at = "home" /\ num = 0
    BY <1>2 DEF HomeArm, Main, SoloOK
  <2>2. slot'[0].status = slot[0].status /\ slot'[0].dir = slot[0].dir /\ slot'[0].sd.armed
    <3> DEFINE p == pos[user.devport]
               d == [slot[0].sd EXCEPT !.inited = FALSE, !.armed = TRUE]
    <3>1. slot'[0] = [slot[0] EXCEPT !.mark = p, !.last = p, !.age = 0, !.sd = d]
      BY <1>0, <1>00, <1>2, <2>1, FirstSlot DEF HomeArm, Table, Tracker
    <3>2. d.armed
      BY <1>00 DEF Tracker, StallDetect
    <3> HIDE DEF p, d
    <3> QED
      BY <1>00, <3>1, <3>2 DEF Tracker
  <2>3. /\ user' = [user EXCEPT !.at = "homeArmed"]
        /\ result' = [result EXCEPT ![user.devport] = "none"]
        /\ cur' = [cur EXCEPT ![user.devport] = 0]
        /\ UNCHANGED <<scene, num, body, i, starts>>
    BY <1>2, <2>1 DEF HomeArm, Points
  <2>4. user'.at = "homeArmed" /\ user'.devport = user.devport
    BY <1>0, <2>3 DEF TypeOK
  <2>5. Homeward'
    BY <2>1, <2>2, <2>3 DEF EndOK, Homeward
  <2>6. Watching(user.devport)'
    BY <1>00, <1>01, <2>2, <2>3, <2>4 DEF Watching
  <2>7. ASSUME NEW q \in Servos, result'[q] = "success"
        PROVE  result[q] = "success"
    BY <1>00, <1>01, <2>3, <2>7
  <2> QED
    BY <2>1, <2>3, <2>4, <2>5, <2>6, <2>7 DEF EndOK, body, AtEnd
<1>3. ASSUME NEW s \in Servos, Position(s) PROVE EndOK'
  <2>1. num = 0 /\ user' = [at |-> "position", devport |-> s]
        /\ UNCHANGED <<scene, num, cur, result, body, i>>
    BY <1>3 DEF Position, Starts, Main, SoloOK
  <2> QED
    BY <2>1 DEF EndOK, body, AtEnd
<1>4. CASE PositionArm
  <2>1. num = 0 /\ user' = [user EXCEPT !.at = "positionArmed"]
        /\ UNCHANGED <<scene, num, result, body, i, starts>>
    BY <1>4 DEF PositionArm, Main, SoloOK
  <2>2. user'.at = "positionArmed"
    BY <1>0, <2>1 DEF TypeOK
  <2> QED
    BY <2>1, <2>2 DEF EndOK, body, AtEnd
<1>5. CASE Count
  <2>1. /\ user.at \in {"homeArmed", "positionArmed"}
        /\ user' = [user EXCEPT !.at = After("homing")]
           \/ user' = [user EXCEPT !.at = After("moving")]
        /\ UNCHANGED <<scene, slot, cur, result, body, i, starts>>
    BY <1>5 DEF Count, Main
  <2>2. user'.at \in {"idle", "homing", "moving"}
    BY <1>0, <2>1 DEF TypeOK, After
  <2>3. CASE user.at = "homeArmed"
    <3>1. slot[0].devport = user.devport /\ slot[0].status = "start"
      BY <2>3 DEF SoloOK
    <3>2. Watching(slot[0].devport) /\ Homeward
      BY <2>3, <3>1 DEF EndOK
    <3>3. Approaching
      BY <3>1 DEF Approaching, Approach
    <3>4. Watching(slot[0].devport)' /\ Homeward' /\ Approaching'
      BY <2>1, <3>2, <3>3 DEF Watching, Homeward, Approaching, Approach, AtEnd, Ahead, body
    <3> QED
      BY <2>1, <2>2, <3>4 DEF EndOK, AtEnd, body
  <2>4. CASE user.at = "positionArmed"
    <3>1. slot'[0].tt = "position"
      BY <2>1, <2>4 DEF SoloOK
    <3> QED
      BY <2>1, <2>2, <3>1 DEF EndOK, AtEnd, body
  <2> QED
    BY <2>1, <2>3, <2>4
<1>6. CASE Wait
  <2>1. user' = [user EXCEPT !.at = "idle"] /\ UNCHANGED <<scene, list, result, body, i, starts>>
    BY <1>6 DEF Wait
  <2>2. user'.at = "idle"
    BY <1>0, <2>1 DEF TypeOK
  <2>3. /\ Watching(slot[0].devport) => Watching(slot[0].devport)'
        /\ Homeward => Homeward'
        /\ Approaching => Approaching'
    BY <2>1 DEF Watching, Homeward, Approaching, Approach, AtEnd, Ahead, body, list
  <2> QED
    BY <2>1, <2>2, <2>3 DEF EndOK, AtEnd, body, list
<1> QED
  BY <1>1, <1>2, <1>3, <1>4, <1>5, <1>6, SoloFits DEF MainLoop

\* A tick that keeps the tracker, and one that removes it.
LEMMA EndKeeps ==
  ASSUME Inv, SoloOK, EndOK, Unhindered, i # Idle, i < num, NEW table \in Table,
         Keep(table) \/ Remove(table), UNCHANGED <<scene, user>>,
         Keep(table) /\ table[0].tt = "homing" =>
           Watching(slot[0].devport)' /\ Homeward' /\ Approaching',
         \A s \in Servos : result'[s] = "success" => AtEnd(origin'[s], 0)
  PROVE  EndOK'
<1>0. i = 0 /\ num = 1
  BY LookingSolo
<1>1. user.at \notin {"home", "homeArmed"}
  BY <1>0 DEF SoloOK
<1>2. CASE Keep(table)
  <2>1. slot' = table
    BY <1>2 DEF Keep
  <2> QED
    BY <1>1, <1>2, <2>1 DEF EndOK, AtEnd
<1>3. CASE Remove(table)
  <2>1. num' = 0
    BY <1>0, <1>3 DEF Remove
  <2> QED
    BY <1>1, <2>1 DEF EndOK, AtEnd
<1> QED
  BY <1>2, <1>3

\* A slow approach that is taken for standing still is at the end.
LEMMA StopsAtEnd ==
  ASSUME Tuned, scene.dir \in {0, 1}, NEW p \in Places, NEW last \in Places,
         NEW q \in Nat, q >= StopTicks, ~Far(p, last, StopDistance),
         AtEnd(p, 0) \/ Ahead(p, last) >= Slow * q
  PROVE  AtEnd(p, 0)
<1> DEFINE w == Slow * q
           w2 == Slow * StopTicks
<1>1. StopDistance \in Nat /\ Slow \in Nat /\ StopTicks \in Nat
  BY ServoAssumption
<1>2. w \in Nat /\ w2 \in Nat /\ w >= w2 /\ w2 > StopDistance
  BY <1>1, SlowWay DEF Tuned
<1>3. AtEnd(p, 0) \/ Ahead(p, last) >= w
  OBVIOUS
<1> HIDE DEF w, w2
<1>4. Ahead(p, last) <= StopDistance
  BY <1>1, Numbers DEF Ahead, Far, Places
<1>5. Ahead(p, last) \in Int
  BY Numbers DEF Ahead, Places
<1> QED
  BY <1>1, <1>2, <1>3, <1>4, <1>5

\* Where the first tracker is after a step.
LEMMA Approaches ==
  ASSUME NEW t, NEW speed, NEW s, Approach(t, speed, pos[s]), slot'[0] = t, t.devport = s,
         motor'[s] = speed, UNCHANGED <<scene, pos>>
  PROVE  Approaching'
BY DEF Approaching, Approach, AtEnd, Ahead

\* One step of a homing by displacement that goes on: table holds the tracker
\* after its stall detection was fed.
LEMMA EndHomed ==
  ASSUME Inv, SoloOK, EndOK, Unhindered, Tuned, i # Idle, i < num, slot[0].tt = "homing",
         NEW g, g = Feed(slot[0].sd, pos[slot[0].devport]),
         NEW table \in Table, table[0] = [slot[0] EXCEPT !.sd = g.sd],
         NEW hit \in BOOLEAN, hit => g.sr = "stop",
         NEW left \in BOOLEAN, left => g.sr = "moving",
         NEW out, out = Advance(table[0], hit, left),
         Homed(table, out), UNCHANGED <<scene, pos, user, starts>>
  PROVE  EndOK'
<1> DEFINE t == table[0]
           s == slot[0].devport
           next == [table EXCEPT ![0] = out.t]
<1>0. TypeOK /\ i = 0 /\ num = 1 /\ 0 \in Slots /\ t \in Tracker /\ slot[0] \in Tracker
      /\ s \in Servos /\ scene.dir \in {0, 1}
  BY LookingSolo, FirstSlot, SceneType, Ranges DEF Inv, Table, Tracker
<1>1. t = [slot[0] EXCEPT !.sd = g.sd]
  OBVIOUS
<1>2. /\ t.devport = s /\ t.status = slot[0].status /\ t.dir = slot[0].dir
      /\ t.tt = slot[0].tt /\ t.sd = g.sd
  BY <1>0, <1>1 DEF Tracker
<1>3. Watching(s) /\ Homeward /\ Approaching
      /\ \A q \in Servos : result[q] = "success" => AtEnd(origin[q], 0)
  BY <1>0 DEF EndOK
<1>4. out = Advance(t, hit, left)
  OBVIOUS
<1>5. /\ out.t \in Tracker /\ out.t.devport = s /\ out.t.tt = t.tt
      /\ out.motor \in Speeds /\ out.result \in Results /\ out.origin \in Places
  <2>1. /\ out.t \in Tracker /\ out.t.devport = t.devport /\ out.t.tt = t.tt
        /\ out.motor \in Speeds /\ out.result \in Results /\ out.origin \in Places
    BY <1>0, AdvanceType
  <2> HIDE DEF t
  <2> QED
    BY <1>2, <2>1
<1>6. /\ result \in [Servos -> Results] /\ origin \in [Servos -> Places]
      /\ motor \in [Servos -> Speeds] /\ pos \in [Servos -> Places]
  BY <1>0, Zenon DEF TypeOK
<1>7. pos[s] \in Places /\ slot[0].sd \in StallDetect /\ slot[0].sd.armed
  BY <1>0, <1>3, <1>6 DEF Tracker, Watching
<1>8. next \in Table /\ next[0] = out.t
  BY <1>0, <1>5 DEF Table
<1>9. /\ origin' = [origin EXCEPT ![s] = out.origin]
      /\ IF Limited(out.t)
         THEN Ends(s, "limit") /\ Remove(next)
         ELSE Drives(s, out.motor) /\ result' = [result EXCEPT ![s] = out.result] /\ Keep(next)
  BY <1>0, <1>5 DEF Homed
<1>10. /\ g.sd.armed
       /\ g.sr = "moving" => g.sd.inited /\ g.sd.last = pos[s] /\ g.sd.quiet = 0
       /\ hit => slot[0].sd.quiet >= StopTicks
                 /\ ~Far(pos[s], slot[0].sd.last, StopDistance)
       /\ slot[0].sd.inited => \/ g.sd = slot[0].sd
                               \/ g.sd.inited /\ g.sd.last = pos[s] /\ g.sd.quiet = 0
  BY <1>7, FeedSays
<1>11. /\ out.t.sd = g.sd
       /\ slot[0].status \in {"start", "engage"} =>
            out.t.status \in {"engage", "endstop1"} /\ out.t.dir = slot[0].dir
       /\ slot[0].status = "endstop1" =>
            out.t.status = "revert" /\ out.t.dir = 1 - slot[0].dir
       /\ slot[0].status = "revert" =>
            \/ out.t.status = "revert" /\ out.t.dir = slot[0].dir
            \/ /\ left /\ out.t.status = "again" /\ out.t.dir = 1 - slot[0].dir
               /\ out.motor = Speed(Slow, 1 - slot[0].dir)
       /\ slot[0].status = "again" =>
            \/ out.t.status = "again" /\ out.t.dir = slot[0].dir /\ out.motor = motor[s]
            \/ hit /\ out.t.status = "endstop2" /\ out.t.dir = slot[0].dir /\ out.motor = 0
       /\ slot[0].status = "endstop2" =>
            /\ out.t.status = "endstop2" /\ out.t.dir = slot[0].dir
            /\ out.motor = motor[s]
  <2>1. Way(t, hit, left, out)
    BY <1>0, AdvanceWay
  <2> HIDE DEF t
  <2> QED
    BY <1>2, <2>1 DEF Way
<1>12. slot[0].status \in Statuses
  BY <1>0 DEF Tracker
<1>13. slot[0].status = "endstop2" => motor[s] = 0 /\ AtEnd(pos[s], 0)
  BY <1>3 DEF Approaching, Approach
<1>14. slot[0].status = "again" =>
         /\ slot[0].sd.inited /\ motor[s] = Speed(Slow, scene.dir)
         /\ AtEnd(pos[s], 0) \/ Ahead(pos[s], slot[0].sd.last) >= Slow * slot[0].sd.quiet
  BY <1>3 DEF Approaching, Approach
<1> HIDE DEF next, t, s
<1>15. ASSUME NEW q \in Servos, result'[q] = "success"
       PROVE  AtEnd(origin'[q], 0)
  <2>1. CASE q # s
    <3>1. result'[q] = result[q] /\ origin'[q] = origin[q]
      BY <1>6, <1>9, <2>1 DEF Ends
    <3> QED
      BY <1>3, <1>15, <3>1 DEF AtEnd
  <2>2. CASE q = s /\ Limited(out.t)
    BY <1>6, <1>9, <1>15, <2>2 DEF Ends
  <2>3. CASE q = s /\ ~Limited(out.t)
    <3>1. out.result = "success" /\ origin'[q] = out.origin
      BY <1>0, <1>6, <1>9, <1>15, <2>3
    <3>2. CASE slot[0].status = "endstop2"
      <4>1. out.origin = pos[s]
        BY <1>0, <1>2, <1>4, <3>2, AdvanceSolo
      <4> QED
        BY <1>13, <2>3, <3>1, <3>2, <4>1 DEF AtEnd
    <3>3. CASE slot[0].status # "endstop2"
      <4>1. out.result = result[s] /\ out.origin = origin[s]
        BY <1>0, <1>2, <1>12, <3>3 DEF Advance, Tracker, t, s
      <4> QED
        BY <1>0, <1>3, <2>3, <3>1, <4>1 DEF AtEnd
    <3> QED
      BY <3>2, <3>3
  <2> QED
    BY <2>1, <2>2, <2>3
<1>16. ASSUME Keep(next)
       PROVE  Watching(slot[0].devport)' /\ Homeward' /\ Approaching'
  <2>1. slot'[0] = out.t /\ cur' = cur /\ num' = 1
    BY <1>0, <1>8, <1>16 DEF Keep
  <2>2. ~Limited(out.t)
    <3>1. Keep(next) => num' # num - 1
      BY <1>0 DEF Keep
    <3> QED
      BY <1>9, <1>16, <3>1 DEF Remove
  <2>3. motor'[s] = out.motor
    BY <1>0, <1>6, <1>9, <2>2 DEF Drives
  <2>4. Watching(slot[0].devport)'
    <3>1. cur[s] = 0 /\ out.t.sd.armed
      BY <1>3, <1>10, <1>11 DEF Watching
    <3>2. slot'[0].sd.armed /\ cur'[slot'[0].devport] = 0
      BY <1>5, <2>1, <3>1
    <3> QED
      BY <3>2 DEF Watching
  <2>5. Homeward'
    <3>1. 1 - (1 - scene.dir) = scene.dir
      BY <1>0
    <3>2. slot[0].dir = IF slot[0].status = "revert" THEN 1 - scene.dir ELSE scene.dir
      BY <1>3 DEF Homeward
    <3>3. out.t.dir = IF out.t.status = "revert" THEN 1 - scene.dir ELSE scene.dir
      BY <1>11, <1>12, <3>1, <3>2 DEF Statuses
    <3> QED
      BY <2>1, <3>3 DEF Homeward
  <2>6. ASSUME out.t.status = "endstop2"
        PROVE  out.motor = 0 /\ AtEnd(pos[s], 0)
    <3>1. CASE slot[0].status = "endstop2"
      BY <1>11, <1>13, <3>1
    <3>2. CASE slot[0].status = "again"
      <4>1. hit /\ out.motor = 0
        BY <1>11, <2>6, <3>2
      <4>2. slot[0].sd.last \in Places /\ slot[0].sd.quiet \in Nat
        BY <1>7, Numbers DEF StallDetect
      <4>3. AtEnd(pos[s], 0)
        BY <1>0, <1>7, <1>10, <1>14, <3>2, <4>1, <4>2, StopsAtEnd
      <4> QED
        BY <4>1, <4>3
    <3> QED
      BY <1>11, <1>12, <2>6, <3>1, <3>2 DEF Statuses
  <2>7. ASSUME g.sd.last = pos[s], g.sd.quiet = 0
        PROVE  Ahead(pos[s], g.sd.last) >= Slow * g.sd.quiet
    <3>1. Slow * g.sd.quiet = 0
      BY <2>7, SlowWay
    <3>2. Ahead(pos[s], g.sd.last) = 0
      BY <1>7, <2>7, Numbers DEF Ahead, Places
    <3> QED
      BY <3>1, <3>2
  <2>8. ASSUME out.t.status = "again"
        PROVE  /\ g.sd.inited /\ out.motor = Speed(Slow, scene.dir)
               /\ AtEnd(pos[s], 0) \/ Ahead(pos[s], g.sd.last) >= Slow * g.sd.quiet
    <3>1. CASE slot[0].status = "revert"
      <4>1. left /\ out.motor = Speed(Slow, 1 - slot[0].dir)
        BY <1>11, <2>8, <3>1
      <4>2. 1 - slot[0].dir = scene.dir
        BY <1>0, <1>3, <3>1 DEF Homeward
      <4> QED
        BY <1>10, <2>7, <4>1, <4>2
    <3>2. CASE slot[0].status = "again"
      <4>1. out.motor = Speed(Slow, scene.dir)
        BY <1>11, <1>14, <2>8, <3>2
      <4> QED
        BY <1>10, <1>14, <2>7, <3>2, <4>1
    <3> QED
      BY <1>11, <1>12, <2>8, <3>1, <3>2 DEF Statuses
  <2>9. Approach(out.t, out.motor, pos[s])
    BY <1>11, <2>6, <2>8 DEF Approach
  <2>10. Approaching'
    BY <1>5, <2>1, <2>3, <2>9, Approaches
  <2> QED
    BY <2>4, <2>5, <2>10
<1>17. Keep(next) \/ Remove(next)
  BY <1>9
<1> QED
  BY <1>8, <1>15, <1>16, <1>17, EndKeeps

LEMMA EndTick ==
  ASSUME Inv, SoloOK, EndOK, Unhindered, Tuned, Tick
  PROVE  EndOK'
<1>0. TypeOK /\ slot \in Table /\ num \in 0 .. MaxTracker /\ scene.dir \in {0, 1}
      /\ scene.kind = "displace" /\ ~scene.jams
  BY Ranges, SceneType DEF Inv, Unhindered
<1>00. slot[0] \in Tracker /\ slot[0].devport \in Servos
  BY <1>0, FirstSlot DEF Table, Tracker
<1>1. CASE TickBegin
  <2> DEFINE t == slot[0]
             u == slot'[0]
             s == t.devport
             q == t.sd.quiet
             q2 == Older(q, StallTicks)
  <2>1. /\ UNCHANGED <<scene, num, cur, result, motor, origin, user, starts>>
        /\ pos'[s] = Clamp(pos[s] + motor[s])
    BY <1>0, <1>00, <1>1 DEF TickBegin
  <2>2. u = Aged(t)
    BY <1>1, FirstSlot DEF TickBegin
  <2>3. /\ u.devport = s /\ u.tt = t.tt /\ u.status = t.status /\ u.dir = t.dir
        /\ u.sd.inited = t.sd.inited /\ u.sd.armed = t.sd.armed /\ u.sd.last = t.sd.last
        /\ u.sd.quiet = q2
    BY <1>00, <2>2 DEF Aged, Tracker, StallDetect
  <2>4. q \in Nat /\ q2 \in {q, q + 1} /\ t.sd.last \in Places /\ pos[s] \in Places
    BY <1>0, <1>00, Numbers DEF TypeOK, Tracker, StallDetect, Older
  <2> HIDE DEF t, u, s, q, q2
  <2>5. Approach(t, motor[s], pos[s]) => Approach(u, motor[s], pos'[s])
    <3>1. ASSUME motor[s] = Speed(Slow, scene.dir),
                 AtEnd(pos[s], 0) \/ Ahead(pos[s], t.sd.last) >= Slow * q
          PROVE  AtEnd(pos'[s], 0) \/ Ahead(pos'[s], t.sd.last) >= Slow * q2
      BY <1>0, <2>1, <2>4, <3>1, SlowTick
    <3>2. ASSUME motor[s] = 0 PROVE pos'[s] = pos[s]
      BY <2>1, <2>4, <3>2, ClampStill
    <3>3. t.sd.quiet = q
      BY DEF q
    <3> QED
      BY <2>3, <3>1, <3>2, <3>3 DEF Approach
  <2>6. Approaching => Approaching'
    <3>1. Approaching => Approach(t, motor[s], pos[s])
      BY DEF Approaching, t, s
    <3>2. Approach(u, motor[s], pos'[s]) => Approaching'
      BY <2>1, <2>3 DEF Approaching, Approach, AtEnd, Ahead, u
    <3> QED
      BY <2>5, <3>1, <3>2
  <2>7. \A r : Watching(r) => Watching(r)'
    BY <2>1, <2>3 DEF Watching, t, u
  <2>8. Homeward => Homeward'
    BY <2>1, <2>3 DEF Homeward, t, u
  <2>9. slot'[0].devport = slot[0].devport /\ slot'[0].tt = slot[0].tt
    BY <2>3 DEF t, u, s
  <2> QED
    BY <2>1, <2>6, <2>7, <2>8, <2>9 DEF EndOK, Watching, AtEnd
<1>2. CASE Positioning
  <2>1. i # Idle /\ i < num /\ slot[i].tt = "position"
    BY <1>2 DEF Positioning, At
  <2>2. i = 0
    BY <2>1, LookingSolo
  <2>3. /\ Keep(slot) \/ Remove(slot)
        /\ UNCHANGED <<scene, result, pos, origin, user, starts>>
    BY <1>2 DEF Positioning
  <2>4. \A q \in Servos : result'[q] = "success" => AtEnd(origin'[q], 0)
    BY <2>3 DEF EndOK, AtEnd
  <2> QED
    BY <1>0, <2>1, <2>2, <2>3, <2>4, EndKeeps
<1>3. CASE HomingBySwitch
  BY <1>0, <1>3 DEF HomingBySwitch
<1>4. CASE HomingByDisplacement
  <2> DEFINE s == slot[0].devport
             g == Feed(slot[0].sd, pos[s])
  <2>1. i # Idle /\ i < num /\ slot[i].tt = "homing"
    BY <1>4 DEF HomingByDisplacement, At
  <2>2. i = 0 /\ num = 1 /\ 0 # NoSlot
    BY <2>1, LookingSolo DEF NoSlot
  <2>3. PICK f \in Fed(s) :
          IF f.sr = "stall"
          THEN Ends(s, "noMove") /\ Remove(f.table) /\ UNCHANGED origin
          ELSE Homed(f.table, Advance(f.table[0], f.sr = "stop",
                     f.sr = "moving" /\ Far(pos[s], f.table[0].last, 1)))
    BY <1>4, <2>2 DEF HomingByDisplacement
  <2>4. UNCHANGED <<scene, pos, user, starts>>
    BY <1>4 DEF HomingByDisplacement
  <2>5. f.table \in Table
    BY <1>0, <1>00, FedType
  <2>6. cur[s] = 0
    BY <2>1, <2>2 DEF EndOK, Watching
  <2>7. f.sr = g.sr /\ f.table = [slot EXCEPT ![0].sd = g.sd]
    BY <2>2, <2>6 DEF Fed
  <2>8. f.table[0] = [slot[0] EXCEPT !.sd = g.sd]
    BY <1>0, <2>7, FirstSlot DEF Table
  <2>9. CASE f.sr = "stall"
    <3>1. result' = [result EXCEPT ![s] = "noMove"] /\ UNCHANGED origin /\ Remove(f.table)
      BY <2>3, <2>9 DEF Ends
    <3>2. result \in [Servos -> Results]
      BY <1>0, Zenon DEF TypeOK
    <3>3. \A q \in Servos : result'[q] = "success" => AtEnd(origin'[q], 0)
      BY <1>00, <2>4, <3>1, <3>2 DEF EndOK, AtEnd
    <3>4. ~Keep(f.table)
      BY <2>2, <3>1 DEF Keep, Remove
    <3> QED
      BY <2>1, <2>2, <2>4, <2>5, <3>1, <3>3, <3>4, EndKeeps
  <2>10. CASE f.sr # "stall"
    <3> DEFINE hit == f.sr = "stop"
               left == f.sr = "moving" /\ Far(pos[s], f.table[0].last, 1)
    <3>1. hit \in BOOLEAN /\ left \in BOOLEAN
      BY Zenon
    <3>2. (hit => g.sr = "stop") /\ (left => g.sr = "moving")
      BY <2>7
    <3>3. Homed(f.table, Advance(f.table[0], hit, left))
      BY <2>3, <2>10
    <3> HIDE DEF hit, left
    <3> QED
      BY <2>1, <2>2, <2>4, <2>5, <2>8, <3>1, <3>2, <3>3, EndHomed
  <2> QED
    BY <2>9, <2>10
<1>5. CASE Wild
  <2>1. i # Idle /\ i < num /\ slot[i].tt = "wild"
    BY <1>5 DEF Wild, At
  <2>2. i = 0 /\ num = 1
    BY <2>1, LookingSolo
  <2> QED
    BY <2>1, <2>2 DEF SoloOK
<1>6. CASE TickEnd
  <2>1. UNCHANGED <<scene, slot, num, cur, result, motor, pos, origin, user, starts>>
    BY <1>6 DEF TickEnd, list, body
  <2> QED
    BY <2>1 DEF EndOK, Watching, Homeward, Approaching, Approach, AtEnd, Ahead
<1> QED
  BY <1>1, <1>2, <1>3, <1>4, <1>5, <1>6 DEF Tick

\* A single homing by displacement of a servo that is not held up succeeds only
\* at the very end of the track, wherever it starts and whichever way is home.
THEOREM HomedAtEndAlways ==
  ASSUME Tuned
  PROVE  Spec => []HomedAtEnd
<1>1. Init => EndInv
  <2> SUFFICES ASSUME Init PROVE EndOK
    BY SoloInit DEF EndInv
  <2>1. num = 0 /\ user.at = "idle" /\ \A s \in Servos : result[s] = "none"
    BY DEF Init
  <2> QED
    BY <2>1 DEF EndOK
<1>2. EndInv /\ [Next]_vars => EndInv'
  <2> SUFFICES ASSUME EndInv, [Next]_vars, Unhindered' PROVE EndOK'
    BY SoloStep DEF EndInv
  <2>1. UNCHANGED scene
    BY Zenon DEF Next, MainLoop, Home, HomeArm, Position, PositionArm, Count, Wait,
       Overrun, Ended, Tick, TickBegin, Positioning, HomingBySwitch, HomingByDisplacement, Wild, TickEnd, vars
  <2>2. Unhindered /\ Inv /\ SoloOK /\ EndOK
    BY <2>1 DEF EndInv, SoloInv, Unhindered, Solo
  <2>3. CASE UNCHANGED vars
    BY <2>2, <2>3 DEF vars, list, body, EndOK, Watching, Homeward, Approaching, Approach,
       AtEnd, Ahead
  <2> QED
    BY <2>2, <2>3, EndMain, EndTick DEF Next, Ended
<1>3. EndInv => HomedAtEnd
  BY DEF EndInv, EndOK, Unhindered, HomedAtEnd
<1> QED
  BY <1>1, <1>2, <1>3, PTL DEF Spec

-----------------------------------------------------------------------------
(* The safety part of HomingEnds.  A single homing by displacement, however *)
(* the servo is held up, comes nearer to its end with every step of every   *)
(* tick: through its stages, and in each of them along the track, because   *)
(* a servo that does not get on is taken for stalled.                       *)

Single == scene.starts = 1 /\ scene.kind = "displace"

\* The tracker of the homing is in the list, and its end has not been told.
Underway ==
  Single /\ num = 1 /\ slot[0].tt = "homing" /\ result[slot[0].devport] = "none"

\* What is left for a tracker t when the loop of the tick is at k: stages, of
\* the track from where the detector saw movement last, ticks until a stall, and
\* steps of this tick.
StageOf(t, k) ==
  CASE t.status = "start" -> IF k = Idle THEN 6 ELSE 5
    [] t.status = "engage" -> 4
    [] t.status = "endstop1" -> 3
    [] t.status = "revert" -> 2
    [] t.status = "again" -> 1
    [] OTHER -> 0
WayOf(t) == IF t.dir = 0 THEN t.sd.last ELSE Track - t.sd.last
TicksOf(t) == StallTicks - t.sd.quiet
StepsOf(k) == IF k = Idle THEN 0 ELSE IF k = 0 THEN 2 ELSE 1

\* The four as the digits of one number.
Digits(stage, way, ticks, steps) ==
  3 * ((StallTicks + 1) * ((Track + 1) * stage + way) + ticks) + steps
LeftOf(t, k) == Digits(StageOf(t, k), WayOf(t), TicksOf(t), StepsOf(k))
Left == LeftOf(slot[0], i)

\* Every tick brings the end of the homing nearer, and nothing else defers it.
HomingCountsDown ==
  [][Underway =>
       \/ result'[slot[0].devport] # "none"
       \/ Underway' /\ IF Tick THEN Left' < Left ELSE Left' = Left]_vars

\* The place where movement was seen last is not ahead of the servo by more than
\* the detector forgives.
Behind(p, last, dir) == IF dir = 0 THEN p - last <= StopDistance ELSE last - p <= StopDistance

Turns(t, speed, p) ==
  t.status \in {"engage", "revert", "again"} =>
    /\ speed \in {Speed(Fast, t.dir), Speed(Slow, t.dir)}
    /\ Behind(p, t.sd.last, t.dir)

Going(s) ==
  /\ Watching(s)
  /\ slot[0].status = "start" => i \in {Idle, 0}
  /\ slot[0].status # "start" =>
       slot[0].sd.inited /\ (i # 0 => slot[0].sd.quiet < StallTicks)
  /\ Turns(slot[0], motor[s], pos[s])

GoingOK ==
  /\ Underway => Going(slot[0].devport)
  /\ user.at = "homeArmed" => Watching(user.devport)

GoingInv == SoloInv /\ (Single => GoingOK)

-----------------------------------------------------------------------------
(* The measure.                                                             *)

LEMMA Carries ==
  ASSUME NEW K \in Nat, NEW a \in Nat, NEW a2 \in Nat, a2 < a,
         NEW b \in Nat, NEW b2 \in Nat, b2 < K
  PROVE  K * a2 + b2 < K * a + b
<1>1. PICK d \in Nat : a = a2 + 1 + d
  <2>1. a - a2 - 1 \in Nat /\ a = a2 + 1 + (a - a2 - 1)
    OBVIOUS
  <2> QED
    BY <2>1
<1>2. K * a = K * a2 + K + K * d
  BY <1>1
<1>3. K * a2 \in Nat /\ K * d \in Nat
  BY <1>1
<1> QED
  BY <1>2, <1>3

LEMMA DigitsFall ==
  ASSUME NEW a \in Nat, NEW a2 \in Nat, NEW w \in 0 .. Track, NEW w2 \in 0 .. Track,
         NEW t \in 0 .. StallTicks, NEW t2 \in 0 .. StallTicks,
         NEW p \in 0 .. 2, NEW p2 \in 0 .. 2,
         \/ a2 < a
         \/ a2 = a /\ w2 < w
         \/ a2 = a /\ w2 = w /\ t2 < t
         \/ a2 = a /\ w2 = w /\ t2 = t /\ p2 < p
  PROVE  Digits(a2, w2, t2, p2) < Digits(a, w, t, p)
<1> DEFINE A == (Track + 1) * a + w
           A2 == (Track + 1) * a2 + w2
           B == (StallTicks + 1) * A + t
           B2 == (StallTicks + 1) * A2 + t2
<1>1. Track + 1 \in Nat /\ StallTicks + 1 \in Nat /\ w \in Nat /\ w2 \in Nat
      /\ t \in Nat /\ t2 \in Nat /\ p \in Nat /\ p2 \in Nat
      /\ w2 < Track + 1 /\ t2 < StallTicks + 1
  BY Numbers
<1>2. A \in Nat /\ A2 \in Nat
  BY <1>1
<1>3. a2 < a => A2 < A
  BY <1>1, Carries
<1>4. a2 = a => (w2 < w => A2 < A) /\ (w2 = w => A2 = A)
  <2>1. (Track + 1) * a \in Nat
    BY <1>1
  <2> QED
    BY <1>1, <2>1
<1> HIDE DEF A, A2
<1>5. B \in Nat /\ B2 \in Nat
  BY <1>1, <1>2
<1>6. A2 < A => B2 < B
  BY <1>1, <1>2, Carries
<1>7. A2 = A => (t2 < t => B2 < B) /\ (t2 = t => B2 = B)
  <2>1. (StallTicks + 1) * A \in Nat
    BY <1>1, <1>2
  <2> QED
    BY <1>1, <2>1
<1>8. Digits(a, w, t, p) = 3 * B + p /\ Digits(a2, w2, t2, p2) = 3 * B2 + p2
  BY DEF Digits, A, A2
<1> HIDE DEF B, B2
<1>9. B2 < B \/ (B2 = B /\ p2 < p)
  BY <1>3, <1>4, <1>6, <1>7
<1> QED
  BY <1>1, <1>5, <1>8, <1>9

LEMMA DigitTypes ==
  ASSUME NEW t \in Tracker, NEW k
  PROVE  /\ StageOf(t, k) \in 0 .. 6 /\ StageOf(t, k) \in Nat
         /\ WayOf(t) \in 0 .. Track
         /\ TicksOf(t) \in 0 .. StallTicks
         /\ StepsOf(k) \in 0 .. 2
<1>1. t.dir \in {0, 1} /\ t.sd.last \in 0 .. Track /\ t.sd.quiet \in 0 .. StallTicks
  BY DEF Tracker, StallDetect, Places
<1>2. StageOf(t, k) \in 0 .. 6
  BY DEF StageOf
<1>3. StepsOf(k) \in 0 .. 2
  BY DEF StepsOf
<1> QED
  BY <1>1, <1>2, <1>3, Numbers DEF WayOf, TicksOf

LEMMA LeftFalls ==
  ASSUME NEW t \in Tracker, NEW t2 \in Tracker, NEW k, NEW k2,
         \/ StageOf(t2, k2) < StageOf(t, k)
         \/ StageOf(t2, k2) = StageOf(t, k) /\ WayOf(t2) < WayOf(t)
         \/ StageOf(t2, k2) = StageOf(t, k) /\ WayOf(t2) = WayOf(t) /\ TicksOf(t2) < TicksOf(t)
         \/ StageOf(t2, k2) = StageOf(t, k) /\ WayOf(t2) = WayOf(t) /\ TicksOf(t2) = TicksOf(t)
              /\ StepsOf(k2) < StepsOf(k)
  PROVE  LeftOf(t2, k2) < LeftOf(t, k)
BY DigitTypes, DigitsFall DEF LeftOf

\* How many steps a homing can take.
Most == 21 * ((StallTicks + 1) * (Track + 1))

LEMMA LeftBound ==
  ASSUME NEW t \in Tracker, NEW k
  PROVE  LeftOf(t, k) \in 0 .. Most
<1> DEFINE a == StageOf(t, k)
           w == WayOf(t)
           q == TicksOf(t)
           p == StepsOf(k)
           T == Track + 1
           K == StallTicks + 1
           A == T * a + w
           B == K * A + q
<1>1. /\ a \in Nat /\ a < 7 /\ w \in Nat /\ w < T /\ q \in Nat /\ q < K /\ p \in 0 .. 2
      /\ T \in Nat /\ K \in Nat
  BY DigitTypes, Numbers
<1>2. LeftOf(t, k) = 3 * B + p
  BY DEF LeftOf, Digits
<1>3. Most = 21 * (K * T)
  BY DEF Most
<1> HIDE DEF a, w, q, p, T, K
<1>4. A < T * 7 + 0 /\ A \in Nat
  BY <1>1, Carries
<1> HIDE DEF A
<1>5. B < K * (T * 7) + 0 /\ B \in Nat
  <2>1. T * 7 \in Nat /\ A < T * 7
    BY <1>1, <1>4
  <2> QED
    BY <1>1, <1>4, <2>1, Carries
<1>6. K * (T * 7) = 7 * (K * T) /\ K * T \in Nat
  BY <1>1
<1> HIDE DEF B
<1> QED
  BY <1>1, <1>2, <1>3, <1>5, <1>6

-----------------------------------------------------------------------------
(* The steps.                                                               *)

\* What an armed stall detection that does not tell a stall leaves.
LEMMA FeedGoes ==
  ASSUME StallTicks > 0, NEW sd \in StallDetect, sd.armed, NEW p \in Places,
         NEW f, f = Feed(sd, p), f.sr # "stall"
  PROVE  /\ f.sd.armed /\ f.sd.inited /\ f.sd.quiet < StallTicks
         /\ ~Far(p, f.sd.last, StopDistance)
         /\ f.sd.last \in Places
         /\ sd.inited => \/ f.sd = sd
                         \/ f.sd.last = p /\ Far(p, sd.last, StopDistance)
<1>0. StopDistance \in Nat /\ p \in Int /\ sd.last \in Int /\ sd.quiet \in Nat
  BY ServoAssumption, Numbers DEF Places, StallDetect
<1>1. ~Far(p, p, StopDistance)
  BY <1>0 DEF Far
<1>2. CASE ~sd.inited
  <2>1. f.sd = [sd EXCEPT !.inited = TRUE, !.last = p, !.quiet = 0]
    BY <1>2 DEF Feed
  <2>2. f.sd.armed /\ f.sd.inited /\ f.sd.quiet = 0 /\ f.sd.last = p
    BY <2>1 DEF StallDetect
  <2> QED
    BY <1>1, <1>2, <2>2
<1>3. CASE sd.inited /\ Far(p, sd.last, StopDistance)
  <2>1. f.sd = [sd EXCEPT !.last = p, !.quiet = 0]
    BY <1>3 DEF Feed
  <2>2. f.sd.armed /\ f.sd.inited /\ f.sd.quiet = 0 /\ f.sd.last = p
    BY <1>3, <2>1 DEF StallDetect
  <2> QED
    BY <1>1, <1>3, <2>2
<1>4. CASE sd.inited /\ ~Far(p, sd.last, StopDistance)
  <2>1. f.sd = sd /\ ~(sd.quiet >= StallTicks)
    BY <1>4 DEF Feed
  <2>2. sd.last \in Places
    BY DEF StallDetect
  <2> QED
    BY <1>0, <1>4, <2>1, <2>2, Numbers
<1> QED
  BY <1>2, <1>3, <1>4

\* The way of a tracker through the stages, and what its motor does.
Onward(t, out) ==
  /\ out.t.sd = t.sd
  /\ \/ out.t.status = t.status /\ out.t.dir = t.dir /\ out.motor = motor[t.devport]
        /\ t.status \in {"engage", "revert", "again", "endstop2"}
     \/ StageOf(out.t, 1) < StageOf(t, 0)
        /\ (out.t.status \in {"engage", "revert", "again"} =>
              out.motor \in {Speed(Fast, out.t.dir), Speed(Slow, out.t.dir)})
  /\ out.t.status # "start"
  /\ t.status = "endstop2" => out.result = "success"
  /\ t.status # "endstop2" => out.result = result[t.devport]

LEMMA AdvanceOnward ==
  ASSUME TypeOK, NEW t \in Tracker, NEW hit \in BOOLEAN, NEW left \in BOOLEAN,
         NEW out, out = Advance(t, hit, left)
  PROVE  Onward(t, out)
<1>1. CASE t.status = "start"
  <2>1. /\ out.t.status = "engage" /\ out.t.dir = t.dir /\ out.t.sd = t.sd
        /\ out.motor = Speed(Fast, t.dir) /\ out.result = result[t.devport]
    BY <1>1 DEF Advance, Tracker
  <2>2. StageOf(out.t, 1) = 4 /\ StageOf(t, 0) = 5
    BY <1>1, <2>1 DEF StageOf, Idle
  <2> QED
    BY <1>1, <2>1, <2>2 DEF Onward
<1>2. CASE t.status = "engage"
  BY <1>2 DEF Onward, Advance, Tracker, StageOf
<1>3. CASE t.status = "endstop1"
  <2>1. /\ out.t.status = "revert" /\ out.t.dir = 1 - t.dir /\ out.t.sd = t.sd
        /\ out.motor = Speed(Fast, 1 - t.dir) /\ out.result = result[t.devport]
    BY <1>3 DEF Advance, Tracker
  <2>2. StageOf(out.t, 1) = 2 /\ StageOf(t, 0) = 3
    BY <1>3, <2>1 DEF StageOf
  <2> QED
    BY <1>3, <2>1, <2>2 DEF Onward
<1>4. CASE t.status = "revert"
  BY <1>4 DEF Onward, Advance, Tracker, StageOf
<1>5. CASE t.status = "again"
  BY <1>5 DEF Onward, Advance, Tracker, StageOf
<1>6. CASE t.status = "endstop2"
  BY <1>6 DEF Onward, Advance, Tracker, StageOf
<1> QED
  BY <1>1, <1>2, <1>3, <1>4, <1>5, <1>6 DEF Tracker, Statuses

\* The motor takes the servo away from a place behind it, or leaves it there.
LEMMA StaysAhead ==
  ASSUME NEW p \in Places, NEW last \in Places, NEW dir \in {0, 1},
         Behind(p, last, dir),
         NEW speed \in {Speed(Fast, dir), Speed(Slow, dir)},
         NEW p2, p2 = p \/ p2 = Clamp(p + speed)
  PROVE  Behind(p2, last, dir)
<1>1. Fast \in Nat /\ Slow \in Nat /\ Track \in Nat /\ StopDistance \in Nat
      /\ p \in 0 .. Track /\ last \in 0 .. Track
  BY ServoAssumption, Numbers DEF Places
<1>2. CASE dir = 0
  BY <1>1, <1>2 DEF Behind, Speed, Clamp
<1>3. CASE dir = 1
  BY <1>1, <1>3 DEF Behind, Speed, Clamp
<1> QED
  BY <1>2, <1>3

\* Movement that is seen takes place in the direction of the motor.
LEMMA WayFalls ==
  ASSUME NEW t \in Tracker, NEW t2 \in Tracker, t2.dir = t.dir, NEW p \in Places,
         t2.sd.last = p, Far(p, t.sd.last, StopDistance), Behind(p, t.sd.last, t.dir)
  PROVE  WayOf(t2) < WayOf(t)
<1>1. StopDistance \in Nat /\ Track \in Nat /\ p \in 0 .. Track /\ t.sd.last \in 0 .. Track
      /\ t.dir \in {0, 1}
  BY ServoAssumption, Numbers DEF Places, Tracker, StallDetect
<1> QED
  BY <1>1 DEF WayOf, Far, Behind

LEMMA NearBehind ==
  ASSUME NEW p \in Places, NEW last \in Places, ~Far(p, last, StopDistance), NEW dir
  PROVE  Behind(p, last, dir)
BY ServoAssumption, Numbers DEF Places, Far, Behind

\* While a homing is under way the main loop does not touch it.
LEMMA UnderwayMain ==
  ASSUME SoloOK, Underway, MainLoop
  PROVE  Wait
<1>1. num = 1 /\ scene.starts = 1
  BY DEF Underway, Single
<1>2. ASSUME NEW s \in Servos, Home(s) \/ Position(s) PROVE FALSE
  BY <1>1, <1>2 DEF Home, Position, Starts, Main, SoloOK
<1>3. ~HomeArm /\ ~PositionArm /\ ~Count
  BY <1>1 DEF HomeArm, PositionArm, Count, Main, SoloOK
<1> QED
  BY <1>2, <1>3, SoloFits DEF MainLoop

LEMMA GoingMain ==
  ASSUME Inv, SoloOK, GoingOK, Single, MainLoop
  PROVE  GoingOK'
<1>0. TypeOK /\ slot \in Table /\ num \in 0 .. MaxTracker
  BY Ranges DEF Inv
<1>00. slot[0] \in Tracker /\ user.devport \in Servos
  BY <1>0, FirstSlot DEF Table, TypeOK
<1>01. cur \in [Servos -> Slots \cup {NoSlot}]
  BY <1>0, Zenon DEF TypeOK
<1>1. ASSUME NEW s \in Servos, Home(s) \/ Position(s) PROVE GoingOK'
  <2>1. num' = 0 /\ user'.at \in {"home", "position"}
    BY <1>1 DEF Home, Position, Starts, Main, SoloOK
  <2> QED
    BY <2>1 DEF GoingOK, Underway
<1>2. CASE HomeArm
  <2>1. user.at = "home" /\ num = 0
    BY <1>2 DEF HomeArm, Main, SoloOK
  <2>2. slot'[0].sd.armed
    <3> DEFINE p == pos[user.devport]
               d == [slot[0].sd EXCEPT !.inited = FALSE, !.armed = TRUE]
    <3>1. slot'[0] = [slot[0] EXCEPT !.mark = p, !.last = p, !.age = 0, !.sd = d]
      BY <1>0, <1>00, <1>2, <2>1, FirstSlot DEF HomeArm, Table, Tracker
    <3>2. d.armed
      BY <1>00 DEF Tracker, StallDetect
    <3> HIDE DEF p, d
    <3> QED
      BY <1>00, <3>1, <3>2 DEF Tracker
  <2>3. /\ user' = [user EXCEPT !.at = "homeArmed"]
        /\ cur' = [cur EXCEPT ![user.devport] = 0] /\ num' = 0
    BY <1>2, <2>1 DEF HomeArm, Points
  <2>4. user'.devport = user.devport
    BY <1>0, <2>3 DEF TypeOK
  <2>5. Watching(user.devport)'
    BY <1>00, <1>01, <2>2, <2>3, <2>4 DEF Watching
  <2> QED
    BY <2>3, <2>5 DEF GoingOK, Underway
<1>3. CASE PositionArm
  <2>1. num' = 0 /\ user' = [user EXCEPT !.at = "positionArmed"]
    BY <1>3 DEF PositionArm, Main, SoloOK
  <2>2. user'.at = "positionArmed"
    BY <1>0, <2>1 DEF TypeOK
  <2> QED
    BY <2>1, <2>2 DEF GoingOK, Underway
<1>4. CASE Count
  <2>1. /\ i = Idle /\ user.at \in {"homeArmed", "positionArmed"}
        /\ user' = [user EXCEPT !.at = After("homing")]
           \/ user' = [user EXCEPT !.at = After("moving")]
        /\ UNCHANGED <<scene, slot, cur, result, body, i, starts>>
    BY <1>4 DEF Count, Main
  <2>2. user'.at # "homeArmed"
    BY <1>0, <2>1 DEF TypeOK, After
  <2>3. CASE user.at = "homeArmed"
    <3>1. slot[0].devport = user.devport /\ slot[0].status = "start"
      BY <2>3 DEF SoloOK
    <3>2. Watching(slot[0].devport)
      BY <2>3, <3>1 DEF GoingOK
    <3>3. Going(slot[0].devport)'
      BY <2>1, <3>1, <3>2 DEF Going, Watching, Turns
    <3> QED
      BY <2>2, <3>3 DEF GoingOK
  <2>4. CASE user.at = "positionArmed"
    <3>1. slot'[0].tt = "position"
      BY <2>1, <2>4 DEF SoloOK
    <3> QED
      BY <2>2, <3>1 DEF GoingOK, Underway
  <2> QED
    BY <2>1, <2>3, <2>4
<1>5. CASE Wait
  <2>1. user' = [user EXCEPT !.at = "idle"] /\ UNCHANGED <<scene, list, result, body, i, starts>>
    BY <1>5 DEF Wait
  <2>2. user'.at = "idle"
    BY <1>0, <2>1 DEF TypeOK
  <2>3. Underway' => Underway
    BY <2>1 DEF Underway, Single, list
  <2>4. Going(slot[0].devport) => Going(slot[0].devport)'
    BY <2>1 DEF Going, Watching, Turns, Behind, list, body
  <2> QED
    BY <2>2, <2>3, <2>4 DEF GoingOK
<1> QED
  BY <1>1, <1>2, <1>3, <1>4, <1>5, SoloFits DEF MainLoop

\* What a tick does to a homing under way.
Nearer ==
  \/ result'[slot[0].devport] # "none"
  \/ Underway' /\ Left' < Left

\* One step of a homing by displacement that goes on: table holds the tracker
\* after its stall detection was fed.
LEMMA GoingHomed ==
  ASSUME StallTicks > 0, Inv, SoloOK, GoingOK, Underway, i # Idle, i < num,
         NEW g, g = Feed(slot[0].sd, pos[slot[0].devport]), g.sr # "stall",
         NEW table \in Table, table[0] = [slot[0] EXCEPT !.sd = g.sd],
         NEW hit \in BOOLEAN, NEW left \in BOOLEAN,
         NEW out, out = Advance(table[0], hit, left),
         Homed(table, out), UNCHANGED <<scene, pos, user, starts>>
  PROVE  GoingOK' /\ Nearer
<1> DEFINE t == table[0]
           s == slot[0].devport
           p == pos[s]
           next == [table EXCEPT ![0] = out.t]
<1>0. TypeOK /\ i = 0 /\ num = 1 /\ 0 \in Slots /\ t \in Tracker /\ slot[0] \in Tracker
      /\ s \in Servos
  BY LookingSolo, FirstSlot, Ranges DEF Inv, Table, Tracker
<1>1. t = [slot[0] EXCEPT !.sd = g.sd]
  OBVIOUS
<1>2. /\ t.devport = s /\ t.status = slot[0].status /\ t.dir = slot[0].dir
      /\ t.tt = "homing" /\ t.sd = g.sd
  BY <1>0, <1>1 DEF Tracker, Underway
<1>3. Going(s) /\ Single /\ result[s] = "none" /\ user.at # "homeArmed"
  BY <1>0 DEF GoingOK, Underway, SoloOK
<1>4. /\ out.t \in Tracker /\ out.t.devport = s /\ out.t.tt = "homing"
      /\ out.motor \in Speeds
  <2>1. /\ out.t \in Tracker /\ out.t.devport = t.devport /\ out.t.tt = t.tt
        /\ out.motor \in Speeds
    BY <1>0, AdvanceType
  <2> HIDE DEF t
  <2> QED
    BY <1>2, <2>1
<1>5. /\ result \in [Servos -> Results] /\ motor \in [Servos -> Speeds]
      /\ pos \in [Servos -> Places]
  BY <1>0, Zenon DEF TypeOK
<1>6. p \in Places /\ slot[0].sd \in StallDetect /\ slot[0].sd.armed
      /\ slot[0].sd.last \in Places
  BY <1>0, <1>3, <1>5 DEF Tracker, StallDetect, Going, Watching
<1>7. next \in Table /\ next[0] = out.t
  BY <1>0, <1>4 DEF Table
<1>8. IF Limited(out.t)
      THEN Ends(s, "limit") /\ Remove(next)
      ELSE Drives(s, out.motor) /\ result' = [result EXCEPT ![s] = out.result] /\ Keep(next)
  BY <1>0, <1>4 DEF Homed
<1>9. /\ g.sd.armed /\ g.sd.inited /\ g.sd.quiet < StallTicks
      /\ ~Far(p, g.sd.last, StopDistance) /\ g.sd.last \in Places
      /\ slot[0].sd.inited => \/ g.sd = slot[0].sd
                              \/ g.sd.last = p /\ Far(p, slot[0].sd.last, StopDistance)
  BY <1>6, FeedGoes
<1>10. Onward(t, out)
  BY <1>0, AdvanceOnward
<1> HIDE DEF t
<1>11. /\ out.t.sd = g.sd /\ out.t.status # "start"
       /\ slot[0].status = "endstop2" => out.result = "success"
       /\ slot[0].status # "endstop2" => out.result = "none"
       /\ \/ out.t.status = slot[0].status /\ out.t.dir = slot[0].dir /\ out.motor = motor[s]
             /\ slot[0].status \in {"engage", "revert", "again", "endstop2"}
          \/ StageOf(out.t, 1) < StageOf(slot[0], 0)
             /\ (out.t.status \in {"engage", "revert", "again"} =>
                   out.motor \in {Speed(Fast, out.t.dir), Speed(Slow, out.t.dir)})
  BY <1>2, <1>3, <1>10 DEF Onward, StageOf
<1> HIDE DEF next, s, p
<1>12. CASE Limited(out.t)
  <2>1. result' = [result EXCEPT ![s] = "limit"] /\ num' = 0
    BY <1>0, <1>8, <1>12 DEF Ends, Remove
  <2>2. result'[s] = "limit"
    BY <1>0, <1>5, <2>1
  <2>3. Nearer
    BY <2>2 DEF Nearer, s
  <2> QED
    BY <1>3, <2>1, <2>3 DEF GoingOK, Underway
<1>13. CASE ~Limited(out.t)
  <2>1. slot'[0] = out.t /\ cur' = cur /\ num' = 1 /\ i' = 1
    BY <1>0, <1>7, <1>8, <1>13 DEF Keep
  <2>2. motor'[s] = out.motor /\ result'[s] = out.result
    BY <1>0, <1>5, <1>8, <1>13 DEF Drives
  <2>3. CASE slot[0].status = "endstop2"
    <3>1. result'[s] = "success"
      BY <1>11, <2>2, <2>3
    <3>2. Nearer
      BY <3>1 DEF Nearer, s
    <3> QED
      BY <1>3, <1>4, <2>1, <3>1, <3>2 DEF GoingOK, Underway
  <2>4. CASE slot[0].status # "endstop2"
    <3>1. Underway'
      BY <1>3, <1>4, <1>11, <2>1, <2>2, <2>4 DEF Underway, Single
    <3>2. Watching(s)'
      <4>1. cur'[s] = 0
        BY <1>3, <2>1 DEF Going, Watching
      <4>2. slot'[0].sd.armed /\ slot'[0].devport = s
        BY <1>4, <1>9, <1>11, <2>1
      <4> QED
        BY <4>1, <4>2 DEF Watching, s
    <3>3. Turns(slot[0], motor[s], p)
      BY <1>3 DEF Going, p, s
    <3>4. Turns(out.t, out.motor, p)
      <4>1. Behind(p, g.sd.last, out.t.dir)
        BY <1>6, <1>9, NearBehind
      <4> QED
        BY <1>11, <3>3, <4>1 DEF Turns
    <3>5. Going(s)'
      <4>1. pos' = pos
        OBVIOUS
      <4>2. Turns(slot'[0], motor'[s], pos'[s])
        BY <2>1, <2>2, <3>4, <4>1 DEF p
      <4>3. slot'[0].sd.inited /\ slot'[0].sd.quiet < StallTicks /\ slot'[0].status # "start"
        BY <1>9, <1>11, <2>1
      <4>4. Watching(s)' /\ s' = out.t.devport
        BY <2>1, <3>2 DEF s
      <4> QED
        BY <1>4, <4>2, <4>3, <4>4 DEF Going, Turns
    <3>6. LeftOf(out.t, 1) < LeftOf(slot[0], 0)
      <4>1. CASE StageOf(out.t, 1) < StageOf(slot[0], 0)
        BY <1>0, <1>4, <4>1, LeftFalls
      <4>2. CASE /\ out.t.status = slot[0].status /\ out.t.dir = slot[0].dir
                 /\ slot[0].status \in {"engage", "revert", "again"}
        <5>1. StageOf(out.t, 1) = StageOf(slot[0], 0)
          BY <4>2 DEF StageOf
        <5>2. slot[0].sd.inited /\ Behind(p, slot[0].sd.last, slot[0].dir)
          BY <1>3, <3>3, <4>2 DEF Going, Turns
        <5>3. CASE g.sd = slot[0].sd
          <6>1. WayOf(out.t) = WayOf(slot[0]) /\ TicksOf(out.t) = TicksOf(slot[0])
            BY <1>11, <4>2, <5>3 DEF WayOf, TicksOf
          <6>2. StepsOf(1) < StepsOf(0)
            BY DEF StepsOf, Idle
          <6> QED
            BY <1>0, <1>4, <5>1, <6>1, <6>2, LeftFalls
        <5>4. CASE g.sd.last = p /\ Far(p, slot[0].sd.last, StopDistance)
          <6>1. WayOf(out.t) < WayOf(slot[0])
            BY <1>0, <1>4, <1>6, <1>11, <4>2, <5>2, <5>4, WayFalls
          <6> QED
            BY <1>0, <1>4, <5>1, <6>1, LeftFalls
        <5> QED
          BY <1>9, <5>2, <5>3, <5>4
      <4> QED
        BY <1>11, <2>4, <4>1, <4>2
    <3>7. Nearer
      BY <1>0, <2>1, <3>1, <3>6 DEF Nearer, Left
    <3>8. user'.at # "homeArmed"
      BY <1>3
    <3>9. Going(slot[0].devport)'
      BY <3>5 DEF s
    <3> QED
      BY <3>7, <3>8, <3>9, Zenon DEF GoingOK
  <2> QED
    BY <2>3, <2>4
<1> QED
  BY <1>12, <1>13

\* A homing that has ended, or is none, does not come to life in a tick.
LEMMA EndedStays ==
  ASSUME Inv, SoloOK, Single, i # Idle, i < num, UNCHANGED <<scene, user>>, NEW table \in Table,
         \/ Remove(table)
         \/ Keep(table) /\ table[0].tt # "homing"
         \/ Keep(table) /\ result'[table[0].devport] # "none"
  PROVE  GoingOK'
<1>0. i = 0 /\ num = 1
  BY LookingSolo
<1>1. user.at # "homeArmed"
  BY <1>0 DEF SoloOK
<1>2. CASE Remove(table)
  <2>1. num' = 0
    BY <1>0, <1>2 DEF Remove
  <2> QED
    BY <1>1, <2>1 DEF GoingOK, Underway
<1>3. CASE Keep(table) /\ (table[0].tt # "homing" \/ result'[table[0].devport] # "none")
  <2>1. slot' = table
    BY <1>3 DEF Keep
  <2> QED
    BY <1>1, <1>3, <2>1 DEF GoingOK, Underway
<1> QED
  BY <1>2, <1>3

LEMMA GoingBegin ==
  ASSUME Inv, SoloOK, GoingOK, Single, TickBegin
  PROVE  GoingOK' /\ (Underway => Nearer)
<1> DEFINE t == slot[0]
           u == slot'[0]
           s == t.devport
           q == t.sd.quiet
           q2 == Older(q, StallTicks)
<1>0. TypeOK /\ slot \in Table /\ t \in Tracker /\ s \in Servos
  BY Ranges, FirstSlot DEF Inv, Table, Tracker
<1>1. /\ UNCHANGED <<scene, num, cur, result, motor, origin, user, starts>>
      /\ pos'[s] = Clamp(pos[s] + motor[s]) \/ pos'[s] = pos[s]
      /\ i = Idle /\ i' = 0 /\ Idle # 0
  BY <1>0 DEF TickBegin, Idle
<1>2. u = Aged(t)
  BY FirstSlot DEF TickBegin
<1>3. /\ u \in Tracker
      /\ u.devport = s /\ u.tt = t.tt /\ u.status = t.status /\ u.dir = t.dir
      /\ u.sd.inited = t.sd.inited /\ u.sd.armed = t.sd.armed /\ u.sd.last = t.sd.last
      /\ u.sd.quiet = q2
  <2>1. u \in Tracker
    BY <1>0, <1>2, AgedType
  <2> QED
    BY <1>0, <1>2, <2>1 DEF Aged, Tracker, StallDetect
<1>4. /\ q \in Nat /\ (q < StallTicks => q2 = q + 1)
      /\ t.sd.last \in Places /\ t.dir \in {0, 1} /\ pos[s] \in Places
  BY <1>0, Numbers DEF TypeOK, Tracker, StallDetect, Older
<1>5. \A r : Watching(r) => Watching(r)'
  BY <1>1, <1>3 DEF Watching
<1>6. Underway' => Underway
  BY <1>1, <1>3 DEF Underway, Single
<1>7. ASSUME Underway PROVE Underway'
  BY <1>1, <1>3, <1>7 DEF Underway, Single
<1>8. Underway => Going(s)
  BY DEF GoingOK
<1> HIDE DEF t, u, s, q, q2
<1>9. ASSUME Underway PROVE Going(s)'
  <2>1. Watching(s) /\ Turns(t, motor[s], pos[s])
        /\ (t.status # "start" => t.sd.inited)
    BY <1>8, <1>9 DEF Going, t, s
  <2>2. Turns(u, motor[s], pos'[s])
    <3>1. ASSUME motor[s] \in {Speed(Fast, t.dir), Speed(Slow, t.dir)},
                 Behind(pos[s], t.sd.last, t.dir)
          PROVE  Behind(pos'[s], t.sd.last, t.dir)
      BY <1>1, <1>4, <3>1, StaysAhead
    <3> QED
      BY <1>3, <2>1, <3>1 DEF Turns
  <2>3. Turns(slot[0], motor[s], pos[s])'
    <3>1. s' = s
      BY <1>3 DEF s, t, u
    <3> QED
      BY <1>1, <2>2, <3>1 DEF Turns, u
  <2>4. Watching(s)'
    <3>1. slot'[0].devport = slot[0].devport
      BY <1>3 DEF s, t, u
    <3>2. slot'[0].sd.armed /\ cur'[slot[0].devport] = 0
      BY <1>1, <1>3, <2>1 DEF Watching, s, t, u
    <3> QED
      BY <3>1, <3>2 DEF Watching, s, t
  <2>5. slot'[0].status # "start" => slot'[0].sd.inited
    BY <1>3, <2>1 DEF t, u
  <2> QED
    BY <1>1, <2>3, <2>4, <2>5 DEF Going
<1>10. ASSUME Underway PROVE LeftOf(u, 0) < LeftOf(t, Idle)
  <2>1. CASE t.status = "start"
    <3>1. StageOf(u, 0) = 5 /\ StageOf(t, Idle) = 6
      BY <1>1, <1>3, <2>1 DEF StageOf
    <3> QED
      BY <1>0, <1>3, <3>1, LeftFalls
  <2>2. CASE t.status # "start"
    <3>1. q < StallTicks
      BY <1>1, <1>8, <1>10, <2>2 DEF Going, t, q
    <3>2. StageOf(u, 0) = StageOf(t, Idle) /\ WayOf(u) = WayOf(t)
      BY <1>3, <2>2 DEF StageOf, WayOf
    <3>3. TicksOf(u) < TicksOf(t)
      BY <1>3, <1>4, <3>1, Numbers DEF TicksOf, q
    <3> QED
      BY <1>0, <1>3, <3>2, <3>3, LeftFalls
  <2> QED
    BY <2>1, <2>2
<1>11. Underway => Nearer
  BY <1>1, <1>7, <1>10 DEF Nearer, Left, t, u
<1>12. GoingOK'
  <2>1. Underway' => Going(slot[0].devport)'
    BY <1>6, <1>9 DEF s, t
  <2>2. user'.at = "homeArmed" => Watching(user.devport)'
    BY <1>1, <1>5 DEF GoingOK, Watching
  <2> QED
    BY <2>1, <2>2, Zenon DEF GoingOK
<1> QED
  BY <1>11, <1>12

LEMMA GoingEnd ==
  ASSUME Inv, SoloOK, GoingOK, Single, TickEnd
  PROVE  GoingOK' /\ (Underway => Nearer)
<1>0. TypeOK /\ slot \in Table /\ slot[0] \in Tracker
  BY Ranges, FirstSlot DEF Inv, Table
<1>1. /\ UNCHANGED <<scene, slot, num, cur, result, motor, pos, origin, user, starts>>
      /\ i # Idle /\ i >= num /\ i' = Idle
  BY DEF TickEnd, list, body
<1>2. ASSUME Underway PROVE i # 0 /\ slot[0].status # "start"
  <2>1. num = 1 /\ Going(slot[0].devport)
    BY <1>2 DEF GoingOK, Underway
  <2> QED
    BY <1>1, <2>1 DEF Going
<1>3. Underway' <=> Underway
  BY <1>1 DEF Underway, Single
<1>4. ASSUME Underway PROVE Going(slot[0].devport)'
  BY <1>1, <1>2, <1>4 DEF GoingOK, Going, Watching, Turns, Behind
<1>5. ASSUME Underway PROVE LeftOf(slot[0], Idle) < LeftOf(slot[0], i)
  <2>1. StageOf(slot[0], Idle) = StageOf(slot[0], i) /\ StepsOf(Idle) < StepsOf(i)
    BY <1>1, <1>2, <1>5 DEF StageOf, StepsOf
  <2> QED
    BY <1>0, <2>1, LeftFalls
<1>6. Underway => Nearer
  BY <1>1, <1>3, <1>5 DEF Nearer, Left
<1>7. user'.at = "homeArmed" => Watching(user.devport)'
  BY <1>1 DEF GoingOK, Watching
<1>8. GoingOK'
  BY <1>3, <1>4, <1>7, Zenon DEF GoingOK
<1> QED
  BY <1>6, <1>8

LEMMA GoingTick ==
  ASSUME StallTicks > 0, Inv, SoloOK, GoingOK, Single, Tick
  PROVE  GoingOK' /\ (Underway => Nearer)
<1>0. TypeOK /\ slot \in Table /\ 0 \in Slots
  BY Ranges, FirstSlot DEF Inv
<1>00. slot[0] \in Tracker /\ slot[0].devport \in Servos
  BY <1>0 DEF Table, Tracker
<1>01. result \in [Servos -> Results]
  BY <1>0, Zenon DEF TypeOK
<1>1. CASE TickBegin
  BY <1>1, GoingBegin
<1>2. CASE Positioning
  <2>1. i # Idle /\ i < num /\ slot[i].tt = "position"
    BY <1>2 DEF Positioning, At
  <2>2. i = 0
    BY <2>1, LookingSolo
  <2>3. (Keep(slot) \/ Remove(slot)) /\ UNCHANGED <<scene, user>>
    BY <1>2 DEF Positioning
  <2>4. ~Underway
    BY <2>1, <2>2 DEF Underway
  <2>5. slot[0].tt # "homing"
    BY <2>1, <2>2
  <2> QED
    BY <1>0, <2>1, <2>3, <2>4, <2>5, EndedStays
<1>3. CASE HomingBySwitch
  BY <1>3 DEF HomingBySwitch, Single
<1>4. CASE HomingByDisplacement
  <2> DEFINE s == slot[0].devport
             g == Feed(slot[0].sd, pos[s])
  <2>1. i # Idle /\ i < num /\ slot[i].tt = "homing"
    BY <1>4 DEF HomingByDisplacement, At
  <2>2. i = 0 /\ num = 1 /\ 0 # NoSlot
    BY <2>1, LookingSolo DEF NoSlot
  <2>3. PICK f \in Fed(s) :
          IF f.sr = "stall"
          THEN Ends(s, "noMove") /\ Remove(f.table) /\ UNCHANGED origin
          ELSE Homed(f.table, Advance(f.table[0], f.sr = "stop",
                     f.sr = "moving" /\ Far(pos[s], f.table[0].last, 1)))
    BY <1>4, <2>2 DEF HomingByDisplacement
  <2>4. UNCHANGED <<scene, pos, user, starts>>
    BY <1>4 DEF HomingByDisplacement
  <2>5. f.table \in Table /\ f.table[0].devport = s /\ f.table[0].tt = slot[0].tt
    BY <1>0, <1>00, FedType
  <2>6. CASE f.sr = "stall"
    <3>1. result' = [result EXCEPT ![s] = "noMove"] /\ Remove(f.table)
      BY <2>3, <2>6 DEF Ends
    <3>2. Nearer
      BY <1>00, <1>01, <3>1 DEF Nearer
    <3>3. GoingOK'
      BY <2>1, <2>4, <2>5, <3>1, EndedStays
    <3> QED
      BY <3>2, <3>3
  <2>7. CASE f.sr # "stall"
    <3> DEFINE hit == f.sr = "stop"
               left == f.sr = "moving" /\ Far(pos[s], f.table[0].last, 1)
               out == Advance(f.table[0], hit, left)
    <3>1. hit \in BOOLEAN /\ left \in BOOLEAN
      BY Zenon
    <3>2. Homed(f.table, out)
      BY <2>3, <2>7
    <3> HIDE DEF hit, left
    <3>3. CASE Underway
      <4>1. cur[s] = 0
        BY <3>3 DEF GoingOK, Going, Watching
      <4>2. f.sr = g.sr /\ f.table = [slot EXCEPT ![0].sd = g.sd]
        BY <2>2, <4>1 DEF Fed
      <4>3. f.table[0] = [slot[0] EXCEPT !.sd = g.sd]
        BY <1>0, <4>2 DEF Table
      <4>4. g.sr # "stall"
        BY <2>7, <4>2
      <4> QED
        BY <2>1, <2>4, <2>5, <3>1, <3>2, <3>3, <4>3, <4>4, GoingHomed
    <3>4. CASE ~Underway
      <4>1. result[s] # "none"
        BY <2>1, <2>2, <3>4 DEF Underway
      <4>2. f.table[0] \in Tracker
        BY <1>0, <2>5 DEF Table
      <4>3. out.t \in Tracker /\ out.t.devport = s
        BY <1>0, <2>5, <3>1, <4>2, AdvanceType
      <4>4. out.result # "none"
        BY <1>0, <2>5, <3>1, <4>1, <4>2, AdvanceOnward DEF Onward
      <4> DEFINE next == [f.table EXCEPT ![0] = out.t]
      <4>5. next \in Table /\ next[0] = out.t
        BY <1>0, <2>5, <4>3 DEF Table
      <4>6. Remove(next) \/ (Keep(next) /\ result' = [result EXCEPT ![s] = out.result])
        BY <2>2, <3>2, <4>3 DEF Homed
      <4> HIDE DEF next, out
      <4>7. Remove(next) \/ (Keep(next) /\ result'[next[0].devport] # "none")
        BY <1>00, <1>01, <4>3, <4>4, <4>5, <4>6
      <4> QED
        BY <2>1, <2>4, <3>4, <4>5, <4>7, EndedStays
    <3> QED
      BY <3>3, <3>4
  <2> QED
    BY <2>6, <2>7
<1>5. CASE Wild
  <2>1. i # Idle /\ i < num /\ slot[i].tt = "wild"
    BY <1>5 DEF Wild, At
  <2>2. i = 0 /\ num = 1
    BY <2>1, LookingSolo
  <2> QED
    BY <2>1, <2>2 DEF SoloOK
<1>6. CASE TickEnd
  BY <1>6, GoingEnd
<1> QED
  BY <1>1, <1>2, <1>3, <1>4, <1>5, <1>6 DEF Tick

\* Where and whenever a single homing by displacement is started, and however
\* the servo is held up, each step of each tick brings its end nearer, and
\* there are at most Most of them before tick_homing tells a result.
THEOREM HomingCountsDownAlways ==
  ASSUME StallTicks > 0
  PROVE  Spec => HomingCountsDown /\ [](Underway => Left \in 0 .. Most)
<1>1. Init => GoingInv
  <2> SUFFICES ASSUME Init PROVE GoingOK
    BY SoloInit DEF GoingInv
  <2> QED
    BY DEF Init, GoingOK, Underway
<1>2. ASSUME GoingInv, Single, [Next]_vars
      PROVE  GoingOK' /\ (Underway /\ Tick => Nearer)
             /\ (Underway /\ ~Tick => Underway' /\ Left' = Left)
  <2>1. Inv /\ SoloOK /\ GoingOK
    BY <1>2 DEF GoingInv, SoloInv, Single, Solo
  <2>2. CASE Tick
    BY <2>1, <1>2, <2>2, GoingTick
  <2>3. CASE MainLoop /\ ~Tick
    <3>1. GoingOK'
      BY <2>1, <1>2, <2>3, GoingMain
    <3>2. ASSUME Underway PROVE Underway' /\ Left' = Left
      <4>1. Wait
        BY <2>1, <2>3, <3>2, UnderwayMain
      <4>2. UNCHANGED <<scene, list, result, i>>
        BY <4>1 DEF Wait
      <4> QED
        BY <3>2, <4>2 DEF Underway, Single, list, Left
    <3> QED
      BY <2>3, <3>1, <3>2
  <2>4. CASE UNCHANGED vars /\ ~Tick
    BY <2>1, <2>4 DEF vars, list, body, GoingOK, Underway, Single, Going, Watching, Turns,
       Behind, Left
  <2> QED
    BY <1>2, <2>2, <2>3, <2>4 DEF Next, Ended
<1>3. GoingInv /\ [Next]_vars => GoingInv'
  <2> SUFFICES ASSUME GoingInv, [Next]_vars, Single' PROVE GoingOK'
    BY SoloStep DEF GoingInv
  <2>1. UNCHANGED scene
    BY Zenon DEF Next, MainLoop, Home, HomeArm, Position, PositionArm, Count, Wait,
       Overrun, Ended, Tick, TickBegin, Positioning, HomingBySwitch, HomingByDisplacement, Wild, TickEnd, vars
  <2>2. Single
    BY <2>1 DEF Single
  <2> QED
    BY <1>2, <2>2
<1>4. GoingInv /\ [Next]_vars =>
        [Underway =>
           \/ result'[slot[0].devport] # "none"
           \/ Underway' /\ IF Tick THEN Left' < Left ELSE Left' = Left]_vars
  <2> SUFFICES ASSUME GoingInv, [Next]_vars, Underway
               PROVE  \/ result'[slot[0].devport] # "none"
                      \/ Underway' /\ IF Tick THEN Left' < Left ELSE Left' = Left
    OBVIOUS
  <2>1. Single
    BY DEF Underway
  <2> QED
    BY <1>2, <2>1 DEF Nearer
<1>5. GoingInv => (Underway => Left \in 0 .. Most)
  <2> SUFFICES ASSUME GoingInv PROVE Left \in 0 .. Most
    OBVIOUS
  <2>1. slot[0] \in Tracker
    BY Ranges, FirstSlot DEF GoingInv, SoloInv, Inv, Table
  <2> QED
    BY <2>1, LeftBound DEF Left
<1> QED
  BY <1>1, <1>3, <1>4, <1>5, PTL DEF Spec, HomingCountsDown

=============================================================================
