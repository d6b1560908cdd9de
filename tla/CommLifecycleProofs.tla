------------------------ MODULE CommLifecycleProofs ------------------------
(***************************************************************************)
(* Machine-checked proofs about the life of the CANopen objects, for every *)
(* set of node ids.                                                        *)
(***************************************************************************)
EXTENDS CommLifecycle, TLAPS

USE IdAssumption DEF Ids

\* What pc may hold.
Steps == {"idle", "process"} \cup ResetSteps
PcOK == pc \in [Levels -> Steps] /\ pc["timer"] # "process"

LEMMA LevelsAre == "main" \in Levels /\ "timer" \in Levels /\ "main" # "timer"
  BY DEF Levels

LEMMA StepsAre ==
  /\ "idle" \in Steps /\ "process" \in Steps
  /\ \A s \in {"disable", "lss", "init", "objects", "pdo", "start"} :
       s \in Steps /\ s # "process" /\ s # "idle"
  BY DEF Steps, ResetSteps

\* A jump keeps pc in its type, as long as the timer does not process.
LEMMA GotoType ==
  ASSUME PcOK, NEW l \in Levels, NEW s \in Steps, l = "main" \/ s # "process", Goto(l, s)
  PROVE  PcOK'
<1>1. pc' = [pc EXCEPT ![l] = s]
  BY DEF Goto
<1>2. pc' \in [Levels -> Steps]
  BY <1>1 DEF PcOK
<1>3. pc'["timer"] # "process"
  BY <1>1, LevelsAre DEF PcOK
<1> QED
  BY <1>2, <1>3 DEF PcOK

\* The types of the data, apart from pc.
DataOK ==
  /\ normal \in BOOLEAN /\ unconfigured \in BOOLEAN
  /\ desired \in Ids /\ active \in Ids /\ commId \in Ids /\ pdoId \in Ids
  /\ station \in Ids /\ file \in Ids \cup {NoFile} /\ dirty \in BOOLEAN
  /\ ui \in {"show", "shown", "menu", "edit", "write"} /\ shown \in Ids
  /\ arg \in [Levels -> Ids]

LEMMA TypeSplit == TypeOK <=> scene \in Scenes /\ DataOK /\ PcOK
  BY DEF TypeOK, DataOK, PcOK, Steps

LEMMA TypeInit == Init => TypeOK
<1> SUFFICES ASSUME Init PROVE scene \in Scenes /\ DataOK /\ PcOK
  BY TypeSplit
<1>1. PcOK
  BY LevelsAre, StepsAre DEF Init, PoweredUp, PcOK
<1>2. arg \in [Levels -> Ids]
  BY DEF Init, PoweredUp
<1>3. normal \in BOOLEAN /\ unconfigured \in BOOLEAN /\ dirty \in BOOLEAN
  BY Zenon DEF Init, PoweredUp
<1> QED
  BY <1>1, <1>2, <1>3 DEF Init, PoweredUp, DataOK

LEMMA ResetType ==
  ASSUME TypeOK, NEW l \in Levels, Reset(l)
  PROVE  DataOK' /\ PcOK'
<1>0. DataOK /\ PcOK
  BY TypeSplit
<1> USE <1>0
<1>1. CASE ResetDisable(l)
  <2>0. normal' \in BOOLEAN
    BY <1>1, Zenon DEF ResetDisable
  <2>1. DataOK'
    BY <1>1, <2>0 DEF ResetDisable, DataOK, store, display
  <2> QED
    BY <1>1, <2>1, GotoType, StepsAre DEF ResetDisable
<1>2. CASE ResetLss(l)
  <2>1. DataOK'
    BY <1>2 DEF ResetLss, DataOK, store, display
  <2>2. Goto(l, "idle") \/ Goto(l, "init")
    BY <1>2 DEF ResetLss
  <2> QED
    BY <2>1, <2>2, GotoType, StepsAre
<1>3. CASE ResetInit(l)
  <2>1. arg' \in [Levels -> Ids]
    BY <1>3 DEF ResetInit, DataOK
  <2>2. DataOK'
    BY <1>3, <2>1 DEF ResetInit, DataOK, node, store, display
  <2> QED
    BY <1>3, <2>2, GotoType, StepsAre DEF ResetInit
<1>4. CASE ResetObjects(l)
  <2>1. arg' \in [Levels -> Ids]
    BY <1>4 DEF ResetObjects, DataOK
  <2>2. commId' \in Ids
    BY <1>4 DEF ResetObjects, DataOK
  <2>3. unconfigured' \in BOOLEAN
    BY <1>4, Zenon DEF ResetObjects
  <2>4. DataOK'
    BY <1>4, <2>1, <2>2, <2>3 DEF ResetObjects, DataOK, store, display
  <2>5. Goto(l, "idle") \/ Goto(l, "pdo")
    BY <1>4 DEF ResetObjects
  <2> QED
    BY <2>4, <2>5, GotoType, StepsAre
<1>5. CASE ResetPdo(l)
  <2>1. DataOK'
    BY <1>5 DEF ResetPdo, DataOK, store, display
  <2>2. Goto(l, "idle") \/ Goto(l, "start")
    BY <1>5 DEF ResetPdo
  <2> QED
    BY <2>1, <2>2, GotoType, StepsAre
<1>6. CASE ResetStart(l)
  <2>1. DataOK'
    BY <1>6 DEF ResetStart, DataOK, store, display
  <2> QED
    BY <1>6, <2>1, GotoType, StepsAre DEF ResetStart
<1> QED
  BY <1>1, <1>2, <1>3, <1>4, <1>5, <1>6 DEF Reset

LEMMA UpdateType ==
  ASSUME TypeOK, NEW id \in Ids, UpdateNodeId(id)
  PROVE  /\ normal' \in BOOLEAN /\ unconfigured' \in BOOLEAN
         /\ desired' \in Ids /\ active' \in Ids /\ commId' \in Ids /\ pdoId' \in Ids
         /\ PcOK'
<1>0. DataOK /\ PcOK
  BY TypeSplit
<1>1. CASE id = active
  BY <1>0, <1>1 DEF UpdateNodeId, node, DataOK, PcOK
<1>2. CASE id # active
  <2>1. /\ desired' = id /\ active' = id
        /\ unconfigured' \in BOOLEAN
        /\ Goto("timer", "disable")
        /\ UNCHANGED <<normal, commId, pdoId>>
    BY <1>2, Zenon DEF UpdateNodeId, Delete
  <2>2. PcOK'
    BY <1>0, <2>1, GotoType, StepsAre, LevelsAre
  <2> QED
    BY <1>0, <2>1, <2>2, Zenon DEF DataOK
<1> QED
  BY <1>1, <1>2

LEMMA LoadedType ==
  ASSUME TypeOK
  PROVE  Loaded \in Ids /\ Checked(Loaded) \in Ids
  BY DEF Loaded, Checked, TypeOK

LEMMA TypeStep == TypeOK /\ [Next]_vars => TypeOK'
<1> SUFFICES ASSUME TypeOK, [Next]_vars PROVE TypeOK'
  OBVIOUS
<1>0. DataOK /\ PcOK
  BY TypeSplit
<1>s. /\ scene \in Scenes /\ scene' \in Scenes
      /\ scene.lss \subseteq Ids /\ scene.sdo \subseteq Ids /\ scene.ui \subseteq Ids
  <2>1. scene \in Scenes /\ UNCHANGED scene
    BY DEF TypeOK, Next, Still, vars
  <2> QED
    BY <2>1
<1>t. ASSUME DataOK', PcOK' PROVE TypeOK'
  BY <1>s, <1>t DEF TypeOK, DataOK, PcOK, Steps
<1>1. CASE MainLoop
  <2>1. CASE ProcessBegin
    <3>1. DataOK'
      BY <1>0, <2>1 DEF ProcessBegin, DataOK, node, store, display
    <3> QED
      BY <1>0, <1>t, <2>1, <3>1, GotoType, StepsAre, LevelsAre DEF ProcessBegin
  <2>2. CASE LssAssign
    BY <1>s, <2>2 DEF LssAssign, TypeOK, store, display
  <2>3. CASE SdoWrite
    BY <1>s, <2>3 DEF SdoWrite, TypeOK, node, display
  <2>4. CASE ProcessEnd
    <3>1. DataOK'
      BY <1>0, <2>4 DEF ProcessEnd, DataOK, node, store, display
    <3> QED
      BY <1>0, <1>t, <2>4, <3>1, GotoType, StepsAre, LevelsAre DEF ProcessEnd
  <2>5. CASE ProcessReset
    <3>0. unconfigured' \in BOOLEAN
      BY <2>5, Zenon DEF ProcessReset, Delete
    <3>1. DataOK'
      BY <1>0, <2>5, <3>0 DEF ProcessReset, DataOK, store, display
    <3> QED
      BY <1>0, <1>t, <2>5, <3>1, GotoType, StepsAre, LevelsAre DEF ProcessReset
  <2>6. CASE ProcessRestart
    <3>1. pc' \in [Levels -> Steps] /\ pc'["timer"] # "process"
      BY <2>6, StepsAre, LevelsAre DEF ProcessRestart
    <3>2. arg' \in [Levels -> Ids]
      BY <2>6 DEF ProcessRestart
    <3>3. normal' \in BOOLEAN /\ unconfigured' \in BOOLEAN /\ dirty' \in BOOLEAN
      BY <2>6, Zenon DEF ProcessRestart
    <3>4. DataOK'
      BY <1>0, <2>6, <3>2, <3>3 DEF ProcessRestart, DataOK
    <3> QED
      BY <1>t, <3>1, <3>4 DEF PcOK
  <2>7. CASE Reset("main")
    BY <1>t, <2>7, ResetType, LevelsAre
  <2> QED
    BY <1>1, <2>1, <2>2, <2>3, <2>4, <2>5, <2>6, <2>7 DEF MainLoop
<1>2. CASE Timer
  <2> DEFINE NodeOK == /\ normal \in BOOLEAN /\ unconfigured \in BOOLEAN
                       /\ desired \in Ids /\ active \in Ids /\ commId \in Ids /\ pdoId \in Ids
  <2>1. CASE UiShow
    <3>1. GetId /\ ui' = "shown" /\ shown' = Checked(Loaded) /\ UNCHANGED arg
      BY <2>1 DEF UiShow
    <3>2. NodeOK' /\ PcOK'
      BY <3>1, LoadedType, UpdateType DEF GetId
    <3>3. station' \in Ids /\ dirty' \in BOOLEAN /\ UNCHANGED file /\ shown' \in Ids
      BY <3>1, LoadedType, Zenon DEF GetId
    <3>4. DataOK'
      BY <1>0, <3>1, <3>2, <3>3 DEF DataOK
    <3> QED
      BY <1>t, <3>2, <3>4
  <2>2. CASE UiMenu
    BY <1>s, <2>2 DEF UiMenu, TypeOK, node, store
  <2>3. CASE UiBack
    BY <1>s, <2>3 DEF UiBack, TypeOK, node, store
  <2>4. CASE UiEdit
    <3>1. GetId /\ ui' = "edit" /\ UNCHANGED <<shown, arg>>
      BY <2>4 DEF UiEdit
    <3>2. NodeOK' /\ PcOK'
      BY <3>1, LoadedType, UpdateType DEF GetId
    <3>3. station' \in Ids /\ dirty' \in BOOLEAN /\ UNCHANGED file
      BY <3>1, LoadedType, Zenon DEF GetId
    <3>4. DataOK'
      BY <1>0, <3>1, <3>2, <3>3 DEF DataOK
    <3> QED
      BY <1>t, <3>2, <3>4
  <2>5. CASE UiConfirm
    BY <1>s, <2>5 DEF UiConfirm, TypeOK, node, store
  <2>6. CASE UiWrite
    <3>1. /\ station' \in Ids /\ file' \in Ids \cup {NoFile}
          /\ UpdateNodeId(station')
          /\ ui' = "show" /\ UNCHANGED <<dirty, shown, arg>>
      BY <1>0, <1>s, <2>6 DEF UiWrite, DataOK
    <3>2. NodeOK' /\ PcOK'
      BY <3>1, UpdateType
    <3>3. DataOK'
      BY <1>0, <3>1, <3>2 DEF DataOK
    <3> QED
      BY <1>t, <3>2, <3>3
  <2>7. CASE Reset("timer")
    BY <1>t, <2>7, ResetType, LevelsAre
  <2> QED
    BY <1>2, <2>1, <2>2, <2>3, <2>4, <2>5, <2>6, <2>7 DEF Timer
<1>3. CASE UNCHANGED vars
  BY <1>s, <1>3 DEF vars, node, store, display, TypeOK
<1> QED
  BY <1>1, <1>2, <1>3 DEF Next

\* Every variable keeps its type.
THEOREM TypeCorrect == Spec => []TypeOK
<1> QED
  BY TypeInit, TypeStep, PTL DEF Spec

-----------------------------------------------------------------------------
(* One id, when only the timer resets the communication.                    *)

\* What the node ids and the normal mode are at each step of the timer's reset.
TimerResets ==
  /\ pc["main"] \in {"idle", "process"}
  /\ active # Unassigned /\ station # Unassigned /\ file # Unassigned
  /\ pc["timer"] \in {"lss", "init", "objects", "pdo", "start"} => ~normal
  /\ pc["timer"] \in {"disable", "lss"} => desired = active
  /\ pc["timer"] \in {"init", "objects", "pdo", "start"} => active \in ValidIds
  /\ pc["timer"] \in {"objects", "pdo"} => arg["timer"] = active
  /\ pc["timer"] \in {"pdo", "start"} => commId = active
  /\ pc["timer"] = "start" => pdoId = active
  /\ pc["timer"] = "pdo" => ~unconfigured
  /\ pc["timer"] = "idle" /\ normal =>
       commId = active /\ pdoId = active /\ active \in ValidIds
  /\ pc["timer"] = "idle" /\ active \in ValidIds => normal
  /\ ui = "shown" => shown = active /\ active \in ValidIds

\* The masters reset nothing and nobody assigns 255.
LocalOnly(s) ==
  /\ s.resets = FALSE
  /\ Unassigned \notin s.lss \cup s.sdo \cup s.ui \cup s.files

\* A jump changes the step of its own level.
LEMMA GotoIs ==
  ASSUME PcOK, NEW l \in Levels, NEW s, Goto(l, s)
  PROVE  /\ pc'[l] = s
         /\ \A k \in Levels : k # l => pc'[k] = pc[k]
  BY DEF PcOK, Goto

LEMMA ResetKeepsOneId ==
  ASSUME TypeOK, TimerResets, Reset("timer")
  PROVE  TimerResets'
<1>0. PcOK
  BY TypeSplit
<1>1. ASSUME NEW s, Goto("timer", s) PROVE pc'["timer"] = s /\ pc'["main"] = pc["main"]
  BY <1>0, <1>1, GotoIs, LevelsAre
<1>2. UNCHANGED <<station, file, ui, shown>>
  BY DEF Reset, ResetDisable, ResetLss, ResetInit, ResetObjects, ResetPdo, ResetStart,
     store, display
<1> USE <1>1, <1>2 DEF TimerResets, node
<1>3. CASE ResetDisable("timer")
  BY <1>3 DEF ResetDisable, At
<1>4. CASE ResetLss("timer")
  BY <1>4 DEF ResetLss, At, TypeOK
<1>5. CASE ResetInit("timer")
  <2>1. arg'["timer"] = active
    BY <1>5, LevelsAre DEF ResetInit, TypeOK
  <2> QED
    BY <1>5, <2>1 DEF ResetInit, At
<1>6. CASE ResetObjects("timer")
  <2>1. arg'["timer"] = active
    BY <1>6, LevelsAre DEF ResetObjects, TypeOK
  <2>2. arg["timer"] = active /\ active \in ValidIds /\ ~normal
    BY <1>6 DEF ResetObjects, At
  <2> QED
    BY <1>6, <2>1, <2>2 DEF ResetObjects
<1>7. CASE ResetPdo("timer")
  BY <1>7 DEF ResetPdo, At
<1>8. CASE ResetStart("timer")
  BY <1>8 DEF ResetStart, At
<1> QED
  BY <1>3, <1>4, <1>5, <1>6, <1>7, <1>8 DEF Reset

LEMMA UpdateKeepsOneId ==
  ASSUME TypeOK, TimerResets, pc["timer"] = "idle", NEW id \in Ids, id # Unassigned,
         UpdateNodeId(id), arg' = arg, station' # Unassigned, file' # Unassigned,
         ui' = "shown" => shown' = id /\ id \in ValidIds
  PROVE  TimerResets'
<1>1. CASE id = active
  BY <1>1 DEF UpdateNodeId, TimerResets, node
<1>2. CASE id # active
  <2>1. pc'["timer"] = "disable" /\ pc'["main"] = pc["main"]
    BY <1>2, GotoIs, LevelsAre, TypeSplit DEF UpdateNodeId
  <2>2. desired' = id /\ active' = id
    BY <1>2 DEF UpdateNodeId
  <2> QED
    BY <2>1, <2>2 DEF TimerResets
<1> QED
  BY <1>1, <1>2

LEMMA StepKeepsOneId ==
  ASSUME LocalOnly(scene), TypeOK, TimerResets, [Next]_vars
  PROVE  TimerResets'
<1>0. PcOK
  BY TypeSplit
<1>l. Loaded # Unassigned /\ Checked(Loaded) \in ValidIds
  BY DEF Loaded, Checked, TimerResets
<1>s. /\ scene.resets = FALSE
      /\ Unassigned \notin scene.lss \cup scene.sdo \cup scene.ui
  BY DEF TypeOK, LocalOnly
<1>1. CASE MainLoop
  <2> USE DEF TimerResets, node, store, display
  <2>0. ASSUME NEW s, Goto("main", s) PROVE pc'["timer"] = pc["timer"] /\ pc'["main"] = s
    BY <1>0, <2>0, GotoIs, LevelsAre
  <2>1. CASE ProcessBegin
    BY <2>0, <2>1 DEF ProcessBegin
  <2>2. CASE LssAssign
    <3>1. pc["timer"] = "idle"
      BY <2>2 DEF LssAssign, At, Runs
    <3> QED
      BY <2>2, <3>1 DEF LssAssign
  <2>3. CASE SdoWrite
    BY <1>s, <2>3 DEF SdoWrite
  <2>4. CASE ProcessEnd
    BY <2>0, <2>4 DEF ProcessEnd
  <2>5. ~ProcessReset /\ ~ProcessRestart
    BY <1>s DEF ProcessReset, ProcessRestart
  <2>6. ~Reset("main")
    BY DEF Reset, ResetDisable, ResetLss, ResetInit, ResetObjects, ResetPdo, ResetStart, At
  <2> QED
    BY <1>1, <2>1, <2>2, <2>3, <2>4, <2>5, <2>6 DEF MainLoop
<1>2. CASE Timer
  <2>1. CASE UiShow
    BY <1>l, <2>1, LoadedType, UpdateKeepsOneId DEF UiShow, GetId, At, TimerResets
  <2>2. CASE UiMenu
    BY <2>2 DEF UiMenu, TimerResets, node, store
  <2>3. CASE UiBack
    BY <2>3 DEF UiBack, TimerResets, node, store
  <2>4. CASE UiEdit
    BY <1>l, <2>4, LoadedType, UpdateKeepsOneId DEF UiEdit, GetId, At, TimerResets
  <2>5. CASE UiConfirm
    BY <2>5 DEF UiConfirm, TimerResets, node, store
  <2>6. CASE UiWrite
    <3>1. /\ ui' = "show" /\ station' \in scene.ui /\ file' \in {station', file}
          /\ UpdateNodeId(station') /\ UNCHANGED arg /\ pc["timer"] = "idle"
      BY <2>6 DEF UiWrite, At
    <3>2. station' \in Ids /\ station' # Unassigned /\ file' # Unassigned
      BY <1>s, <3>1 DEF TypeOK, TimerResets
    <3> QED
      BY <3>1, <3>2, UpdateKeepsOneId
  <2>7. CASE Reset("timer")
    BY <2>7, ResetKeepsOneId
  <2> QED
    BY <1>2, <2>1, <2>2, <2>3, <2>4, <2>5, <2>6, <2>7 DEF Timer
<1>3. CASE UNCHANGED vars
  BY <1>3 DEF vars, node, store, display, TimerResets
<1> QED
  BY <1>1, <1>2, <1>3 DEF Next

-----------------------------------------------------------------------------
(* What the status page shows.                                              *)

\* No user, SDO client or file has 255 for the station.
Assigned(s) == Unassigned \notin s.files \cup s.sdo \cup s.ui

PageShowsId ==
  /\ station # Unassigned /\ file # Unassigned
  /\ ShownIsValid

LEMMA StepShowsId ==
  ASSUME \A s \in Scenes : Assigned(s),
         TypeOK, PageShowsId, [Next]_vars
  PROVE  PageShowsId'
<1> USE DEF PageShowsId, ShownIsValid
<1>s. Unassigned \notin scene.sdo \cup scene.ui
  BY DEF TypeOK, Assigned
<1>l. Loaded # Unassigned /\ Checked(Loaded) \in ValidIds
  BY DEF Loaded, Checked, TypeOK
<1>r. ASSUME UNCHANGED <<store, display>> PROVE PageShowsId'
  BY <1>r DEF store, display
<1>0. ASSUME NEW l \in Levels, Reset(l) PROVE UNCHANGED <<store, display>>
  BY <1>0 DEF Reset, ResetDisable, ResetLss, ResetInit, ResetObjects, ResetPdo, ResetStart
<1>1. CASE MainLoop
  <2>1. CASE ProcessBegin \/ LssAssign \/ ProcessEnd \/ ProcessReset
    BY <1>r, <2>1 DEF ProcessBegin, LssAssign, ProcessEnd, ProcessReset
  <2>2. CASE SdoWrite
    BY <1>s, <2>2 DEF SdoWrite, display
  <2>3. CASE ProcessRestart
    <3>1. station' = Blank /\ UNCHANGED file /\ ui' = "show"
      BY <2>3 DEF ProcessRestart
    <3> QED
      BY <3>1
  <2>4. CASE Reset("main")
    BY <1>0, <1>r, <2>4, LevelsAre
  <2> QED
    BY <1>1, <2>1, <2>2, <2>3, <2>4 DEF MainLoop
<1>2. CASE Timer
  <2>1. CASE UiShow
    BY <1>l, <2>1 DEF UiShow, GetId
  <2>2. CASE UiMenu \/ UiBack \/ UiConfirm
    <3>1. UNCHANGED store /\ ui' # "shown"
      BY <2>2 DEF UiMenu, UiBack, UiConfirm
    <3> QED
      BY <3>1 DEF store
  <2>3. CASE UiEdit
    BY <1>l, <2>3 DEF UiEdit, GetId
  <2>4. CASE UiWrite
    BY <1>s, <2>4 DEF UiWrite
  <2>5. CASE Reset("timer")
    BY <1>0, <1>r, <2>5, LevelsAre
  <2> QED
    BY <1>2, <2>1, <2>2, <2>3, <2>4, <2>5 DEF Timer
<1>3. CASE UNCHANGED vars
  BY <1>r, <1>3 DEF vars
<1> QED
  BY <1>1, <1>2, <1>3 DEF Next

\* As long as nobody chooses 255 for the station, the status page shows a node
\* id that a node may have, whatever else was stored and whatever the masters do
\* meanwhile: ui_get_id_cb returns no other.
THEOREM ShownIsValidAlways ==
  ASSUME \A s \in Scenes : Assigned(s)
  PROVE  Spec => []ShownIsValid
<1>1. Init => PageShowsId
  <2> SUFFICES ASSUME Init PROVE PageShowsId
    OBVIOUS
  <2>1. station = Blank /\ scene \in Scenes /\ file \in scene.files /\ ui = "show"
    BY DEF Init, PoweredUp
  <2> QED
    BY <2>1 DEF PageShowsId, ShownIsValid, Assigned
<1>2. TypeOK /\ PageShowsId /\ [Next]_vars => PageShowsId'
  BY StepShowsId
<1>3. PageShowsId => ShownIsValid
  BY DEF PageShowsId
<1> QED
  BY <1>1, <1>2, <1>3, TypeInit, TypeStep, PTL DEF Spec

-----------------------------------------------------------------------------
(* The gate of the process data, when only the main loop resets.            *)

\* Nobody gives the node another id than the one it starts with.
OneAssignment(s) ==
  s.lss = {} /\ s.sdo = {} /\ s.ui = {} /\ s.files \subseteq {Default, NoFile}

\* The timer finds the id it has, so it resets nothing, and the reset of the main
\* loop keeps normal mode off until its end.
MainResets ==
  /\ pc["timer"] = "idle"
  /\ active = Default /\ desired = Default /\ commId = Default /\ pdoId = Default
  /\ arg["main"] = Default
  /\ station \in {Blank, Default} /\ file \in {Default, NoFile}
  /\ ui \notin {"edit", "write"}
  /\ ui = "shown" => shown = Default
  /\ pc["main"] = "pdo" => ~unconfigured
  /\ pc["main"] \in ResetSteps \ {"disable"} => ~normal
  /\ pc["main"] \notin ResetSteps \ {"disable"} => normal

LEMMA MainResetKeepsGate ==
  ASSUME TypeOK, MainResets, Reset("main")
  PROVE  MainResets'
<1>0. PcOK
  BY TypeSplit
<1>1. ASSUME NEW s, Goto("main", s) PROVE pc'["main"] = s /\ pc'["timer"] = "idle"
  BY <1>0, <1>1, GotoIs, LevelsAre DEF MainResets
<1> USE <1>1 DEF MainResets, store, display, node, ResetSteps
<1>2. CASE ResetDisable("main")
  BY <1>2 DEF ResetDisable
<1>3. CASE ResetLss("main")
  BY <1>3 DEF ResetLss, At
<1>4. CASE ResetInit("main")
  BY <1>4 DEF ResetInit, At
<1>5. CASE ResetObjects("main")
  <2>1. ~unconfigured'
    BY <1>5 DEF ResetObjects
  <2>2. pc["main"] = "objects" /\ pc'["main"] = "pdo" /\ pc'["timer"] = "idle"
    BY <1>5 DEF ResetObjects, At
  <2> QED
    BY <1>5, <2>1, <2>2 DEF ResetObjects
<1>6. CASE ResetPdo("main")
  BY <1>6 DEF ResetPdo, At
<1>7. CASE ResetStart("main")
  BY <1>7 DEF ResetStart
<1> QED
  BY <1>2, <1>3, <1>4, <1>5, <1>6, <1>7 DEF Reset

LEMMA StepKeepsGate ==
  ASSUME OneAssignment(scene), TypeOK, MainResets, [Next]_vars
  PROVE  MainResets'
<1>0. PcOK
  BY TypeSplit
<1>s. scene.lss = {} /\ scene.sdo = {} /\ scene.ui = {}
  BY DEF TypeOK, OneAssignment
<1>l. Loaded \in {Blank, Default} /\ Checked(Loaded) = Default
  BY DEF Loaded, Checked, MainResets
<1>u. ASSUME NEW id, id = Default, UpdateNodeId(id) PROVE UNCHANGED <<node, pc>>
  BY <1>u DEF UpdateNodeId, MainResets
<1>g. ASSUME GetId PROVE station' \in {Blank, Default} /\ UNCHANGED <<file, node, pc>>
  BY <1>g, <1>l, <1>u DEF GetId
<1>1. CASE MainLoop
  <2> USE DEF MainResets, node, store, display
  <2>0. ASSUME NEW s, Goto("main", s) PROVE pc'["timer"] = "idle" /\ pc'["main"] = s
    BY <1>0, <2>0, GotoIs, LevelsAre
  <2>n. "idle" \notin ResetSteps /\ "process" \notin ResetSteps
    BY DEF ResetSteps
  <2>1. CASE ProcessBegin \/ ProcessEnd
    <3>1. /\ pc["main"] \in {"idle", "process"} /\ pc'["main"] \in {"idle", "process"}
          /\ pc'["timer"] = "idle"
      BY <2>0, <2>1 DEF ProcessBegin, ProcessEnd, At
    <3>2. UNCHANGED <<node, store, display, arg>>
      BY <2>1 DEF ProcessBegin, ProcessEnd
    <3>3. normal /\ normal'
      BY <2>n, <3>1, <3>2
    <3>4. pc["main"] = "pdo" \/ pc'["main"] # "pdo"
      BY <3>1
    <3> QED
      BY <2>n, <3>1, <3>2, <3>3, <3>4
  <2>2. ~LssAssign /\ ~SdoWrite
    BY <1>s DEF LssAssign, SdoWrite
  <2>3. CASE ProcessReset
    <3>1. /\ pc["main"] = "process" /\ pc'["main"] = "disable" /\ pc'["timer"] = "idle"
          /\ pc'["main"] # "pdo"
      BY <2>0, <2>3 DEF ProcessReset, At
    <3>2. UNCHANGED <<normal, desired, active, commId, pdoId, store, display, arg>>
      BY <2>3 DEF ProcessReset
    <3>3. normal /\ normal'
      BY <2>n, <3>1, <3>2
    <3> QED
      BY <3>1, <3>2, <3>3
  <2>4. CASE ProcessRestart
    <3>1. pc'["timer"] = "idle" /\ pc'["main"] = "idle" /\ arg'["main"] = Default
      BY <2>4, LevelsAre DEF ProcessRestart
    <3>2. /\ active' = Default /\ desired' = Default /\ station' = Blank
          /\ commId' = Default /\ pdoId' = Default
          /\ ui' = "show" /\ normal' /\ UNCHANGED file
      BY <2>4 DEF ProcessRestart
    <3> QED
      BY <3>1, <3>2 DEF ResetSteps
  <2>5. CASE Reset("main")
    BY <2>5, MainResetKeepsGate
  <2> QED
    BY <1>1, <2>1, <2>2, <2>3, <2>4, <2>5 DEF MainLoop
<1>2. CASE Timer
  <2> USE DEF MainResets, node
  <2>1. CASE UiShow
    <3>1. GetId /\ ui' = "shown" /\ shown' = Default /\ UNCHANGED arg
      BY <1>l, <2>1 DEF UiShow
    <3>2. /\ station' \in {Blank, Default}
          /\ UNCHANGED <<file, normal, unconfigured, desired, active, commId, pdoId, pc>>
      BY <1>g, <3>1
    <3>3. ui' \notin {"edit", "write"}
      BY <3>1
    <3> QED
      BY <3>1, <3>2, <3>3
  <2>2. CASE UiMenu \/ UiBack
    BY <2>2 DEF UiMenu, UiBack, store
  <2>3. ~UiEdit /\ ~UiConfirm /\ ~UiWrite
    BY <1>s DEF UiEdit, UiConfirm, UiWrite
  <2>4. ~Reset("timer")
    BY DEF Reset, ResetDisable, ResetLss, ResetInit, ResetObjects, ResetPdo, ResetStart, At
  <2> QED
    BY <1>2, <2>1, <2>2, <2>3, <2>4 DEF Timer
<1>3. CASE UNCHANGED vars
  BY <1>3 DEF vars, node, store, display, MainResets
<1> QED
  BY <1>1, <1>2, <1>3 DEF Next

-----------------------------------------------------------------------------
(* Node id and gate, when the two levels do not reset at the same time.     *)

\* Either the bus resets nothing, or it does and nobody gives the node an id.
Apart(s) == LocalOnly(s) \/ OneAssignment(s)

ApartInv ==
  /\ TypeOK
  /\ LocalOnly(scene) => TimerResets
  /\ OneAssignment(scene) => MainResets

LEMMA ApartInit == Init => ApartInv
<1> SUFFICES ASSUME Init PROVE ApartInv
  OBVIOUS
<1>1. pc["main"] = "idle" /\ pc["timer"] = "idle" /\ arg["main"] = Default
  BY LevelsAre DEF Init, PoweredUp
<1>2. /\ active = Default /\ desired = Default /\ commId = Default /\ pdoId = Default
      /\ station = Blank /\ ui = "show" /\ scene \in Scenes /\ file \in scene.files
      /\ normal
  BY DEF Init, PoweredUp
<1>3. LocalOnly(scene) => TimerResets
  BY <1>1, <1>2 DEF TimerResets, LocalOnly
<1>4. OneAssignment(scene) => MainResets
  BY <1>1, <1>2 DEF MainResets, OneAssignment, ResetSteps
<1> QED
  BY <1>3, <1>4, TypeInit DEF ApartInv

LEMMA ApartStep == ApartInv /\ [Next]_vars => ApartInv'
<1> SUFFICES ASSUME ApartInv, [Next]_vars PROVE ApartInv'
  OBVIOUS
<1>1. UNCHANGED scene
  BY DEF Next, Still, vars
<1>2. TypeOK'
  BY TypeStep DEF ApartInv
<1>3. LocalOnly(scene') => TimerResets'
  BY <1>1, StepKeepsOneId DEF ApartInv
<1>4. OneAssignment(scene') => MainResets'
  BY <1>1, StepKeepsGate DEF ApartInv
<1> QED
  BY <1>2, <1>3, <1>4 DEF ApartInv

\* In an environment in which the levels do not reset at the same time, whatever
\* is assigned, stored and loaded in between, every object of a node in normal
\* mode uses the id activeNodeID tells.
THEOREM OneIdKept ==
  ASSUME \A s \in Scenes : Apart(s)
  PROVE  Spec => []OneId
<1>1. ApartInv => OneId
  <2> SUFFICES ASSUME ApartInv, normal, \A l \in Levels : pc[l] \notin ResetSteps
               PROVE  commId = active /\ pdoId = active /\ active \in ValidIds
    BY DEF OneId
  <2>1. pc["timer"] = "idle"
    BY LevelsAre, TypeSplit DEF ApartInv, PcOK, Steps
  <2>2. Apart(scene)
    BY DEF ApartInv, TypeOK
  <2> QED
    BY <2>1, <2>2 DEF Apart, ApartInv, TimerResets, MainResets
<1> QED
  BY <1>1, ApartInit, ApartStep, PTL DEF Spec

\* In the same environments the timer never processes PDOs in the middle of a
\* communication reset, once CANnormal is cleared.
THEOREM GateKept ==
  ASSUME \A s \in Scenes : Apart(s)
  PROVE  Spec => []GateClosed
<1>1. ApartInv => GateClosed
  <2> SUFFICES ASSUME ApartInv, pc["main"] \in ResetSteps \ {"disable"}
               PROVE  ~normal
    BY DEF GateClosed
  <2>1. Apart(scene)
    BY DEF ApartInv, TypeOK
  <2>2. ~LocalOnly(scene)
    BY DEF ApartInv, TimerResets, ResetSteps
  <2> QED
    BY <2>1, <2>2 DEF Apart, ApartInv, MainResets
<1> QED
  BY <1>1, ApartInit, ApartStep, PTL DEF Spec

\* While the status page is up and no reset is under way, the id it shows is the
\* one the node answers to, in normal mode.
ShownIsUsed ==
  ui = "shown" /\ (\A l \in Levels : pc[l] \notin ResetSteps) =>
    normal /\ active = shown /\ commId = shown /\ pdoId = shown

\* In the same environments no id is shown in vain.
THEOREM ShownIsUsedAlways ==
  ASSUME \A s \in Scenes : Apart(s)
  PROVE  Spec => []ShownIsUsed
<1>1. ApartInv => ShownIsUsed
  <2> SUFFICES ASSUME ApartInv, ui = "shown", \A l \in Levels : pc[l] \notin ResetSteps
               PROVE  normal /\ active = shown /\ commId = shown /\ pdoId = shown
    BY DEF ShownIsUsed
  <2>1. pc["timer"] = "idle" /\ pc["main"] \notin ResetSteps
    BY LevelsAre, TypeSplit DEF ApartInv, PcOK, Steps
  <2>2. normal \in BOOLEAN /\ Apart(scene)
    BY DEF ApartInv, TypeOK
  <2>3. CASE LocalOnly(scene)
    BY <2>1, <2>3 DEF ApartInv, TimerResets
  <2>4. CASE OneAssignment(scene)
    BY <2>1, <2>2, <2>4 DEF ApartInv, MainResets
  <2> QED
    BY <2>2, <2>3, <2>4 DEF Apart
<1> QED
  BY <1>1, ApartInit, ApartStep, PTL DEF Spec
=============================================================================
