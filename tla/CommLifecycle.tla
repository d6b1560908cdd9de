---------------------------- MODULE CommLifecycle ----------------------------
(***************************************************************************)
(* The life of the CANopen objects (CO_app_STM32.c, with the UI callbacks  *)
(* of main.c): created once by canopen_app_init, deleted and initialised   *)
(* again by every communication reset.                                     *)
(*                                                                         *)
(* Two levels run the reset: the main loop, when an NMT or LSS command     *)
(* asks for it, and the timer interrupt, when the UI or its status page    *)
(* changes the node id.  The timer preempts the main loop at any step.     *)
(* The station id is in RAM (object 0x2114) and in a file in flash.        *)
(***************************************************************************)
EXTENDS Naturals

CONSTANTS
  ValidIds,    \* node ids 1 .. 127
  InvalidIds,  \* 0 and 128 .. 254: no node may have them
  Unassigned,  \* 255, CO_LSS_NODE_ID_ASSIGNMENT
  Default,     \* 1: the id the node starts with
  Blank,       \* 0: what object 0x2114 holds before a file was loaded
  NoFile,      \* the station id was never stored
  Scenes       \* what masters and user do, one record per environment:
               \*   files   what the file may hold at power up, an id or NoFile
               \*   resets  the NMT master resets the communication or the node
               \*   lss     ids the LSS master assigns
               \*   sdo     ids an SDO client writes to object 0x2114
               \*   ui      ids the user stores

Ids == ValidIds \cup InvalidIds \cup {Unassigned}

ASSUME IdAssumption ==
  /\ Default \in ValidIds
  /\ Blank \in InvalidIds
  /\ Unassigned \notin ValidIds \cup InvalidIds
  /\ ValidIds \cap InvalidIds = {}
  /\ NoFile \notin Ids
  /\ \A s \in Scenes :
       /\ s.files \subseteq Ids \cup {NoFile}
       /\ s.resets \in BOOLEAN
       /\ s.lss \subseteq ValidIds \cup {Unassigned}
       /\ s.sdo \subseteq Ids
       /\ s.ui \subseteq Ids

Levels == {"main", "timer"}
ResetSteps == {"disable", "lss", "init", "objects", "pdo", "start"}

VARIABLES
  scene,         \* the environment of this node; it never changes
  normal,        \* CO->CANmodule->CANnormal
  unconfigured,  \* CO->nodeIdUnconfigured
  desired,       \* desiredNodeID, the LSS slave's pending id
  active,        \* activeNodeID
  commId,        \* the id the SDO, EMCY and heartbeat objects were given
  pdoId,         \* the id the PDO objects were given
  station,       \* object 0x2114
  file,          \* its copy in the file system
  dirty,         \* persist_dirty: the file was not loaded yet
  ui,            \* what the user interface does
  shown,         \* the station id on the status page
  pc,            \* per level: the step of the communication reset it is at
  arg            \* per level: the node id it has loaded as an argument

node == <<normal, unconfigured, desired, active, commId, pdoId>>
store == <<station, file, dirty>>
display == <<ui, shown>>
vars == <<scene, node, store, display, pc, arg>>

TypeOK ==
  /\ scene \in Scenes
  /\ normal \in BOOLEAN /\ unconfigured \in BOOLEAN
  /\ desired \in Ids /\ active \in Ids /\ commId \in Ids /\ pdoId \in Ids
  /\ station \in Ids /\ file \in Ids \cup {NoFile} /\ dirty \in BOOLEAN
  /\ ui \in {"show", "shown", "menu", "edit", "write"} /\ shown \in Ids
  /\ pc \in [Levels -> {"idle", "process"} \cup ResetSteps]
  /\ pc["timer"] # "process"
  /\ arg \in [Levels -> Ids]

\* canopen_init and init_ui are done and interrupts run: the node has its
\* default id until the status page has loaded the stored one.
PoweredUp ==
  /\ normal = TRUE /\ unconfigured = FALSE
  /\ desired = Default /\ active = Default /\ commId = Default /\ pdoId = Default
  /\ station = Blank /\ dirty = TRUE
  /\ ui = "show" /\ shown = Blank
  /\ pc = [l \in Levels |-> "idle"]
  /\ arg = [l \in Levels |-> Default]

Init == PoweredUp /\ scene \in Scenes /\ file \in scene.files

\* The timer interrupt preempts the main loop.
Runs(l) == l = "main" => pc["timer"] = "idle"

At(l, step) == Runs(l) /\ pc[l] = step
Goto(l, step) == pc' = [pc EXCEPT ![l] = step]

-----------------------------------------------------------------------------
(* canopen_app_resetCommunication, run by either level.                     *)

\* CO_delete frees every object; free writes into the freed blocks, the first
\* word of CO_t among them.
Delete == unconfigured' \in BOOLEAN

\* Mutant: the CAN module stays in normal mode.
ResetKeepsNormal(l) ==
  /\ At(l, "disable")
  /\ Goto(l, "lss")
  /\ UNCHANGED <<node, store, display, arg>>

\* CANnormal = false, CO_CANinit.
ResetDisable(l) ==
  /\ At(l, "disable")
  /\ normal' = FALSE
  /\ Goto(l, "lss")
  /\ UNCHANGED <<unconfigured, desired, active, commId, pdoId, store, display, arg>>

\* CO_LSSinit refuses an id that is no node id; the reset ends there.
ResetLss(l) ==
  /\ At(l, "lss")
  /\ IF desired \in InvalidIds
     THEN Goto(l, "idle") /\ UNCHANGED active
     ELSE Goto(l, "init") /\ active' = desired
  /\ UNCHANGED <<normal, unconfigured, desired, commId, pdoId, store, display, arg>>

\* CO_CANopenInit is called with activeNodeID.
ResetInit(l) ==
  /\ At(l, "init")
  /\ arg' = [arg EXCEPT ![l] = active]
  /\ Goto(l, "objects")
  /\ UNCHANGED <<node, store, display>>

\* The body of CO_CANopenInit; CO_CANopenInitPDO is called with activeNodeID,
\* unless CO_CANopenInit refused the id.
ResetObjects(l) ==
  /\ At(l, "objects")
  /\ unconfigured' = (arg[l] = Unassigned)
  /\ commId' = IF arg[l] \in ValidIds THEN arg[l] ELSE commId
  /\ arg' = [arg EXCEPT ![l] = active]
  /\ Goto(l, IF arg[l] \in InvalidIds THEN "idle" ELSE "pdo")
  /\ UNCHANGED <<normal, desired, active, pdoId, store, display>>

\* CO_CANopenInitPDO fails without a valid id; the reset ends there.
ResetPdo(l) ==
  /\ At(l, "pdo")
  /\ IF arg[l] \in ValidIds /\ ~unconfigured
     THEN pdoId' = arg[l] /\ Goto(l, "start")
     ELSE Goto(l, "idle") /\ UNCHANGED pdoId
  /\ UNCHANGED <<normal, unconfigured, desired, active, commId, store, display, arg>>

\* Mutant: the reset ends without normal mode.
ResetStartForgets(l) ==
  /\ At(l, "start")
  /\ Goto(l, "idle")
  /\ UNCHANGED <<node, store, display, arg>>

\* CO_CANsetNormalMode.
ResetStart(l) ==
  /\ At(l, "start")
  /\ normal' = TRUE
  /\ Goto(l, "idle")
  /\ UNCHANGED <<unconfigured, desired, active, commId, pdoId, store, display, arg>>

Reset(l) ==
  \/ ResetDisable(l)
  \/ ResetLss(l)
  \/ ResetInit(l)
  \/ ResetObjects(l)
  \/ ResetPdo(l)
  \/ ResetStart(l)

-----------------------------------------------------------------------------
(* The main loop: canopen_app_process.                                      *)

ProcessBegin ==
  /\ At("main", "idle")
  /\ Goto("main", "process")
  /\ UNCHANGED <<node, store, display, arg>>

\* CO_LSSslave_process: the LSS master configures the pending node id.
LssAssign ==
  /\ At("main", "process")
  /\ desired' \in scene.lss
  /\ UNCHANGED <<normal, unconfigured, active, commId, pdoId, store, display, pc, arg>>

\* The SDO server writes the station id, or the commands that store and load
\* it; it only runs while the node has an id.
SdoWrite ==
  /\ At("main", "process")
  /\ scene.sdo # {}
  /\ ~unconfigured
  /\ \/ station' \in scene.sdo /\ UNCHANGED file
     \/ file' = station /\ UNCHANGED station
     \/ file # NoFile /\ station' = file /\ UNCHANGED file
  /\ UNCHANGED <<node, dirty, display, pc, arg>>

\* CO_process reports no reset.
ProcessEnd ==
  /\ At("main", "process")
  /\ Goto("main", "idle")
  /\ UNCHANGED <<node, store, display, arg>>

\* It reports CO_RESET_COMM.
ProcessReset ==
  /\ At("main", "process")
  /\ scene.resets \/ (active = Unassigned /\ desired # Unassigned)
  /\ Delete
  /\ Goto("main", "disable")
  /\ UNCHANGED <<normal, desired, active, commId, pdoId, store, display, arg>>

\* It reports CO_RESET_APP: nvic_system_reset.
ProcessRestart ==
  /\ At("main", "process")
  /\ scene.resets
  /\ normal' = TRUE /\ unconfigured' = FALSE
  /\ desired' = Default /\ active' = Default /\ commId' = Default /\ pdoId' = Default
  /\ station' = Blank /\ dirty' = TRUE
  /\ ui' = "show" /\ shown' = Blank
  /\ pc' = [l \in Levels |-> "idle"]
  /\ arg' = [l \in Levels |-> Default]
  /\ UNCHANGED file

MainLoop ==
  \/ ProcessBegin
  \/ LssAssign
  \/ SdoWrite
  \/ ProcessEnd
  \/ ProcessReset
  \/ ProcessRestart
  \/ Reset("main")

-----------------------------------------------------------------------------
(* The timer interrupt: ui_tick and its callbacks.                          *)

\* Mutant: the new id is noted and the objects keep the old one.
UpdateWithoutReset(id) ==
  /\ desired' = id
  /\ active' = id
  /\ UNCHANGED <<normal, unconfigured, commId, pdoId, pc>>

\* canopen_update_node_id.
UpdateNodeId(id) ==
  IF id = active
  THEN UNCHANGED <<node, pc>>
  ELSE /\ desired' = id
       /\ active' = id
       /\ Delete
       /\ Goto("timer", "disable")
       /\ UNCHANGED <<normal, commId, pdoId>>

\* Mutant: the load does not notice that there is no file.
LoadedBlindly == IF dirty THEN file ELSE station

\* ui_get_id_cb: the file is loaded once.
Loaded == IF dirty /\ file # NoFile THEN file ELSE station

\* Mutant: the station id is returned as it is.
Unchecked(id) == id

\* CO_LSS_NODE_ID_VALID, or 1.
Checked(id) == IF id \in ValidIds \cup {Unassigned} THEN id ELSE Default

GetId ==
  /\ station' = Loaded
  /\ dirty' = FALSE
  /\ UpdateNodeId(Checked(Loaded))
  /\ UNCHANGED file

\* The status page is drawn.
UiShow ==
  /\ At("timer", "idle")
  /\ ui = "show"
  /\ ui' = "shown"
  /\ shown' = Checked(Loaded)
  /\ GetId
  /\ UNCHANGED arg

\* Into the menu, or the screen goes off and the user wakes it into the menu.
UiMenu ==
  /\ At("timer", "idle")
  /\ ui = "shown"
  /\ ui' = "menu"
  /\ UNCHANGED <<node, store, shown, pc, arg>>

\* Back to the status page, from the menu or out of editing.
UiBack ==
  /\ At("timer", "idle")
  /\ ui \in {"menu", "edit"}
  /\ ui' = "show"
  /\ UNCHANGED <<node, store, shown, pc, arg>>

\* Editing starts from the id that is loaded.
UiEdit ==
  /\ At("timer", "idle")
  /\ ui = "menu"
  /\ scene.ui # {}
  /\ ui' = "edit"
  /\ GetId
  /\ UNCHANGED <<shown, arg>>

UiConfirm ==
  /\ At("timer", "idle")
  /\ ui = "edit"
  /\ ui' = "write"
  /\ UNCHANGED <<node, store, shown, pc, arg>>

\* ui_store_id_cb: whatever was edited, and the store may fail.
UiWrite ==
  /\ At("timer", "idle")
  /\ ui = "write"
  /\ ui' = "show"
  /\ station' \in scene.ui
  /\ file' \in {station', file}
  /\ UpdateNodeId(station')
  /\ UNCHANGED <<dirty, shown, arg>>

Timer ==
  \/ UiShow
  \/ UiMenu
  \/ UiBack
  \/ UiEdit
  \/ UiConfirm
  \/ UiWrite
  \/ Reset("timer")

\* The environment stays what it is.
Still == UNCHANGED scene

Next == (MainLoop \/ Timer) /\ Still

Spec == Init /\ [][Next]_vars

\* A reset that began goes on, the main loop goes round, the timer interrupt
\* comes every millisecond and draws the page or writes the id by itself.
Fairness ==
  /\ WF_vars(Reset("timer") /\ Still)
  /\ WF_vars(UiShow /\ Still)
  /\ WF_vars(UiWrite /\ Still)
  /\ SF_vars(Reset("main") /\ Still)
  /\ SF_vars((ProcessEnd \/ ProcessReset \/ ProcessRestart) /\ Still)

FairSpec == Spec /\ Fairness

-----------------------------------------------------------------------------
\* When no reset is under way and the node is in normal mode, every object of
\* the node uses the id that activeNodeID tells.
OneId ==
  normal /\ (\A l \in Levels : pc[l] \notin ResetSteps) =>
    /\ commId = active
    /\ pdoId = active
    /\ active \in ValidIds

\* The timer does not process PDOs while the main loop initialises their
\* objects: CANnormal or nodeIdUnconfigured keeps it out.
GateClosed ==
  pc["main"] \in ResetSteps \ {"disable"} /\ pc["timer"] = "idle" =>
    ~normal \/ unconfigured

\* The id on the status page, the one ui_get_id_cb returned, is a node id:
\* "ensure we return a valid id ... THIS IS IMPORTANT" (main.c:46).
ShownIsValid == ui = "shown" => shown \in ValidIds

\* Whatever the user stored, the node finds its way back to a valid id and
\* normal mode.
Recovers ==
  []<>(normal /\ active \in ValidIds /\ commId = active /\ pdoId = active)
=============================================================================
