-------------------------- MODULE CriticalSections --------------------------
(***************************************************************************)
(* The critical sections of the firmware: the lock and unlock macros of    *)
(* CO_driver_target.h.                                                     *)
(*                                                                         *)
(* A lock saves PRIMASK in a field of CO_CANmodule_t, one field per kind   *)
(* of lock, and disables all interrupts; the unlock puts the saved value   *)
(* back.  The main loop and the interrupts lock, nested in the ways the    *)
(* constant Nest lists; the save and the disabling are two instructions.   *)
(***************************************************************************)
EXTENDS Integers, Sequences

CONSTANTS
  NLevel,   \* levels of execution; 0 is the main loop, higher preempts lower
  Kinds,    \* the kinds of lock: CAN_SEND, EMCY, OD
  NoKind,   \* none of them
  Nest      \* Nest[l]: the sequences of locks level l may hold, outermost first

Levels == 0 .. NLevel - 1
MainLoop == 0

ASSUME NestAssumption ==
  /\ NLevel \in Nat \ {0}
  /\ NoKind \notin Kinds
  /\ Nest \in [Levels -> SUBSET Seq(Kinds)]
  /\ \A l \in Levels : \A s \in Nest[l] :
        Len(s) > 0 /\ (Len(s) > 1 => SubSeq(s, 1, Len(s) - 1) \in Nest[l])

VARIABLES
  primask,  \* PRIMASK: all interrupts are disabled
  slot,     \* primask_send, primask_emcy, primask_od
  active,   \* the level runs or was preempted
  held,     \* the locks the level holds
  saving    \* the lock whose slot the level has just written, interrupts on

vars == <<primask, slot, active, held, saving>>

TypeOK ==
  /\ primask \in BOOLEAN
  /\ slot \in [Kinds -> BOOLEAN]
  /\ active \in [Levels -> BOOLEAN]
  /\ held \in [Levels -> Seq(Kinds)]
  /\ saving \in [Levels -> Kinds \cup {NoKind}]
  /\ active[MainLoop]
  /\ \A l \in Levels : held[l] # <<>> => held[l] \in Nest[l]
  /\ \A l \in Levels : saving[l] # NoKind => Append(held[l], saving[l]) \in Nest[l]
  /\ \A l \in Levels : ~active[l] => held[l] = <<>> /\ saving[l] = NoKind

Init ==
  /\ primask = FALSE
  /\ slot \in [Kinds -> BOOLEAN]
  /\ active = [l \in Levels |-> l = MainLoop]
  /\ held = [l \in Levels |-> <<>>]
  /\ saving = [l \in Levels |-> NoKind]

\* The level whose instructions are executed.
Running(l) == active[l] /\ \A h \in Levels : h > l => ~active[h]

-----------------------------------------------------------------------------
\* An interrupt is taken.
Enter(l) ==
  /\ l # MainLoop
  /\ ~primask
  /\ \A h \in Levels : h >= l => ~active[h]
  /\ active' = [active EXCEPT ![l] = TRUE]
  /\ UNCHANGED <<primask, slot, held, saving>>

\* Mutant: a handler returns from inside its section.
LeaveLocked(l) ==
  /\ l # MainLoop
  /\ Running(l)
  /\ saving[l] = NoKind
  /\ active' = [active EXCEPT ![l] = FALSE]
  /\ UNCHANGED <<primask, slot, held, saving>>

\* An interrupt handler returns.
Leave(l) ==
  /\ l # MainLoop
  /\ Running(l)
  /\ held[l] = <<>>
  /\ saving[l] = NoKind
  /\ active' = [active EXCEPT ![l] = FALSE]
  /\ UNCHANGED <<primask, slot, held, saving>>

\* Mutant: PRIMASK is read after interrupts were disabled.
SaveLate(l, k) ==
  /\ Running(l)
  /\ saving[l] = NoKind
  /\ Append(held[l], k) \in Nest[l]
  /\ slot' = [slot EXCEPT ![k] = TRUE]
  /\ saving' = [saving EXCEPT ![l] = k]
  /\ UNCHANGED <<primask, active, held>>

\* First half of a lock: primask_k = __get_PRIMASK().
Save(l, k) ==
  /\ Running(l)
  /\ saving[l] = NoKind
  /\ Append(held[l], k) \in Nest[l]
  /\ slot' = [slot EXCEPT ![k] = primask]
  /\ saving' = [saving EXCEPT ![l] = k]
  /\ UNCHANGED <<primask, active, held>>

\* Mutant: the lock only saves PRIMASK.
DisableForgets(l) ==
  /\ Running(l)
  /\ saving[l] # NoKind
  /\ held' = [held EXCEPT ![l] = Append(held[l], saving[l])]
  /\ saving' = [saving EXCEPT ![l] = NoKind]
  /\ UNCHANGED <<primask, slot, active>>

\* Second half: __disable_irq().
Disable(l) ==
  /\ Running(l)
  /\ saving[l] # NoKind
  /\ primask' = TRUE
  /\ held' = [held EXCEPT ![l] = Append(held[l], saving[l])]
  /\ saving' = [saving EXCEPT ![l] = NoKind]
  /\ UNCHANGED <<slot, active>>

\* Mutant: an error return forgets to restore PRIMASK.
UnlockForgets(l) ==
  /\ Running(l)
  /\ saving[l] = NoKind
  /\ held[l] # <<>>
  /\ held' = [held EXCEPT ![l] = SubSeq(held[l], 1, Len(held[l]) - 1)]
  /\ UNCHANGED <<primask, slot, active, saving>>

\* __set_PRIMASK(primask_k) for the innermost lock.
Unlock(l) ==
  /\ Running(l)
  /\ saving[l] = NoKind
  /\ held[l] # <<>>
  /\ primask' = slot[held[l][Len(held[l])]]
  /\ held' = [held EXCEPT ![l] = SubSeq(held[l], 1, Len(held[l]) - 1)]
  /\ UNCHANGED <<slot, active, saving>>

Step(l) ==
  \/ Enter(l)
  \/ Leave(l)
  \/ \E k \in Kinds : Save(l, k)
  \/ Disable(l)
  \/ Unlock(l)

Next == \E l \in Levels : Step(l)

Spec == Init /\ [][Next]_vars

\* A level in a section comes to its end, the outermost one too, and a handler
\* returns: their code has no loop that waits.  An interrupt that may be taken
\* again and again is taken: it is pending, and the processor takes it before
\* the next instruction.
Fairness ==
  \A l \in Levels :
    /\ WF_vars(Disable(l))
    /\ WF_vars(Unlock(l))
    /\ SF_vars(Len(held[l]) = 1 /\ Unlock(l))
    /\ SF_vars(Enter(l))
    /\ SF_vars(Leave(l))

FairSpec == Spec /\ Fairness

-----------------------------------------------------------------------------
\* A level inside a critical section is not disturbed: interrupts are masked
\* and it is the level that runs, so no two levels are ever inside.
Exclusive == \A l \in Levels : held[l] # <<>> => primask /\ Running(l)

\* When no lock is held, interrupts are enabled.
LockReleased == primask => \E l \in Levels : held[l] # <<>>

\* The slot of an outermost lock says that interrupts were enabled, so that its
\* unlock enables them again.
OuterSlots ==
  \A l \in Levels :
    /\ held[l] # <<>> => ~slot[held[l][1]]
    /\ saving[l] # NoKind /\ held[l] = <<>> => ~slot[saving[l]]

\* The locks will give back what they took.
Intact == LockReleased /\ OuterSlots

\* A lock of kind k that level l takes inside another one, while its slot is still
\* needed: by the outermost lock of the level itself, or by a level it preempted
\* between the two halves of a lock.
Clash(l, k) ==
  /\ held[l] # <<>>
  /\ \/ k = held[l][1]
     \/ \E h \in Levels : h < l /\ held[h] = <<>> /\ saving[h] = k

\* The locks stop giving interrupts back at one instruction and no other: when a
\* nested lock saves PRIMASK over a slot that is still needed.
LostByClash ==
  [][Intact => (~Intact' <=> \E l \in Levels, k \in Kinds : Save(l, k) /\ Clash(l, k))]_vars

\* "Thread function executes in constant intervals" (CO_app_STM32.c:289): the
\* timer interrupt, level 1, is taken again and again.
TimerAlive == []<>active[1]

\* It is, for ever, unless a slot that is needed is overwritten.
TimerAliveIfKept == []OuterSlots => TimerAlive
=============================================================================
