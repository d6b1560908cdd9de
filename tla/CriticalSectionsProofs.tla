----------------------- MODULE CriticalSectionsProofs -----------------------
(***************************************************************************)
(* Machine-checked proofs about the critical sections, for every number of *)
(* levels, every set of lock kinds and every nesting.                      *)
(***************************************************************************)
EXTENDS CriticalSections, SequenceTheorems, TLAPS

\* Taking the innermost lock off a stack of locks.
LEMMA Pop ==
  ASSUME NEW s \in Seq(Kinds), s # <<>>
  PROVE  /\ SubSeq(s, 1, Len(s) - 1) \in Seq(Kinds)
         /\ Len(SubSeq(s, 1, Len(s) - 1)) = Len(s) - 1
         /\ \A i \in 1 .. Len(s) - 1 : SubSeq(s, 1, Len(s) - 1)[i] = s[i]
         /\ s[Len(s)] \in Kinds
         /\ Len(s) \in Nat \ {0}
<1>1. Len(s) \in Nat \ {0}
  BY EmptySeq
<1>2. \A i \in 1 .. Len(s) : s[i] \in Kinds
  BY ElementOfSeq
<1> DEFINE n == Len(s) - 1
<1>3. /\ n \in Nat
      /\ \A i \in 1 .. n : s[i] \in Kinds
  BY <1>1, <1>2
<1> HIDE DEF n
<1>4. /\ SubSeq(s, 1, n) \in Seq(Kinds)
      /\ Len(SubSeq(s, 1, n)) = IF 1 <= n THEN n - 1 + 1 ELSE 0
      /\ \A i \in 1 .. n - 1 + 1 : SubSeq(s, 1, n)[i] = s[1 + i - 1]
  BY <1>3, SubSeqProperties
<1>5. Len(SubSeq(s, 1, n)) = n
  BY <1>3, <1>4
<1>6. \A i \in 1 .. n : SubSeq(s, 1, n)[i] = s[i]
  BY <1>3, <1>4
<1> QED
  BY <1>1, <1>2, <1>4, <1>5, <1>6 DEF n

USE NestAssumption DEF Levels, MainLoop

LEMMA TypeInit == Init => TypeOK
  BY DEF Init, TypeOK

LEMMA TypeStep == TypeOK /\ [Next]_vars => TypeOK'
<1> SUFFICES ASSUME TypeOK, [Next]_vars PROVE TypeOK'
  OBVIOUS
<1> USE DEF TypeOK
<1>1. ASSUME NEW l \in Levels, Enter(l) PROVE TypeOK'
  <2>0. MainLoop \in Levels
    OBVIOUS
  <2>1. active' \in [Levels -> BOOLEAN]
    BY <1>1, Zenon DEF Enter
  <2>3. active'[MainLoop]
    BY <1>1, <2>0 DEF Enter
  <2>2. \A h \in Levels : active[h] => active'[h]
    BY <1>1, Zenon DEF Enter
  <2> QED
    BY <1>1, <2>1, <2>2, <2>3 DEF Enter
<1>2. ASSUME NEW l \in Levels, Leave(l) PROVE TypeOK'
  <2>0. MainLoop \in Levels
    OBVIOUS
  <2>1. active' \in [Levels -> BOOLEAN]
    BY <1>2, Zenon DEF Leave
  <2>3. active'[MainLoop]
    BY <1>2, <2>0 DEF Leave
  <2>2. \A h \in Levels : h # l => active'[h] = active[h]
    BY <1>2, Zenon DEF Leave
  <2> QED
    BY <1>2, <2>1, <2>2, <2>3 DEF Leave
<1>3. ASSUME NEW l \in Levels, NEW k \in Kinds, Save(l, k) PROVE TypeOK'
  BY <1>3 DEF Save, Running
<1>4. ASSUME NEW l \in Levels, Disable(l) PROVE TypeOK'
  <2>1. saving[l] \in Kinds /\ active[l]
    BY <1>4 DEF Disable, Running
  <2>2. Append(held[l], saving[l]) \in Seq(Kinds)
    BY <2>1
  <2>3. held' \in [Levels -> Seq(Kinds)] /\ saving' \in [Levels -> Kinds \cup {NoKind}]
    BY <1>4, <2>2 DEF Disable
  <2>5. held'[l] = Append(held[l], saving[l]) /\ held'[l] \in Nest[l]
    BY <1>4 DEF Disable
  <2>4. /\ saving'[l] = NoKind
        /\ \A h \in Levels : h # l => held'[h] = held[h] /\ saving'[h] = saving[h]
    BY <1>4 DEF Disable
  <2> QED
    BY <1>4, <2>1, <2>3, <2>4, <2>5 DEF Disable
<1>5. ASSUME NEW l \in Levels, Unlock(l) PROVE TypeOK'
  <2>1. /\ active[l] /\ saving[l] = NoKind
        /\ held[l] \in Seq(Kinds) /\ held[l] # <<>>
    BY <1>5 DEF Unlock, Running
  <2>2. SubSeq(held[l], 1, Len(held[l]) - 1) \in Seq(Kinds) /\ held[l][Len(held[l])] \in Kinds
    BY <2>1, Pop
  <2>3. held' \in [Levels -> Seq(Kinds)] /\ primask' \in BOOLEAN
    BY <1>5, <2>2 DEF Unlock
  <2>4. \A h \in Levels : h # l => held'[h] = held[h]
    BY <1>5 DEF Unlock
  <2>5. held'[l] = SubSeq(held[l], 1, Len(held[l]) - 1)
    BY <1>5 DEF Unlock
  <2>6. held'[l] # <<>> => held'[l] \in Nest[l]
    BY <2>1, <2>5, Pop
  <2> QED
    BY <1>5, <2>1, <2>3, <2>4, <2>6 DEF Unlock
<1>6. CASE UNCHANGED vars
  BY <1>6 DEF vars
<1> QED
  BY <1>1, <1>2, <1>3, <1>4, <1>5, <1>6 DEF Next, Step

\* Every variable keeps its type; a preempted level is inside no section.
THEOREM TypeCorrect == Spec => []TypeOK
<1> QED
  BY TypeInit, TypeStep, PTL DEF Spec

-----------------------------------------------------------------------------
\* Only the running level holds locks, so two holders are the same level.
LEMMA RunningUnique ==
  ASSUME TypeOK, NEW l \in Levels, NEW h \in Levels, Running(l), Running(h)
  PROVE  l = h
<1>1. ~(l > h) /\ ~(h > l)
  BY DEF Running
<1> QED
  BY <1>1

\* A level that holds locks when some level runs is that level.
LEMMA HolderRuns ==
  ASSUME TypeOK, Exclusive, NEW l \in Levels, NEW h \in Levels,
         Running(l), held[h] # <<>>
  PROVE  l = h
<1>1. Running(h)
  BY DEF Exclusive
<1> QED
  BY <1>1, RunningUnique

\* What Disable and Unlock do to the stack of the level that acts.
LEMMA DisableStack ==
  ASSUME TypeOK, NEW l \in Levels, Disable(l)
  PROVE  /\ saving[l] \in Kinds
         /\ Running(l) /\ Running(l)'
         /\ held'[l] = Append(held[l], saving[l])
         /\ Len(held'[l]) = Len(held[l]) + 1
         /\ held'[l][Len(held[l]) + 1] = saving[l]
         /\ \A i \in 1 .. Len(held[l]) : held'[l][i] = held[l][i]
         /\ saving'[l] = NoKind
         /\ \A h \in Levels : h # l => held'[h] = held[h] /\ saving'[h] = saving[h]
<1>1. /\ saving[l] \in Kinds /\ held[l] \in Seq(Kinds)
      /\ held'[l] = Append(held[l], saving[l])
      /\ saving'[l] = NoKind
      /\ \A h \in Levels : h # l => held'[h] = held[h] /\ saving'[h] = saving[h]
  BY DEF Disable, TypeOK
<1>2. Running(l) /\ Running(l)'
  BY DEF Disable, Running
<1> QED
  BY <1>1, <1>2

LEMMA UnlockStack ==
  ASSUME TypeOK, NEW l \in Levels, Unlock(l)
  PROVE  /\ Len(held[l]) \in Nat \ {0}
         /\ Running(l) /\ Running(l)'
         /\ Len(held'[l]) = Len(held[l]) - 1
         /\ held'[l] = <<>> <=> Len(held[l]) = 1
         /\ \A i \in 1 .. Len(held[l]) - 1 : held'[l][i] = held[l][i]
         /\ saving' = saving
         /\ saving[l] = NoKind
         /\ \A h \in Levels : h # l => held'[h] = held[h]
<1>1. /\ held[l] \in Seq(Kinds) /\ held[l] # <<>>
      /\ held'[l] = SubSeq(held[l], 1, Len(held[l]) - 1)
      /\ saving' = saving
      /\ saving[l] = NoKind
      /\ \A h \in Levels : h # l => held'[h] = held[h]
  BY DEF Unlock, TypeOK
<1>2. Running(l) /\ Running(l)'
  BY DEF Unlock, Running
<1>3. /\ held'[l] \in Seq(Kinds)
      /\ Len(held'[l]) = Len(held[l]) - 1
      /\ \A i \in 1 .. Len(held[l]) - 1 : held'[l][i] = held[l][i]
      /\ Len(held[l]) \in Nat \ {0}
  BY <1>1, Pop
<1>4. held'[l] = <<>> <=> Len(held[l]) = 1
  BY <1>3, EmptySeq
<1> QED
  BY <1>1, <1>2, <1>3, <1>4

-----------------------------------------------------------------------------
\* The slot of every lock but the outermost holds "interrupts were masked".
NestedSlots ==
  \A l \in Levels :
    /\ \A i \in 2 .. Len(held[l]) : slot[held[l][i]]
    /\ saving[l] # NoKind /\ held[l] # <<>> => slot[saving[l]]

LEMMA ExclusiveStep ==
  ASSUME TypeOK, Exclusive, NestedSlots, [Next]_vars
  PROVE  Exclusive' /\ NestedSlots'
<1>1. ASSUME NEW l \in Levels, Enter(l) PROVE Exclusive' /\ NestedSlots'
  <2>1. \A h \in Levels : held'[h] = <<>>
    BY <1>1 DEF Enter, Exclusive
  <2> QED
    BY <2>1 DEF Exclusive, NestedSlots
<1>2. ASSUME NEW l \in Levels, Leave(l) PROVE Exclusive' /\ NestedSlots'
  <2>1. \A h \in Levels : held'[h] = <<>>
    BY <1>2, HolderRuns DEF Leave
  <2> QED
    BY <2>1 DEF Exclusive, NestedSlots
<1>3. ASSUME NEW l \in Levels, NEW k \in Kinds, Save(l, k)
      PROVE  Exclusive' /\ NestedSlots'
  <2>1. Exclusive'
    BY <1>3 DEF Exclusive, Save, Running
  <2>2. ASSUME NEW h \in Levels, held[h] # <<>> PROVE h = l /\ primask
    BY <1>3, <2>2, HolderRuns DEF Save, Exclusive
  <2>3. ASSUME NEW h \in Levels, held[h] # <<>>
        PROVE  /\ \A i \in 2 .. Len(held[h]) : slot'[held[h][i]]
               /\ saving'[h] # NoKind => slot'[saving'[h]]
    <3>1. h = l /\ primask /\ saving'[l] = k
      BY <1>3, <2>2, <2>3 DEF Save, TypeOK
    <3>2. \A j \in Kinds : slot[j] => slot'[j]
      BY <1>3, <3>1 DEF Save, TypeOK
    <3>3. slot'[k]
      BY <1>3, <3>1 DEF Save, TypeOK
    <3>4. held[h] \in Seq(Kinds)
      BY DEF TypeOK
    <3>5. \A i \in 2 .. Len(held[h]) : held[h][i] \in Kinds
      BY <3>4
    <3>6. \A i \in 2 .. Len(held[h]) : slot'[held[h][i]]
      BY <3>2, <3>5 DEF NestedSlots
    <3> QED
      BY <3>1, <3>3, <3>6
  <2>4. ASSUME NEW h \in Levels, held[h] = <<>> PROVE 2 .. Len(held[h]) = {}
    BY <2>4
  <2> QED
    BY <1>3, <2>1, <2>3, <2>4 DEF NestedSlots, Save
<1>4. ASSUME NEW l \in Levels, Disable(l) PROVE Exclusive' /\ NestedSlots'
  <2>1. \A h \in Levels : h # l => held'[h] = <<>>
    BY <1>4, DisableStack, HolderRuns
  <2>2. Exclusive'
    BY <1>4, <2>1, DisableStack DEF Exclusive, Disable
  <2>3. \A i \in 2 .. Len(held'[l]) : slot'[held'[l][i]]
    <3>1. Len(held[l]) \in Nat /\ (Len(held[l]) >= 1 => held[l] # <<>>)
      BY DEF TypeOK
    <3>2. slot' = slot
      BY <1>4 DEF Disable
    <3> QED
      BY <1>4, <3>1, <3>2, DisableStack DEF NestedSlots, Disable
  <2> QED
    BY <1>4, <2>1, <2>2, <2>3, DisableStack DEF NestedSlots
<1>5. ASSUME NEW l \in Levels, Unlock(l) PROVE Exclusive' /\ NestedSlots'
  <2>1. \A h \in Levels : h # l => held'[h] = <<>>
    BY <1>5, UnlockStack, HolderRuns
  <2>2. held'[l] # <<>> => primask'
    BY <1>5, UnlockStack DEF NestedSlots, Unlock
  <2>3. Exclusive'
    BY <1>5, <2>1, <2>2, UnlockStack DEF Exclusive
  <2>4. \A i \in 2 .. Len(held'[l]) : slot'[held'[l][i]]
    BY <1>5, UnlockStack DEF NestedSlots, Unlock
  <2> QED
    BY <1>5, <2>1, <2>3, <2>4, UnlockStack DEF NestedSlots
<1>6. CASE UNCHANGED vars
  BY <1>6 DEF vars, Exclusive, NestedSlots, Running
<1> QED
  BY <1>1, <1>2, <1>3, <1>4, <1>5, <1>6 DEF Next, Step

\* Whatever the nesting: a level inside a critical section is not disturbed,
\* although the slots are shared and written with interrupts on.
THEOREM ExclusiveAlways == Spec => []Exclusive
<1>1. Init => Exclusive /\ NestedSlots
  BY DEF Init, Exclusive, NestedSlots
<1> QED
  BY <1>1, TypeCorrect, ExclusiveStep, PTL DEF Spec

-----------------------------------------------------------------------------
LEMMA ReleasedStep ==
  ASSUME TypeOK, Exclusive, LockReleased, OuterSlots, [Next]_vars,
         \A l \in Levels, k \in Kinds : Save(l, k) => ~Clash(l, k)
  PROVE  LockReleased' /\ OuterSlots'
<1>1. ASSUME NEW l \in Levels, Enter(l) PROVE LockReleased' /\ OuterSlots'
  BY <1>1 DEF Enter, LockReleased, OuterSlots
<1>2. ASSUME NEW l \in Levels, Leave(l) PROVE LockReleased' /\ OuterSlots'
  BY <1>2 DEF Leave, LockReleased, OuterSlots
<1>3. ASSUME NEW l \in Levels, NEW k \in Kinds, Save(l, k)
      PROVE  LockReleased' /\ OuterSlots'
  <2>1. LockReleased'
    BY <1>3 DEF Save, LockReleased
  <2>2. CASE held[l] = <<>>
    <3>1. ~primask
      BY <1>3, <2>2, HolderRuns DEF Save, LockReleased
    <3>2. /\ ~slot'[k]
          /\ \A j \in Kinds : slot'[j] => slot[j]
      BY <1>3, <3>1 DEF Save, TypeOK
    <3>3. ASSUME NEW h \in Levels, held[h] # <<>> PROVE ~slot'[held[h][1]]
      <4>1. held[h][1] \in Kinds
        BY <3>3, EmptySeq DEF TypeOK
      <4> QED
        BY <3>2, <3>3, <4>1 DEF OuterSlots
    <3>4. ASSUME NEW h \in Levels, saving'[h] # NoKind, held[h] = <<>>
          PROVE  ~slot'[saving'[h]]
      BY <1>3, <3>2, <3>4 DEF Save, OuterSlots, TypeOK
    <3> QED
      BY <1>3, <2>1, <3>3, <3>4 DEF Save, OuterSlots
  <2>3. CASE held[l] # <<>>
    <3>1. /\ \A j \in Kinds : j # k => slot'[j] = slot[j]
          /\ held' = held
          /\ \A h \in Levels : h # l => saving'[h] = saving[h] /\ held[h] = <<>>
      BY <1>3, HolderRuns DEF Save, TypeOK
    <3>2. ~Clash(l, k) /\ held[l][1] \in Kinds
      BY <1>3, <2>3, EmptySeq DEF TypeOK
    <3>4. ~slot'[held[l][1]]
      BY <2>3, <3>1, <3>2 DEF OuterSlots, Clash
    <3>5. ASSUME NEW h \in Levels, h # l, saving[h] # NoKind
          PROVE  ~slot'[saving[h]]
      <4>1. h < l
        BY <1>3, <3>5 DEF Save, Running, TypeOK
      <4>2. saving[h] \in Kinds /\ held[h] = <<>>
        BY <3>1, <3>5 DEF TypeOK
      <4>3. k # saving[h]
        BY <2>3, <3>2, <4>1, <4>2 DEF Clash
      <4> QED
        BY <3>1, <3>5, <4>2, <4>3 DEF OuterSlots
    <3> QED
      BY <2>1, <2>3, <3>1, <3>4, <3>5 DEF OuterSlots
  <2> QED
    BY <2>2, <2>3
<1>4. ASSUME NEW l \in Levels, Disable(l) PROVE LockReleased' /\ OuterSlots'
  <2>1. /\ Len(held[l]) \in Nat
        /\ held[l] = <<>> <=> Len(held[l]) = 0
        /\ held[l] \in Seq(Kinds)
    BY EmptySeq DEF TypeOK
  <2>2. held'[l] # <<>>
    BY <1>4, <2>1, DisableStack
  <2>3. ~slot[held'[l][1]]
    <3>1. CASE held[l] = <<>>
      <4>1. Len(held[l]) + 1 = 1
        BY <2>1, <3>1
      <4>2. held'[l][Len(held[l]) + 1] = saving[l]
        BY <1>4, DisableStack
      <4>3. saving[l] # NoKind
        BY <1>4 DEF Disable
      <4> QED
        BY <3>1, <4>1, <4>2, <4>3 DEF OuterSlots
    <3>2. CASE held[l] # <<>>
      <4>1. 1 \in 1 .. Len(held[l])
        BY <2>1, <3>2
      <4>2. held'[l][1] = held[l][1]
        BY <1>4, <4>1, DisableStack
      <4> QED
        BY <3>2, <4>2 DEF OuterSlots
    <3> QED
      BY <3>1, <3>2
  <2>4. slot' = slot
    BY <1>4 DEF Disable
  <2>5. LockReleased'
    BY <2>2 DEF LockReleased
  <2>6. /\ saving'[l] = NoKind
        /\ \A h \in Levels : h # l => held'[h] = held[h] /\ saving'[h] = saving[h]
    BY <1>4, DisableStack
  <2>7. OuterSlots'
    BY <2>2, <2>3, <2>4, <2>6 DEF OuterSlots
  <2> QED
    BY <2>5, <2>7
<1>5. ASSUME NEW l \in Levels, Unlock(l) PROVE LockReleased' /\ OuterSlots'
  <2>1. \A h \in Levels : h # l => held'[h] = <<>>
    BY <1>5, UnlockStack, HolderRuns
  <2>2. held'[l] = <<>> => ~primask'
    BY <1>5, UnlockStack DEF Unlock, OuterSlots
  <2>3. held'[l] # <<>> => ~slot[held'[l][1]]
    BY <1>5, UnlockStack DEF Unlock, OuterSlots
  <2>4. slot' = slot
    BY <1>5 DEF Unlock
  <2> QED
    BY <1>5, <2>1, <2>2, <2>3, <2>4, UnlockStack DEF LockReleased, OuterSlots
<1>6. CASE UNCHANGED vars
  BY <1>6 DEF vars, LockReleased, OuterSlots
<1> QED
  BY <1>1, <1>2, <1>3, <1>4, <1>5, <1>6 DEF Next, Step

\* A nested lock finds interrupts masked and says so in its slot.
LEMMA ClashLoses ==
  ASSUME TypeOK, Exclusive, NEW l \in Levels, NEW k \in Kinds, Save(l, k), Clash(l, k)
  PROVE  ~OuterSlots'
<1>1. held[l] # <<>> /\ held' = held
  BY DEF Clash, Save
<1>2. slot'[k]
  BY <1>1 DEF Save, Exclusive, TypeOK
<1>3. CASE k = held[l][1]
  BY <1>1, <1>2, <1>3 DEF OuterSlots
<1>4. ASSUME NEW h \in Levels, h < l, held[h] = <<>>, saving[h] = k
      PROVE  ~OuterSlots'
  <2>1. saving'[h] = k /\ k # NoKind
    BY <1>4 DEF Save, TypeOK
  <2> QED
    BY <1>1, <1>2, <1>4, <2>1 DEF OuterSlots
<1> QED
  BY <1>3, <1>4 DEF Clash

\* For every number of levels, every set of lock kinds and every nesting, the
\* firmware's included: from the start on, and whenever all is well, interrupts are
\* masked only while some level holds a lock, until a nested lock saves PRIMASK over
\* a slot that is still needed; and that always spoils a slot.
THEOREM LostByClashAlways == Spec => Intact /\ LostByClash
<1>1. Init => Intact
  BY DEF Init, Intact, LockReleased, OuterSlots
<1>2. TypeOK /\ Exclusive /\ [Next]_vars =>
        [Intact => (~Intact' <=> \E l \in Levels, k \in Kinds : Save(l, k) /\ Clash(l, k))]_vars
  <2> SUFFICES ASSUME TypeOK, Exclusive, [Next]_vars, Intact
               PROVE  ~Intact' <=> \E l \in Levels, k \in Kinds : Save(l, k) /\ Clash(l, k)
    OBVIOUS
  <2>1. ASSUME \A l \in Levels, k \in Kinds : Save(l, k) => ~Clash(l, k) PROVE Intact'
    BY <2>1, ReleasedStep DEF Intact
  <2>2. ASSUME NEW l \in Levels, NEW k \in Kinds, Save(l, k), Clash(l, k) PROVE ~Intact'
    BY <2>2, ClashLoses DEF Intact
  <2> QED
    BY <2>1, <2>2
<1> QED
  BY <1>1, <1>2, TypeCorrect, ExclusiveAlways, PTL DEF Spec, LostByClash
=============================================================================
