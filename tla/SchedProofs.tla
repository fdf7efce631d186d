---------------------------- MODULE SchedProofs -----------------------------
(***************************************************************************)
(* The scheduler's safety for any number of threads, any nesting of        *)
(* critical sections and any sleep: only the current thread is taken, the  *)
(* kpanic of task_tyield is never met, a deferred preemption is made up    *)
(* for, and no ready thread is overtaken more than MaxTid - 1 times.       *)
(***************************************************************************)
EXTENDS Sched, TLAPS

(* Inside task_reshed_enable and task_tyield the count is 0.  For the threads
   off the CPU nothing need be said: they come back at a switch, and a switch
   happens only at 0. *)
YieldsEnabled == pc[current_tid] \in {"enable", "yield"} => reshed_block = 0

(* Each time a thread is passed over the search comes closer to it. *)
Approached == \A t \in Tids : passed[t] + Distance(t) <= MaxTid

IInv ==
  /\ TypeOK
  /\ reshed_block >= 0
  /\ OnlyCurrentRunning
  /\ NoYieldPanic
  /\ RequestHonoured
  /\ YieldsEnabled
  /\ Approached

LEMMA SlotFacts == Tids \subseteq Slots /\ Tids \subseteq Int /\ Idle \in Slots
                   /\ Slots \subseteq Int /\ 1 \in Tids /\ Idle \notin Tids
  BY MaxTidAssumption DEF Tids, Slots, Idle

(* The search needs between 1 and MaxTid steps. *)
LEMMA CyclicDistance ==
  \A l, t \in 1 .. MaxTid :
    (IF t > l THEN t - l ELSE t - l + MaxTid) \in 1 .. MaxTid
  BY MaxTidAssumption

LEMMA DistanceRange ==
  ASSUME last_tid \in Tids, NEW t \in Tids
  PROVE  Distance(t) \in 1 .. MaxTid
  BY CyclicDistance DEF Tids, Distance

LEMMA InitIInv == Init => IInv
  <1> SUFFICES ASSUME Init PROVE IInv
    OBVIOUS
  <1> USE MaxTidAssumption, SlotFacts
  <1>1. TypeOK
    <2>1. status \in [Slots -> Statuses]
      BY DEF Init, task_init, Statuses
    <2>2. /\ running \in [Slots -> BOOLEAN] /\ sleep_left \in [Slots -> Int]
          /\ passed \in [Slots -> Nat]
      BY DEF Init, task_init
    <2>3. pc \in [Slots -> {"run", "reshed", "yield", "enable"}]
      BY DEF Init
    <2>4. current_tid \in Slots /\ last_tid \in Tids /\ reshed_block \in Int
      BY DEF Init, task_init
    <2>5. should_reshed \in BOOLEAN /\ panic \in BOOLEAN
      BY Zenon DEF Init, task_init
    <2> QED
      BY <2>1, <2>2, <2>3, <2>4, <2>5 DEF TypeOK, TaskTypeOK
  <1>2. OnlyCurrentRunning /\ NoYieldPanic /\ RequestHonoured /\ YieldsEnabled
    BY DEF Init, task_init, OnlyCurrentRunning, NoYieldPanic, RequestHonoured,
           YieldsEnabled
  <1>3. Approached
    <2> SUFFICES ASSUME NEW t \in Tids PROVE passed[t] + Distance(t) <= MaxTid
      BY DEF Approached
    <2>1. Distance(t) \in 1 .. MaxTid
      BY DistanceRange DEF Init, task_init
    <2> QED
      BY <2>1 DEF Init
  <1> QED
    BY <1>1, <1>2, <1>3 DEF IInv, Init, task_init

(* When only the current thread is taken every ready thread can be taken, so
   the selected thread is the nearest ready one. *)
LEMMA SelectsNearest ==
  ASSUME IInv, NEW s \in Slots, Selects(s)
  PROVE  /\ Takeable = ReadySet
         /\ s # Idle => s \in ReadySet
         /\ ReadySet # {} => /\ s \in ReadySet
                             /\ \A u \in ReadySet : Distance(s) <= Distance(u)
  <1>1. \A t \in Slots : ~Released[t]
    BY DEF IInv, TypeOK, TaskTypeOK, OnlyCurrentRunning, Released
  <1>2. Takeable = ReadySet
    BY Zenon, <1>1, SlotFacts DEF Takeable, ReadySet
  <1> QED
    BY <1>2 DEF Selects

(* A switch to s brings the search closer to every thread it passes over. *)
LEMMA SwitchApproaches ==
  ASSUME IInv, NEW s \in ReadySet, NEW t \in ReadySet, s # t,
         Distance(s) <= Distance(t), last_tid' = s
  PROVE  Distance(t)' <= Distance(t) - 1
  <1>1. s \in 1 .. MaxTid /\ t \in 1 .. MaxTid /\ last_tid \in 1 .. MaxTid
    BY DEF ReadySet, Tids, IInv, TypeOK, TaskTypeOK
  <1> QED
    BY <1>1, MaxTidAssumption DEF Distance

(* What one call of task_shed_choose preserves, whoever calls it. *)
LEMMA ReshedStep ==
  ASSUME IInv, Reshed, UNCHANGED reshed_block
  PROVE  /\ status' \in [Slots -> Statuses] /\ running' \in [Slots -> BOOLEAN]
         /\ current_tid' \in Slots /\ last_tid' \in Tids
         /\ should_reshed' \in BOOLEAN /\ passed' \in [Slots -> Nat]
         /\ OnlyCurrentRunning'
         /\ Approached'
         /\ reshed_block > 0 => current_tid' = current_tid
         /\ should_reshed' => reshed_block > 0
  <1> USE MaxTidAssumption, SlotFacts
  <1>1. CASE reshed_block > 0
    BY <1>1 DEF IInv, TypeOK, TaskTypeOK, Reshed, task_shed_choose,
                OnlyCurrentRunning, Approached, Distance
  <1>2. CASE ~(reshed_block > 0)
    <2>1. PICK s \in Slots : Selects(s) /\ EnterThread(s)
      BY <1>2 DEF Reshed, task_shed_choose
    <2>2. should_reshed' = FALSE /\ current_tid' = s
      BY <1>2, <2>1 DEF Reshed, task_shed_choose, EnterThread
    <2>3. status' \in [Slots -> Statuses]
      BY <2>1 DEF EnterThread, IInv, TypeOK, TaskTypeOK, Statuses
    <2>4. \A t \in Slots : ~Released[t]
      BY DEF IInv, TypeOK, TaskTypeOK, OnlyCurrentRunning, Released
    <2>5. Released \in [Slots -> BOOLEAN]
      BY DEF IInv, TypeOK, TaskTypeOK, Released
    <2>6. running' \in [Slots -> BOOLEAN] /\ OnlyCurrentRunning'
      BY <2>1, <2>2, <2>4, <2>5 DEF EnterThread, OnlyCurrentRunning
    <2>7. last_tid' \in Tids /\ (s # Idle => last_tid' = s)
                             /\ (s = Idle => last_tid' = last_tid)
      BY <2>1, SelectsNearest
      DEF EnterThread, IInv, TypeOK, TaskTypeOK, Slots, Tids, Idle
    <2>8. passed' = [t \in Slots |->
                      CASE t \notin ReadySet \/ t = s -> 0
                        [] OTHER -> IF passed[t] < MaxTid THEN passed[t] + 1
                                                          ELSE MaxTid]
      BY <1>2, <2>2 DEF Reshed
    <2>9. passed' \in [Slots -> Nat]
      BY <2>8 DEF IInv, TypeOK
    <2>10. Approached'
      <3> SUFFICES ASSUME NEW t \in Tids
                   PROVE  passed'[t] + Distance(t)' <= MaxTid
        BY DEF Approached
      <3>1. Distance(t)' \in 1 .. MaxTid
        <4>1. last_tid' \in 1 .. MaxTid /\ t \in 1 .. MaxTid
          BY <2>7 DEF Tids
        <4>2. Distance(t)' = IF t > last_tid' THEN t - last_tid'
                                              ELSE t - last_tid' + MaxTid
          BY DEF Distance
        <4> QED
          BY Zenon, <4>1, <4>2, CyclicDistance
      <3>2. CASE t \notin ReadySet \/ t = s
        BY <3>1, <3>2, <2>8
      <3>3. CASE t \in ReadySet /\ t # s
        <4>1. s \in ReadySet /\ Distance(s) <= Distance(t)
          BY <2>1, <3>3, SelectsNearest
        <4>2. Distance(t)' <= Distance(t) - 1
          BY <2>7, <3>3, <4>1, SwitchApproaches DEF ReadySet
        <4>3. passed[t] + Distance(t) <= MaxTid /\ passed[t] \in Nat
          BY DEF IInv, Approached, TypeOK
        <4>4. Distance(t) \in 1 .. MaxTid
          BY DistanceRange DEF IInv, TypeOK, TaskTypeOK
        <4>5. passed'[t] = passed[t] + 1
          BY <2>8, <3>3, <4>3, <4>4
        <4> QED
          BY <3>1, <4>2, <4>3, <4>4, <4>5
      <3> QED
        BY <3>2, <3>3
    <2> QED
      BY Zenon, <1>2, <2>2, <2>3, <2>6, <2>7, <2>9, <2>10
  <1> QED
    BY <1>1, <1>2

(* A step that leaves the CPU with its thread, last_tid and the histories. *)
LEMMA LocalStep ==
  ASSUME IInv, UNCHANGED <<running, current_tid, last_tid, passed, panic>>
  PROVE  OnlyCurrentRunning' /\ NoYieldPanic' /\ Approached'
  BY DEF IInv, OnlyCurrentRunning, NoYieldPanic, Approached, Distance

LEMMA NextIInv == IInv /\ [Next]_vars => IInv'
  <1> SUFFICES ASSUME IInv, [Next]_vars PROVE IInv'
    OBVIOUS
  <1> USE SlotFacts
  <1> DEFINE PCs == {"run", "reshed", "yield", "enable"}
  <1>0. \A l \in PCs : Goto(l) => pc' \in [Slots -> PCs] /\ pc'[current_tid] = l
    BY DEF Goto, me, IInv, TypeOK, TaskTypeOK
  <1>1. CASE UNCHANGED vars
    BY <1>1 DEF vars, taskVars, IInv, TypeOK, TaskTypeOK, OnlyCurrentRunning,
       NoYieldPanic, RequestHonoured, YieldsEnabled, Approached, Distance
  <1>2. CASE task_reshed_irq
    <2>1. Reshed /\ UNCHANGED <<reshed_block, pc, panic>>
      BY <1>2 DEF task_reshed_irq
    <2>2. sleep_left' \in [Slots -> Int]
      BY <1>2 DEF task_reshed_irq, time_tick, IInv, TypeOK, TaskTypeOK
    <2>3. TypeOK'
      BY <2>1, <2>2, ReshedStep DEF IInv, TypeOK, TaskTypeOK
    <2>4. RequestHonoured' /\ NoYieldPanic' /\ YieldsEnabled'
      <3>1. reshed_block > 0 => current_tid' = current_tid
        BY <2>1, ReshedStep
      <3>2. should_reshed' => reshed_block > 0
        BY <2>1, ReshedStep
      <3>3. reshed_block \in Int /\ reshed_block >= 0
        BY DEF IInv, TypeOK, TaskTypeOK
      <3> QED
        BY <2>1, <3>1, <3>2, <3>3
        DEF IInv, RequestHonoured, NoYieldPanic, YieldsEnabled
    <2> QED
      BY <2>1, <2>3, <2>4, ReshedStep DEF IInv
  <1>3. CASE task_tcreate
    <2>1. PICK t \in Tids : status' = [status EXCEPT ![t] = "CREATED"]
      BY Zenon, <1>3 DEF task_tcreate
    <2>2. TypeOK'
      BY <1>3, <2>1 DEF task_tcreate, IInv, TypeOK, TaskTypeOK, Statuses
    <2> QED
      BY <1>3, <2>2, LocalStep
      DEF task_tcreate, IInv, RequestHonoured, YieldsEnabled
  <1>4. ASSUME NEW t \in Tids, SetRunnable(t) PROVE IInv'
    <2>1. TypeOK'
      BY <1>4 DEF SetRunnable, IInv, TypeOK, TaskTypeOK, Statuses
    <2> QED
      BY <1>4, <2>1, LocalStep
      DEF SetRunnable, IInv, RequestHonoured, YieldsEnabled
  <1>5. CASE Block
    <2>1. pc' \in [Slots -> PCs] /\ pc'[current_tid] = "yield"
      BY <1>0, <1>5 DEF Block
    <2>2. TypeOK'
      BY Zenon, <1>5, <2>1 DEF Block, IInv, TypeOK, TaskTypeOK, Statuses
    <2>3. RequestHonoured' /\ YieldsEnabled'
      BY <1>5, <2>1 DEF Block, RequestHonoured, YieldsEnabled
    <2> QED
      BY <1>5, <2>2, <2>3, LocalStep DEF Block, IInv
  <1>6. ASSUME NEW delay \in 0 .. MaxDelay, task_tsleep(delay) PROVE IInv'
    <2>1. pc' \in [Slots -> PCs] /\ pc'[current_tid] = "reshed"
      BY <1>0, <1>6 DEF task_tsleep
    <2>2. delay \in Int
      BY SchedBounds
    <2>3. TypeOK'
      BY Zenon, <1>6, <2>1, <2>2 DEF task_tsleep, IInv, TypeOK, TaskTypeOK, Statuses
    <2>4. RequestHonoured' /\ YieldsEnabled'
      BY <1>6, <2>1
      DEF task_tsleep, At, me, IInv, RequestHonoured, YieldsEnabled
    <2> QED
      BY <1>6, <2>3, <2>4, LocalStep DEF task_tsleep, IInv
  <1>7. CASE task_reshed
    <2>1. Reshed /\ UNCHANGED <<sleep_left, reshed_block, panic>>
      BY <1>7 DEF task_reshed
    <2>2. pc' \in [Slots -> PCs] /\ pc'[current_tid] = "run"
      BY <1>0, <1>7 DEF task_reshed
    <2>3. TypeOK'
      BY <2>1, <2>2, ReshedStep DEF IInv, TypeOK, TaskTypeOK
    <2>4. RequestHonoured' /\ NoYieldPanic' /\ YieldsEnabled'
      <3>1. reshed_block > 0 => current_tid' = current_tid
        BY <2>1, ReshedStep
      <3>2. should_reshed' => reshed_block > 0
        BY <2>1, ReshedStep
      <3>3. reshed_block \in Int /\ reshed_block >= 0
        BY DEF IInv, TypeOK, TaskTypeOK
      <3> QED
        BY <2>1, <2>2, <3>1, <3>2, <3>3
        DEF IInv, RequestHonoured, NoYieldPanic, YieldsEnabled
    <2> QED
      BY <2>1, <2>3, <2>4, ReshedStep DEF IInv
  <1>8. CASE task_tyield
    <2>1. reshed_block = 0
      BY <1>8 DEF task_tyield, At, me, IInv, YieldsEnabled
    <2>2. Reshed /\ UNCHANGED <<sleep_left, reshed_block, panic>>
      BY <1>8, <2>1 DEF task_tyield
    <2>3. pc' \in [Slots -> PCs]
      BY <1>0, <1>8, <2>1 DEF task_tyield
    <2>4. TypeOK'
      BY <2>2, <2>3, ReshedStep DEF IInv, TypeOK, TaskTypeOK
    <2>5. RequestHonoured' /\ NoYieldPanic' /\ YieldsEnabled'
      <3>1. should_reshed' => reshed_block > 0
        BY <2>2, ReshedStep
      <3> QED
        BY <2>1, <2>2, <3>1
        DEF IInv, RequestHonoured, NoYieldPanic, YieldsEnabled
    <2> QED
      BY <2>2, <2>4, <2>5, ReshedStep DEF IInv
  <1>9. CASE task_reshed_disable
    <2>1. reshed_block \in Int /\ reshed_block >= 0
      BY DEF IInv, TypeOK, TaskTypeOK
    <2>2. TypeOK'
      BY <1>9 DEF task_reshed_disable, shedVars, IInv, TypeOK, TaskTypeOK
    <2>3. RequestHonoured' /\ YieldsEnabled'
      BY <1>9, <2>1 DEF task_reshed_disable, shedVars, At, me, IInv,
                        RequestHonoured, YieldsEnabled
    <2> QED
      BY <1>9, <2>1, <2>2, <2>3, LocalStep DEF task_reshed_disable, shedVars, IInv
  <1>10. CASE task_reshed_enable
    <2>1. reshed_block \in Int /\ reshed_block > 0
      BY <1>10 DEF task_reshed_enable, IInv, TypeOK, TaskTypeOK
    <2>2. /\ pc' \in [Slots -> PCs]
          /\ pc'[current_tid] = IF reshed_block = 1 THEN "enable" ELSE "run"
      BY <1>0, <1>10 DEF task_reshed_enable
    <2>3. TypeOK'
      BY <1>10, <2>2
      DEF task_reshed_enable, shedVars, IInv, TypeOK, TaskTypeOK
    <2>4. RequestHonoured' /\ YieldsEnabled'
      BY <1>10, <2>1, <2>2
      DEF task_reshed_enable, shedVars, RequestHonoured, YieldsEnabled
    <2> QED
      BY <1>10, <2>1, <2>3, <2>4, LocalStep DEF task_reshed_enable, shedVars, IInv
  <1>11. CASE ReshedIfRequested
    <2>1. /\ pc' \in [Slots -> PCs]
          /\ pc'[current_tid] = IF should_reshed THEN "yield" ELSE "run"
      BY <1>0, <1>11 DEF ReshedIfRequested
    <2>2. reshed_block = 0
      BY <1>11 DEF ReshedIfRequested, At, me, IInv, YieldsEnabled
    <2>3. TypeOK'
      BY <1>11, <2>1 DEF ReshedIfRequested, taskVars, IInv, TypeOK, TaskTypeOK
    <2>4. RequestHonoured' /\ YieldsEnabled'
      BY <1>11, <2>1, <2>2
      DEF ReshedIfRequested, taskVars, RequestHonoured, YieldsEnabled
    <2> QED
      BY <1>11, <2>3, <2>4, LocalStep DEF ReshedIfRequested, taskVars, IInv
  <1> QED
    BY <1>1, <1>2, <1>3, <1>4, <1>5, <1>6, <1>7, <1>8, <1>9, <1>10, <1>11
    DEF Next

(* In every behaviour of the scheduler: types hold, no thread but the current
   one is taken, task_tyield never panics, and a preemption requested inside
   a critical section is made up for at its end. *)
THEOREM SchedSafe ==
  Spec => [](TypeOK /\ OnlyCurrentRunning /\ NoYieldPanic /\ RequestHonoured)
  <1>1. IInv => TypeOK /\ OnlyCurrentRunning /\ NoYieldPanic /\ RequestHonoured
    BY DEF IInv
  <1> QED
    BY <1>1, InitIInv, NextIInv, PTL DEF Spec

(* Round robin: a ready thread is passed over by task_shed_choose fewer times
   than there are thread slots. *)
THEOREM OvertakingBounded == Spec => []BoundedOvertaking
  <1>1. IInv => BoundedOvertaking
    <2> SUFFICES ASSUME IInv, NEW t \in Tids PROVE passed[t] < MaxTid
      BY DEF BoundedOvertaking
    <2>1. passed[t] + Distance(t) <= MaxTid /\ passed[t] \in Nat
      BY SlotFacts DEF IInv, Approached, TypeOK
    <2>2. Distance(t) \in 1 .. MaxTid
      BY DistanceRange DEF IInv, TypeOK, TaskTypeOK
    <2> QED
      BY <2>1, <2>2, MaxTidAssumption
  <1> QED
    BY <1>1, InitIInv, NextIInv, PTL DEF Spec

(* The CPU goes to a ready thread only, and that thread is taken. *)
THEOREM EntersReady == Spec => EntersReadyThread
  <1> DEFINE A == current_tid' # current_tid /\ current_tid' # Idle
                    => Ready(current_tid') /\ running'[current_tid']
  <1>1. IInv /\ [Next]_vars => [A]_vars
    <2> SUFFICES ASSUME IInv, Next, current_tid' # current_tid,
                        current_tid' # Idle
                 PROVE  Ready(current_tid') /\ running'[current_tid']
      OBVIOUS
    <2>1. Reshed
      BY DEF Next, task_reshed_irq, task_tcreate, SetRunnable, Block,
             task_tsleep, task_reshed, task_tyield, task_reshed_disable,
             task_reshed_enable, ReshedIfRequested, shedVars, taskVars
    <2>2. PICK s \in Slots : Selects(s) /\ EnterThread(s)
      BY <2>1 DEF Reshed, task_shed_choose
    <2>3. current_tid' = s /\ s \in ReadySet /\ Takeable # {}
      BY <2>2, SelectsNearest DEF EnterThread
    <2>4. Released \in [Slots -> BOOLEAN]
      BY DEF IInv, TypeOK, TaskTypeOK, Released
    <2> QED
      BY <2>2, <2>3, <2>4 DEF ReadySet, EnterThread
  <1> QED
    BY <1>1, InitIInv, NextIInv, PTL DEF Spec, EntersReadyThread
=============================================================================
