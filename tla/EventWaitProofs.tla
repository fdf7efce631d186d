-------------------------- MODULE EventWaitProofs ---------------------------
(***************************************************************************)
(* Events and the spinlock under them, for any number of threads: until a  *)
(* waiter is aborted late, a spinlock keeps the CPU with its holder; the   *)
(* count that does this is always accounted for; and whoever is blocked    *)
(* has an entry in the event's queue.                                      *)
(***************************************************************************)
EXTENDS EventWait, FiniteSetTheorems, TLAPS

Labels == {"run", "acquire", "spin", "body", "release", "enable", "check",
           "yield", "after", "yield_wait", "woken", "gone"}
Ops == {"none", "wait", "trigger", "trigger_all", "aborted", "aborted_late"}

(* From the release of the lock to the end of event_wait. *)
Leaving == {"release", "enable", "check", "yield", "after"}

EventTypeOK ==
  /\ status \in [Slots -> {"RUNNABLE", "BLOCKED"}]
  /\ current_tid \in Slots
  /\ reshed_block \in Int
  /\ pc \in [Slots -> Labels]
  /\ op \in [Slots -> Ops]
  /\ lock \in BOOLEAN
  /\ queue \in Seq(Slots)
  /\ abort \in [Slots -> BOOLEAN]
  /\ panic \in BOOLEAN

(* What a thread took the lock for says where it can be. *)
OpsFit ==
  /\ pc[Idle] = "run"
  /\ \A t \in Slots :
       /\ op[t] = "aborted_late" => pc[t] \in Leaving \cup {"gone"}
       /\ pc[t] \in {"yield_wait", "woken"} => op[t] = "wait"

(* Until a waiter is aborted late the lock word, the count and the place of
   the running thread agree. *)
LockHeld ==
  /\ ~panic
  /\ \A t \in Slots : pc[t] \in Inside => t = current_tid
  /\ reshed_block = IF pc[current_tid] \in Inside THEN 1 ELSE 0
  /\ lock <=> pc[current_tid] \in {"body", "release"}

(* Until then a thread with an entry in the queue is on its way through
   event_wait, behind tqueue_add; and it gets past the yield only when it is
   aborted, because it stays blocked until its entry is gone. *)
Queued(t) ==
  /\ op[t] = "wait"
  /\ pc[t] \in Leaving \cup {"yield_wait", "woken"}
  /\ status[t] = "BLOCKED" \/ abort[t]
  /\ pc[t] = "woken" /\ t = current_tid => abort[t]

QueueSound == IsInjective(queue) /\ \A t \in Range(queue) : Queued(t)

Late    == {t \in Tids : op[t] = "aborted_late"}
Holding == {t \in Tids : pc[t] \in Inside}

CountExact == reshed_block = Cardinality(Holding \ Late) - Cardinality(Late \ Holding)

BlockedHasEntry == \A t \in Slots : status[t] = "BLOCKED" => t \in Range(queue)

IInv ==
  /\ EventTypeOK
  /\ OpsFit
  /\ LateAbort \/ (LockHeld /\ QueueSound)
  /\ CountExact
  /\ BlockedHasEntry
-----------------------------------------------------------------------------
(* The queue after tqueue_add. *)
LEMMA AppendQueue ==
  ASSUME NEW S, NEW q \in Seq(S), NEW x \in S
  PROVE  /\ Append(q, x) \in Seq(S)
         /\ Range(Append(q, x)) = Range(q) \cup {x}
         /\ IsInjective(q) /\ x \notin Range(q) => IsInjective(Append(q, x))
<1>1. /\ Append(q, x) \in Seq(S)
      /\ DOMAIN q = 1 .. Len(q) /\ Len(q) \in Nat
      /\ DOMAIN Append(q, x) = 1 .. Len(q) + 1
      /\ \A i \in 1 .. Len(q) : Append(q, x)[i] = q[i]
      /\ Append(q, x)[Len(q) + 1] = x
  OBVIOUS
<1>2. \A i \in 1 .. Len(q) + 1 : i \in 1 .. Len(q) \/ i = Len(q) + 1
  BY <1>1
<1>3. Len(q) + 1 \in 1 .. Len(q) + 1 /\ \A i \in 1 .. Len(q) : i \in 1 .. Len(q) + 1
  BY <1>1
<1> HIDE <1>3
<1>4. Range(Append(q, x)) = Range(q) \cup {x}
  BY <1>1, <1>2, <1>3 DEF Range
<1>5. ASSUME IsInjective(q), x \notin Range(q)
      PROVE  IsInjective(Append(q, x))
  BY <1>1, <1>2, <1>3, <1>5 DEF Range, IsInjective
<1> QED
  BY <1>1, <1>4, <1>5

(* The queue after tqueue_wakeup. *)
LEMMA TailQueue ==
  ASSUME NEW S, NEW q \in Seq(S), q # <<>>
  PROVE  /\ Tail(q) \in Seq(S) /\ Head(q) \in S
         /\ Range(q) = Range(Tail(q)) \cup {Head(q)}
         /\ IsInjective(q) => IsInjective(Tail(q)) /\ Head(q) \notin Range(Tail(q))
<1>1. /\ Tail(q) \in Seq(S) /\ Head(q) \in S /\ Head(q) = q[1]
      /\ DOMAIN q = 1 .. Len(q) /\ Len(q) \in Nat /\ Len(q) # 0
      /\ DOMAIN Tail(q) = 1 .. Len(q) - 1
      /\ \A i \in 1 .. Len(q) - 1 : Tail(q)[i] = q[i + 1]
  OBVIOUS
<1>2. \A i \in 1 .. Len(q) : i = 1 \/ (i - 1 \in 1 .. Len(q) - 1 /\ (i - 1) + 1 = i)
  BY <1>1
<1>3. /\ 1 \in 1 .. Len(q)
      /\ \A i \in 1 .. Len(q) - 1 : i + 1 \in 1 .. Len(q) /\ i + 1 # 1
      /\ \A i, j \in 1 .. Len(q) - 1 : i + 1 = j + 1 => i = j
  BY <1>1
<1>4. Range(q) = Range(Tail(q)) \cup {Head(q)}
  <2>1. ASSUME NEW i \in 1 .. Len(q) PROVE q[i] \in Range(Tail(q)) \cup {Head(q)}
    <3>1. CASE i = 1
      BY <3>1, <1>1
    <3>2. CASE i - 1 \in 1 .. Len(q) - 1 /\ (i - 1) + 1 = i
      <4>1. q[i] = Tail(q)[i - 1]
        BY <3>2, <1>1
      <4> QED
        BY Zenon, <4>1, <3>2, <1>1 DEF Range
    <3> QED
      BY <3>1, <3>2, <1>2
  <2>2. Range(Tail(q)) \cup {Head(q)} \subseteq Range(q)
    BY <1>1, <1>3 DEF Range
  <2> QED
    BY <2>1, <2>2, <1>1 DEF Range
<1>5. ASSUME IsInjective(q)
      PROVE  IsInjective(Tail(q)) /\ Head(q) \notin Range(Tail(q))
  <2>1. IsInjective(Tail(q))
    BY <1>1, <1>3, <1>5 DEF IsInjective
  <2>2. Head(q) \notin Range(Tail(q))
    BY <1>1, <1>3, <1>5 DEF IsInjective, Range
  <2> QED
    BY <2>1, <2>2
<1> QED
  BY <1>1, <1>4, <1>5

LEMMA SlotFacts ==
  /\ Tids \subseteq Slots /\ Idle \in Slots /\ Idle \notin Tids
  /\ \A t \in Slots : t # Idle => t \in Tids
  /\ 1 \in Tids /\ 1 # Idle
  BY MaxTidAssumption DEF Tids, Slots, Idle

(* Threads here do not sleep, so task_shed_choose leaves every status alone
   and enters a thread that is not blocked, or none. *)
LEMMA ChooseStep ==
  ASSUME EventTypeOK, task_shed_choose
  PROVE  /\ status' = status
         /\ current_tid' \in Slots
         /\ reshed_block > 0 => current_tid' = current_tid
         /\ ~(reshed_block > 0) => \/ status[current_tid'] = "RUNNABLE"
                                   \/ current_tid' = Idle
<1>1. CASE reshed_block > 0
  BY <1>1 DEF task_shed_choose, EventTypeOK
<1>2. CASE ~(reshed_block > 0)
  <2>1. PICK t \in Slots : Selects(t) /\ EnterThread(t)
    BY <1>2 DEF task_shed_choose
  <2>2. status' = status
    BY <2>1 DEF EnterThread, EventTypeOK
  <2>3. current_tid' = t
    BY <2>1 DEF EnterThread
  <2>4. t = Idle \/ t \in ReadySet
    BY <2>1 DEF Selects, Takeable
  <2>5. t = Idle \/ status[t] = "RUNNABLE"
    BY <2>4 DEF ReadySet, Ready, EventTypeOK
  <2> QED
    BY <1>2, <2>2, <2>3, <2>5
<1> QED
  BY <1>1, <1>2

LEMMA InitIInv == Init => IInv
<1> SUFFICES ASSUME Init PROVE IInv
  OBVIOUS
<1> USE SlotFacts DEF Init, task_init
<1>1. EventTypeOK
  <2>1. /\ status \in [Slots -> {"RUNNABLE", "BLOCKED"}]
        /\ abort \in [Slots -> BOOLEAN]
    OBVIOUS
  <2>2. pc \in [Slots -> Labels] /\ op \in [Slots -> Ops]
    BY DEF Labels, Ops
  <2>3. current_tid \in Slots /\ reshed_block \in Int /\ queue \in Seq(Slots)
    OBVIOUS
  <2>4. lock \in BOOLEAN /\ panic \in BOOLEAN
    BY Zenon
  <2> QED
    BY <2>1, <2>2, <2>3, <2>4 DEF EventTypeOK
<1>2. OpsFit
  BY DEF OpsFit
<1>3. LockHeld
  <2>1. \A t \in Slots : pc[t] = "run"
    OBVIOUS
  <2>2. ~lock /\ ~panic /\ current_tid \in Slots /\ reshed_block = 0
    OBVIOUS
  <2> QED
    BY <2>1, <2>2 DEF LockHeld, Inside
<1>4. Range(queue) = {} /\ IsInjective(queue)
  BY DEF Range, IsInjective
<1>5. QueueSound
  BY <1>4 DEF QueueSound
<1>6. CountExact
  <2>1. Holding \ Late = {} /\ Late \ Holding = {}
    BY DEF Holding, Late, Inside
  <2>2. Cardinality(Holding \ Late) = 0 /\ Cardinality(Late \ Holding) = 0
    BY <2>1, FS_EmptySet, Zenon
  <2>3. reshed_block = 0
    OBVIOUS
  <2> HIDE DEF Init, task_init
  <2> QED
    BY <2>2, <2>3 DEF CountExact
<1>7. BlockedHasEntry
  BY DEF BlockedHasEntry
<1> QED
  BY <1>1, <1>2, <1>3, <1>5, <1>6, <1>7 DEF IInv
-----------------------------------------------------------------------------
(* Every step keeps the types. *)
LEMMA TypeStep ==
  ASSUME EventTypeOK, [Next]_vars
  PROVE  EventTypeOK'
<1> USE SlotFacts, RolesAssumption DEF EventTypeOK
<1>1. CASE task_reshed_irq
  BY <1>1, ChooseStep DEF task_reshed_irq, eventVars
<1>2. ASSUME NEW o \in Triggers \cup {"wait"}, Call(o)
      PROVE  EventTypeOK'
  BY <1>2 DEF Call, Goto, taskVars, Triggers, Labels, Ops
<1>3. CASE DisableReshed
  <2>1. pc' \in [Slots -> Labels]
    BY Zenon, <1>3 DEF DisableReshed, Goto, Labels
  <2>2. reshed_block' \in Int
    BY <1>3 DEF DisableReshed
  <2> QED
    BY <1>3, <2>1, <2>2 DEF DisableReshed, shedVars
<1>4. CASE TakeLock
  <2>1. pc' \in [Slots -> Labels]
    BY <1>4 DEF TakeLock, Goto, Labels
  <2>2. lock' \in BOOLEAN /\ panic' \in BOOLEAN
    BY Zenon, <1>4 DEF TakeLock
  <2> QED
    BY <1>4, <2>1, <2>2 DEF TakeLock, taskVars
<1>5. CASE Body
  <2>1. pc' \in [Slots -> Labels]
    BY Zenon, <1>5 DEF Body, Goto, Labels
  <2>5. UNCHANGED <<current_tid, reshed_block, lock, abort, panic>>
    BY <1>5, Zenon DEF Body
  <2>2. CASE WaitBody
    <3>1. queue' \in Seq(Slots)
      BY <2>2, AppendQueue DEF WaitBody, tqueue_add, me
    <3>2. op' \in [Slots -> Ops]
      BY <2>2 DEF WaitBody, Ops
    <3>3. status' \in [Slots -> {"RUNNABLE", "BLOCKED"}]
      BY <2>2 DEF WaitBody, tqueue_add
    <3> QED
      BY <2>1, <2>5, <3>1, <3>2, <3>3
  <2>3. CASE tqueue_wakeup
    <3>1. queue # <<>> => Tail(queue) \in Seq(Slots)
      BY TailQueue
    <3>2. queue' = queue \/ (queue # <<>> /\ queue' = Tail(queue))
      BY <2>3, Zenon DEF tqueue_wakeup
    <3>3. queue' \in Seq(Slots)
      BY SMTT(30), <3>1, <3>2
    <3>4. op' = op /\ status' \in [Slots -> {"RUNNABLE", "BLOCKED"}]
      BY <2>3 DEF tqueue_wakeup, Woken
    <3> QED
      BY <2>1, <2>5, <3>3, <3>4
  <2>4. CASE tqueue_wakeup_all
    BY <1>5, <2>1, <2>4 DEF Body, tqueue_wakeup_all, Woken
  <2> QED
    BY <1>5, <2>2, <2>3, <2>4 DEF Body
<1>6. CASE ReleaseLock
  <2>1. pc' \in [Slots -> Labels] /\ lock' = FALSE
    BY Zenon, <1>6 DEF ReleaseLock, Goto, Labels
  <2> QED
    BY Zenon, <1>6, <2>1 DEF ReleaseLock, taskVars
<1>7. CASE task_reshed_enable
  <2>1. pc' \in [Slots -> Labels]
    BY Zenon, <1>7 DEF task_reshed_enable, Goto, Labels
  <2>2. reshed_block' \in Int
    BY <1>7 DEF task_reshed_enable
  <2> QED
    BY <1>7, <2>1, <2>2 DEF task_reshed_enable, shedVars
<1>8. CASE CheckRequest
  BY Zenon, <1>8 DEF CheckRequest, Goto, taskVars, Labels
<1>9. CASE task_tyield
  <2>1. pc' \in [Slots -> Labels]
    BY <1>9 DEF task_tyield, Goto, Labels
  <2>2. CASE reshed_block > 0
    BY <1>9, <2>1, <2>2 DEF task_tyield, shedVars
  <2>3. CASE ~(reshed_block > 0)
    BY <1>9, <2>1, <2>3, ChooseStep DEF task_tyield
  <2> QED
    BY <2>2, <2>3
<1>10. CASE AfterRelease
  <2>1. pc' \in [Slots -> Labels]
    BY Zenon, <1>10 DEF AfterRelease, Goto, Labels
  <2> QED
    BY <1>10, <2>1 DEF AfterRelease, taskVars
<1>11. CASE AbortCheck
  BY <1>11 DEF AbortCheck, Goto, taskVars, Labels, Ops
<1>12. ASSUME NEW w \in Waiters, _task_prepare_tkill(w)
       PROVE  EventTypeOK'
  BY <1>12 DEF _task_prepare_tkill
<1>13. CASE UNCHANGED vars
  BY <1>13 DEF vars, taskVars, eventVars
<1> QED
  BY <1>1, <1>2, <1>3, <1>4, <1>5, <1>6, <1>7, <1>8, <1>9, <1>10, <1>11,
     <1>12, <1>13 DEF Next, LockStep

(* A waiter that was aborted late leaves event_wait for good. *)
LEMMA OpsStep ==
  ASSUME EventTypeOK, OpsFit, [Next]_vars
  PROVE  OpsFit' /\ (LateAbort => LateAbort')
<1> USE SlotFacts, RolesAssumption DEF EventTypeOK, OpsFit, LateAbort, Leaving
<1>1. CASE task_reshed_irq
  BY <1>1 DEF task_reshed_irq, eventVars
<1>2. ASSUME NEW o \in Triggers \cup {"wait"}, Call(o)
      PROVE  OpsFit' /\ (LateAbort => LateAbort')
  BY <1>2 DEF Call, At, me, Goto, Triggers
<1>3. CASE DisableReshed
  BY <1>3 DEF DisableReshed, At, me, Goto
<1>4. CASE TakeLock
  BY <1>4 DEF TakeLock, At, me, Goto
<1>5. CASE Body
  BY <1>5 DEF Body, WaitBody, tqueue_wakeup, tqueue_wakeup_all, At, me, Goto
<1>6. CASE ReleaseLock
  BY <1>6 DEF ReleaseLock, At, me, Goto
<1>7. CASE task_reshed_enable
  BY <1>7 DEF task_reshed_enable, At, me, Goto
<1>8. CASE CheckRequest
  BY <1>8 DEF CheckRequest, At, me, Goto
<1>9. CASE task_tyield
  BY <1>9 DEF task_tyield, At, me, Goto
<1>10. CASE AfterRelease
  BY <1>10 DEF AfterRelease, At, me, Goto
<1>11. CASE AbortCheck
  BY <1>11 DEF AbortCheck, At, me, Goto
<1>12. ASSUME NEW w \in Waiters, _task_prepare_tkill(w)
       PROVE  OpsFit' /\ (LateAbort => LateAbort')
  BY <1>12 DEF _task_prepare_tkill
<1>13. CASE UNCHANGED vars
  BY <1>13 DEF vars, eventVars
<1> QED
  BY <1>1, <1>2, <1>3, <1>4, <1>5, <1>6, <1>7, <1>8, <1>9, <1>10, <1>11,
     <1>12, <1>13 DEF Next, LockStep

(* A thread is blocked by tqueue_add, which gives it an entry, and an entry
   leaves the queue with its thread woken. *)
LEMMA BlockedStep ==
  ASSUME EventTypeOK, BlockedHasEntry, [Next]_vars
  PROVE  BlockedHasEntry'
<1> USE SlotFacts, RolesAssumption DEF EventTypeOK, BlockedHasEntry
<1>1. CASE UNCHANGED <<status, queue>>
  BY <1>1
<1>2. CASE task_reshed_irq
  BY <1>1, <1>2, ChooseStep DEF task_reshed_irq, eventVars
<1>3. CASE task_tyield
  BY <1>1, <1>3, ChooseStep DEF task_tyield, shedVars
<1>4. CASE Body
  <2>1. CASE WaitBody
    <3>1. CASE task_tshould_exit(me)
      BY <1>1, <2>1, <3>1 DEF WaitBody
    <3>2. CASE ~task_tshould_exit(me)
      <4>1. /\ queue' = Append(queue, current_tid)
            /\ status' = [status EXCEPT ![current_tid] = "BLOCKED"]
        BY <2>1, <3>2 DEF WaitBody, tqueue_add, me
      <4>2. Range(queue') = Range(queue) \cup {current_tid}
        BY <4>1, AppendQueue
      <4> QED
        BY <4>1, <4>2
    <3> QED
      BY <3>1, <3>2
  <2>2. CASE tqueue_wakeup
    <3>1. CASE queue = <<>>
      BY <1>1, <2>2, <3>1 DEF tqueue_wakeup
    <3>2. CASE queue # <<>>
      <4>1. /\ Range(queue) = Range(queue') \cup {Head(queue)}
            /\ status' = Woken({Head(queue)})
        BY Zenon, <2>2, <3>2, TailQueue DEF tqueue_wakeup
      <4> QED
        BY <4>1 DEF Woken
    <3> QED
      BY <3>1, <3>2
  <2>3. CASE tqueue_wakeup_all
    BY <2>3 DEF tqueue_wakeup_all, Woken
  <2> QED
    BY <1>4, <2>1, <2>2, <2>3 DEF Body
<1>5. ASSUME NEW w \in Waiters, _task_prepare_tkill(w)
      PROVE  BlockedHasEntry'
  BY <1>5 DEF _task_prepare_tkill
<1>6. ASSUME NEW o \in Triggers \cup {"wait"}, Call(o)
      PROVE  BlockedHasEntry'
  BY <1>1, <1>6 DEF Call, taskVars
<1>7. CASE DisableReshed \/ TakeLock \/ ReleaseLock \/ task_reshed_enable
  BY <1>1, <1>7 DEF DisableReshed, TakeLock, ReleaseLock, task_reshed_enable,
                    taskVars, shedVars
<1>8. CASE CheckRequest \/ AfterRelease \/ AbortCheck \/ UNCHANGED vars
  BY <1>1, <1>8 DEF CheckRequest, AfterRelease, AbortCheck, vars, taskVars, eventVars
<1> QED
  BY <1>2, <1>3, <1>4, <1>5, <1>6, <1>7, <1>8 DEF Next, LockStep

(* The lock is held by the running thread, until a waiter is aborted late. *)
LEMMA LockStepKept ==
  ASSUME EventTypeOK, OpsFit, LockHeld, [Next]_vars, EventTypeOK', ~LateAbort'
  PROVE  LockHeld'
<1> USE SlotFacts, RolesAssumption DEF Inside
<1>1. /\ ~panic /\ current_tid \in Slots /\ pc \in [Slots -> Labels]
      /\ \A t \in Slots : pc[t] \in Inside => t = current_tid
      /\ reshed_block = IF pc[current_tid] \in Inside THEN 1 ELSE 0
      /\ lock <=> pc[current_tid] \in {"body", "release"}
  BY DEF EventTypeOK, LockHeld
<1> HIDE DEF Inside
<1>2. ASSUME task_shed_choose, UNCHANGED <<reshed_block, lock, panic>>,
             pc' = pc \/ \E l \in {"after", "woken"} : pc' = [pc EXCEPT ![current_tid] = l],
             pc' # pc => pc[current_tid] \in {"yield", "yield_wait"}
      PROVE  LockHeld'
  <2>1. CASE reshed_block > 0
    <3>1. current_tid' = current_tid /\ pc[current_tid] \in Inside /\ pc' = pc
      BY <1>1, <1>2, <2>1, ChooseStep DEF Inside
    <3> QED
      BY <1>1, <1>2, <3>1 DEF LockHeld
  <2>2. CASE ~(reshed_block > 0)
    <3>1. pc[current_tid] \notin Inside /\ reshed_block = 0
      BY <1>1, <2>2
    <3>2. \A t \in Slots : pc[t] \notin Inside
      BY <1>1, <3>1
    <3>3. \A t \in Slots : pc'[t] \notin Inside
      BY <1>1, <1>2, <3>2 DEF Inside
    <3>4. current_tid' \in Slots
      BY <1>2, ChooseStep
    <3>5. ~lock
      BY <1>1, <3>1 DEF Inside
    <3> QED
      BY <1>1, <1>2, <3>1, <3>3, <3>4, <3>5 DEF LockHeld, Inside
  <2> QED
    BY <2>1, <2>2
<1>3. CASE task_reshed_irq
  BY <1>2, <1>3 DEF task_reshed_irq, eventVars
<1>4. CASE task_tyield
  <2>1. pc[current_tid] \in {"yield", "yield_wait"}
    BY <1>4 DEF task_tyield, At, me
  <2>2. ~(reshed_block > 0)
    BY <1>1, <2>1 DEF Inside
  <2>3. \E l \in {"after", "woken"} : pc' = [pc EXCEPT ![current_tid] = l]
    BY <1>4, <2>2 DEF task_tyield, Goto, me
  <2> QED
    BY Zenon, <1>2, <1>4, <2>1, <2>2, <2>3 DEF task_tyield
(* The other steps are the running thread's own. *)
<1>5. ASSUME NEW l, pc[current_tid] \notin Inside, l \notin Inside,
             pc' = [pc EXCEPT ![current_tid] = l],
             UNCHANGED <<current_tid, reshed_block, lock, panic>>
      PROVE  LockHeld'
  BY <1>1, <1>5 DEF LockHeld, Inside
<1>6. ASSUME NEW o \in Triggers \cup {"wait"}, Call(o)
      PROVE  LockHeld'
  BY Zenon, <1>5, <1>6 DEF Call, At, me, Goto, taskVars, Inside
<1>7. CASE DisableReshed
  <2>1. pc[current_tid] = "acquire" /\ pc' = [pc EXCEPT ![current_tid] = "spin"]
    BY <1>7 DEF DisableReshed, At, me, Goto
  <2>2. reshed_block' = 1
    BY <1>1, <1>7, <2>1 DEF DisableReshed, Inside
  <2>3. UNCHANGED <<current_tid, lock, panic>>
    BY <1>7 DEF DisableReshed, shedVars
  <2> QED
    BY <1>1, <2>1, <2>2, <2>3 DEF LockHeld, Inside
<1>8. CASE TakeLock
  <2>1. pc[current_tid] = "spin" /\ ~lock
    BY <1>1, <1>8 DEF TakeLock, At, me
  <2>2. /\ pc' = [pc EXCEPT ![current_tid] = "body"] /\ lock'
        /\ UNCHANGED <<current_tid, reshed_block, panic>>
    BY <1>8, <2>1 DEF TakeLock, Goto, me, taskVars
  <2> QED
    BY <1>1, <2>1, <2>2 DEF LockHeld, Inside
<1>9. CASE Body
  <2>1. /\ pc[current_tid] = "body" /\ pc' = [pc EXCEPT ![current_tid] = "release"]
        /\ UNCHANGED <<current_tid, reshed_block, lock, panic>>
    BY <1>9 DEF Body, At, me, Goto
  <2> QED
    BY <1>1, <2>1 DEF LockHeld, Inside
<1>10. CASE ReleaseLock
  <2>1. /\ pc[current_tid] = "release" /\ pc' = [pc EXCEPT ![current_tid] = "enable"]
        /\ ~lock'
        /\ UNCHANGED <<current_tid, reshed_block, panic>>
    BY <1>10 DEF ReleaseLock, At, me, Goto, taskVars
  <2> QED
    BY <1>1, <2>1 DEF LockHeld, Inside
<1>11. CASE task_reshed_enable
  <2>1. pc[current_tid] = "enable" /\ reshed_block = 1
    BY <1>1, <1>11 DEF task_reshed_enable, At, me, Inside
  <2>2. /\ pc' = [pc EXCEPT ![current_tid] = "check"] /\ reshed_block' = 0
        /\ UNCHANGED <<current_tid, lock, panic>>
    BY <1>11, <2>1 DEF task_reshed_enable, Goto, me, shedVars
  <2> QED
    BY <1>1, <2>1, <2>2 DEF LockHeld, Inside
<1>12. CASE CheckRequest
  BY Zenon, <1>5, <1>12 DEF CheckRequest, At, me, Goto, taskVars, Inside
<1>13. CASE AfterRelease
  <2>1. \E l \in {"yield_wait", "woken", "gone", "run"} :
          pc' = [pc EXCEPT ![current_tid] = l]
    BY Zenon, <1>13 DEF AfterRelease, Goto, me
  <2>2. pc[current_tid] = "after" /\ UNCHANGED <<current_tid, reshed_block, lock, panic>>
    BY <1>13 DEF AfterRelease, At, me, taskVars
  <2> QED
    BY Zenon, <1>5, <2>1, <2>2 DEF Inside
<1>14. CASE AbortCheck
  <2>1. pc[current_tid] = "woken" /\ current_tid \in Tids
    BY <1>14, SlotFacts DEF AbortCheck, At, me, EventTypeOK
  <2>2. ~task_tshould_exit(me)
    BY <1>14, <2>1 DEF AbortCheck, LateAbort, EventTypeOK, me
  <2>3. /\ pc' = [pc EXCEPT ![current_tid] = "run"]
        /\ UNCHANGED <<current_tid, reshed_block, lock, panic>>
    BY <1>14, <2>2 DEF AbortCheck, Goto, me, taskVars
  <2> QED
    BY Zenon, <1>5, <2>1, <2>3 DEF Inside
<1>15. ASSUME NEW w \in Waiters, _task_prepare_tkill(w)
       PROVE  LockHeld'
  BY <1>1, <1>15 DEF _task_prepare_tkill, LockHeld
<1>16. CASE UNCHANGED vars
  BY <1>1, <1>16 DEF vars, taskVars, eventVars, LockHeld
<1> QED
  BY <1>3, <1>4, <1>6, <1>7, <1>8, <1>9, <1>10, <1>11, <1>12, <1>13, <1>14,
     <1>15, <1>16 DEF Next, LockStep

(* The entries of the queue stay sound, until a waiter is aborted late: a
   thread adds its entry once, and leaves event_wait without it. *)
LEMMA QueueStep ==
  ASSUME EventTypeOK, OpsFit, LockHeld, QueueSound, [Next]_vars,
         EventTypeOK', ~LateAbort'
  PROVE  QueueSound'
<1> USE SlotFacts, RolesAssumption
<1>1. /\ IsInjective(queue) /\ \A t \in Range(queue) : t \in Slots /\ Queued(t)
      /\ current_tid \in Slots
  BY DEF EventTypeOK, QueueSound, Range
<1>2. ASSUME task_shed_choose, UNCHANGED <<queue, op, abort>>,
             \/ pc' = pc
             \/ /\ pc[current_tid] = "yield" /\ pc' = [pc EXCEPT ![current_tid] = "after"]
             \/ /\ pc[current_tid] = "yield_wait" /\ ~(reshed_block > 0)
                /\ pc' = [pc EXCEPT ![current_tid] = "woken"]
      PROVE  QueueSound'
  <2> SUFFICES ASSUME NEW t \in Range(queue) PROVE Queued(t)'
    BY <1>1, <1>2 DEF QueueSound
  <2>1. t \in Slots /\ Queued(t)
    BY <1>1
  <2>2. status' = status
    BY <1>2, ChooseStep
  <2>3. pc'[t] \in Leaving \cup {"yield_wait", "woken"}
    BY <1>2, <2>1 DEF Queued, Leaving, EventTypeOK
  <2>4. ASSUME pc'[t] = "woken", t = current_tid' PROVE abort[t]
    <3>1. CASE reshed_block > 0
      BY <1>2, <2>1, <2>4, <3>1, ChooseStep DEF Queued, EventTypeOK
    <3>2. CASE ~(reshed_block > 0)
      <4>1. status[t] = "RUNNABLE" \/ t = Idle
        BY <1>2, <2>4, <3>2, ChooseStep
      <4>2. t # Idle
        BY <2>1 DEF Queued, OpsFit, Leaving
      <4> QED
        BY <2>1, <4>1, <4>2 DEF Queued
    <3> QED
      BY <3>1, <3>2
  <2> QED
    BY <1>2, <2>1, <2>2, <2>3, <2>4 DEF Queued
<1>3. CASE task_reshed_irq
  BY <1>2, <1>3 DEF task_reshed_irq, eventVars
<1>4. CASE task_tyield
  <2>1. pc[current_tid] \in {"yield", "yield_wait"} /\ UNCHANGED <<queue, op, abort>>
    BY <1>4 DEF task_tyield, At, me
  <2>2. ~(reshed_block > 0)
    BY <2>1 DEF LockHeld, Inside
  <2>3. task_shed_choose /\ pc' = [pc EXCEPT ![current_tid] =
                                     IF pc[current_tid] = "yield" THEN "after" ELSE "woken"]
    BY <1>4, <2>2 DEF task_tyield, Goto, me
  <2> QED
    BY Zenon, <1>2, <2>1, <2>2, <2>3
(* A step of a thread that has no entry, or keeps its place. *)
<1>5. ASSUME current_tid \notin Range(queue),
             \A t \in Slots : t # current_tid => pc'[t] = pc[t] /\ op'[t] = op[t],
             UNCHANGED <<status, queue, abort, current_tid>>
      PROVE  QueueSound'
  BY <1>1, <1>5 DEF QueueSound, Queued
<1>6. ASSUME NEW l \in Leaving \cup {"yield_wait"}, pc' = [pc EXCEPT ![current_tid] = l],
             UNCHANGED <<status, queue, abort, current_tid, op>>
      PROVE  QueueSound'
  BY <1>1, <1>6 DEF QueueSound, Queued, Leaving, EventTypeOK
<1>7. ASSUME NEW o \in Triggers \cup {"wait"}, Call(o)
      PROVE  QueueSound'
  <2>1. current_tid \notin Range(queue)
    BY <1>1, <1>7 DEF Call, At, me, Queued, Leaving
  <2> QED
    BY <1>5, <1>7, <2>1 DEF Call, Goto, me, taskVars, EventTypeOK
<1>8. CASE DisableReshed \/ TakeLock
  <2>1. current_tid \notin Range(queue)
    BY <1>1, <1>8 DEF DisableReshed, TakeLock, At, me, Queued, Leaving
  <2> QED
    BY <1>5, <1>8, <2>1 DEF DisableReshed, TakeLock, Goto, me, taskVars, shedVars, EventTypeOK
<1>9. CASE Body
  <2>1. /\ current_tid \notin Range(queue)
        /\ pc' = [pc EXCEPT ![current_tid] = "release"]
        /\ UNCHANGED <<abort, current_tid>>
    BY SMTT(30), <1>1, <1>9 DEF Body, At, me, Goto, Queued, Leaving
  <2>2. \A t \in Slots : t # current_tid => pc'[t] = pc[t]
    BY <2>1 DEF EventTypeOK
  <2>3. CASE WaitBody
    <3>1. CASE task_tshould_exit(me)
      BY <1>5, <2>1, <2>2, <2>3, <3>1 DEF WaitBody, me, EventTypeOK
    <3>2. CASE ~task_tshould_exit(me)
      <4>1. /\ queue' = Append(queue, current_tid) /\ op' = op
            /\ status' = [status EXCEPT ![current_tid] = "BLOCKED"]
            /\ op[current_tid] = "wait"
        BY <2>3, <3>2 DEF WaitBody, tqueue_add, me
      <4>2. Range(queue') = Range(queue) \cup {current_tid} /\ IsInjective(queue')
        BY <1>1, <2>1, <4>1, AppendQueue DEF EventTypeOK
      <4>3. ASSUME NEW t \in Range(queue) PROVE Queued(t)'
        BY <1>1, <2>1, <2>2, <4>1 DEF Queued, EventTypeOK
      <4>4. Queued(current_tid)'
        BY <2>1, <4>1 DEF Queued, EventTypeOK, Leaving
      <4> QED
        BY <2>1, <4>2, <4>3, <4>4 DEF QueueSound
    <3> QED
      BY SMTT(30), <3>1, <3>2
  <2>4. CASE tqueue_wakeup
    <3>1. CASE queue = <<>>
      BY <1>5, <2>1, <2>2, <2>4, <3>1 DEF tqueue_wakeup
    <3>2. CASE queue # <<>>
      <4>1. queue' = Tail(queue) /\ status' = Woken({Head(queue)}) /\ op' = op
        BY <2>4, <3>2 DEF tqueue_wakeup
      <4>2. /\ Range(queue) = Range(queue') \cup {Head(queue)}
            /\ IsInjective(queue') /\ Head(queue) \notin Range(queue')
        BY <1>1, <3>2, <4>1, TailQueue DEF EventTypeOK
      <4>3. ASSUME NEW t \in Range(queue') PROVE Queued(t)'
        <5>1. t \in Slots /\ t # current_tid /\ t # Head(queue) /\ Queued(t)
          BY <1>1, <2>1, <4>2
        <5>2. status'[t] = status[t] /\ pc'[t] = pc[t]
          BY <2>2, <4>1, <5>1 DEF Woken
        <5> QED
          BY <2>1, <4>1, <5>1, <5>2 DEF Queued
      <4> QED
        BY <4>2, <4>3 DEF QueueSound
    <3> QED
      BY <3>1, <3>2
  <2>5. CASE tqueue_wakeup_all
    <3>1. queue' = <<>>
      BY <2>5 DEF tqueue_wakeup_all
    <3>2. IsInjective(<<>>) /\ Range(<<>>) = {}
      BY DEF IsInjective, Range
    <3> QED
      BY <3>1, <3>2, Zenon DEF QueueSound
  <2> QED
    BY <1>9, <2>3, <2>4, <2>5 DEF Body
<1>10. CASE ReleaseLock
  BY <1>6, <1>10 DEF ReleaseLock, Goto, me, taskVars, Leaving
<1>11. CASE task_reshed_enable
  BY Zenon, <1>6, <1>11 DEF task_reshed_enable, Goto, me, shedVars, Leaving
<1>12. CASE CheckRequest
  BY Zenon, <1>6, <1>12 DEF CheckRequest, Goto, me, taskVars, Leaving
<1>13. CASE AfterRelease
  <2>1. pc[current_tid] = "after" /\ UNCHANGED <<status, queue, abort, current_tid, op>>
    BY <1>13 DEF AfterRelease, At, me, taskVars
  <2>2. reshed_block = 0
    BY <2>1 DEF LockHeld, Inside
  <2>3. CASE op[current_tid] = "wait"
    BY Zenon, <1>6, <1>13, <2>1, <2>2, <2>3 DEF AfterRelease, Goto, me
  <2>4. CASE op[current_tid] # "wait"
    <3>1. current_tid \notin Range(queue)
      BY <1>1, <2>4 DEF Queued
    <3> QED
      BY <1>5, <1>13, <2>1, <3>1 DEF AfterRelease, Goto, me, EventTypeOK
  <2> QED
    BY <2>3, <2>4
<1>14. CASE AbortCheck
  <2>1. pc[current_tid] = "woken" /\ current_tid \in Tids
    BY <1>1, <1>14 DEF AbortCheck, At, me
  <2>2. ~abort[current_tid]
    BY <1>14, <2>1 DEF AbortCheck, LateAbort, EventTypeOK, me, task_tshould_exit
  <2>3. current_tid \notin Range(queue)
    BY SMTT(30), <1>1, <2>1, <2>2 DEF Queued
  <2>4. /\ pc' = [pc EXCEPT ![current_tid] = "run"]
        /\ UNCHANGED <<status, queue, abort, current_tid, op>>
    BY SMTT(30), <1>14, <2>2 DEF AbortCheck, task_tshould_exit, Goto, me, taskVars
  <2> QED
    BY <1>5, <2>3, <2>4 DEF EventTypeOK
<1>15. ASSUME NEW w \in Waiters, _task_prepare_tkill(w)
       PROVE  QueueSound'
  <2> SUFFICES ASSUME NEW t \in Range(queue) PROVE Queued(t)'
    BY <1>1, <1>15 DEF QueueSound, _task_prepare_tkill
  <2>1. t \in Slots /\ Queued(t)
    BY SMTT(30), <1>1
  <2> QED
    BY <1>15, <2>1 DEF _task_prepare_tkill, Queued, EventTypeOK
<1>16. CASE UNCHANGED vars
  BY Zenon, <1>16 DEF vars, taskVars, eventVars, QueueSound, Queued
<1> QED
  BY SMTT(30), <1>3, <1>4, <1>7, <1>8, <1>9, <1>10, <1>11, <1>12, <1>13, <1>14, <1>15,
     <1>16 DEF Next, LockStep

LEMMA CountFacts ==
  /\ IsFiniteSet(Holding \ Late) /\ IsFiniteSet(Late \ Holding)
  /\ Cardinality(Holding \ Late) \in Nat /\ Cardinality(Late \ Holding) \in Nat
<1>1. IsFiniteSet(Tids)
  BY FS_Interval, MaxTidAssumption DEF Tids
<1>2. Holding \ Late \in SUBSET Tids /\ Late \ Holding \in SUBSET Tids
  BY DEF Holding, Late
<1>3. IsFiniteSet(Holding \ Late) /\ IsFiniteSet(Late \ Holding)
  BY <1>1, <1>2, FS_Subset, Zenon
<1> QED
  BY <1>3, FS_CardinalityType

(* A thread raises the count when it comes in and takes one off when it goes
   out; who releases the lock a second time takes one off more. *)
LEMMA CountStep ==
  ASSUME EventTypeOK, OpsFit, CountExact, [Next]_vars
  PROVE  CountExact'
<1> USE SlotFacts, RolesAssumption
<1>1. ASSUME UNCHANGED reshed_block,
             (Holding \ Late)' = Holding \ Late, (Late \ Holding)' = Late \ Holding
      PROVE  CountExact'
  BY SMTT(30), <1>1 DEF CountExact
<1>2. ASSUME UNCHANGED <<reshed_block, op>>,
             \A t \in Tids : pc'[t] \in Inside <=> pc[t] \in Inside
      PROVE  CountExact'
  <2>1. Holding' = Holding /\ Late' = Late
    BY <1>2 DEF Holding, Late
  <2> QED
    BY <1>1, <1>2, <2>1
<1>3. CASE task_reshed_irq
  BY <1>2, <1>3 DEF task_reshed_irq, eventVars
<1>4. CASE task_tyield
  <2>1. UNCHANGED <<reshed_block, op>>
    BY <1>4 DEF task_tyield
  <2>2. \A t \in Tids : pc'[t] \in Inside <=> pc[t] \in Inside
    BY <1>4 DEF task_tyield, At, me, Goto, Inside, EventTypeOK
  <2> QED
    BY <1>2, <2>1, <2>2
<1>5. ASSUME NEW o \in Triggers \cup {"wait"}, Call(o)
      PROVE  CountExact'
  <2>1. pc[current_tid] = "run" /\ op[current_tid] # "aborted_late"
    BY <1>5 DEF Call, At, me, OpsFit, Leaving, EventTypeOK
  <2>2. o # "aborted_late"
    BY DEF Triggers
  <2>3. Holding' = Holding /\ Late' = Late
    BY <1>5, <2>1, <2>2 DEF Call, Goto, me, Holding, Late, Inside, EventTypeOK
  <2> QED
    BY <1>1, <1>5, <2>3 DEF Call, taskVars
<1>6. CASE DisableReshed
  <2>1. /\ current_tid \in Tids /\ pc[current_tid] = "acquire"
        /\ pc' = [pc EXCEPT ![current_tid] = "spin"]
        /\ reshed_block' = reshed_block + 1 /\ op' = op
    BY <1>6 DEF DisableReshed, At, me, Goto, EventTypeOK
  <2>2. op[current_tid] # "aborted_late"
    BY <2>1 DEF OpsFit, Leaving
  <2>3. current_tid \notin Holding \ Late /\ current_tid \notin Late
    BY <2>1, <2>2 DEF Holding, Late, Inside
  <2>4. Holding' = Holding \cup {current_tid} /\ Late' = Late
    BY <2>1 DEF Holding, Late, Inside, EventTypeOK
  <2>5. (Holding \ Late)' = (Holding \ Late) \cup {current_tid} /\ (Late \ Holding)' = Late \ Holding
    BY <2>3, <2>4
  <2>6. Cardinality((Holding \ Late)') = Cardinality(Holding \ Late) + 1
    BY <2>3, <2>5, CountFacts, FS_AddElement, Zenon
  <2>7. Cardinality((Late \ Holding)') = Cardinality(Late \ Holding)
    BY <2>5, Zenon
  <2>8. CountExact' <=> reshed_block' = Cardinality((Holding \ Late)') - Cardinality((Late \ Holding)')
    BY Zenon DEF CountExact
  <2> QED
    BY <2>1, <2>6, <2>7, <2>8, CountFacts DEF CountExact
<1>7. CASE TakeLock
  <2>1. UNCHANGED <<reshed_block, op>>
    BY <1>7 DEF TakeLock, taskVars
  <2>2. \A t \in Tids : pc'[t] \in Inside <=> pc[t] \in Inside
    BY <1>7 DEF TakeLock, At, me, Goto, Inside, EventTypeOK
  <2> QED
    BY <1>2, <2>1, <2>2
<1>8. CASE Body
  <2>1. /\ pc[current_tid] = "body" /\ pc' = [pc EXCEPT ![current_tid] = "release"]
        /\ reshed_block' = reshed_block /\ current_tid \in Slots
    BY <1>8 DEF Body, At, me, Goto, EventTypeOK
  <2>2. Holding' = Holding
    BY <2>1 DEF Holding, Inside, EventTypeOK
  <2>3. op[current_tid] # "aborted_late"
    BY <2>1 DEF OpsFit, Leaving
  <2>4. Late' = Late
    BY <1>8, <2>3 DEF Body, WaitBody, tqueue_wakeup, tqueue_wakeup_all, me, Late, EventTypeOK
  <2> QED
    BY <1>1, <2>1, <2>2, <2>4
<1>9. CASE ReleaseLock
  <2>1. UNCHANGED <<reshed_block, op>>
    BY <1>9 DEF ReleaseLock, taskVars
  <2>2. \A t \in Tids : pc'[t] \in Inside <=> pc[t] \in Inside
    BY <1>9 DEF ReleaseLock, At, me, Goto, Inside, EventTypeOK
  <2> QED
    BY <1>2, <2>1, <2>2
<1>10. CASE task_reshed_enable
  <2>1. /\ current_tid \in Tids /\ pc[current_tid] = "enable"
        /\ \E l \in {"check", "after"} : pc' = [pc EXCEPT ![current_tid] = l]
        /\ reshed_block' = reshed_block - 1 /\ op' = op
    BY Zenon, <1>10 DEF task_reshed_enable, At, me, Goto, EventTypeOK
  <2>2. Holding' = Holding \ {current_tid} /\ Late' = Late /\ current_tid \in Holding
    BY <2>1 DEF Holding, Late, Inside, EventTypeOK
  <2>3. CountExact' <=> reshed_block' = Cardinality((Holding \ Late)') - Cardinality((Late \ Holding)')
    BY Zenon DEF CountExact
  <2>4. CASE current_tid \in Late
    <3>1. /\ (Holding \ Late)' = Holding \ Late
          /\ (Late \ Holding)' = (Late \ Holding) \cup {current_tid}
          /\ current_tid \notin Late \ Holding
      BY <2>2, <2>4
    <3>2. Cardinality((Late \ Holding)') = Cardinality(Late \ Holding) + 1
      BY <3>1, CountFacts, FS_AddElement, Zenon
    <3>3. Cardinality((Holding \ Late)') = Cardinality(Holding \ Late)
      BY <3>1, Zenon
    <3> QED
      BY <2>1, <2>3, <3>2, <3>3, CountFacts DEF CountExact
  <2>5. CASE current_tid \notin Late
    <3>1. /\ (Holding \ Late)' = (Holding \ Late) \ {current_tid}
          /\ (Late \ Holding)' = Late \ Holding
          /\ current_tid \in Holding \ Late
      BY <2>2, <2>5
    <3>4. current_tid \in Holding \ Late
      BY <3>1
    <3>5. Cardinality((Holding \ Late) \ {current_tid}) = Cardinality(Holding \ Late) - 1
      BY <3>4, CountFacts, FS_RemoveElement, Zenon
    <3>2. Cardinality((Holding \ Late)') = Cardinality(Holding \ Late) - 1
      BY <3>1, <3>5, Zenon
    <3>3. Cardinality((Late \ Holding)') = Cardinality(Late \ Holding)
      BY <3>1, Zenon
    <3> QED
      BY <2>1, <2>3, <3>2, <3>3, CountFacts DEF CountExact
  <2> QED
    BY <2>4, <2>5
<1>11. CASE CheckRequest \/ AfterRelease
  <2>1. UNCHANGED <<reshed_block, op>>
    BY <1>11 DEF CheckRequest, AfterRelease, taskVars
  <2>2. \A t \in Tids : pc'[t] \in Inside <=> pc[t] \in Inside
    BY <1>11 DEF CheckRequest, AfterRelease, At, me, Goto, Inside, EventTypeOK
  <2> QED
    BY <1>2, <2>1, <2>2
<1>12. CASE AbortCheck
  <2>1. /\ current_tid \in Tids /\ pc[current_tid] = "woken" /\ op[current_tid] = "wait"
        /\ reshed_block' = reshed_block
    BY <1>12 DEF AbortCheck, At, me, OpsFit, EventTypeOK, taskVars
  <2>2. current_tid \notin Holding /\ current_tid \notin Late
    BY SMTT(30), <2>1 DEF Holding, Late, Inside
  <2>3. \/ Holding' = Holding /\ Late' = Late
        \/ Holding' = Holding \cup {current_tid} /\ Late' = Late \cup {current_tid}
    BY SMTT(30), <1>12, <2>1 DEF AbortCheck, Goto, me, Holding, Late, Inside, EventTypeOK
  <2>4. (Holding \ Late)' = Holding \ Late /\ (Late \ Holding)' = Late \ Holding
    BY <2>2, <2>3
  <2> QED
    BY <1>1, <2>1, <2>4
<1>13. ASSUME NEW w \in Waiters, _task_prepare_tkill(w)
       PROVE  CountExact'
  BY SMTT(30), <1>2, <1>13 DEF _task_prepare_tkill
<1>14. CASE UNCHANGED vars
  BY <1>2, <1>14 DEF vars, taskVars, eventVars
<1> QED
  BY SMTT(30), <1>3, <1>4, <1>5, <1>6, <1>7, <1>8, <1>9, <1>10, <1>11, <1>12, <1>13,
     <1>14 DEF Next, LockStep

LEMMA NextIInv == IInv /\ [Next]_vars => IInv'
<1> SUFFICES ASSUME IInv, [Next]_vars PROVE IInv'
  OBVIOUS
<1>1. EventTypeOK' /\ OpsFit' /\ CountExact' /\ BlockedHasEntry'
  BY TypeStep, OpsStep, CountStep, BlockedStep DEF IInv
<1>2. LateAbort => LateAbort'
  BY OpsStep DEF IInv
<1>3. ASSUME ~LateAbort' PROVE LockHeld' /\ QueueSound'
  BY <1>1, <1>2, <1>3, LockStepKept, QueueStep DEF IInv
<1> QED
  BY <1>1, <1>3 DEF IInv

(* Any number of threads use an event under any scheduling.  Until a waiter is
   aborted late, nobody runs into the kpanic of spinlock_acquire or task_tyield
   and a thread between acquire and release keeps the CPU; and reshed_block is
   always the threads inside less the late aborts. *)
THEOREM EventLock == Spec => []LockKeepsCPU
<1>1. IInv => LockKeepsCPU
  <2> SUFFICES ASSUME IInv PROVE LockKeepsCPU
    OBVIOUS
  <2>1. reshed_block = Cardinality(Holding \ Late) - Cardinality(Late \ Holding)
    BY DEF IInv, CountExact
  <2>2. LateAbort \/ (NoPanic /\ Holding \subseteq {current_tid})
    BY SMTT(30), SlotFacts DEF IInv, LockHeld, NoPanic, Holding
  <2> QED
    BY <2>1, <2>2, Zenon DEF LockKeepsCPU, Holding, Late
<1> QED
  BY <1>1, InitIInv, NextIInv, PTL DEF Spec

(* No wakeup is lost, for any number of threads and any queue: a thread that is
   blocked has an entry in the event's queue, and one only until a waiter is
   aborted late. *)
THEOREM EventQueue == Spec => []BlockedIsQueued
<1>1. IInv => BlockedIsQueued
  <2> SUFFICES ASSUME IInv PROVE BlockedIsQueued
    OBVIOUS
  <2>1. Waiters \subseteq Slots
    BY SlotFacts, RolesAssumption
  <2> QED
    BY <2>1 DEF IInv, BlockedHasEntry, QueueSound, BlockedIsQueued
<1> QED
  BY <1>1, InitIInv, NextIInv, PTL DEF Spec
=============================================================================
