-------------------------------- MODULE Task --------------------------------
(***************************************************************************)
(* The threads and the scheduler of proc/task.c on the one CPU the kernel  *)
(* runs on (CURRENT_CPU is 0).  The modules that model thread programs     *)
(* extend this one: they share its variables and call task_shed_choose.    *)
(*                                                                         *)
(* Sections under sheduler_lock are single steps.  The lock raises         *)
(* reshed_block, and even when that count is wrong task_shed_choose gives  *)
(* up on a taken sheduler_lock without switching threads.                  *)
(***************************************************************************)
EXTENDS Integers

CONSTANT MaxTid     \* bound on the thread ids handed out

ASSUME MaxTidAssumption == MaxTid \in Nat /\ MaxTid >= 1

Idle == 0               \* the idle thread, slot 0 of threads[]
Tids == 1 .. MaxTid
Slots == 0 .. MaxTid

(* "NULL" is an empty slot of threads[], the rest enum thread_status. *)
Statuses == {"NULL", "CREATED", "RUNNABLE", "BLOCKED", "SLEEPING", "DEAD"}

VARIABLES
  status,         \* thread->status of each slot
  running,        \* thread->running, taken by thread_try_take
  sleep_left,     \* thread->resume_after minus the time, -1 once it passed
  current_tid, last_tid, reshed_block, should_reshed   \* the CPU's locals

shedVars == <<status, running, current_tid, last_tid, should_reshed>>
taskVars == <<status, running, sleep_left, current_tid, last_tid,
              reshed_block, should_reshed>>

TaskTypeOK ==
  /\ status \in [Slots -> Statuses]
  /\ running \in [Slots -> BOOLEAN]
  /\ sleep_left \in [Slots -> Int]
  /\ current_tid \in Slots
  /\ last_tid \in Tids
  /\ reshed_block \in Int
  /\ should_reshed \in BOOLEAN

-----------------------------------------------------------------------------
(* What task_init leaves behind: thread 1 is on the CPU, though nobody took
   it with thread_try_take, and st gives the status of the other threads. *)
task_init(st) ==
  /\ status = st
  /\ running = [t \in Slots |-> FALSE]
  /\ sleep_left = [t \in Slots |-> -1]
  /\ current_tid = 1
  /\ last_tid = 1
  /\ reshed_block = 0
  /\ should_reshed = FALSE

(* Resume once resume_after < the time; equal is not enough. *)
Ready(t) ==
  \/ status[t] = "RUNNABLE"
  \/ status[t] = "SLEEPING" /\ sleep_left[t] < 0

ReadySet == {t \in Tids : Ready(t)}

(* How many slots the search of task_shed_choose, which starts behind
   last_tid and wraps around to slot 1, needs to get to t. *)
Distance(t) ==
  IF t > last_tid THEN t - last_tid ELSE t - last_tid + MaxTid

(* thread_release of the thread that gives up the CPU. *)
Released == [running EXCEPT ![current_tid] = FALSE]

Takeable == {t \in ReadySet : ~Released[t]}

(* Mutant of Selects: the lowest tid wins, not the next one. *)
selects_lowest(t) ==
  IF Takeable # {}
  THEN t \in Takeable /\ \A u \in Takeable : t <= u
  ELSE t = Idle

(* The thread the loop of task_shed_choose ends with: the first ready thread
   it can take.  selected_tid is assigned before thread_try_take, so when
   every ready thread is already taken one of them is selected without having
   been taken; which one depends on the number of empty slots, because the
   loop counts iterations.  No ready thread at all selects idle. *)
Selects(t) ==
  IF Takeable # {}
  THEN t \in Takeable /\ \A u \in Takeable : Distance(t) <= Distance(u)
  ELSE IF ReadySet # {}
  THEN t \in ReadySet
  ELSE t = Idle

(* Sleepers that are due and that the loop has met become runnable. *)
EnterThread(t) ==
  /\ status' = [u \in Slots |->
       IF /\ u \in ReadySet /\ status[u] = "SLEEPING"
          /\ Takeable = {} \/ Distance(u) <= Distance(t)
       THEN "RUNNABLE" ELSE status[u]]
  /\ running' = IF Takeable # {} THEN [Released EXCEPT ![t] = TRUE]
                                 ELSE Released
  /\ current_tid' = t
  /\ last_tid' = IF t = Idle THEN last_tid ELSE t

(* Mutant of task_shed_choose: the switch is not held back. *)
choose_ignores_block ==
  /\ should_reshed' = FALSE
  /\ \E t \in Slots : Selects(t) /\ EnterThread(t)

(* With rescheduling blocked the request is only noted. *)
task_shed_choose ==
  IF reshed_block > 0
  THEN /\ should_reshed' = TRUE
       /\ UNCHANGED <<status, running, current_tid, last_tid>>
  ELSE /\ should_reshed' = FALSE
       /\ \E t \in Slots : Selects(t) /\ EnterThread(t)

(* Mutant of time_tick: the tick is not counted. *)
tick_not_counted == UNCHANGED sleep_left

time_tick ==
  sleep_left' = [t \in Slots |-> IF sleep_left[t] < 0 THEN -1
                                                      ELSE sleep_left[t] - 1]
=============================================================================
