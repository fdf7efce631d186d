------------------------------- MODULE Sched --------------------------------
(***************************************************************************)
(* Threads under the scheduler of proc/task.c: the timer interrupt may take*)
(* the CPU from the current thread between any two of its steps, unless it *)
(* disabled rescheduling.  A thread creates, starts and wakes others,      *)
(* sleeps, blocks, and brackets critical sections with                     *)
(* task_reshed_disable and task_reshed_enable, as every spinlock does.     *)
(***************************************************************************)
EXTENDS Task

CONSTANTS MaxBlock,   \* bound on the nesting of critical sections
          MaxDelay    \* bound on the ticks a thread sleeps for

ASSUME SchedBounds == MaxBlock \in Nat /\ MaxDelay \in Nat

VARIABLES
  pc,       \* where each thread is: "run" outside the functions below
  passed,   \* history: switches at which a ready thread was not selected
  panic     \* kpanic was called

vars == <<taskVars, pc, passed, panic>>

me == current_tid

At(l) == me # Idle /\ pc[me] = l /\ ~panic

Goto(l) == pc' = [pc EXCEPT ![me] = l]

(* A call of task_shed_choose, with the history it leaves; the count of
   passed saturates at MaxTid. *)
Reshed ==
  /\ task_shed_choose
  /\ passed' = IF reshed_block > 0 THEN passed
               ELSE [t \in Slots |->
                      CASE t \notin ReadySet \/ t = current_tid' -> 0
                        [] OTHER -> IF passed[t] < MaxTid THEN passed[t] + 1
                                                          ELSE MaxTid]

-----------------------------------------------------------------------------
Init ==
  /\ task_init([t \in Slots |-> IF t <= 1 THEN "RUNNABLE" ELSE "NULL"])
  /\ pc = [t \in Slots |-> "run"]
  /\ passed = [t \in Slots |-> 0]
  /\ panic = FALSE

(* The timer interrupt: time_tick, then task_shed_choose. *)
task_reshed_irq ==
  /\ ~panic
  /\ time_tick
  /\ Reshed
  /\ UNCHANGED <<reshed_block, pc, panic>>

(* thread_add puts the new thread into the first empty slot. *)
task_tcreate ==
  /\ At("run")
  /\ \E t \in Tids :
       /\ status[t] = "NULL" /\ \A u \in Tids : u < t => status[u] # "NULL"
       /\ status' = [status EXCEPT ![t] = "CREATED"]
  /\ UNCHANGED <<running, sleep_left, current_tid, last_tid, reshed_block,
                 should_reshed, pc, passed, panic>>

(* task_tstart, and task_tset_status to RUNNABLE of the one who wakes. *)
SetRunnable(t) ==
  /\ At("run")
  /\ status[t] # "NULL"
  /\ status' = [status EXCEPT ![t] = "RUNNABLE"]
  /\ UNCHANGED <<running, sleep_left, current_tid, last_tid, reshed_block,
                 should_reshed, pc, passed, panic>>

(* task_tset_status(CURRENT_TID, BLOCKED), to be followed by task_tyield. *)
Block ==
  /\ At("run") /\ reshed_block = 0
  /\ status' = [status EXCEPT ![me] = "BLOCKED"]
  /\ Goto("yield")
  /\ UNCHANGED <<running, sleep_left, current_tid, last_tid, reshed_block,
                 should_reshed, passed, panic>>

(* The status changes under sheduler_lock; task_reshed runs after it. *)
task_tsleep(delay) ==
  /\ At("run")
  /\ status' = [status EXCEPT ![me] = "SLEEPING"]
  /\ sleep_left' = [sleep_left EXCEPT ![me] = delay]
  /\ Goto("reshed")
  /\ UNCHANGED <<running, current_tid, last_tid, reshed_block, should_reshed,
                 passed, panic>>

task_reshed ==
  /\ At("reshed")
  /\ Reshed
  /\ Goto("run")
  /\ UNCHANGED <<sleep_left, reshed_block, panic>>

task_tyield ==
  /\ At("yield")
  /\ IF reshed_block > 0
     THEN panic' = TRUE /\ UNCHANGED <<shedVars, pc, passed>>
     ELSE Reshed /\ Goto("run") /\ UNCHANGED panic
  /\ UNCHANGED <<sleep_left, reshed_block>>

task_reshed_disable ==
  /\ At("run") /\ reshed_block < MaxBlock
  /\ reshed_block' = reshed_block + 1
  /\ UNCHANGED <<shedVars, sleep_left, pc, passed, panic>>

(* The count drops first; should_reshed is looked at in a second step. *)
task_reshed_enable ==
  /\ At("run") /\ reshed_block > 0
  /\ reshed_block' = reshed_block - 1
  /\ Goto(IF reshed_block = 1 THEN "enable" ELSE "run")
  /\ UNCHANGED <<shedVars, sleep_left, passed, panic>>

ReshedIfRequested ==
  /\ At("enable")
  /\ Goto(IF should_reshed THEN "yield" ELSE "run")
  /\ UNCHANGED <<taskVars, passed, panic>>

Next ==
  \/ task_reshed_irq
  \/ task_tcreate
  \/ \E t \in Tids : SetRunnable(t)
  \/ Block
  \/ \E delay \in 0 .. MaxDelay : task_tsleep(delay)
  \/ task_reshed
  \/ task_tyield
  \/ task_reshed_disable
  \/ task_reshed_enable
  \/ ReshedIfRequested

(* The timer keeps firing, a thread that has the CPU goes on executing the
   scheduler's own functions, and every critical section ends: it is a
   bounded piece of kernel code between an acquire and its release. *)
Fairness ==
  /\ WF_vars(task_reshed_irq)
  /\ WF_vars(task_reshed \/ task_tyield \/ ReshedIfRequested)
  /\ \A n \in 1 .. MaxBlock : SF_vars(task_reshed_enable /\ reshed_block = n)

Spec == Init /\ [][Next]_vars
FairSpec == Spec /\ Fairness

-----------------------------------------------------------------------------
TypeOK ==
  /\ TaskTypeOK
  /\ pc \in [Slots -> {"run", "reshed", "yield", "enable"}]
  /\ passed \in [Slots -> Nat]
  /\ panic \in BOOLEAN

(* thread->running is held by the thread on the CPU and by nobody else, so
   the search of task_shed_choose never meets a ready thread it cannot take
   and never selects one it did not take. *)
OnlyCurrentRunning == \A t \in Slots : running[t] => t = current_tid

(* The timer cannot take the CPU inside a critical section: a switch happens
   only at reshed_block 0, every thread gets the CPU back with the count it
   lost it with, and so the task_tyield of task_reshed_enable and the one
   after blocking never meet its kpanic. *)
NoYieldPanic == ~panic

(* A preemption put off by task_reshed_disable is made up for: the request
   stands only inside the critical section or until its last step. *)
RequestHonoured ==
  should_reshed => reshed_block > 0 \/ pc[current_tid] \in {"enable", "yield"}

(* Bounded overtaking: a thread that is ready at every switch is selected
   after being passed over at most MaxTid - 1 times, once per other thread. *)
BoundedOvertaking == \A t \in Tids : passed[t] < MaxTid

(* Only a ready thread gets the CPU: none that was not started, that waits,
   or whose sleep is not over. *)
EntersReadyThread ==
  [][current_tid' # current_tid /\ current_tid' # Idle
       => Ready(current_tid') /\ running'[current_tid']]_vars

(* Every thread that is runnable or asleep gets the CPU: critical sections
   delay a switch and never lose it. *)
ReadyThreadsRun ==
  \A t \in Tids : status[t] \in {"RUNNABLE", "SLEEPING"} ~> current_tid = t
=============================================================================
