------------------------------ MODULE EventWait -----------------------------
(***************************************************************************)
(* Events (kernel/event.c), the thread queues under them (proc/tqueue.c)   *)
(* and the spinlock that guards them (kernel/spinlock.c), under the        *)
(* preemptive scheduler of Task.  A spinlock only raises reshed_block, so  *)
(* mutual exclusion on the one CPU rests on that count being right; the    *)
(* lock is modelled in the steps the timer can fall between.               *)
(*                                                                         *)
(* The locks nested inside event->lock (the queue's and sheduler_lock) are *)
(* taken with reshed_block already raised and are not separate steps.      *)
(***************************************************************************)
EXTENDS Task, FiniteSets, Sequences, Functions

CONSTANTS Waiters,      \* threads that call event_wait, holding no other lock
          Triggerers,   \* threads that trigger the event
          Killers,      \* threads that abort waiters
          MaxQueue      \* bound on the queue's length when a wait starts

ASSUME RolesAssumption ==
  Waiters \subseteq Tids /\ Triggerers \subseteq Tids /\ Killers \subseteq Tids

VARIABLES
  pc,       \* where each thread is in the functions below
  op,       \* what it took the lock for
  lock,     \* event->lock.val
  queue,    \* event->wait_queue: the tids of its entries
  abort,    \* thread->abort
  panic     \* kpanic was called

eventVars == <<pc, op, lock, queue, abort, panic>>
vars == <<taskVars, eventVars>>

Triggers == {"trigger", "trigger_all"}
me == current_tid

At(l) == me # Idle /\ pc[me] = l /\ ~panic
Goto(l) == pc' = [pc EXCEPT ![me] = l]

-----------------------------------------------------------------------------
Init ==
  /\ task_init([t \in Slots |-> "RUNNABLE"])
  /\ pc = [t \in Slots |-> "run"]
  /\ op = [t \in Slots |-> "none"]
  /\ lock = FALSE
  /\ queue = <<>>
  /\ abort = [t \in Slots |-> FALSE]
  /\ panic = FALSE

(* The timer interrupt; no thread here sleeps, so time does not matter. *)
task_reshed_irq ==
  /\ ~panic
  /\ task_shed_choose
  /\ UNCHANGED <<sleep_left, reshed_block, eventVars>>

(* A thread calls event_wait or one of the triggers. *)
Call(o) ==
  /\ At("run")
  /\ \/ o = "wait" /\ me \in Waiters /\ Len(queue) < MaxQueue
     \/ o \in Triggers /\ me \in Triggerers
  /\ op' = [op EXCEPT ![me] = o]
  /\ Goto("acquire")
  /\ UNCHANGED <<taskVars, lock, queue, abort, panic>>

(* spinlock_acquire: task_reshed_disable ... *)
DisableReshed ==
  /\ At("acquire")
  /\ reshed_block' = reshed_block + 1
  /\ Goto("spin")
  /\ UNCHANGED <<shedVars, sleep_left, op, lock, queue, abort, panic>>

(* ... and the compare and swap loop.  With rescheduling blocked nobody can
   release the lock, so the loop runs into its kpanic. *)
TakeLock ==
  /\ At("spin")
  /\ \/ ~lock /\ lock' = TRUE /\ Goto("body") /\ UNCHANGED panic
     \/ lock /\ reshed_block > 0 /\ panic' = TRUE /\ UNCHANGED <<lock, pc>>
  /\ UNCHANGED <<taskVars, op, queue, abort>>

(* tqueue_wakeup and tqueue_wakeup_all make the blocked ones runnable. *)
Woken(S) ==
  [t \in Slots |-> IF t \in S /\ status[t] = "BLOCKED" THEN "RUNNABLE"
                                                       ELSE status[t]]

task_tshould_exit(t) == abort[t]

tqueue_add ==
  /\ queue' = Append(queue, me)
  /\ status' = [status EXCEPT ![me] = "BLOCKED"]

(* event_wait under the lock: leave on an abort, else tqueue_add. *)
WaitBody ==
  /\ op[me] = "wait"
  /\ IF task_tshould_exit(me)
     THEN op' = [op EXCEPT ![me] = "aborted"] /\ UNCHANGED <<status, queue>>
     ELSE tqueue_add /\ UNCHANGED op

(* Mutant of tqueue_wakeup: the entry goes, the thread is not woken. *)
wakeup_drops_thread ==
  /\ op[me] = "trigger"
  /\ queue' = IF queue = <<>> THEN queue ELSE Tail(queue)
  /\ UNCHANGED <<status, op>>

(* Mutant of tqueue_wakeup: the youngest entry is served first. *)
wakeup_serves_last ==
  /\ op[me] = "trigger"
  /\ IF queue = <<>> THEN UNCHANGED <<status, queue>>
     ELSE /\ status' = Woken({queue[Len(queue)]})
          /\ queue' = SubSeq(queue, 1, Len(queue) - 1)
  /\ UNCHANGED op

(* event_trigger under the lock: the first entry leaves the queue. *)
tqueue_wakeup ==
  /\ op[me] = "trigger"
  /\ IF queue = <<>> THEN UNCHANGED <<status, queue>>
     ELSE /\ status' = Woken({Head(queue)})
          /\ queue' = Tail(queue)
  /\ UNCHANGED op

(* event_trigger_all and event_defunct under the lock; the counter that the
   latter sets is read by nobody. *)
tqueue_wakeup_all ==
  /\ op[me] = "trigger_all"
  /\ status' = Woken(Range(queue))
  /\ queue' = <<>>
  /\ UNCHANGED op

Body ==
  /\ At("body")
  /\ WaitBody \/ tqueue_wakeup \/ tqueue_wakeup_all
  /\ Goto("release")
  /\ UNCHANGED <<running, sleep_left, current_tid, last_tid, reshed_block,
                 should_reshed, lock, abort, panic>>

(* Mutant of ReleaseLock: the lock word is not cleared. *)
release_keeps_lock ==
  /\ At("release")
  /\ Goto("enable")
  /\ UNCHANGED <<taskVars, op, lock, queue, abort, panic>>

(* spinlock_release: the lock word, then task_reshed_enable. *)
ReleaseLock ==
  /\ At("release")
  /\ lock' = FALSE
  /\ Goto("enable")
  /\ UNCHANGED <<taskVars, op, queue, abort, panic>>

task_reshed_enable ==
  /\ At("enable")
  /\ reshed_block' = reshed_block - 1
  /\ Goto(IF reshed_block = 1 THEN "check" ELSE "after")
  /\ UNCHANGED <<shedVars, sleep_left, op, lock, queue, abort, panic>>

CheckRequest ==
  /\ At("check")
  /\ Goto(IF should_reshed THEN "yield" ELSE "after")
  /\ UNCHANGED <<taskVars, op, lock, queue, abort, panic>>

(* task_tyield, from task_reshed_enable and from event_wait itself. *)
task_tyield ==
  /\ At("yield") \/ At("yield_wait")
  /\ IF reshed_block > 0
     THEN panic' = TRUE /\ UNCHANGED <<shedVars, pc>>
     ELSE /\ task_shed_choose
          /\ Goto(IF pc[me] = "yield" THEN "after" ELSE "woken")
          /\ UNCHANGED panic
  /\ UNCHANGED <<sleep_left, reshed_block, op, lock, queue, abort>>

(* Behind spinlock_release: a waiter yields if task_tcan_yield, the others
   return to their caller. *)
AfterRelease ==
  /\ At("after")
  /\ Goto(CASE op[me] = "wait" /\ reshed_block = 0 -> "yield_wait"
            [] op[me] = "wait" /\ reshed_block # 0 -> "woken"
            [] op[me] \in {"aborted", "aborted_late"} -> "gone"
            [] OTHER -> "run")
  /\ UNCHANGED <<taskVars, op, lock, queue, abort, panic>>

(* The second abort check of event_wait: an aborted waiter calls
   spinlock_release once more, on a lock it does not hold. *)
AbortCheck ==
  /\ At("woken")
  /\ IF task_tshould_exit(me)
     THEN op' = [op EXCEPT ![me] = "aborted_late"] /\ Goto("release")
     ELSE Goto("run") /\ UNCHANGED op
  /\ UNCHANGED <<taskVars, lock, queue, abort, panic>>

_task_prepare_tkill(w) ==
  /\ At("run") /\ me \in Killers
  /\ abort' = [abort EXCEPT ![w] = TRUE]
  /\ status' = [status EXCEPT ![w] = "RUNNABLE"]
  /\ UNCHANGED <<running, sleep_left, current_tid, last_tid, reshed_block,
                 should_reshed, pc, op, lock, queue, panic>>

LockStep ==
  \/ DisableReshed \/ TakeLock \/ Body \/ ReleaseLock \/ task_reshed_enable
  \/ CheckRequest \/ task_tyield \/ AfterRelease \/ AbortCheck

Next ==
  \/ task_reshed_irq
  \/ \E o \in Triggers \cup {"wait"} : Call(o)
  \/ LockStep
  \/ \E w \in Waiters : _task_prepare_tkill(w)

(* The timer keeps firing, and a thread that gets the CPU again and again
   executes the functions it has called: a time slice is long enough for some
   of their code.  Nobody is obliged to call them. *)
Fairness ==
  WF_vars(task_reshed_irq) /\ \A t \in Tids : SF_vars(LockStep /\ me = t)

Spec == Init /\ [][Next]_vars
FairSpec == Spec /\ Fairness

-----------------------------------------------------------------------------
Inside == {"spin", "body", "release", "enable"}

(* A waiter noticed its abort after waking up and released a lock that was
   not its own. *)
LateAbort == \E t \in Tids : op[t] = "aborted_late"

(* The assertions of spinlock_acquire ("spinlock_acquire stuck for too long")
   and task_tyield ("task_tyield() while scheduling is disabled"): nobody
   waits for a lock whose holder cannot run, nobody yields inside a lock. *)
NoPanic == ~panic

(* Until a waiter is aborted late, those assertions hold and a spinlock keeps
   the CPU with its holder: no thread is switched away from between acquire
   and release.  Always, reshed_block is the number of threads inside the lock
   less the number of waiters aborted late, each of which took one off for
   good. *)
LockKeepsCPU ==
  LET late == {t \in Tids : op[t] = "aborted_late"}
      in   == {t \in Tids : pc[t] \in Inside}
  IN  /\ LateAbort \/ (NoPanic /\ in \subseteq {current_tid})
      /\ reshed_block = Cardinality(in \ late) - Cardinality(late \ in)

(* No wakeup is lost between tqueue_add and the yield that follows: a blocked
   thread has an entry in the queue and a trigger will find it; one entry
   only, until a late abort keeps event_wait from yielding. *)
BlockedIsQueued ==
  /\ \A w \in Waiters : status[w] = "BLOCKED" => w \in Range(queue)
  /\ LateAbort \/ IsInjective(queue)

(* As long as nobody is aborted and the event keeps being triggered, every
   waiter returns: triggers serve the queue in order and none is spent on a
   thread that is awake. *)
WaitersReturn ==
  ( /\ []~(\E w \in Waiters : abort[w])
    /\ []<>(pc[current_tid] = "body" /\ op[current_tid] \in Triggers) )
    => \A w \in Waiters : w \in Range(queue) ~> pc[w] = "run"
=============================================================================
