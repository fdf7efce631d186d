----------------------------- MODULE ThreadKill -----------------------------
(***************************************************************************)
(* The end of threads (proc/task.c): task_tkill, the cleaner thread that   *)
(* frees what was killed, task_tuse and task_trelease that mark a thread   *)
(* busy, and _call_async, whose thread kills itself.  A killer hands its   *)
(* victim to the cleaner through the one-place mailbox thkill_data.  Only  *)
(* _task_prkill_async kills other threads; a killer is one, for a process  *)
(* of one thread, up to the return of task_tkill.                          *)
(*                                                                         *)
(* Sections under sheduler_lock are single steps.  Locks are never held    *)
(* across steps here, so reshed_block is at most 0 and the timer may fire  *)
(* between any two steps.  Tids are not reused: "NULL" is a freed thread.  *)
(***************************************************************************)
EXTENDS Task, FiniteSets

CONSTANTS Cleaner,    \* the tid of _task_cleaner
          Killers,    \* threads that kill another one
          Victims,    \* threads that get killed, while they use the kernel
          Asyncs,     \* threads of task_call_async
          VictimOf,   \* the thread a killer kills
          MaxCalls    \* bound on the calls counted per async thread

(* The roles are apart, and no two threads kill the same one: task_tkill does
   not expect its thread to be freed by another call of it. *)
ASSUME RolesAssumption ==
  /\ {Cleaner} \cup Killers \cup Victims \cup Asyncs \subseteq Tids
  /\ Cleaner \notin Killers \cup Victims \cup Asyncs
  /\ Killers \cap Victims = {} /\ Killers \cap Asyncs = {}
  /\ Victims \cap Asyncs = {}
  /\ VictimOf \in [Killers -> Victims]
  /\ \A j, k \in Killers : j # k => VictimOf[j] # VictimOf[k]
  /\ MaxCalls \in Nat

VARIABLES
  pc,           \* where each thread is
  saved,        \* thread->context: where it would be resumed
  abandoned,    \* current_context points to task_tkill's a_context
  abort, busy,  \* the thread's fields of that name
  listed,       \* the threads their process lists (process->threads)
  table,        \* the threads whose process is in the table `processes'
  queued,       \* the victims with an entry in the wait_queue of an event
  mailbox,      \* thkill_data: the requester whose data it points to, or Idle
  posted,       \* the cleaner's thdata: the request it works on
  done,         \* data.done of each killer
  calls         \* how often each async thread called its function

procVars == <<listed, table, queued>>
mailVars == <<mailbox, posted, done>>
killVars == <<pc, saved, abandoned, abort, busy, procVars, mailVars, calls>>
vars == <<taskVars, killVars>>

(* The threads that somebody may find through a process. *)
Found == listed \cap table

me == current_tid
At(l) == me # Idle /\ pc[me] = l
Goto(l) == pc' = [pc EXCEPT ![me] = l]

Target(k) == IF k \in Killers THEN VictimOf[k] ELSE k
SetStatus(t, s) == status' = [status EXCEPT ![t] = s]
SameCPU == UNCHANGED <<running, sleep_left, current_tid, last_tid, reshed_block,
                       should_reshed>>

(* task_shed_save, task_shed_choose, task_shed_enter: the context of the
   thread that leaves, which goes on at l, is saved where current_context
   points to, and the next thread continues where its own context says. *)
Switch(l) ==
  LET ctx == IF abandoned THEN saved ELSE [saved EXCEPT ![me] = l]
  IN  /\ task_shed_choose
      /\ saved' = ctx
      /\ pc' = [pc EXCEPT ![me] = l, ![current_tid'] = ctx[current_tid']]
      /\ abandoned' = FALSE
      /\ UNCHANGED <<sleep_left, reshed_block>>

-----------------------------------------------------------------------------
Init ==
  /\ task_init([t \in Slots |-> "RUNNABLE"])
  /\ pc = [t \in Slots |-> CASE t = Cleaner -> "read"
                             [] t \in Killers -> "remove"
                             [] t \in Victims -> "user"
                             [] t \in Asyncs -> "func"
                             [] OTHER -> "idle"]
  /\ saved = pc
  /\ abandoned = FALSE
  /\ abort = [t \in Slots |-> FALSE]
  /\ busy = [t \in Slots |-> 0]
  /\ listed = Victims \cup Asyncs /\ table = Victims \cup Asyncs
  /\ queued = {}
  /\ mailbox = Idle
  /\ posted = Idle
  /\ done = [t \in Slots |-> FALSE]
  /\ calls = [t \in Slots |-> 0]

task_reshed_irq ==
  /\ Switch(pc[me])
  /\ UNCHANGED <<abort, busy, procVars, mailVars, calls>>

-----------------------------------------------------------------------------
(* The victims: enter the kernel, perhaps wait in it, leave it. *)

task_tuse ==
  /\ At("user")
  /\ busy' = [busy EXCEPT ![me] = @ + 1]
  /\ Goto("sys")
  /\ SameCPU
  /\ UNCHANGED <<status, saved, abandoned, abort, procVars, mailVars, calls>>

(* A system call of the driver of a serial port gets to cbufm_wait. *)
WaitForBytes ==
  /\ At("sys")
  /\ Goto("bytes")
  /\ UNCHANGED <<taskVars, saved, abandoned, abort, busy, procVars, mailVars,
                 calls>>

(* cbufm_wait finds bytes.  Nobody is obliged to send any. *)
BytesCame ==
  /\ At("bytes")
  /\ Goto("sys")
  /\ UNCHANGED <<taskVars, saved, abandoned, abort, busy, procVars, mailVars,
                 calls>>

(* Mutant of event_wait: it does not look at abort before it blocks. *)
wait_ignores_abort ==
  /\ At("sys") \/ At("bytes")
  /\ SetStatus(me, "BLOCKED")
  /\ queued' = queued \cup {me}
  /\ Goto(CASE pc[me] = "sys" /\ reshed_block = 0 -> "sys_yield"
            [] pc[me] = "sys" /\ reshed_block # 0 -> "sys_woken"
            [] pc[me] = "bytes" /\ reshed_block = 0 -> "bytes_yield"
            [] OTHER -> "bytes_woken")
  /\ SameCPU
  /\ UNCHANGED <<saved, abandoned, abort, busy, listed, table, mailVars, calls>>

(* event_wait, of a system call that returns when it says -1 and of cbufm_wait,
   which calls it again.  An aborted thread does not block; one that does
   yields if task_tcan_yield. *)
event_wait ==
  /\ At("sys") \/ At("bytes")
  /\ ~abort[me]
  /\ SetStatus(me, "BLOCKED")
  /\ queued' = queued \cup {me}
  /\ Goto(CASE pc[me] = "sys" /\ reshed_block = 0 -> "sys_yield"
            [] pc[me] = "sys" /\ reshed_block # 0 -> "sys_woken"
            [] pc[me] = "bytes" /\ reshed_block = 0 -> "bytes_yield"
            [] OTHER -> "bytes_woken")
  /\ SameCPU
  /\ UNCHANGED <<saved, abandoned, abort, busy, listed, table, mailVars, calls>>

(* Its second look at abort, which releases the event's lock once more. *)
AbortCheck ==
  /\ At("sys_woken") \/ At("bytes_woken")
  /\ reshed_block' = IF abort[me] THEN reshed_block - 1 ELSE reshed_block
  /\ Goto(IF pc[me] = "sys_woken" THEN "sys" ELSE "bytes")
  /\ UNCHANGED <<status, running, sleep_left, current_tid, last_tid,
                 should_reshed, saved, abandoned, abort, busy, procVars,
                 mailVars, calls>>

(* syscall_sleep with a negative delay: blocks, aborted or not. *)
SleepForGood ==
  /\ At("sys")
  /\ SetStatus(me, "BLOCKED")
  /\ Goto("sleep_yield")
  /\ SameCPU
  /\ UNCHANGED <<saved, abandoned, abort, busy, procVars, mailVars, calls>>

SleepReturns ==
  /\ At("slept")
  /\ Goto("sys")
  /\ UNCHANGED <<taskVars, saved, abandoned, abort, busy, procVars, mailVars,
                 calls>>

(* An interrupt or another thread triggers the event v has waited for; the
   entry may be left over from a wait that was aborted. *)
event_trigger_all(v) ==
  /\ v \in queued
  /\ queued' = queued \ {v}
  /\ status' = IF status[v] = "BLOCKED" THEN [status EXCEPT ![v] = "RUNNABLE"]
                                        ELSE status
  /\ SameCPU
  /\ UNCHANGED <<pc, saved, abandoned, abort, busy, listed, table, mailVars,
                 calls>>

(* An aborted thread that leaves the kernel blocks itself, a step later. *)
task_trelease ==
  /\ At("sys")
  /\ busy' = [busy EXCEPT ![me] = @ - 1]
  /\ Goto(IF abort[me] /\ busy[me] = 1 THEN "aborted" ELSE "user")
  /\ SameCPU
  /\ UNCHANGED <<status, saved, abandoned, abort, procVars, mailVars, calls>>

BlockAborted ==
  /\ At("aborted")
  /\ SetStatus(me, "BLOCKED")
  /\ Goto("aborted_yield")
  /\ SameCPU
  /\ UNCHANGED <<saved, abandoned, abort, busy, procVars, mailVars, calls>>

-----------------------------------------------------------------------------
(* _task_prkill_async: the process leaves the table, so that nobody finds its
   threads through it, ... *)
RemoveProcess ==
  /\ At("remove")
  /\ table' = table \ {VictimOf[me]}
  /\ Goto("prepare")
  /\ UNCHANGED <<taskVars, saved, abandoned, abort, busy, listed, queued,
                 mailVars, calls>>

(* ... and its thread is told to abort. *)
_task_prepare_tkill ==
  /\ At("prepare")
  /\ LET t == VictimOf[me] IN
       IF status[t] = "NULL" THEN UNCHANGED <<status, abort>>
       ELSE /\ abort' = [abort EXCEPT ![t] = TRUE]
            /\ IF status[t] = "DEAD" THEN UNCHANGED status
                                     ELSE SetStatus(t, "RUNNABLE")
  /\ Goto("kill")
  /\ SameCPU
  /\ UNCHANGED <<saved, abandoned, busy, procVars, mailVars, calls>>

-----------------------------------------------------------------------------
(* task_tkill, by a killer of its victim and by an async thread of itself. *)

(* Mutant of BeginKill: one that kills itself stays on the list. *)
kill_keeps_listed ==
  /\ At("kill")
  /\ abort' = [abort EXCEPT ![Target(me)] = TRUE]
  /\ SetStatus(Target(me), "RUNNABLE")
  /\ Goto(IF Target(me) = me THEN "post" ELSE "busywait")
  /\ SameCPU
  /\ UNCHANGED <<saved, abandoned, busy, procVars, mailVars, calls>>

(* Up to the release of sheduler_lock; one that kills itself keeps the lock
   until it is off its process's list. *)
BeginKill ==
  /\ At("kill")
  /\ LET t == Target(me) IN
       IF status[t] = "NULL"
       THEN Goto("returned") /\ UNCHANGED <<status, abort, listed>>
       ELSE /\ abort' = [abort EXCEPT ![t] = TRUE]
            /\ IF status[t] = "DEAD" THEN UNCHANGED status
                                     ELSE SetStatus(t, "RUNNABLE")
            /\ listed' = IF t = me /\ t \in table THEN listed \ {t} ELSE listed
            /\ Goto(IF t = me THEN "post" ELSE "busywait")
  /\ SameCPU
  /\ UNCHANGED <<saved, abandoned, busy, table, queued, mailVars, calls>>

(* The loop on thread->busy: yield while it is positive. *)
BusyWait ==
  /\ At("busywait")
  /\ IF busy[Target(me)] > 0
     THEN /\ Switch("busywait")
          /\ UNCHANGED <<abort, busy, procVars, mailVars, calls>>
     ELSE /\ Goto("set_dead")
          /\ UNCHANGED <<taskVars, saved, abandoned, abort, busy, procVars,
                         mailVars, calls>>

(* Mutant of SetDead: the killer names itself. *)
set_dead_current ==
  /\ At("set_dead")
  /\ SetStatus(me, "DEAD")
  /\ Goto("take")
  /\ SameCPU
  /\ UNCHANGED <<saved, abandoned, abort, busy, procVars, mailVars, calls>>

SetDead ==
  /\ At("set_dead")
  /\ SetStatus(Target(me), "DEAD")
  /\ Goto("take")
  /\ SameCPU
  /\ UNCHANGED <<saved, abandoned, abort, busy, procVars, mailVars, calls>>

(* thread_try_take: a victim that still runs keeps the killer spinning. *)
TakeVictim ==
  /\ At("take") /\ ~running[Target(me)]
  /\ running' = [running EXCEPT ![Target(me)] = TRUE]
  /\ Goto("unlist")
  /\ UNCHANGED <<status, sleep_left, current_tid, last_tid, reshed_block,
                 should_reshed, saved, abandoned, abort, busy, procVars,
                 mailVars, calls>>

(* The thread comes off the list of its process, if that is still in the
   table.  The reference the lookup takes is not given back, which only the
   process of the kernel feels. *)
Unlist ==
  /\ At("unlist")
  /\ listed' = IF Target(me) \in table THEN listed \ {Target(me)} ELSE listed
  /\ Goto("post")
  /\ UNCHANGED <<taskVars, saved, abandoned, abort, busy, table, queued,
                 mailVars, calls>>

(* The compare and swap on thkill_data ... *)
Post ==
  /\ At("post")
  /\ mailbox' = IF mailbox = Idle THEN me ELSE mailbox
  /\ Goto(IF mailbox = Idle THEN "wake" ELSE "wake_retry")
  /\ UNCHANGED <<taskVars, saved, abandoned, abort, busy, procVars, posted,
                 done, calls>>

(* ... and waking the cleaner, after which a failed post yields and tries
   again. *)
WakeCleaner ==
  /\ At("wake") \/ At("wake_retry")
  /\ SetStatus(Cleaner, "RUNNABLE")
  /\ Goto(CASE pc[me] = "wake_retry" -> "retry_yield"
            [] pc[me] = "wake" /\ Target(me) = me -> "abandon"
            [] OTHER -> "wait")
  /\ SameCPU
  /\ UNCHANGED <<saved, abandoned, abort, busy, procVars, mailVars, calls>>

(* One that kills itself has its context saved elsewhere from here on. *)
Abandon ==
  /\ At("abandon")
  /\ abandoned' = TRUE
  /\ Goto("suicide")
  /\ UNCHANGED <<taskVars, saved, abort, busy, procVars, mailVars, calls>>

(* The task_tyield of all of them, with the step that follows it. *)
AfterYield(l) ==
  CASE l = "sys_yield" -> "sys_woken"
    [] l = "bytes_yield" -> "bytes_woken"
    [] l = "sleep_yield" -> "slept"
    [] l = "aborted_yield" -> "user"
    [] l = "retry_yield" -> "post"
    [] l = "read_yield" -> "read"
    [] OTHER -> l

Yields == {"sys_yield", "bytes_yield", "sleep_yield", "aborted_yield",
           "retry_yield", "read_yield", "suicide"}

task_tyield ==
  /\ me # Idle /\ pc[me] \in Yields
  /\ Switch(AfterYield(pc[me]))
  /\ UNCHANGED <<abort, busy, procVars, mailVars, calls>>

(* Mutant of AwaitDone: task_tkill returns at once. *)
return_at_once ==
  /\ At("wait")
  /\ Goto("returned")
  /\ UNCHANGED <<taskVars, saved, abandoned, abort, busy, procVars,
                 mailVars, calls>>

AwaitDone ==
  /\ At("wait")
  /\ IF done[me]
     THEN Goto("returned") /\ UNCHANGED <<taskVars, saved, abandoned>>
     ELSE Switch("wait")
  /\ UNCHANGED <<abort, busy, procVars, mailVars, calls>>

(* _call_async: the function (and its callback), then task_tkill. *)
CallFunction ==
  /\ At("func")
  /\ calls' = [calls EXCEPT ![me] = IF @ < MaxCalls THEN @ + 1 ELSE @]
  /\ Goto("kill")
  /\ UNCHANGED <<taskVars, saved, abandoned, abort, busy, procVars, mailVars>>

-----------------------------------------------------------------------------
(* _task_cleaner. *)

ReadMailbox ==
  /\ At("read")
  /\ posted' = mailbox
  /\ Goto(CASE mailbox = Idle -> "block"
            [] mailbox \in Asyncs -> "clean_dead"
            [] OTHER -> "clean")
  /\ UNCHANGED <<taskVars, saved, abandoned, abort, busy, procVars, mailbox,
                 done, calls>>

(* Nothing to do: block, and yield a step later. *)
BlockCleaner ==
  /\ At("block")
  /\ SetStatus(me, "BLOCKED")
  /\ Goto("read_yield")
  /\ SameCPU
  /\ UNCHANGED <<saved, abandoned, abort, busy, procVars, mailVars, calls>>

(* One that killed itself is declared dead by the cleaner ... *)
CleanerSetDead ==
  /\ At("clean_dead")
  /\ SetStatus(posted, "DEAD")
  /\ Goto("clean_take")
  /\ SameCPU
  /\ UNCHANGED <<saved, abandoned, abort, busy, procVars, mailVars, calls>>

(* ... and taken. *)
CleanerTake ==
  /\ At("clean_take") /\ ~running[posted]
  /\ running' = [running EXCEPT ![posted] = TRUE]
  /\ Goto("clean")
  /\ UNCHANGED <<status, sleep_left, current_tid, last_tid, reshed_block,
                 should_reshed, saved, abandoned, abort, busy, procVars,
                 mailVars, calls>>

(* thread_remove and kfree; the field running goes with the thread. *)
_task_cleanup ==
  /\ At("clean")
  /\ SetStatus(Target(posted), "NULL")
  /\ running' = [running EXCEPT ![Target(posted)] = FALSE]
  /\ Goto("report")
  /\ UNCHANGED <<sleep_left, current_tid, last_tid, reshed_block, should_reshed,
                 saved, abandoned, abort, busy, procVars, mailVars, calls>>

Report ==
  /\ At("report")
  /\ done' = [done EXCEPT ![posted] = posted \in Killers]
  /\ Goto("empty")
  /\ UNCHANGED <<taskVars, saved, abandoned, abort, busy, procVars, mailbox,
                 posted, calls>>

EmptyMailbox ==
  /\ At("empty")
  /\ mailbox' = IF mailbox = posted THEN Idle ELSE mailbox
  /\ Goto("read")
  /\ UNCHANGED <<taskVars, saved, abandoned, abort, busy, procVars, posted,
                 done, calls>>

ThreadStep ==
  \/ event_wait \/ AbortCheck \/ SleepReturns \/ task_trelease \/ BlockAborted
  \/ RemoveProcess \/ _task_prepare_tkill
  \/ BeginKill \/ BusyWait \/ SetDead \/ TakeVictim \/ Unlist \/ Post
  \/ WakeCleaner \/ Abandon \/ task_tyield \/ AwaitDone \/ CallFunction
  \/ ReadMailbox \/ BlockCleaner \/ CleanerSetDead \/ CleanerTake
  \/ _task_cleanup \/ Report \/ EmptyMailbox

Next ==
  \/ task_reshed_irq \/ ThreadStep
  \/ task_tuse \/ WaitForBytes \/ BytesCame \/ SleepForGood
  \/ \E v \in Victims : event_trigger_all(v)

(* The timer keeps firing and a thread that gets the CPU again and again
   executes kernel code; a thread in user mode need not enter the kernel. *)
Fairness ==
  WF_vars(task_reshed_irq) /\ \A t \in Tids : SF_vars(me = t /\ ThreadStep)

Spec == Init /\ [][Next]_vars
FairSpec == Spec /\ Fairness

-----------------------------------------------------------------------------
(* A thread that was declared dead or freed is never on the CPU again, and the
   search of task_shed_choose never meets a ready thread that somebody else
   took: a killer and the cleaner take only what is dead. *)
DeadStaysOff ==
  /\ status[current_tid] \notin {"DEAD", "NULL"}
  /\ \A t \in Tids : running[t] => t = current_tid \/ status[t] = "DEAD"

(* A thread is freed only after it was declared dead and was taken off the
   CPU, and when nobody finds it through a process any more: either its process
   left the table before, as _task_prkill_async sees to, and goes on listing
   it, or it left its process's list. *)
FreedOnlyWhenDead ==
  [][\A t \in Tids : status[t] # "NULL" /\ status'[t] = "NULL"
       => status[t] = "DEAD" /\ running[t] /\ t \notin Found]_vars

(* task_tkill returns only when its victim is gone, and its request stays in
   the mailbox until then: the compare and swaps on thkill_data lose none,
   whatever the other killers and the cleaner do. *)
ReturnMeansFreed ==
  \A k \in Killers :
    /\ pc[k] = "returned" => status[VictimOf[k]] = "NULL"
    /\ pc[k] \in {"wake", "wait"} /\ ~done[k] => mailbox = k

(* An aborted thread that nothing gets out of the kernel: syscall_sleep went to
   sleep after the abort, or cbufm_wait, deaf to event_wait's -1, spins. *)
Deaf(v) ==
  /\ abort[v]
  /\ \/ pc[v] = "bytes"
     \/ pc[v] \in {"sleep_yield", "slept"} /\ status[v] = "BLOCKED"

(* A killer does not wait forever for a busy victim, unless that is deaf: being
   woken makes a blocked one notice the abort, event_wait does not block it
   again, and leaving the kernel stops it, late triggers of an event it has
   waited for notwithstanding. *)
BusyWaitEnds ==
  \A k \in Killers :
    pc[k] = "busywait" ~> pc[k] # "busywait" \/ Deaf(VictimOf[k])

(* 'If a thread is "busy", it's not allowed to get killed' (aex/proc/task.h). *)
BusyNotKilled ==
  [][\A t \in Victims : status[t] # "DEAD" /\ status'[t] = "DEAD"
       => busy[t] = 0]_vars

(* task_tkill "kills a thread" (aex/proc/task.h): a killer that has asked the
   cleaner gets its victim freed and returns. *)
KillCompletes == \A k \in Killers : pc[k] = "wait" ~> pc[k] = "returned"

(* task_call_async "calls the specified function" (aex/proc/task.h) once. *)
CalledOnce == \A t \in Asyncs : calls[t] <= 1
=============================================================================
