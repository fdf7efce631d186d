------------------------------ MODULE Process ------------------------------
(***************************************************************************)
(* The end of a process, proc/task.c, around its entry in the process      *)
(* table (include/aex/rcptable.h).  Threads of other processes borrow the  *)
(* entry, wait for the process to exit, or mark it busy on behalf of one   *)
(* of its threads, the way the worker of a block device does; meanwhile    *)
(* the thread that task_prkill starts takes it apart.  Each macro of       *)
(* rcptable.h runs under the table's lock and is one step.  What becomes   *)
(* of one thread in task_tkill is the subject of module ThreadKill; here   *)
(* it has the outcomes found there: the thread may never leave the kernel, *)
(* may die inside it, and the killer's request to the cleaner may sleep.   *)
(***************************************************************************)
EXTENDS Integers, FiniteSets

CONSTANTS Callers,  \* threads that borrow the entry or wait for the exit
          Threads   \* threads of the process; the user of the process that
                    \* works for a thread is named after it

ASSUME ProcessAssumption == IsFiniteSet(Callers) /\ IsFiniteSet(Threads)

VARIABLES
  refs,      \* the entry's refs; 0 when it is freed
  present,   \* the entry's present
  busy,      \* process.busy
  ecode,     \* process.ecode was set
  waiting,   \* wait_queue of process.signal_event
  disposed,  \* pagemap, descriptors and thread list are gone
  alive,     \* threads that were not killed
  quiet,     \* threads that task_tkill has found out of the kernel
  inside,    \* threads that are in a system call (thread.busy > 0)
  deaf,      \* threads that nothing gets out of their system call
  caller,    \* where a caller is
  user,      \* where the user that works for a thread is
  killer     \* where _task_prkill_async is

vars == <<refs, present, busy, ecode, waiting, disposed, alive, quiet,
          inside, deaf, caller, user, killer>>

entry == <<refs, present>>
calls == <<inside, deaf>>
life == <<ecode, disposed, alive, quiet, killer>>

Init ==
  /\ refs = 1
  /\ present = TRUE
  /\ busy = 0
  /\ ecode = FALSE
  /\ waiting = {}
  /\ disposed = FALSE
  /\ alive = Threads
  /\ quiet = {}
  /\ inside = {} /\ deaf = {}
  /\ caller = [c \in Callers |-> "idle"]
  /\ user = [t \in Threads |-> "idle"]
  /\ killer = "start"

-----------------------------------------------------------------------------
(* rcptable_get, which fails for an entry that is not present.  *)
rcptable_get == present /\ refs' = refs + 1 /\ UNCHANGED present

(* rcptable_unref; with the last reference the entry is freed. *)
rcptable_unref == refs' = refs - 1 /\ UNCHANGED present

rcptable_remove == refs' = refs - 1 /\ present' = FALSE

-----------------------------------------------------------------------------
(* task_prstart, task_prget_pmap, task_prinfo, task_prset_cwd and
   task_prget_cwd use the process between a get and an unref. *)
Borrow(c) ==
  /\ caller[c] = "idle"
  /\ rcptable_get
  /\ caller' = [caller EXCEPT ![c] = "borrowed"]
  /\ UNCHANGED <<busy, waiting, calls, user, life>>

GiveBack(c) ==
  /\ caller[c] = "borrowed"
  /\ rcptable_unref
  /\ caller' = [caller EXCEPT ![c] = "idle"]
  /\ UNCHANGED <<busy, waiting, calls, user, life>>

(* task_prwait *)
PrwaitGet(c) ==
  /\ caller[c] = "idle"
  /\ rcptable_get
  /\ caller' = [caller EXCEPT ![c] = "wait"]
  /\ UNCHANGED <<busy, waiting, calls, user, life>>

(* event_wait joins the queue, whether or not the event is defunct. *)
PrwaitQueue(c) ==
  /\ caller[c] = "wait"
  /\ waiting' = waiting \cup {c}
  /\ caller' = [caller EXCEPT ![c] = "queued"]
  /\ UNCHANGED <<entry, busy, calls, user, life>>

(* It returns -1 to a caller that is to abort: at once, or from the queue,
   where its entry stays. *)
PrwaitAbort(c) ==
  /\ caller[c] \in {"wait", "queued"}
  /\ caller' = [caller EXCEPT ![c] = "woken"]
  /\ UNCHANGED <<entry, busy, waiting, calls, user, life>>

(* Mutant of PrwaitReturn: the entry is not given back. *)
prwait_keeps_ref(c) ==
  /\ caller[c] = "woken"
  /\ caller' = [caller EXCEPT ![c] = IF ecode THEN "exited" ELSE "idle"]
  /\ UNCHANGED <<entry, busy, waiting, calls, user, life>>

(* Reads ecode, also after -EINTR, and gives the entry back. *)
PrwaitReturn(c) ==
  /\ caller[c] = "woken"
  /\ rcptable_unref
  /\ caller' = [caller EXCEPT ![c] = IF ecode THEN "exited" ELSE "idle"]
  /\ UNCHANGED <<busy, waiting, calls, user, life>>

(* A caller that entered the kernel after its own killer found it outside is
   killed where it stands, and its reference stays. *)
CallerKilled(c) ==
  /\ caller[c] \in {"borrowed", "wait", "woken"}
  /\ caller' = [caller EXCEPT ![c] = "dead"]
  /\ UNCHANGED <<entry, busy, waiting, calls, user, life>>

-----------------------------------------------------------------------------
(* System calls of the process's threads: task_tuse to task_trelease.  The call
   lasts as long as somebody works for it. *)
EnterKernel(t) ==
  /\ t \in alive \ inside
  /\ inside' = inside \cup {t}
  /\ UNCHANGED <<entry, busy, waiting, deaf, caller, user, life>>

(* A thread that was told to abort goes to sleep without a look at that, or
   waits in a loop that takes no notice of it (syscall_sleep, cbufm_wait). *)
FallDeaf(t) ==
  /\ killer = "threads" /\ t \in alive \cap inside
  /\ user[t] = "idle"
  /\ deaf' = deaf \cup {t}
  /\ UNCHANGED <<entry, busy, waiting, inside, caller, user, life>>

LeaveKernel(t) ==
  /\ t \in alive \cap inside
  /\ user[t] = "idle"
  /\ inside' = inside \ {t} /\ deaf' = deaf \ {t}
  /\ UNCHANGED <<entry, busy, waiting, caller, user, life>>

(* task_pruse: get, count, unref. *)
PruseGet(t) ==
  /\ t \in alive \cap inside
  /\ user[t] = "idle"
  /\ rcptable_get
  /\ user' = [user EXCEPT ![t] = "counting"]
  /\ UNCHANGED <<busy, waiting, calls, caller, life>>

PruseCount(t) ==
  /\ user[t] = "counting"
  /\ busy' = busy + 1
  /\ user' = [user EXCEPT ![t] = "counted"]
  /\ UNCHANGED <<entry, waiting, calls, caller, life>>

PruseUnref(t) ==
  /\ user[t] = "counted"
  /\ rcptable_unref
  /\ user' = [user EXCEPT ![t] = "using"]
  /\ UNCHANGED <<busy, waiting, calls, caller, life>>

(* task_prrelease: get, count, unref; nothing for an entry that is no longer
   present. *)
PrreleaseGet(t) ==
  /\ user[t] = "using"
  /\ \/ rcptable_get /\ user' = [user EXCEPT ![t] = "releasing"]
     \/ ~present /\ user' = [user EXCEPT ![t] = "idle"] /\ UNCHANGED entry
  /\ UNCHANGED <<busy, waiting, calls, caller, life>>

PrreleaseCount(t) ==
  /\ user[t] = "releasing"
  /\ busy' = busy - 1
  /\ user' = [user EXCEPT ![t] = "released"]
  /\ UNCHANGED <<entry, waiting, calls, caller, life>>

PrreleaseUnref(t) ==
  /\ user[t] = "released"
  /\ rcptable_unref
  /\ user' = [user EXCEPT ![t] = "idle"]
  /\ UNCHANGED <<busy, waiting, calls, caller, life>>

-----------------------------------------------------------------------------
(* _task_prkill_async *)

others == <<calls, caller, user>>

KillGet ==
  /\ killer = "start"
  /\ rcptable_get
  /\ killer' = "remove"
  /\ UNCHANGED <<busy, waiting, ecode, disposed, alive, quiet, others>>

(* Mutant of KillRemove: the process stays in the table. *)
remove_nothing ==
  /\ killer = "remove"
  /\ killer' = "threads"
  /\ UNCHANGED <<entry, busy, waiting, ecode, disposed, alive, quiet, others>>

KillRemove ==
  /\ killer = "remove"
  /\ rcptable_remove
  /\ killer' = "threads"
  /\ UNCHANGED <<busy, waiting, ecode, disposed, alive, quiet, others>>

(* task_tkill waits until the thread is out of the kernel, ... *)
Killable(t) == t \in alive \ inside

FindQuiet(t) ==
  /\ killer = "threads" /\ alive \cap quiet = {}
  /\ Killable(t)
  /\ quiet' = quiet \cup {t}
  /\ UNCHANGED <<entry, busy, waiting, ecode, disposed, alive, killer, others>>

(* ... and ends it, wherever it is by then. *)
KillThread(t) ==
  /\ killer = "threads" /\ t \in alive \cap quiet
  /\ alive' = alive \ {t}
  /\ UNCHANGED <<entry, busy, waiting, ecode, disposed, quiet, killer, others>>

(* The cleaner goes to sleep over the request, until somebody else's makes it
   look again. *)
CleanerMisses ==
  /\ killer = "threads" /\ alive \cap quiet # {}
  /\ killer' = "unheard"
  /\ UNCHANGED <<entry, busy, waiting, ecode, disposed, alive, quiet, others>>

CleanerLooks ==
  /\ killer = "unheard"
  /\ killer' = "threads"
  /\ UNCHANGED <<entry, busy, waiting, ecode, disposed, alive, quiet, others>>

ThreadsKilled ==
  /\ killer = "threads"
  /\ alive = {}
  /\ killer' = "busy"
  /\ UNCHANGED <<entry, busy, waiting, ecode, disposed, alive, quiet, others>>

(* The loop on process->busy ends; the exit code is set. *)
KillBusy ==
  /\ killer = "busy"
  /\ busy = 0
  /\ ecode' = TRUE
  /\ killer' = "signal"
  /\ UNCHANGED <<entry, busy, waiting, disposed, alive, quiet, others>>

(* event_defunct wakes everybody who waits. *)
KillSignal ==
  /\ killer = "signal"
  /\ caller' = [c \in Callers |-> IF c \in waiting /\ caller[c] = "queued"
                              THEN "woken" ELSE caller[c]]
  /\ waiting' = {}
  /\ killer' = "refs"
  /\ UNCHANGED <<entry, busy, ecode, disposed, alive, quiet, calls, user>>

(* Mutant of OnlyMine: one reference too many is let pass. *)
one_other == refs <= 2

OnlyMine == refs <= 1

(* The loop on rcptable_refcount ends. *)
KillRefs ==
  /\ killer = "refs"
  /\ OnlyMine
  /\ killer' = "dispose"
  /\ UNCHANGED <<entry, busy, waiting, ecode, disposed, alive, quiet, others>>

Dispose ==
  /\ killer = "dispose"
  /\ disposed' = TRUE
  /\ killer' = "unref"
  /\ UNCHANGED <<entry, busy, waiting, ecode, alive, quiet, others>>

(* The walk over the pagemap may come to no end (module Paging). *)
WalkForGood ==
  /\ killer = "dispose"
  /\ killer' = "walking"
  /\ UNCHANGED <<entry, busy, waiting, ecode, disposed, alive, quiet, others>>

KillUnref ==
  /\ killer = "unref"
  /\ rcptable_unref
  /\ killer' = "done"
  /\ UNCHANGED <<busy, waiting, ecode, disposed, alive, quiet, others>>

-----------------------------------------------------------------------------
CallerStep(c) == GiveBack(c) \/ PrwaitQueue(c) \/ PrwaitReturn(c)

UserStep(t) ==
  \/ PruseCount(t) \/ PruseUnref(t)
  \/ PrreleaseGet(t) \/ PrreleaseCount(t) \/ PrreleaseUnref(t)

KillStep ==
  \/ KillRemove
  \/ \E t \in Threads : FindQuiet(t) \/ KillThread(t)
  \/ ThreadsKilled \/ KillBusy \/ KillSignal \/ KillRefs \/ Dispose \/ KillUnref

Next ==
  \/ \E c \in Callers :
       \/ Borrow(c) \/ PrwaitGet(c) \/ CallerStep(c)
       \/ PrwaitAbort(c) \/ CallerKilled(c)
  \/ \E t \in Threads :
       \/ EnterKernel(t) \/ FallDeaf(t) \/ LeaveKernel(t)
       \/ PruseGet(t) \/ UserStep(t)
  \/ KillGet \/ KillStep \/ CleanerMisses \/ CleanerLooks \/ WalkForGood

Spec == Init /\ [][Next]_vars

(* A thread that was told to abort and hears of it leaves the kernel. *)
AbortHeard(t) == killer = "threads" /\ t \notin deaf /\ LeaveKernel(t)

(* Threads that can run get the CPU again and again.  The killer's loops look
   at thread->busy whenever they run; a thread that was told to abort blocks
   when it leaves the kernel (task_trelease), so they find it outside. *)
FairSpec ==
  /\ Spec
  /\ SF_vars(KillStep)
  /\ \A c \in Callers : WF_vars(CallerStep(c))
  /\ \A t \in Threads : WF_vars(UserStep(t)) /\ WF_vars(AbortHeard(t))

-----------------------------------------------------------------------------
(* Those that hold a reference to the entry. *)
Borrowers ==
  {c \in Callers : caller[c] \in {"borrowed", "wait", "queued", "woken", "dead"}}
Counters ==
  {t \in Threads : user[t] \in {"counting", "counted", "releasing", "released"}}
KillerHolds == killer \notin {"start", "done"}

(* Those between a task_pruse that succeeded and its task_prrelease. *)
InUse == {t \in Threads : user[t] \in {"counted", "using", "releasing"}}

(* The references of the entry are exact: one for being in the table and one
   for each pointer somebody holds, or held when killed.  So is busy, until the
   process leaves the table: then a task_prrelease counts no more, and what it
   should have taken back stays. *)
RefsExact ==
  /\ refs = Cardinality(Borrowers) + Cardinality(Counters)
          + (IF present THEN 1 ELSE 0) + (IF KillerHolds THEN 1 ELSE 0)
  /\ present => busy = Cardinality(InUse)
  /\ busy >= Cardinality(InUse)

(* Whoever holds a pointer to the process, or works for one of its threads,
   finds it whole.  _task_prkill_async waits until all references but its own
   are gone, and nobody gets one after it took the process out of the table;
   task_pruse gives its reference back at once, but the thread it works for is
   in a system call, which task_tkill waits for. *)
UsedNotDisposed == disposed => Borrowers \cup Counters \cup InUse = {}

(* What keeps task_prkill from ending: a count that was not taken back, a
   task_prwait that joined the queue of the event after it was defunct, one that
   was killed with a reference, a thread that never leaves the kernel, a cleaner
   that sleeps over a request and a pagemap without end. *)
CountLost == busy > Cardinality(InUse)
LateWaiter == /\ killer \in {"refs", "dispose", "unref"}
              /\ \E c \in Callers : caller[c] = "queued"
Stranded == \/ deaf # {} \/ killer \in {"unheard", "walking"}
            \/ \E c \in Callers : caller[c] = "dead"

(* task_prkill ends, if none of these happens: it never waits for somebody who
   waits for it, and there is no other way for it to hang. *)
PrkillEnds ==
  [](~CountLost /\ ~LateWaiter /\ ~Stranded)
    => (killer = "remove" ~> killer = "done")

=============================================================================
