------------------------------ MODULE ShedLoop ------------------------------
(***************************************************************************)
(* The search loop of task_shed_choose as proc/task.c writes it, on every  *)
(* small thread table.  Task states what the loop selects in closed form;  *)
(* here that form is checked against the loop.  thread_count is never      *)
(* decremented, so it may exceed the highest slot in use, and a thread may *)
(* be taken without being current, as the loop provides for.               *)
(***************************************************************************)
EXTENDS Task

CONSTANT MaxCount   \* bound on thread_count, at least MaxTid

VARIABLE thread_count

loopVars == <<taskVars, thread_count>>

(* thread_get(tid) == NULL, beyond the array or in an empty slot. *)
IsNull(tid) == tid \notin Slots \/ status[tid] = "NULL"

(* The inner while: skip empty slots, up to thread_count + 1. *)
RECURSIVE SkipNull(_)
SkipNull(tid) ==
  IF IsNull(tid) /\ tid <= thread_count THEN SkipNull(tid + 1) ELSE tid

(* Mutant of Bound: one iteration is missing. *)
bound_short == thread_count - 1

(* The loop runs while i <= Bound. *)
Bound == thread_count

(* The for loop from iteration i on, with its locals; st is what it has made
   of the statuses so far. *)
RECURSIVE Search(_, _, _, _)
Search(i, tid, selected, st) ==
  IF i > Bound THEN [tid |-> selected, taken |-> FALSE, status |-> st]
  ELSE LET n   == SkipNull(tid + 1)
           due == st[n] = "SLEEPING" /\ sleep_left[n] < 0
           st2 == IF due THEN [st EXCEPT ![n] = "RUNNABLE"] ELSE st
       IN  IF n > thread_count THEN Search(i + 1, 0, selected, st)
           ELSE IF st[n] # "RUNNABLE" /\ ~due
                THEN Search(i + 1, n, selected, st)
           ELSE IF Released[n] THEN Search(i + 1, n, n, st2)
           ELSE [tid |-> n, taken |-> TRUE, status |-> st2]

(* task_shed_choose with its loop. *)
ChooseByLoop ==
  LET r == Search(0, last_tid, Idle, status)
  IN  /\ reshed_block <= 0
      /\ should_reshed' = FALSE
      /\ status' = r.status
      /\ running' = IF r.taken THEN [Released EXCEPT ![r.tid] = TRUE]
                               ELSE Released
      /\ current_tid' = r.tid
      /\ last_tid' = IF r.tid = Idle THEN last_tid ELSE r.tid
      /\ UNCHANGED <<sleep_left, reshed_block, thread_count>>

(* Every table of up to MaxTid threads, with the CPU anywhere in it. *)
LoopInit ==
  /\ status \in {st \in [Slots -> {"NULL", "RUNNABLE", "BLOCKED", "SLEEPING"}] :
                   st[Idle] = "RUNNABLE"}
  /\ running \in {r \in [Slots -> BOOLEAN] :
                    \A t \in Slots : r[t] => t # Idle /\ status[t] # "NULL"}
  /\ sleep_left \in {l \in [Slots -> {-1, 0}] :
                       \A t \in Slots : l[t] = 0 => status[t] = "SLEEPING"}
  /\ current_tid \in Slots
  /\ last_tid \in Tids
  /\ reshed_block = 0
  /\ should_reshed \in BOOLEAN
  /\ thread_count \in MaxTid .. MaxCount

(* Whatever the table, the loop ends with the thread, the statuses and the
   marks that the closed form of task_shed_choose gives: it looks at every
   thread once, in the order of Distance, before it settles for idle. *)
LoopIsClosedForm == [][ChooseByLoop => task_shed_choose]_loopVars
=============================================================================
