-------------------------- MODULE ThreadKillProofs --------------------------
(***************************************************************************)
(* The end of threads for any number of killers, victims and threads that  *)
(* kill themselves, under every interleaving the timer allows: what was    *)
(* declared dead stays off the CPU, a thread is freed only once it is      *)
(* dead, taken and not to be found, and task_tkill does not return before. *)
(***************************************************************************)
EXTENDS ThreadKill, TLAPS

(* Little of this is arithmetic: the leaves that need SMT name it. *)
USE Zenon DEF procVars, mailVars

KillerPCs == {"remove", "prepare", "kill", "busywait", "set_dead", "take",
              "unlist", "post", "wake", "wake_retry", "retry_yield", "wait",
              "returned"}
AsyncPCs == {"func", "kill", "post", "wake", "wake_retry", "retry_yield",
             "abandon", "suicide"}
VictimPCs == {"user", "sys", "sys_yield", "sys_woken", "bytes", "bytes_yield",
              "bytes_woken", "sleep_yield", "slept", "aborted",
              "aborted_yield"}
CleanerPCs == {"read", "block", "read_yield", "clean_dead", "clean_take",
               "clean", "report", "empty"}

Roles == {Cleaner} \cup Killers \cup Victims \cup Asyncs
PCs == KillerPCs \cup AsyncPCs \cup VictimPCs \cup CleanerPCs \cup {"idle"}

(* Every thread is, and will be resumed, in the code of its role. *)
Placed(f) ==
  /\ f \in [Slots -> PCs]
  /\ f[Cleaner] \in CleanerPCs
  /\ \A k \in Killers : f[k] \in KillerPCs
  /\ \A v \in Victims : f[v] \in VictimPCs
  /\ \A a \in Asyncs : f[a] \in AsyncPCs
  /\ \A t \in Slots \ Roles : f[t] = "idle"

Requests == {Idle} \cup Killers \cup Asyncs

(* Nobody holds a lock across steps; a release too many is possible. *)
Unblocked == reshed_block \in Int /\ reshed_block <= 0

TypeOK ==
  /\ TaskTypeOK /\ Unblocked
  /\ Placed(pc) /\ Placed(saved)
  /\ abandoned \in BOOLEAN
  /\ done \in [Slots -> BOOLEAN]
  /\ mailbox \in Requests /\ posted \in Requests

(* A thread off the CPU resumes where it stopped, except that one that kills
   itself may have stopped further on than its saved context says. *)
ContextsKept ==
  /\ abandoned => current_tid \in Asyncs
  /\ \A t \in Slots : t # current_tid /\ t \notin Asyncs => saved[t] = pc[t]

(* Only those that somebody kills are ever dead or freed. *)
OnlyKilledDie ==
  \A t \in Slots : status[t] \in {"DEAD", "NULL"} => t \in Victims \cup Asyncs

(* Before the killer declares its victim dead, and after. *)
Early == {"remove", "prepare", "kill", "busywait", "set_dead"}
Unlisting == {"post", "wake_retry", "retry_yield"}
Asked == {"wake", "wait", "returned"}

Freed(k) == done[k] \/ (posted = k /\ pc[Cleaner] = "report")

(* How far the kill of VictimOf[k] has come, in all the places that show it:
   the killer's pc, the victim, the mailbox and the cleaner. *)
Progress(k) ==
  LET v == VictimOf[k] IN
  /\ pc[k] \in Early => status[v] \notin {"DEAD", "NULL"}
  /\ pc[k] = "take" => status[v] = "DEAD"
  /\ pc[k] \in {"unlist"} \cup Unlisting \cup Asked /\ ~Freed(k)
       => status[v] = "DEAD" /\ running[v]
  /\ pc[k] # "remove" => v \notin Found
  /\ Freed(k) => pc[k] \in Asked /\ status[v] = "NULL"
  /\ mailbox = k => pc[k] \in Asked
  /\ pc[k] \in Asked /\ ~done[k] => mailbox = k
  /\ pc[k] = "returned" => done[k]
  /\ done[k] /\ mailbox = k => pc[Cleaner] = "empty"

KillsProgress == \A k \in Killers : Progress(k)

(* A thread that kills itself is off its process's list, or its process out of
   the table, before it asks to be freed, also when its old context makes it
   ask again. *)
Leaving == {"post", "wake", "wake_retry", "retry_yield", "abandon", "suicide"}

AsyncsUnlisted ==
  \A a \in Asyncs :
    pc[a] \in Leaving \/ saved[a] \in Leaving \/ mailbox = a => a \notin Found

(* The request the cleaner works on stays in the mailbox. *)
CleanerWorks ==
  LET l == pc[Cleaner] IN
  /\ l \in {"clean_dead", "clean_take", "clean", "report", "empty"}
       => posted = mailbox /\ posted # Idle
  /\ l \in {"clean_dead", "clean_take"} => posted \in Asyncs
  /\ l = "clean_take" => status[posted] = "DEAD"
  /\ l = "clean" /\ posted \in Asyncs
       => status[posted] = "DEAD" /\ running[posted]
  /\ l = "empty" /\ posted \in Killers => done[posted]

IInv ==
  /\ TypeOK
  /\ DeadStaysOff
  /\ ContextsKept
  /\ OnlyKilledDie
  /\ KillsProgress
  /\ AsyncsUnlisted
  /\ CleanerWorks

-----------------------------------------------------------------------------
LEMMA RoleFacts ==
  /\ Tids \subseteq Slots /\ Idle \in Slots /\ Idle \notin Tids /\ 1 \in Tids
  /\ Roles \subseteq Tids /\ Cleaner \in Roles
  /\ Killers \subseteq Roles /\ Victims \subseteq Roles
  /\ Asyncs \subseteq Roles
  /\ Cleaner \notin Killers /\ Cleaner \notin Victims /\ Cleaner \notin Asyncs
  /\ \A k \in Killers : k \notin Victims /\ k \notin Asyncs
  /\ \A v \in Victims : v \notin Asyncs
  /\ \A k \in Killers : VictimOf[k] \in Victims
  /\ \A j, k \in Killers : j # k => VictimOf[j] # VictimOf[k]
  <1>1. /\ Tids \subseteq Slots /\ Idle \in Slots /\ Idle \notin Tids
        /\ 1 \in Tids
    BY SMT, MaxTidAssumption DEF Tids, Slots, Idle
  <1> QED
    BY <1>1, RolesAssumption DEF Roles

(* The code a thread is in tells its role. *)
LEMMA WhoseCode ==
  ASSUME Placed(pc), NEW t \in Slots
  PROVE  /\ pc[t] \in CleanerPCs => t = Cleaner
         /\ pc[t] \in VictimPCs => t \in Victims
         /\ pc[t] \in {"func", "abandon", "suicide"} => t \in Asyncs
         /\ pc[t] \in {"remove", "prepare", "busywait", "set_dead", "take",
                       "unlist", "wait"}
              => t \in Killers
         /\ pc[t] \in {"kill", "post", "wake", "wake_retry", "retry_yield"}
              => t \in Killers \cup Asyncs
  <1>1. \/ t = Cleaner \/ t \in Killers \/ t \in Victims \/ t \in Asyncs
        \/ t \in Slots \ Roles
    BY DEF Roles
  <1> QED
    BY ZenonT(30), <1>1 DEF Placed, CleanerPCs, KillerPCs, VictimPCs, AsyncPCs

LEMMA InitIInv == Init => IInv
  <1> SUFFICES ASSUME Init PROVE IInv
    OBVIOUS
  <1>1. TaskTypeOK /\ Unblocked
    <2>1. /\ status \in [Slots -> Statuses] /\ sleep_left \in [Slots -> Int]
          /\ current_tid \in Slots /\ last_tid \in Tids /\ reshed_block = 0
      BY SMT, RoleFacts DEF Init, task_init, Statuses
    <2>2. running \in [Slots -> BOOLEAN] /\ should_reshed \in BOOLEAN
      BY DEF Init, task_init
    <2> QED
      BY SMT, <2>1, <2>2 DEF TaskTypeOK, Unblocked
  <1>p. /\ pc[Cleaner] = "read"
        /\ \A k \in Killers : pc[k] = "remove"
        /\ \A v \in Victims : pc[v] = "user"
        /\ \A a \in Asyncs : pc[a] = "func"
        /\ \A t \in Slots \ Roles : pc[t] = "idle"
    <2>1. ASSUME NEW t \in Slots
          PROVE  pc[t] = CASE t = Cleaner -> "read"
                           [] t \in Killers -> "remove"
                           [] t \in Victims -> "user"
                           [] t \in Asyncs -> "func"
                           [] OTHER -> "idle"
      BY DEF Init
    <2>2. pc[Cleaner] = "read"
      BY RoleFacts, <2>1
    <2>3. ASSUME NEW k \in Killers PROVE pc[k] = "remove"
      BY RoleFacts, <2>1
    <2>4. ASSUME NEW v \in Victims PROVE pc[v] = "user"
      BY RoleFacts, <2>1
    <2>5. ASSUME NEW a \in Asyncs PROVE pc[a] = "func"
      BY RoleFacts, <2>1
    <2>6. ASSUME NEW t \in Slots \ Roles PROVE pc[t] = "idle"
      BY <2>1 DEF Roles
    <2> QED
      BY <2>2, <2>3, <2>4, <2>5, <2>6
  <1>2. Placed(pc)
    <2>1. pc \in [Slots -> PCs]
      BY DEF Init, PCs, CleanerPCs, KillerPCs, VictimPCs, AsyncPCs
    <2> QED
      BY <1>p, <2>1 DEF Placed, CleanerPCs, KillerPCs, VictimPCs, AsyncPCs
  <1>3. abandoned \in BOOLEAN /\ done \in [Slots -> BOOLEAN]
    BY DEF Init
  <1>4. TypeOK
    BY <1>1, <1>2, <1>3 DEF TypeOK, Init, Requests
  <1>5. /\ \A t \in Slots : status[t] = "RUNNABLE" /\ ~running[t] /\ ~done[t]
        /\ current_tid \in Slots /\ mailbox = Idle /\ posted = Idle
        /\ ~abandoned
        /\ saved = pc
    BY RoleFacts DEF Init, task_init
  <1>6. DeadStaysOff /\ ContextsKept /\ OnlyKilledDie
    BY RoleFacts, <1>5 DEF DeadStaysOff, ContextsKept, OnlyKilledDie
  <1>7. KillsProgress
    BY RoleFacts, <1>5, <1>p
    DEF KillsProgress, Progress, Freed, Early, Unlisting, Asked
  <1>8. AsyncsUnlisted /\ CleanerWorks
    BY RoleFacts, <1>5, <1>p DEF AsyncsUnlisted, CleanerWorks, Leaving
  <1> QED
    BY <1>4, <1>6, <1>7, <1>8 DEF IInv

(* One call of task_shed_choose: nobody dies of it or comes back to life, the
   dead keep who took them, and the thread that gets the CPU is alive. *)
LEMMA ShedKeeps ==
  ASSUME TypeOK, DeadStaysOff, OnlyKilledDie, task_shed_choose
  PROVE  /\ status' \in [Slots -> Statuses] /\ running' \in [Slots -> BOOLEAN]
         /\ current_tid' \in Slots /\ last_tid' \in Tids
         /\ should_reshed' \in BOOLEAN
         /\ \A t \in Slots, d \in {"DEAD", "NULL"} :
              status'[t] = d <=> status[t] = d
         /\ \A t \in Slots : status[t] = "DEAD" => running'[t] = running[t]
         /\ DeadStaysOff'
  <1>1. /\ status \in [Slots -> Statuses] /\ running \in [Slots -> BOOLEAN]
        /\ current_tid \in Slots /\ last_tid \in Tids
    BY DEF TypeOK, TaskTypeOK
  <1>2. PICK s \in Slots : Selects(s) /\ EnterThread(s)
    BY SMT DEF task_shed_choose, TypeOK, Unblocked
  <1>3. should_reshed' = FALSE /\ current_tid' = s /\ last_tid' \in Tids
    <2>1. s # Idle => s \in Tids
      BY SMT DEF Tids, Slots, Idle
    <2> QED
      BY SMT, <1>1, <1>2, <2>1 DEF task_shed_choose, TypeOK, Unblocked, EnterThread
  <1>4. \A t \in Slots : Ready(t) => status[t] \in {"RUNNABLE", "SLEEPING"}
    BY DEF Ready
  <1>5. Takeable = ReadySet
    <2>1. \A t \in ReadySet : ~Released[t]
      BY RoleFacts, <1>1, <1>4 DEF ReadySet, Released, DeadStaysOff
    <2> QED
      BY <2>1 DEF Takeable
  <1>6. s \in ReadySet \/ (s = Idle /\ ReadySet = {})
    BY <1>2, <1>5 DEF Selects
  <1>7. status[s] \notin {"DEAD", "NULL"}
    BY RoleFacts, <1>4, <1>6 DEF ReadySet, OnlyKilledDie
  <1>8. status' \in [Slots -> Statuses]
    BY <1>1, <1>2 DEF EnterThread, Statuses
  <1>9. \A t \in Slots :
          \/ status'[t] = status[t]
          \/ status[t] = "SLEEPING" /\ status'[t] = "RUNNABLE"
    BY <1>2 DEF EnterThread
  <1>10. running' \in [Slots -> BOOLEAN]
    BY <1>1, <1>2 DEF EnterThread, Released
  <1>11. \A t \in Slots :
           t # s => running'[t] = (running[t] /\ t # current_tid)
    BY <1>1, <1>2 DEF EnterThread, Released
  <1>12. \A t \in Slots : status[t] = "DEAD" => t # s /\ t # current_tid
    BY <1>7 DEF DeadStaysOff
  <1>13. DeadStaysOff'
    BY RoleFacts, <1>1, <1>3, <1>7, <1>9, <1>11 DEF DeadStaysOff
  <1>14. \A t \in Slots : status[t] = "DEAD" => running'[t] = running[t]
    BY <1>1, <1>10, <1>11, <1>12
  <1>15. \A t \in Slots, d \in {"DEAD", "NULL"} :
           status'[t] = d <=> status[t] = d
    BY <1>9
  <1>16. should_reshed' \in BOOLEAN
    BY <1>3
  <1> QED
    BY <1>3, <1>8, <1>10, <1>13, <1>14, <1>15, <1>16

(* Where the cleaner is between two requests makes no difference to a kill. *)
Waiting == {"read", "block", "read_yield"}

(* What leaves the progress of k's kill alone. *)
LEMMA ProgressFrame ==
  ASSUME NEW k \in Killers, Progress(k),
         pc'[k] = pc[k] \/ (pc[k] = "retry_yield" /\ pc'[k] = "post"),
         \/ pc'[Cleaner] = pc[Cleaner]
         \/ pc[Cleaner] \in Waiting /\ pc'[Cleaner] \in Waiting,
         posted' = posted, done'[k] = done[k], mailbox' = k <=> mailbox = k,
         VictimOf[k] \in Found' => VictimOf[k] \in Found,
         \A d \in {"DEAD", "NULL"} :
           status'[VictimOf[k]] = d <=> status[VictimOf[k]] = d,
         status[VictimOf[k]] = "DEAD" /\ running[VictimOf[k]]
           => running'[VictimOf[k]]
  PROVE  Progress(k)'
  <1>1. Freed(k)' <=> Freed(k)
    BY DEF Freed, Waiting
  <1>2. pc'[k] \in Early => pc[k] \in Early
    BY DEF Early
  <1>3. pc'[k] \in Unlisting <=> pc[k] \in Unlisting
    BY DEF Unlisting
  <1>4. pc'[k] \in Asked <=> pc[k] \in Asked
    BY DEF Asked
  <1>5. pc'[k] \in {"take", "unlist", "returned"} => pc'[k] = pc[k]
    OBVIOUS
  <1>6. pc[Cleaner] = "empty" => pc'[Cleaner] = "empty"
    BY DEF Waiting
  <1> QED
    BY SMT, <1>1, <1>2, <1>3, <1>4, <1>5, <1>6 DEF Progress

(* A switch by a thread that goes on at l, a place as far as the one it was
   at. *)
LEMMA SwitchKeeps ==
  ASSUME IInv, NEW l \in PCs, Switch(l),
         UNCHANGED <<Found, mailbox, posted, done>>,
         Placed([pc EXCEPT ![current_tid] = l]),
         current_tid \in Killers =>
           \/ l = pc[current_tid]
           \/ pc[current_tid] = "retry_yield" /\ l = "post",
         current_tid = Cleaner =>
           \/ l = pc[current_tid]
           \/ pc[current_tid] = "read_yield" /\ l = "read",
         current_tid \in Asyncs /\ l \in Leaving => pc[current_tid] \in Leaving
  PROVE  IInv'
  <1> DEFINE ctx == IF abandoned THEN saved
                    ELSE [saved EXCEPT ![current_tid] = l]
  <1>0. /\ TypeOK /\ DeadStaysOff /\ ContextsKept /\ OnlyKilledDie
        /\ KillsProgress /\ AsyncsUnlisted /\ CleanerWorks
    BY DEF IInv
  <1>1. /\ current_tid \in Slots /\ pc \in [Slots -> PCs]
        /\ saved \in [Slots -> PCs]
    BY <1>0 DEF TypeOK, TaskTypeOK, Placed
  <1>2. /\ task_shed_choose /\ saved' = ctx /\ abandoned' = FALSE
        /\ pc' = [pc EXCEPT ![current_tid] = l,
                            ![current_tid'] = ctx[current_tid']]
        /\ UNCHANGED <<sleep_left, reshed_block>>
    BY DEF Switch, me
  <1>3. /\ status' \in [Slots -> Statuses] /\ running' \in [Slots -> BOOLEAN]
        /\ current_tid' \in Slots /\ last_tid' \in Tids
        /\ should_reshed' \in BOOLEAN
        /\ \A t \in Slots, d \in {"DEAD", "NULL"} :
             status'[t] = d <=> status[t] = d
        /\ \A t \in Slots : status[t] = "DEAD" => running'[t] = running[t]
        /\ DeadStaysOff'
    BY <1>0, <1>2, ShedKeeps
  <1>4. Placed(ctx) /\ ctx \in [Slots -> PCs]
    BY SMT, <1>0, <1>1 DEF TypeOK, Placed
  <1> HIDE DEF ctx
  <1>5. /\ \A t \in Slots :
             t # current_tid => pc'[t] = pc[t] \/ pc'[t] = ctx[t]
        /\ pc'[current_tid] = l \/ pc'[current_tid] = ctx[current_tid]
        /\ pc' \in [Slots -> PCs]
        /\ pc'[current_tid'] = ctx[current_tid']
        /\ \A t \in Slots :
             t # current_tid /\ t # current_tid' => pc'[t] = pc[t]
    BY <1>1, <1>2, <1>3, <1>4
  <1>6. \A t \in Slots \ Asyncs :
          /\ ctx[t] = IF t = current_tid THEN l ELSE pc[t]
          /\ pc'[t] = ctx[t]
    <2> SUFFICES ASSUME NEW t \in Slots \ Asyncs
                 PROVE  /\ ctx[t] = IF t = current_tid THEN l ELSE pc[t]
                        /\ pc'[t] = ctx[t]
      OBVIOUS
    <2>1. ctx[t] = IF t = current_tid THEN l ELSE pc[t]
      BY <1>0, <1>1 DEF ContextsKept, ctx
    <2> QED
      BY <1>1, <1>2, <1>3, <2>1
  <1>7. TypeOK'
    <2>1. Placed(pc)'
      BY SMT, RoleFacts, <1>0, <1>4, <1>5 DEF Placed, TypeOK, Roles
    <2>2. Placed(saved)'
      BY <1>2, <1>4 DEF Placed
    <2>3. abandoned' \in BOOLEAN /\ done' \in [Slots -> BOOLEAN]
      BY <1>0, <1>2 DEF TypeOK
    <2>4. TaskTypeOK' /\ Unblocked'
      BY <1>0, <1>2, <1>3 DEF TypeOK, TaskTypeOK, Unblocked
    <2> QED
      BY <1>0, <2>1, <2>2, <2>3, <2>4 DEF TypeOK
  <1>8. ContextsKept'
    BY <1>2, <1>6 DEF ContextsKept
  <1>9. OnlyKilledDie'
    BY <1>0, <1>3 DEF OnlyKilledDie
  <1>10. pc'[Cleaner] = pc[Cleaner]
         \/ (pc[Cleaner] = "read_yield" /\ pc'[Cleaner] = "read")
    BY RoleFacts, <1>6
  <1>11. KillsProgress'
    <2> SUFFICES ASSUME NEW k \in Killers PROVE Progress(k)'
      BY DEF KillsProgress
    <2>1. Progress(k)
      BY <1>0 DEF KillsProgress
    <2>2. pc'[k] = pc[k] \/ (pc[k] = "retry_yield" /\ pc'[k] = "post")
      BY RoleFacts, <1>6
    <2>3. \/ pc'[Cleaner] = pc[Cleaner]
          \/ pc[Cleaner] \in Waiting /\ pc'[Cleaner] \in Waiting
      BY <1>10 DEF Waiting
    <2>4. VictimOf[k] \in Slots
      BY RoleFacts
    <2> QED
      BY <1>3, <2>1, <2>2, <2>3, <2>4, ProgressFrame
  <1>12. AsyncsUnlisted'
    <2> SUFFICES ASSUME NEW a \in Asyncs,
                        \/ pc'[a] \in Leaving \/ saved'[a] \in Leaving
                        \/ mailbox' = a
                 PROVE  a \notin Found
      BY DEF AsyncsUnlisted
    <2>1. ctx[a] = saved[a] \/ (a = current_tid /\ ctx[a] = l)
      BY SMT, <1>1 DEF ctx
    <2>2. pc[a] \in Leaving \/ saved[a] \in Leaving \/ mailbox = a
      BY SMT, RoleFacts, <1>2, <1>5, <2>1
    <2> QED
      BY <1>0, <2>2 DEF AsyncsUnlisted
  <1>13. CleanerWorks'
    BY RoleFacts, <1>0, <1>3, <1>10 DEF CleanerWorks, TypeOK, Requests
  <1> QED
    BY <1>3, <1>7, <1>8, <1>9, <1>11, <1>12, <1>13 DEF IInv

(* A step of the thread on the CPU that keeps the CPU. *)
LEMMA Moves ==
  ASSUME TypeOK, ContextsKept, NEW l \in PCs, Goto(l),
         Placed([pc EXCEPT ![current_tid] = l]),
         UNCHANGED <<sleep_left, current_tid, last_tid, should_reshed, saved>>,
         reshed_block' = reshed_block \/ Unblocked',
         status' \in [Slots -> Statuses], running' \in [Slots -> BOOLEAN],
         done' \in [Slots -> BOOLEAN], abandoned' \in BOOLEAN,
         abandoned' => current_tid \in Asyncs,
         mailbox' \in Requests, posted' \in Requests
  PROVE  /\ TypeOK' /\ ContextsKept' /\ pc'[current_tid] = l
         /\ \A t \in Slots : t # current_tid => pc'[t] = pc[t]
  <1>1. pc' = [pc EXCEPT ![current_tid] = l] /\ pc \in [Slots -> PCs]
        /\ current_tid \in Slots
    BY DEF Goto, me, TypeOK, TaskTypeOK, Placed
  <1>2. /\ pc'[current_tid] = l
        /\ \A t \in Slots : t # current_tid => pc'[t] = pc[t]
    BY <1>1
  <1>3. Placed(pc)'
    BY <1>1 DEF Placed
  <1>4. Placed(saved)'
    BY DEF TypeOK, Placed
  <1>5. Unblocked'
    BY DEF TypeOK, Unblocked
  <1>8. TaskTypeOK'
    BY <1>5 DEF TypeOK, TaskTypeOK, Unblocked
  <1>6. TypeOK'
    BY <1>3, <1>4, <1>5, <1>8 DEF TypeOK
  <1>7. ContextsKept'
    BY <1>2 DEF ContextsKept
  <1> QED
    BY <1>2, <1>6, <1>7

(* The steps of a victim: it enters, leaves or waits in the kernel. *)
LEMMA VictimActs ==
  ASSUME IInv, current_tid \in Victims, NEW l \in VictimPCs, Goto(l),
         status' = status \/ SetStatus(current_tid, "BLOCKED"),
         reshed_block' = reshed_block \/ Unblocked',
         UNCHANGED <<running, sleep_left, current_tid, last_tid, should_reshed,
                     saved, abandoned, Found, mailbox, posted, done>>
  PROVE  IInv'
  <1>0. /\ TypeOK /\ DeadStaysOff /\ ContextsKept /\ OnlyKilledDie
        /\ KillsProgress /\ AsyncsUnlisted /\ CleanerWorks
    BY DEF IInv
  <1>1. /\ status \in [Slots -> Statuses] /\ running \in [Slots -> BOOLEAN]
        /\ current_tid \in Slots /\ pc \in [Slots -> PCs]
    BY <1>0 DEF TypeOK, TaskTypeOK, Placed
  <1>2. Placed([pc EXCEPT ![current_tid] = l]) /\ l \in PCs
    BY SMT, RoleFacts, <1>0, <1>1 DEF TypeOK, Placed, PCs, Roles
  <1>3. status' \in [Slots -> Statuses]
    BY <1>1 DEF SetStatus, Statuses
  <1>4. /\ TypeOK' /\ ContextsKept' /\ pc'[current_tid] = l
        /\ \A t \in Slots : t # current_tid => pc'[t] = pc[t]
    <2>1. done' \in [Slots -> BOOLEAN] /\ abandoned' \in BOOLEAN
          /\ running' \in [Slots -> BOOLEAN] /\ mailbox' \in Requests
          /\ posted' \in Requests /\ (abandoned' => current_tid \in Asyncs)
      BY <1>0, <1>1 DEF TypeOK, ContextsKept
    <2> QED
      BY <1>0, <1>2, <1>3, <2>1, Moves
  <1>5. /\ \A t \in Slots, d \in {"DEAD", "NULL"} :
             status'[t] = d <=> status[t] = d
        /\ status'[current_tid] \notin {"DEAD", "NULL"}
    BY <1>0, <1>1 DEF SetStatus, DeadStaysOff
  <1>6. DeadStaysOff' /\ OnlyKilledDie'
    BY RoleFacts, <1>0, <1>5 DEF DeadStaysOff, OnlyKilledDie
  <1>7. KillsProgress'
    <2> SUFFICES ASSUME NEW k \in Killers PROVE Progress(k)'
      BY DEF KillsProgress
    <2>1. Progress(k)
      BY <1>0 DEF KillsProgress
    <2>2. pc'[k] = pc[k] /\ pc'[Cleaner] = pc[Cleaner] /\ VictimOf[k] \in Slots
      BY RoleFacts, <1>4
    <2> QED
      BY <1>5, <2>1, <2>2, ProgressFrame
  <1>8. AsyncsUnlisted' /\ CleanerWorks'
    BY RoleFacts, <1>0, <1>4, <1>5
    DEF AsyncsUnlisted, CleanerWorks, TypeOK, Requests
  <1> QED
    BY <1>4, <1>6, <1>7, <1>8 DEF IInv

(* The steps of a thread that kills itself: it may take itself off the list,
   put itself in the empty mailbox and wake the cleaner. *)
LEMMA AsyncActs ==
  ASSUME IInv, current_tid \in Asyncs, NEW l \in AsyncPCs, Goto(l),
         NEW x \in {Cleaner, current_tid},
         status' = status \/ SetStatus(x, "RUNNABLE"),
         abandoned' \in BOOLEAN, Found' \subseteq Found,
         l \in Leaving => current_tid \notin Found',
         \/ mailbox' = mailbox
         \/ /\ mailbox = Idle /\ mailbox' = current_tid
            /\ current_tid \notin Found',
         UNCHANGED <<running, sleep_left, current_tid, last_tid, reshed_block,
                     should_reshed, saved, posted, done>>
  PROVE  IInv'
  <1>0. /\ TypeOK /\ DeadStaysOff /\ ContextsKept /\ OnlyKilledDie
        /\ KillsProgress /\ AsyncsUnlisted /\ CleanerWorks
    BY DEF IInv
  <1>1. /\ status \in [Slots -> Statuses] /\ running \in [Slots -> BOOLEAN]
        /\ current_tid \in Slots /\ pc \in [Slots -> PCs]
    BY <1>0 DEF TypeOK, TaskTypeOK, Placed
  <1>2. Placed([pc EXCEPT ![current_tid] = l]) /\ l \in PCs
    BY SMT, RoleFacts, <1>0, <1>1 DEF TypeOK, Placed, PCs, Roles
  <1>3. status' \in [Slots -> Statuses]
    BY <1>1 DEF SetStatus, Statuses
  <1>4. /\ TypeOK' /\ ContextsKept' /\ pc'[current_tid] = l
        /\ \A t \in Slots : t # current_tid => pc'[t] = pc[t]
    <2>1. done' \in [Slots -> BOOLEAN] /\ running' \in [Slots -> BOOLEAN]
          /\ mailbox' \in Requests /\ posted' \in Requests
      BY <1>0, <1>1 DEF TypeOK, Requests
    <2> QED
      BY <1>0, <1>2, <1>3, <2>1, Moves
  <1>5. /\ \A t \in Slots, d \in {"DEAD", "NULL"} :
             status'[t] = d <=> status[t] = d
        /\ status'[current_tid] \notin {"DEAD", "NULL"}
    BY SMT, RoleFacts, <1>0, <1>1 DEF SetStatus, DeadStaysOff, OnlyKilledDie
  <1>6. DeadStaysOff' /\ OnlyKilledDie'
    BY RoleFacts, <1>0, <1>5 DEF DeadStaysOff, OnlyKilledDie
  <1>7. KillsProgress'
    <2> SUFFICES ASSUME NEW k \in Killers PROVE Progress(k)'
      BY DEF KillsProgress
    <2>1. Progress(k)
      BY <1>0 DEF KillsProgress
    <2>2. pc'[k] = pc[k] /\ pc'[Cleaner] = pc[Cleaner] /\ VictimOf[k] \in Slots
      BY RoleFacts, <1>4
    <2>3. mailbox' = k <=> mailbox = k
      BY RoleFacts
    <2> QED
      BY <1>5, <2>1, <2>2, <2>3, ProgressFrame
  <1>8. AsyncsUnlisted'
    BY RoleFacts, <1>0, <1>4 DEF AsyncsUnlisted
  <1>9. CleanerWorks'
    BY RoleFacts, <1>0, <1>4, <1>5 DEF CleanerWorks, TypeOK, Requests
  <1> QED
    BY <1>4, <1>6, <1>7, <1>8, <1>9 DEF IInv

(* The steps of a killer touch its own victim, and the cleaner's status: the
   other kills go on undisturbed. *)
LEMMA KillerActs ==
  ASSUME IInv, NEW k \in Killers, current_tid = k,
         NEW l \in KillerPCs, Goto(l),
         status' \in [Slots -> Statuses], running' \in [Slots -> BOOLEAN],
         \A t \in Slots :
           t # VictimOf[k] /\ t # Cleaner => status'[t] = status[t],
         status'[Cleaner] \in {status[Cleaner], "RUNNABLE"},
         \A t \in Slots : t # VictimOf[k] => running'[t] = running[t],
         running'[VictimOf[k]] => status'[VictimOf[k]] = "DEAD",
         Found' \subseteq Found,
         mailbox' = mailbox \/ (mailbox = Idle /\ mailbox' = k),
         UNCHANGED <<sleep_left, current_tid, last_tid, reshed_block,
                     should_reshed, saved, abandoned, posted, done>>,
         pc'[k] = l /\ pc'[Cleaner] = pc[Cleaner] => Progress(k)'
  PROVE  IInv'
  <1>0. /\ TypeOK /\ DeadStaysOff /\ ContextsKept /\ OnlyKilledDie
        /\ KillsProgress /\ AsyncsUnlisted /\ CleanerWorks
    BY DEF IInv
  <1>1. /\ status \in [Slots -> Statuses] /\ running \in [Slots -> BOOLEAN]
        /\ current_tid \in Slots /\ pc \in [Slots -> PCs]
    BY <1>0 DEF TypeOK, TaskTypeOK, Placed
  <1>2. Placed([pc EXCEPT ![current_tid] = l]) /\ l \in PCs
    BY SMT, RoleFacts, <1>0, <1>1 DEF TypeOK, Placed, PCs, Roles
  <1>3. /\ TypeOK' /\ ContextsKept' /\ pc'[current_tid] = l
        /\ \A t \in Slots : t # current_tid => pc'[t] = pc[t]
    <2>1. done' \in [Slots -> BOOLEAN] /\ abandoned' \in BOOLEAN
          /\ mailbox' \in Requests /\ posted' \in Requests
          /\ (abandoned' => current_tid \in Asyncs)
      BY <1>0 DEF TypeOK, Requests, ContextsKept
    <2> QED
      BY <1>0, <1>2, <2>1, Moves
  <1>4. \A t \in Slots, d \in {"DEAD", "NULL"} :
          t # VictimOf[k] => (status'[t] = d <=> status[t] = d)
    BY RoleFacts, <1>0 DEF OnlyKilledDie
  <1>5. DeadStaysOff' /\ OnlyKilledDie'
    BY SMT, RoleFacts, <1>0, <1>4 DEF DeadStaysOff, OnlyKilledDie
  <1>6. KillsProgress'
    <2> SUFFICES ASSUME NEW j \in Killers, j # k PROVE Progress(j)'
      BY RoleFacts, <1>3 DEF KillsProgress
    <2>1. Progress(j)
      BY <1>0 DEF KillsProgress
    <2>2. /\ pc'[j] = pc[j] /\ pc'[Cleaner] = pc[Cleaner]
          /\ VictimOf[j] \in Slots /\ VictimOf[j] # VictimOf[k]
      BY RoleFacts, <1>3
    <2>3. mailbox' = j <=> mailbox = j
      BY SMT, RoleFacts
    <2>4. running'[VictimOf[j]] = running[VictimOf[j]]
      BY <2>2
    <2>5. \A d \in {"DEAD", "NULL"} :
            status'[VictimOf[j]] = d <=> status[VictimOf[j]] = d
      BY <1>4, <2>2
    <2> QED
      BY <2>1, <2>2, <2>3, <2>4, <2>5, ProgressFrame
  <1>7. AsyncsUnlisted'
    BY SMT, RoleFacts, <1>0, <1>3 DEF AsyncsUnlisted
  <1>8. CleanerWorks'
    <2>1. \A a \in Asyncs : /\ running'[a] = running[a]
                            /\ status'[a] = "DEAD" <=> status[a] = "DEAD"
      BY SMT, RoleFacts, <1>4
    <2>2. pc'[Cleaner] = pc[Cleaner]
      BY RoleFacts, <1>3
    <2> QED
      BY <1>0, <2>1, <2>2 DEF CleanerWorks
  <1> QED
    BY <1>3, <1>5, <1>6, <1>7, <1>8 DEF IInv

(* task_tkill of another thread, step by step. *)
LEMMA KillerSteps ==
  ASSUME IInv, NEW k \in Killers, current_tid = k,
         \/ RemoveProcess \/ _task_prepare_tkill \/ BeginKill \/ BusyWait
         \/ SetDead \/ TakeVictim \/ Unlist \/ Post \/ WakeCleaner \/ AwaitDone
  PROVE  IInv'
  <1> DEFINE v == VictimOf[k]
  <1>0. /\ TypeOK /\ DeadStaysOff /\ OnlyKilledDie /\ Progress(k)
        /\ CleanerWorks
    BY DEF IInv, KillsProgress
  <1>1. /\ status \in [Slots -> Statuses] /\ running \in [Slots -> BOOLEAN]
        /\ v \in Slots /\ v # k /\ v # Cleaner /\ Target(k) = v /\ me = k
        /\ pc \in [Slots -> PCs] /\ k \in Slots
    BY RoleFacts, <1>0 DEF TypeOK, TaskTypeOK, Placed, Target, me
  <1>2. running[v] => status[v] = "DEAD"
    BY RoleFacts, <1>0, <1>1 DEF DeadStaysOff
  <1> HIDE DEF v
  <1>11. CASE RemoveProcess
    <2>1. /\ pc[k] = "remove" /\ Goto("prepare") /\ Found' = Found \ {v}
          /\ UNCHANGED <<status, running, sleep_left, current_tid, last_tid,
                         reshed_block, should_reshed, saved, abandoned, posted,
                         done, mailbox>>
      BY <1>1, <1>11 DEF RemoveProcess, At, taskVars, Found, v
    <2>2. pc'[k] = "prepare" /\ pc'[Cleaner] = pc[Cleaner] => Progress(k)'
      BY <1>0, <2>1 DEF Progress, Freed, Early, Unlisting, Asked, v
    <2>3. "prepare" \in KillerPCs
      BY DEF KillerPCs
    <2> QED
      BY <1>1, <1>2, <2>1, <2>2, <2>3, KillerActs DEF v
  <1>12. CASE _task_prepare_tkill
    <2>1. pc[k] = "prepare" /\ status[v] \notin {"DEAD", "NULL"}
      BY <1>0, <1>1, <1>12 DEF _task_prepare_tkill, At, Progress, Early, v
    <2>2. /\ status' = [status EXCEPT ![v] = "RUNNABLE"] /\ Goto("kill")
          /\ UNCHANGED <<running, sleep_left, current_tid, last_tid,
                         reshed_block, should_reshed, saved, abandoned, posted,
                         done, mailbox, Found>>
      BY <1>1, <1>12, <2>1 DEF _task_prepare_tkill, SetStatus, SameCPU, Found, v
    <2>3. status' \in [Slots -> Statuses] /\ status'[v] = "RUNNABLE"
          /\ \A t \in Slots : t # v => status'[t] = status[t]
      BY <1>1, <2>2 DEF Statuses
    <2>4. pc'[k] = "kill" /\ pc'[Cleaner] = pc[Cleaner] => Progress(k)'
      BY <1>0, <2>1, <2>2, <2>3 DEF Progress, Freed, Early, Unlisting, Asked, v
    <2>5. "kill" \in KillerPCs
      BY DEF KillerPCs
    <2>6. ~running[v]
      BY <1>2, <2>1
    <2> QED
      BY RoleFacts, <1>1, <2>2, <2>3, <2>4, <2>5, <2>6, KillerActs DEF v
  <1>3. CASE BeginKill
    <2>1. pc[k] = "kill" /\ status[v] \notin {"DEAD", "NULL"}
      BY <1>0, <1>1, <1>3 DEF BeginKill, At, Progress, Early, v
    <2>2. /\ status' = [status EXCEPT ![v] = "RUNNABLE"] /\ Found' = Found
          /\ Goto("busywait")
      BY <1>1, <1>3, <2>1 DEF BeginKill, SetStatus, Found
    <2>3. UNCHANGED <<running, sleep_left, current_tid, last_tid, reshed_block,
                      should_reshed, saved, abandoned, posted, done, mailbox>>
      BY <1>3 DEF BeginKill, SameCPU, Found
    <2>4. status' \in [Slots -> Statuses] /\ status'[v] = "RUNNABLE"
          /\ \A t \in Slots : t # v => status'[t] = status[t]
      BY <1>1, <2>2 DEF Statuses
    <2>5. pc'[k] = "busywait" /\ pc'[Cleaner] = pc[Cleaner] => Progress(k)'
      BY <1>0, <2>1, <2>2, <2>3, <2>4
      DEF Progress, Freed, Early, Unlisting, Asked, v
    <2>6. "busywait" \in KillerPCs
      BY DEF KillerPCs
    <2>7. ~running[v]
      BY <1>2, <2>1
    <2> QED
      BY RoleFacts, <1>1, <2>2, <2>3, <2>4, <2>5, <2>6, <2>7, KillerActs DEF v
  <1>4. CASE BusyWait
    <2>0. pc[k] = "busywait"
      BY <1>1, <1>4 DEF BusyWait, At
    <2>1. CASE Switch("busywait")
      <3>1. UNCHANGED <<Found, mailbox, posted, done>>
        BY <1>4 DEF BusyWait, Found
      <3>2. [pc EXCEPT ![current_tid] = "busywait"] = pc /\ "busywait" \in PCs
        BY <1>1, <2>0
      <3> QED
        BY <1>0, <2>0, <2>1, <3>1, <3>2, SwitchKeeps DEF TypeOK
    <2>2. CASE ~Switch("busywait")
      <3>1. /\ Goto("set_dead")
            /\ UNCHANGED <<taskVars, saved, abandoned, Found, mailbox, posted,
                           done>>
        BY <1>4, <2>2 DEF BusyWait, Found
      <3>2. UNCHANGED <<status, running, sleep_left, current_tid, last_tid,
                        reshed_block, should_reshed>>
        BY <3>1 DEF taskVars
      <3>3. pc'[k] = "set_dead" /\ pc'[Cleaner] = pc[Cleaner] => Progress(k)'
        BY <1>0, <2>0, <3>1, <3>2 DEF Progress, Freed, Early, Unlisting, Asked
      <3>4. "set_dead" \in KillerPCs
        BY DEF KillerPCs
      <3> QED
        BY <1>1, <1>2, <3>1, <3>2, <3>3, <3>4, KillerActs DEF v
    <2> QED
      BY <2>1, <2>2
  <1>5. CASE SetDead
    <2>1. /\ pc[k] = "set_dead" /\ status' = [status EXCEPT ![v] = "DEAD"]
          /\ Goto("take")
          /\ UNCHANGED <<running, sleep_left, current_tid, last_tid,
                         reshed_block, should_reshed, saved, abandoned, posted,
                         done, mailbox, Found>>
      BY <1>1, <1>5 DEF SetDead, SetStatus, SameCPU, At, Found
    <2>2. status' \in [Slots -> Statuses] /\ status'[v] = "DEAD"
          /\ \A t \in Slots : t # v => status'[t] = status[t]
      BY <1>1, <2>1 DEF Statuses
    <2>3. pc'[k] = "take" /\ pc'[Cleaner] = pc[Cleaner] => Progress(k)'
      BY <1>0, <2>1, <2>2 DEF Progress, Freed, Early, Unlisting, Asked, v
    <2>4. "take" \in KillerPCs
      BY DEF KillerPCs
    <2> QED
      BY SMT, <1>1, <2>1, <2>2, <2>3, <2>4, KillerActs DEF v
  <1>6. CASE TakeVictim
    <2>1. /\ pc[k] = "take" /\ running' = [running EXCEPT ![v] = TRUE]
          /\ Goto("unlist")
          /\ UNCHANGED <<status, sleep_left, current_tid, last_tid,
                         reshed_block, should_reshed, saved, abandoned, posted,
                         done, mailbox, Found>>
      BY <1>1, <1>6 DEF TakeVictim, At, Found
    <2>2. running' \in [Slots -> BOOLEAN]
      BY <1>1, <2>1
    <2>3. running'[v] /\ \A t \in Slots : t # v => running'[t] = running[t]
      BY <1>1, <2>1
    <2>4. status[v] = "DEAD"
      BY <1>0, <2>1 DEF Progress, v
    <2>5. pc'[k] = "unlist" /\ pc'[Cleaner] = pc[Cleaner] => Progress(k)'
      BY <1>0, <2>1, <2>3, <2>4 DEF Progress, Freed, Early, Unlisting, Asked, v
    <2>6. "unlist" \in KillerPCs
      BY DEF KillerPCs
    <2> QED
      BY <1>1, <2>1, <2>2, <2>3, <2>4, <2>5, <2>6, KillerActs DEF v
  <1>7. CASE Unlist
    <2>1. /\ pc[k] = "unlist" /\ Found' = Found \ {v} /\ Goto("post")
          /\ UNCHANGED <<status, running, sleep_left, current_tid, last_tid,
                         reshed_block, should_reshed, saved, abandoned, posted,
                         done, mailbox>>
      BY <1>1, <1>7 DEF Unlist, At, taskVars, Found
    <2>2. pc'[k] = "post" /\ pc'[Cleaner] = pc[Cleaner] => Progress(k)'
      BY <1>0, <2>1 DEF Progress, Freed, Early, Unlisting, Asked, v
    <2>3. "post" \in KillerPCs
      BY DEF KillerPCs
    <2> QED
      BY <1>1, <1>2, <2>1, <2>2, <2>3, KillerActs DEF v
  <1>8. CASE Post
    <2> DEFINE l == IF mailbox = Idle THEN "wake" ELSE "wake_retry"
    <2>1. /\ pc[k] = "post" /\ Goto(l)
          /\ mailbox' = IF mailbox = Idle THEN k ELSE mailbox
          /\ UNCHANGED <<status, running, sleep_left, current_tid, last_tid,
                         reshed_block, should_reshed, saved, abandoned, posted,
                         done, Found>>
      BY <1>1, <1>8 DEF Post, At, taskVars, Found
    <2>2. mailbox # k /\ ~Freed(k)
      BY <1>0, <2>1 DEF Progress, Asked
    <2>3. pc'[k] = l /\ pc'[Cleaner] = pc[Cleaner] => Progress(k)'
      BY <1>0, <2>1, <2>2 DEF Progress, Freed, Early, Unlisting, Asked, Idle
    <2>4. l \in KillerPCs
      BY DEF KillerPCs
    <2> HIDE DEF l
    <2> QED
      BY <1>1, <1>2, <2>1, <2>3, <2>4, KillerActs DEF v
  <1>9. CASE WakeCleaner
    <2> DEFINE l == IF pc[k] = "wake_retry" THEN "retry_yield" ELSE "wait"
    <2>1. /\ pc[k] \in {"wake", "wake_retry"}
          /\ status' = [status EXCEPT ![Cleaner] = "RUNNABLE"]
          /\ UNCHANGED <<running, sleep_left, current_tid, last_tid,
                         reshed_block, should_reshed, saved, abandoned, posted,
                         done, mailbox, Found>>
      BY <1>1, <1>9 DEF WakeCleaner, SetStatus, SameCPU, At, Found
    <2>2. Goto(l)
      BY <1>1, <1>9, <2>1 DEF WakeCleaner, Found
    <2>3. /\ status' \in [Slots -> Statuses] /\ status'[Cleaner] = "RUNNABLE"
          /\ \A t \in Slots : t # Cleaner => status'[t] = status[t]
      BY RoleFacts, <1>1, <2>1 DEF Statuses
    <2>4. pc'[k] = l /\ pc'[Cleaner] = pc[Cleaner] => Progress(k)'
      <3>1. status'[v] = status[v]
        BY <1>1, <2>3
      <3> QED
        BY <1>0, <2>1, <3>1 DEF Progress, Freed, Early, Unlisting, Asked, v
    <2>5. l \in KillerPCs
      BY DEF KillerPCs
    <2> HIDE DEF l
    <2>6. running'[v] => status'[v] = "DEAD"
      BY <1>1, <1>2, <2>1, <2>3
    <2> QED
      BY <1>1, <2>1, <2>2, <2>3, <2>4, <2>5, <2>6, KillerActs DEF v
  <1>10. CASE AwaitDone
    <2>0. pc[k] = "wait" /\ UNCHANGED <<Found, mailbox, posted, done>>
      BY <1>1, <1>10 DEF AwaitDone, At, Found
    <2>1. CASE done[k]
      <3>1. /\ Goto("returned")
            /\ UNCHANGED <<status, running, sleep_left, current_tid, last_tid,
                           reshed_block, should_reshed, saved, abandoned>>
        BY <1>1, <1>10, <2>1 DEF AwaitDone, taskVars, Found
      <3>2. pc'[k] = "returned" /\ pc'[Cleaner] = pc[Cleaner] => Progress(k)'
        BY <1>0, <2>0, <2>1, <3>1 DEF Progress, Freed, Early, Unlisting, Asked
      <3>3. "returned" \in KillerPCs
        BY DEF KillerPCs
      <3> QED
        BY <1>1, <1>2, <2>0, <3>1, <3>2, <3>3, KillerActs DEF v
    <2>2. CASE ~done[k]
      <3>1. Switch("wait")
        BY <1>1, <1>10, <2>2 DEF AwaitDone
      <3>2. [pc EXCEPT ![current_tid] = "wait"] = pc /\ "wait" \in PCs
        BY <1>1, <2>0
      <3> QED
        BY <1>0, <2>0, <3>1, <3>2, SwitchKeeps DEF TypeOK
    <2> QED
      BY <2>1, <2>2
  <1> QED
    BY <1>3, <1>4, <1>5, <1>6, <1>7, <1>8, <1>9, <1>10, <1>11, <1>12

(* A step of the cleaner, whatever it does to the thread x it works on. *)
LEMMA CleanerMoves ==
  ASSUME IInv, current_tid = Cleaner, NEW l \in CleanerPCs, Goto(l),
         NEW x \in Victims \cup Asyncs \cup {Cleaner},
         status' \in [Slots -> Statuses], running' \in [Slots -> BOOLEAN],
         \A t \in Slots : t # x => /\ status'[t] = status[t]
                                  /\ running'[t] = running[t],
         running'[x] => x = Cleaner \/ status'[x] = "DEAD",
         status'[Cleaner] \in {status[Cleaner], "BLOCKED"},
         mailbox' \in {mailbox, Idle}, posted' \in Requests,
         done' \in [Slots -> BOOLEAN],
         UNCHANGED <<sleep_left, current_tid, last_tid, reshed_block,
                     should_reshed, saved, abandoned, Found>>
  PROVE  /\ TypeOK' /\ DeadStaysOff' /\ ContextsKept' /\ OnlyKilledDie'
         /\ AsyncsUnlisted' /\ pc'[Cleaner] = l
         /\ \A k \in Killers : pc'[k] = pc[k]
  <1>0. /\ TypeOK /\ DeadStaysOff /\ ContextsKept /\ OnlyKilledDie
        /\ AsyncsUnlisted
    BY DEF IInv
  <1>1. current_tid \in Slots /\ pc \in [Slots -> PCs]
    BY <1>0 DEF TypeOK, TaskTypeOK, Placed
  <1>2. Placed([pc EXCEPT ![current_tid] = l]) /\ l \in PCs
    BY SMT, RoleFacts, <1>0, <1>1 DEF TypeOK, Placed, PCs, Roles
  <1>3. /\ TypeOK' /\ ContextsKept' /\ pc'[current_tid] = l
        /\ \A t \in Slots : t # current_tid => pc'[t] = pc[t]
    <2>1. abandoned' \in BOOLEAN /\ (abandoned' => current_tid \in Asyncs)
          /\ mailbox' \in Requests
      BY <1>0 DEF TypeOK, ContextsKept, Requests
    <2> QED
      BY <1>0, <1>2, <2>1, Moves
  <1>4. DeadStaysOff'
    BY RoleFacts, <1>0 DEF DeadStaysOff
  <1>5. OnlyKilledDie'
    BY <1>0 DEF OnlyKilledDie
  <1>6. AsyncsUnlisted'
    BY SMT, RoleFacts, <1>0, <1>3 DEF AsyncsUnlisted, Idle
  <1> QED
    BY RoleFacts, <1>3, <1>4, <1>5, <1>6

(* _task_cleaner, step by step. *)
LEMMA CleanerSteps ==
  ASSUME IInv, current_tid = Cleaner,
         \/ ReadMailbox \/ BlockCleaner \/ CleanerSetDead \/ CleanerTake
         \/ _task_cleanup \/ Report \/ EmptyMailbox
  PROVE  IInv'
  <1>0. /\ TypeOK /\ DeadStaysOff /\ OnlyKilledDie /\ KillsProgress
        /\ CleanerWorks
    BY DEF IInv
  <1>1. /\ status \in [Slots -> Statuses] /\ running \in [Slots -> BOOLEAN]
        /\ done \in [Slots -> BOOLEAN] /\ Cleaner \in Slots
        /\ mailbox \in Requests /\ posted \in Requests /\ me = Cleaner
    BY <1>0 DEF TypeOK, TaskTypeOK, me
  <1>2. \A k \in Killers : Progress(k)
    BY <1>0 DEF KillsProgress
  <1>3. \A t \in Tids : running[t] => t = Cleaner \/ status[t] = "DEAD"
    BY <1>0 DEF DeadStaysOff
  <1>4. CASE ReadMailbox
    <2> DEFINE l == IF mailbox = Idle THEN "block"
                    ELSE IF mailbox \in Asyncs THEN "clean_dead" ELSE "clean"
    <2>1. /\ pc[Cleaner] = "read" /\ posted' = mailbox
          /\ UNCHANGED <<status, running, sleep_left, current_tid, last_tid,
                         reshed_block, should_reshed, saved, abandoned, Found,
                         mailbox, done>>
      BY <1>1, <1>4 DEF ReadMailbox, At, taskVars, Found
    <2>2. Goto(l)
      BY RoleFacts, <1>1, <1>4 DEF ReadMailbox, Requests, Idle, Found
    <2>3. l \in CleanerPCs /\ l # "report" /\ l # "empty"
      BY DEF CleanerPCs
    <2>4. /\ TypeOK' /\ DeadStaysOff' /\ ContextsKept' /\ OnlyKilledDie'
          /\ AsyncsUnlisted' /\ pc'[Cleaner] = l
          /\ \A k \in Killers : pc'[k] = pc[k]
      <3> HIDE DEF l
      <3> QED
        BY <1>1, <1>3, <2>1, <2>2, <2>3, CleanerMoves
    <2>5. KillsProgress'
      BY <1>2, <2>1, <2>3, <2>4 DEF KillsProgress, Progress, Freed
    <2>6. CleanerWorks'
      BY <2>1, <2>4 DEF CleanerWorks
    <2> QED
      BY <2>4, <2>5, <2>6 DEF IInv
  <1>5. CASE BlockCleaner
    <2>1. /\ pc[Cleaner] = "block" /\ Goto("read_yield")
          /\ status' = [status EXCEPT ![Cleaner] = "BLOCKED"]
          /\ UNCHANGED <<running, sleep_left, current_tid, last_tid,
                         reshed_block, should_reshed, saved, abandoned, Found,
                         mailbox, posted, done>>
      BY <1>1, <1>5 DEF BlockCleaner, At, SetStatus, SameCPU, Found
    <2>2. /\ status' \in [Slots -> Statuses] /\ status'[Cleaner] = "BLOCKED"
          /\ \A t \in Slots : t # Cleaner => status'[t] = status[t]
      BY <1>1, <2>1 DEF Statuses
    <2>3. "read_yield" \in CleanerPCs
      BY DEF CleanerPCs
    <2>4. /\ TypeOK' /\ DeadStaysOff' /\ ContextsKept' /\ OnlyKilledDie'
          /\ AsyncsUnlisted' /\ pc'[Cleaner] = "read_yield"
          /\ \A k \in Killers : pc'[k] = pc[k]
      BY <1>1, <2>1, <2>2, <2>3, CleanerMoves
    <2>5. \A k \in Killers : status'[VictimOf[k]] = status[VictimOf[k]]
      BY RoleFacts, <2>2
    <2>6. KillsProgress'
      BY SMT, <1>2, <2>1, <2>4, <2>5 DEF KillsProgress, Progress, Freed
    <2>7. CleanerWorks'
      BY <2>4 DEF CleanerWorks
    <2> QED
      BY <2>4, <2>6, <2>7 DEF IInv
  <1>6. CASE CleanerSetDead
    <2>1. /\ pc[Cleaner] = "clean_dead" /\ Goto("clean_take")
          /\ status' = [status EXCEPT ![posted] = "DEAD"]
          /\ UNCHANGED <<running, sleep_left, current_tid, last_tid,
                         reshed_block, should_reshed, saved, abandoned, Found,
                         mailbox, posted, done>>
      BY <1>1, <1>6 DEF CleanerSetDead, At, SetStatus, SameCPU, Found
    <2>2. posted \in Asyncs /\ posted = mailbox
      BY <1>0, <2>1 DEF CleanerWorks
    <2>3. /\ status' \in [Slots -> Statuses] /\ status'[posted] = "DEAD"
          /\ \A t \in Slots : t # posted => status'[t] = status[t]
      BY RoleFacts, <1>1, <2>1, <2>2 DEF Statuses
    <2>4. "clean_take" \in CleanerPCs
      BY DEF CleanerPCs
    <2>5. /\ TypeOK' /\ DeadStaysOff' /\ ContextsKept' /\ OnlyKilledDie'
          /\ AsyncsUnlisted' /\ pc'[Cleaner] = "clean_take"
          /\ \A k \in Killers : pc'[k] = pc[k]
      BY SMT, RoleFacts, <1>1, <2>1, <2>2, <2>3, <2>4, CleanerMoves
    <2>6. \A k \in Killers : status'[VictimOf[k]] = status[VictimOf[k]]
      BY RoleFacts, <2>2, <2>3
    <2>7. KillsProgress'
      BY SMT, <1>2, <2>1, <2>5, <2>6 DEF KillsProgress, Progress, Freed
    <2>8. CleanerWorks'
      BY SMT, RoleFacts, <2>1, <2>2, <2>3, <2>5 DEF CleanerWorks
    <2> QED
      BY <2>5, <2>7, <2>8 DEF IInv
  <1>7. CASE CleanerTake
    <2>1. /\ pc[Cleaner] = "clean_take" /\ Goto("clean")
          /\ running' = [running EXCEPT ![posted] = TRUE]
          /\ UNCHANGED <<status, sleep_left, current_tid, last_tid,
                         reshed_block, should_reshed, saved, abandoned, Found,
                         mailbox, posted, done>>
      BY <1>1, <1>7 DEF CleanerTake, At, Found
    <2>2. posted \in Asyncs /\ posted = mailbox /\ status[posted] = "DEAD"
      BY <1>0, <2>1 DEF CleanerWorks
    <2>3. running' \in [Slots -> BOOLEAN]
      BY <1>1, <2>1
    <2>4. /\ running'[posted]
          /\ \A t \in Slots : t # posted => running'[t] = running[t]
      BY RoleFacts, <1>1, <2>1, <2>2
    <2>5. "clean" \in CleanerPCs
      BY DEF CleanerPCs
    <2>6. /\ TypeOK' /\ DeadStaysOff' /\ ContextsKept' /\ OnlyKilledDie'
          /\ AsyncsUnlisted' /\ pc'[Cleaner] = "clean"
          /\ \A k \in Killers : pc'[k] = pc[k]
      <3>1. /\ \A t \in Slots : t # posted => /\ status'[t] = status[t]
                                             /\ running'[t] = running[t]
            /\ status' \in [Slots -> Statuses] /\ done' \in [Slots -> BOOLEAN]
            /\ status'[posted] = "DEAD" /\ status'[Cleaner] = status[Cleaner]
        BY <1>1, <2>1, <2>2, <2>4
      <3>2. /\ posted \in Victims \cup Asyncs \cup {Cleaner} /\ Goto("clean")
            /\ mailbox' \in {mailbox, Idle} /\ posted' \in Requests
            /\ UNCHANGED <<sleep_left, current_tid, last_tid, reshed_block,
                           should_reshed, saved, abandoned, Found>>
        BY <1>1, <2>1, <2>2
      <3> QED
        BY <2>3, <2>5, <3>1, <3>2, CleanerMoves
    <2>7. \A k \in Killers : running'[VictimOf[k]] = running[VictimOf[k]]
      BY ZenonT(30), RoleFacts, <2>2, <2>4
    <2>8. KillsProgress'
      BY SMT, <1>2, <2>1, <2>6, <2>7 DEF KillsProgress, Progress, Freed
    <2>9. CleanerWorks'
      BY RoleFacts, <2>1, <2>2, <2>4, <2>6 DEF CleanerWorks
    <2> QED
      BY <2>6, <2>8, <2>9 DEF IInv
  <1>8. CASE _task_cleanup
    <2>1. PICK x \in Victims \cup Asyncs : x = Target(posted)
      <3>1. pc[Cleaner] = "clean"
        BY <1>1, <1>8 DEF _task_cleanup, At
      <3>2. posted \in Killers \cup Asyncs
        BY <1>0, <1>1, <3>1 DEF CleanerWorks, Requests
      <3> QED
        BY RoleFacts, <3>2 DEF Target
    <2>2. /\ pc[Cleaner] = "clean" /\ Goto("report")
          /\ status' = [status EXCEPT ![x] = "NULL"]
          /\ running' = [running EXCEPT ![x] = FALSE]
          /\ UNCHANGED <<sleep_left, current_tid, last_tid, reshed_block,
                         should_reshed, saved, abandoned, Found, mailbox,
                         posted, done>>
      BY <1>1, <1>8, <2>1 DEF _task_cleanup, At, SetStatus, Found
    <2>3. running' \in [Slots -> BOOLEAN]
      BY <1>1, <2>2
    <2>4. /\ status' \in [Slots -> Statuses] /\ status'[x] = "NULL"
          /\ ~running'[x]
          /\ \A t \in Slots : t # x => /\ status'[t] = status[t]
                                       /\ running'[t] = running[t]
      BY RoleFacts, <1>1, <2>2 DEF Statuses
    <2>5. "report" \in CleanerPCs
      BY DEF CleanerPCs
    <2>6. /\ TypeOK' /\ DeadStaysOff' /\ ContextsKept' /\ OnlyKilledDie'
          /\ AsyncsUnlisted' /\ pc'[Cleaner] = "report"
          /\ \A k \in Killers : pc'[k] = pc[k]
      <3>1. done' \in [Slots -> BOOLEAN] /\ status'[Cleaner] = status[Cleaner]
        BY SMT, RoleFacts, <1>1, <2>2, <2>4
      <3>2. /\ x \in Victims \cup Asyncs \cup {Cleaner} /\ Goto("report")
            /\ mailbox' \in {mailbox, Idle} /\ posted' \in Requests
            /\ UNCHANGED <<sleep_left, current_tid, last_tid, reshed_block,
                           should_reshed, saved, abandoned, Found>>
        BY <1>1, <2>2
      <3> QED
        BY <2>3, <2>4, <2>5, <3>1, <3>2, CleanerMoves
    <2>7. posted = mailbox /\ posted # Idle
      BY <1>0, <2>2 DEF CleanerWorks
    <2>8. KillsProgress'
      <3> SUFFICES ASSUME NEW k \in Killers PROVE Progress(k)'
        BY DEF KillsProgress
      <3>1. CASE posted = k
        <4>1. x = VictimOf[k]
          BY <2>1, <3>1 DEF Target
        <4>2. pc[k] \in Asked /\ ~done[k]
          BY <1>2, <2>2, <2>7, <3>1 DEF Progress
        <4> QED
          BY <1>2, <2>2, <2>4, <2>6, <3>1, <4>1, <4>2
          DEF Progress, Freed, Asked, Early, Unlisting
      <3>2. CASE posted # k
        <4>1. x # VictimOf[k]
          BY RoleFacts, <1>1, <2>1, <3>2 DEF Target, Requests
        <4> QED
          BY SMT, RoleFacts, <1>2, <2>2, <2>4, <2>6, <3>2, <4>1
          DEF Progress, Freed
      <3> QED
        BY <3>1, <3>2
    <2>9. CleanerWorks'
      BY <2>2, <2>6, <2>7 DEF CleanerWorks
    <2> QED
      BY <2>6, <2>8, <2>9 DEF IInv
  <1>9. CASE Report
    <2>1. /\ pc[Cleaner] = "report" /\ Goto("empty")
          /\ done' = [done EXCEPT ![posted] = posted \in Killers]
          /\ UNCHANGED <<status, running, sleep_left, current_tid, last_tid,
                         reshed_block, should_reshed, saved, abandoned, Found,
                         mailbox, posted>>
      BY <1>1, <1>9 DEF Report, At, taskVars, Found
    <2>2. posted = mailbox /\ posted # Idle /\ posted \in Slots
      BY RoleFacts, <1>0, <1>1, <2>1 DEF CleanerWorks, Requests
    <2>3. done' \in [Slots -> BOOLEAN]
      <3> DEFINE c == posted \in Killers
      <3>1. c \in BOOLEAN
        BY SMT
      <3>2. done' = [done EXCEPT ![posted] = c]
        BY <2>1
      <3> HIDE DEF c
      <3> QED
        BY <1>1, <3>1, <3>2
    <2>4. \A k \in Killers : done'[k] <=> (done[k] \/ posted = k)
      BY RoleFacts, <1>1, <2>1, <2>2
    <2>5. "empty" \in CleanerPCs
      BY DEF CleanerPCs
    <2>6. /\ TypeOK' /\ DeadStaysOff' /\ ContextsKept' /\ OnlyKilledDie'
          /\ AsyncsUnlisted' /\ pc'[Cleaner] = "empty"
          /\ \A k \in Killers : pc'[k] = pc[k]
      BY <1>1, <1>3, <2>1, <2>3, <2>5, CleanerMoves
    <2>7. KillsProgress'
      BY <1>2, <2>1, <2>2, <2>4, <2>6 DEF KillsProgress, Progress, Freed
    <2>8. CleanerWorks'
      BY <2>1, <2>2, <2>4, <2>6 DEF CleanerWorks
    <2> QED
      BY <2>6, <2>7, <2>8 DEF IInv
  <1>10. CASE EmptyMailbox
    <2>1. /\ pc[Cleaner] = "empty" /\ Goto("read")
          /\ mailbox' = IF mailbox = posted THEN Idle ELSE mailbox
          /\ UNCHANGED <<status, running, sleep_left, current_tid, last_tid,
                         reshed_block, should_reshed, saved, abandoned, Found,
                         posted, done>>
      BY <1>1, <1>10 DEF EmptyMailbox, At, taskVars, Found
    <2>2. /\ posted = mailbox /\ mailbox' = Idle
          /\ \A k \in Killers : mailbox = k => done[k]
      BY <1>0, <2>1 DEF CleanerWorks
    <2>3. "read" \in CleanerPCs
      BY DEF CleanerPCs
    <2>4. /\ TypeOK' /\ DeadStaysOff' /\ ContextsKept' /\ OnlyKilledDie'
          /\ AsyncsUnlisted' /\ pc'[Cleaner] = "read"
          /\ \A k \in Killers : pc'[k] = pc[k]
      BY <1>1, <1>3, <2>1, <2>2, <2>3, CleanerMoves
    <2>5. KillsProgress'
      BY SMT, RoleFacts, <1>2, <2>1, <2>2, <2>4
      DEF KillsProgress, Progress, Freed, Idle
    <2>6. CleanerWorks'
      BY <2>4 DEF CleanerWorks
    <2> QED
      BY <2>4, <2>5, <2>6 DEF IInv
  <1> QED
    BY <1>4, <1>5, <1>6, <1>7, <1>8, <1>9, <1>10

(* task_tkill and _call_async in a thread that kills itself. *)
LEMMA AsyncSteps ==
  ASSUME IInv, current_tid \in Asyncs,
         BeginKill \/ Post \/ WakeCleaner \/ Abandon \/ CallFunction
  PROVE  IInv'
  <1>0. TypeOK /\ DeadStaysOff /\ AsyncsUnlisted
    BY DEF IInv
  <1>1. /\ current_tid \in Slots /\ me = current_tid /\ Target(me) = me
        /\ abandoned \in BOOLEAN /\ TRUE \in BOOLEAN
    BY RoleFacts, <1>0 DEF TypeOK, TaskTypeOK, Target, me
  <1>2. pc[me] \in Leaving => me \notin Found
    BY <1>0, <1>1 DEF AsyncsUnlisted
  <1>3. CASE BeginKill
    <2>1. status[me] \notin {"DEAD", "NULL"}
      BY <1>0, <1>1 DEF DeadStaysOff
    <2>2. /\ SetStatus(me, "RUNNABLE") /\ Found' = Found \ {me}
          /\ Goto("post")
          /\ UNCHANGED <<running, sleep_left, current_tid, last_tid,
                         reshed_block, should_reshed, saved, abandoned,
                         mailbox, posted, done>>
      BY <1>1, <1>3, <2>1 DEF BeginKill, SameCPU, Found
    <2>3. "post" \in AsyncPCs
      BY DEF AsyncPCs
    <2> QED
      BY <1>1, <2>2, <2>3, AsyncActs
  <1>4. CASE Post
    <2> DEFINE l == IF mailbox = Idle THEN "wake" ELSE "wake_retry"
    <2>1. /\ pc[me] = "post" /\ Goto(l)
          /\ mailbox' = IF mailbox = Idle THEN me ELSE mailbox
          /\ UNCHANGED <<status, running, sleep_left, current_tid, last_tid,
                         reshed_block, should_reshed, saved, abandoned, posted,
                         done, Found>>
      BY <1>1, <1>4 DEF Post, At, taskVars, Found
    <2>2. me \notin Found
      BY <1>2, <2>1 DEF Leaving
    <2>3. l \in AsyncPCs
      BY DEF AsyncPCs
    <2> HIDE DEF l
    <2> QED
      BY <1>1, <2>1, <2>2, <2>3, AsyncActs
  <1>5. CASE WakeCleaner
    <2> DEFINE l == IF pc[me] = "wake_retry" THEN "retry_yield" ELSE "abandon"
    <2>1. /\ pc[me] \in {"wake", "wake_retry"}
          /\ SetStatus(Cleaner, "RUNNABLE")
          /\ UNCHANGED <<running, sleep_left, current_tid, last_tid,
                         reshed_block, should_reshed, saved, abandoned, posted,
                         done, mailbox, Found>>
      BY <1>5 DEF WakeCleaner, SameCPU, At, Found
    <2>2. Goto(l)
      BY <1>1, <1>5, <2>1 DEF WakeCleaner, Found
    <2>3. me \notin Found
      BY <1>2, <2>1 DEF Leaving
    <2>4. l \in AsyncPCs
      BY DEF AsyncPCs
    <2> HIDE DEF l
    <2> QED
      BY <1>1, <2>1, <2>2, <2>3, <2>4, AsyncActs
  <1>6. CASE Abandon
    <2>1. /\ pc[me] = "abandon" /\ Goto("suicide") /\ abandoned' = TRUE
          /\ UNCHANGED <<status, running, sleep_left, current_tid, last_tid,
                         reshed_block, should_reshed, saved, posted, done,
                         mailbox, Found>>
      BY <1>6 DEF Abandon, At, taskVars, Found
    <2>2. me \notin Found
      BY <1>2, <2>1 DEF Leaving
    <2>3. "suicide" \in AsyncPCs
      BY DEF AsyncPCs
    <2> QED
      BY <1>1, <2>1, <2>2, <2>3, AsyncActs
  <1>7. CASE CallFunction
    <2>1. /\ Goto("kill")
          /\ UNCHANGED <<status, running, sleep_left, current_tid, last_tid,
                         reshed_block, should_reshed, saved, abandoned, posted,
                         done, mailbox, Found>>
      BY <1>7 DEF CallFunction, taskVars, Found
    <2>2. "kill" \in AsyncPCs /\ "kill" \notin Leaving
      BY DEF AsyncPCs, Leaving
    <2> QED
      BY <1>1, <2>1, <2>2, AsyncActs
  <1> QED
    BY <1>3, <1>4, <1>5, <1>6, <1>7

(* The steps of the threads that get killed. *)
LEMMA VictimSteps ==
  ASSUME IInv, current_tid \in Victims,
         \/ task_tuse \/ WaitForBytes \/ BytesCame \/ event_wait \/ AbortCheck
         \/ SleepForGood \/ SleepReturns \/ task_trelease \/ BlockAborted
  PROVE  IInv'
  <1>1. PICK l \in VictimPCs : Goto(l)
    <2>1. CASE event_wait
      <3> DEFINE l == CASE pc[me] = "sys" /\ reshed_block = 0 -> "sys_yield"
                        [] pc[me] = "sys" /\ reshed_block # 0 -> "sys_woken"
                        [] pc[me] = "bytes" /\ reshed_block = 0 -> "bytes_yield"
                        [] OTHER -> "bytes_woken"
      <3>1. Goto(l)
        BY <2>1 DEF event_wait
      <3>2. l \in VictimPCs
        BY DEF VictimPCs
      <3> QED
        BY <3>1, <3>2
    <2>2. CASE task_tuse \/ WaitForBytes \/ BytesCame \/ SleepForGood
               \/ SleepReturns \/ BlockAborted
      BY <2>2 DEF task_tuse, WaitForBytes, BytesCame, SleepForGood,
                  SleepReturns, BlockAborted, VictimPCs
    <2>3. CASE AbortCheck \/ task_trelease
      BY <2>3 DEF AbortCheck, task_trelease, VictimPCs
    <2> QED
      BY <2>1, <2>2, <2>3
  <1>2. /\ status' = status \/ SetStatus(current_tid, "BLOCKED")
        /\ UNCHANGED <<running, sleep_left, current_tid, last_tid,
                       should_reshed, saved, abandoned, Found, mailbox, posted,
                       done>>
    BY DEF task_tuse, WaitForBytes, BytesCame, event_wait, AbortCheck,
           SleepForGood, SleepReturns, task_trelease, BlockAborted, SameCPU,
           taskVars, Found, me
  <1>3. reshed_block' = reshed_block \/ Unblocked'
    <2>1. CASE AbortCheck
      <3>1. reshed_block' = reshed_block \/ reshed_block' = reshed_block - 1
        BY <2>1 DEF AbortCheck
      <3>2. Unblocked
        BY DEF IInv, TypeOK
      <3> QED
        BY SMT, <3>1, <3>2 DEF Unblocked
    <2> QED
      BY <2>1 DEF task_tuse, WaitForBytes, BytesCame, event_wait, SleepForGood,
                  SleepReturns, task_trelease, BlockAborted, SameCPU, taskVars
  <1> QED
    BY <1>1, <1>2, <1>3, VictimActs

(* A late trigger of an event makes nobody die and nobody come back. *)
LEMMA TriggerKeeps ==
  ASSUME IInv, NEW v \in Victims, event_trigger_all(v)
  PROVE  IInv'
  <1>0. /\ TypeOK /\ DeadStaysOff /\ ContextsKept /\ OnlyKilledDie
        /\ KillsProgress /\ AsyncsUnlisted /\ CleanerWorks
    BY DEF IInv
  <1>1. status \in [Slots -> Statuses] /\ v \in Slots
    BY RoleFacts, <1>0 DEF TypeOK, TaskTypeOK
  <1>2. /\ UNCHANGED <<running, sleep_left, current_tid, last_tid, reshed_block,
                       should_reshed, pc, saved, abandoned, Found, mailbox,
                       posted, done>>
        /\ status' = status \/ ( /\ status[v] = "BLOCKED"
                                 /\ status' = [status EXCEPT ![v] = "RUNNABLE"])
    BY DEF event_trigger_all, SameCPU, Found
  <1>3. status' \in [Slots -> Statuses]
    BY <1>1, <1>2 DEF Statuses
  <1>4. \A t \in Slots, d \in {"DEAD", "NULL"} :
          status'[t] = d <=> status[t] = d
    BY <1>1, <1>2
  <1>5. TypeOK'
    BY <1>0, <1>2, <1>3 DEF TypeOK, TaskTypeOK, Placed, Unblocked
  <1>6. DeadStaysOff' /\ OnlyKilledDie'
    <2>1. current_tid \in Slots
      BY <1>0 DEF TypeOK, TaskTypeOK
    <2> QED
      BY RoleFacts, <1>0, <1>2, <1>4, <2>1 DEF DeadStaysOff, OnlyKilledDie
  <1>7. ContextsKept' /\ AsyncsUnlisted'
    BY <1>0, <1>2 DEF ContextsKept, AsyncsUnlisted
  <1>8. KillsProgress'
    <2> SUFFICES ASSUME NEW k \in Killers PROVE Progress(k)'
      BY DEF KillsProgress
    <2>1. Progress(k) /\ VictimOf[k] \in Slots
      BY RoleFacts, <1>0 DEF KillsProgress
    <2> QED
      BY <1>2, <1>4, <2>1, ProgressFrame
  <1>9. CleanerWorks'
    BY RoleFacts, <1>0, <1>2, <1>4 DEF CleanerWorks, TypeOK, Requests
  <1> QED
    BY <1>5, <1>6, <1>7, <1>8, <1>9 DEF IInv

(* The switches of task_reshed_irq and task_tyield. *)
LEMMA Switches ==
  ASSUME IInv, task_reshed_irq \/ task_tyield
  PROVE  IInv'
  <1>0. /\ TypeOK /\ current_tid \in Slots /\ pc \in [Slots -> PCs]
        /\ Placed(pc) /\ me = current_tid
    BY DEF IInv, TypeOK, TaskTypeOK, Placed, me
  <1>1. CASE task_reshed_irq
    <2>1. /\ Switch(pc[current_tid])
          /\ UNCHANGED <<Found, mailbox, posted, done>>
      BY <1>1 DEF task_reshed_irq, me, Found
    <2>2. /\ [pc EXCEPT ![current_tid] = pc[current_tid]] = pc
          /\ pc[current_tid] \in PCs
      BY <1>0
    <2> QED
      BY <1>0, <2>1, <2>2, SwitchKeeps
  <1>2. CASE task_tyield
    <2> DEFINE l == AfterYield(pc[current_tid])
    <2>1. /\ Switch(l) /\ pc[current_tid] \in Yields
          /\ UNCHANGED <<Found, mailbox, posted, done>>
      BY <1>2 DEF task_tyield, me, Found
    <2>2. /\ pc[current_tid] = "sys_yield" => l = "sys_woken"
          /\ pc[current_tid] = "bytes_yield" => l = "bytes_woken"
          /\ pc[current_tid] = "sleep_yield" => l = "slept"
          /\ pc[current_tid] = "aborted_yield" => l = "user"
          /\ pc[current_tid] = "retry_yield" => l = "post"
          /\ pc[current_tid] = "read_yield" => l = "read"
          /\ pc[current_tid] = "suicide" => l = "suicide"
      BY DEF AfterYield
    <2> HIDE DEF l
    <2>3. /\ current_tid \in Killers =>
               pc[current_tid] = "retry_yield" /\ l = "post"
          /\ current_tid = Cleaner =>
               pc[current_tid] = "read_yield" /\ l = "read"
          /\ current_tid \in Asyncs /\ l \in Leaving =>
               pc[current_tid] \in Leaving
      BY <1>0, <2>1, <2>2
      DEF Placed, Yields, KillerPCs, CleanerPCs, Leaving
    <2>4. /\ current_tid = Cleaner => l \in CleanerPCs
          /\ current_tid \in Killers => l \in KillerPCs
          /\ current_tid \in Victims => l \in VictimPCs
          /\ current_tid \in Asyncs => l \in AsyncPCs
          /\ current_tid \in Roles
      BY <1>0, <2>1, <2>2, <2>3
      DEF Placed, Yields, KillerPCs, CleanerPCs, VictimPCs, AsyncPCs
    <2>5. l \in PCs
      BY <2>4 DEF PCs, Roles
    <2>6. Placed([pc EXCEPT ![current_tid] = l])
      BY SMT, <1>0, <2>4, <2>5 DEF Placed
    <2> QED
      BY <2>1, <2>3, <2>5, <2>6, SwitchKeeps
  <1> QED
    BY <1>1, <1>2

(* The invariant is inductive: one step per kind of thread. *)
LEMMA NextIInv == IInv /\ [Next]_vars => IInv'
  <1> SUFFICES ASSUME IInv, [Next]_vars PROVE IInv'
    OBVIOUS
  <1>0. Placed(pc) /\ current_tid \in Slots /\ me = current_tid
    BY DEF IInv, TypeOK, TaskTypeOK, me
  <1>1. CASE UNCHANGED vars
    <2>1. UNCHANGED <<status, running, sleep_left, current_tid, last_tid,
                      reshed_block, should_reshed, pc, saved, abandoned,
                      Found, mailbox, posted, done>>
      BY <1>1 DEF vars, taskVars, killVars, Found
    <2>2. TypeOK'
      BY <2>1 DEF IInv, TypeOK, TaskTypeOK, Placed, Unblocked
    <2>3. DeadStaysOff' /\ ContextsKept' /\ OnlyKilledDie' /\ AsyncsUnlisted'
          /\ CleanerWorks'
      BY <2>1 DEF IInv, DeadStaysOff, ContextsKept, OnlyKilledDie,
                  AsyncsUnlisted, CleanerWorks
    <2>4. KillsProgress'
      BY <2>1 DEF IInv, KillsProgress, Progress, Freed
    <2> QED
      BY <2>2, <2>3, <2>4 DEF IInv
  <1>2. CASE task_reshed_irq \/ task_tyield
    BY <1>2, Switches
  <1>3. CASE \/ task_tuse \/ WaitForBytes \/ BytesCame \/ event_wait
             \/ AbortCheck \/ SleepForGood \/ SleepReturns \/ task_trelease
             \/ BlockAborted
    <2>1. pc[current_tid] \in VictimPCs
      BY <1>0, <1>3
      DEF task_tuse, WaitForBytes, BytesCame, event_wait, AbortCheck,
          SleepForGood, SleepReturns, task_trelease, BlockAborted, At,
          VictimPCs
    <2> QED
      BY <1>0, <1>3, <2>1, WhoseCode, VictimSteps
  <1>4. CASE BeginKill \/ Post \/ WakeCleaner
    <2>1. pc[current_tid] \in {"kill", "post", "wake", "wake_retry"}
      BY <1>0, <1>4 DEF BeginKill, Post, WakeCleaner, At
    <2>2. current_tid \in Killers \cup Asyncs
      BY <1>0, <2>1, WhoseCode
    <2> QED
      BY <1>4, <2>2, KillerSteps, AsyncSteps
  <1>5. CASE \/ RemoveProcess \/ _task_prepare_tkill \/ BusyWait \/ SetDead
             \/ TakeVictim \/ Unlist \/ AwaitDone
    <2>1. pc[current_tid] \in {"remove", "prepare", "busywait", "set_dead",
                               "take", "unlist", "wait"}
      BY <1>0, <1>5 DEF RemoveProcess, _task_prepare_tkill, BusyWait, SetDead,
                        TakeVictim, Unlist, AwaitDone, At
    <2> QED
      BY <1>0, <1>5, <2>1, WhoseCode, KillerSteps
  <1>6. CASE Abandon \/ CallFunction
    <2>1. pc[current_tid] \in {"func", "abandon"}
      BY <1>0, <1>6 DEF Abandon, CallFunction, At
    <2> QED
      BY <1>0, <1>6, <2>1, WhoseCode, AsyncSteps
  <1>7. CASE \/ ReadMailbox \/ BlockCleaner \/ CleanerSetDead \/ CleanerTake
             \/ _task_cleanup \/ Report \/ EmptyMailbox
    <2>1. pc[current_tid] \in CleanerPCs
      BY <1>0, <1>7 DEF ReadMailbox, BlockCleaner, CleanerSetDead, CleanerTake,
                        _task_cleanup, Report, EmptyMailbox, At, CleanerPCs
    <2> QED
      BY <1>0, <1>7, <2>1, WhoseCode, CleanerSteps
  <1>8. CASE \E v \in Victims : event_trigger_all(v)
    BY <1>8, TriggerKeeps
  <1> QED
    BY <1>1, <1>2, <1>3, <1>4, <1>5, <1>6, <1>7, <1>8 DEF Next, ThreadStep

LEMMA Inductive == Spec => []IInv
  BY InitIInv, NextIInv, PTL DEF Spec

(* Nobody but _task_cleanup frees a thread. *)
LEMMA OnlyCleanupFrees ==
  ASSUME IInv, Next, NEW t \in Tids, status[t] # "NULL", status'[t] = "NULL"
  PROVE  _task_cleanup /\ t = Target(posted)
  <1>0. /\ TypeOK /\ DeadStaysOff /\ OnlyKilledDie
        /\ status \in [Slots -> Statuses] /\ t \in Slots
    BY RoleFacts DEF IInv, TypeOK, TaskTypeOK
  <1>1. \A u, s : SetStatus(u, s) /\ s # "NULL" => status'[t] # "NULL"
    BY <1>0 DEF SetStatus
  <1>2. ~task_shed_choose
    <2> SUFFICES ASSUME task_shed_choose PROVE FALSE
      OBVIOUS
    <2>1. \A u \in Slots, d \in {"DEAD", "NULL"} :
            status'[u] = d <=> status[u] = d
      BY <1>0, ShedKeeps
    <2> QED
      BY <1>0, <2>1
  <1>3. \A l : ~Switch(l)
    BY <1>2 DEF Switch
  <1>4. status' # status
    OBVIOUS
  <1>5. ~(task_reshed_irq \/ task_tyield \/ BusyWait \/ AwaitDone)
    BY <1>3, <1>4
    DEF task_reshed_irq, task_tyield, BusyWait, AwaitDone, taskVars
  <1>6. ~(task_tuse \/ task_trelease \/ Abandon \/ CallFunction \/ TakeVictim
          \/ Unlist \/ Post \/ RemoveProcess \/ WaitForBytes \/ BytesCame
          \/ AbortCheck \/ SleepReturns)
    BY <1>4 DEF task_tuse, task_trelease, Abandon, CallFunction, TakeVictim,
                Unlist, Post, RemoveProcess, WaitForBytes, BytesCame,
                AbortCheck, SleepReturns, taskVars
  <1>7. ~(ReadMailbox \/ CleanerTake \/ Report \/ EmptyMailbox)
    BY <1>4 DEF ReadMailbox, CleanerTake, Report, EmptyMailbox, taskVars
  <1>8. ~(event_wait \/ SleepForGood \/ BlockAborted \/ SetDead \/ WakeCleaner
          \/ BlockCleaner \/ CleanerSetDead)
    BY <1>1 DEF event_wait, SleepForGood, BlockAborted, SetDead, WakeCleaner,
                BlockCleaner, CleanerSetDead
  <1>9. ~BeginKill /\ ~_task_prepare_tkill
    BY <1>1, <1>4 DEF BeginKill, _task_prepare_tkill
  <1>11. \A v \in Victims : ~event_trigger_all(v)
    BY <1>0, <1>4 DEF event_trigger_all
  <1>10. _task_cleanup
    BY <1>5, <1>6, <1>7, <1>8, <1>9, <1>11 DEF Next, ThreadStep
  <1> QED
    BY <1>0, <1>10 DEF _task_cleanup, SetStatus

(* When _task_cleanup frees a thread it is dead, taken and unlisted, whether
   its request came from a killer or from itself. *)
LEMMA CleanupOfDead ==
  ASSUME IInv, _task_cleanup, NEW t \in Tids, t = Target(posted)
  PROVE  status[t] = "DEAD" /\ running[t] /\ t \notin Found
  <1>0. TypeOK /\ KillsProgress /\ AsyncsUnlisted /\ CleanerWorks
    BY DEF IInv
  <1>1. pc[Cleaner] = "clean"
    <2>1. pc[current_tid] = "clean" /\ current_tid \in Slots /\ Placed(pc)
      BY <1>0 DEF _task_cleanup, At, me, TypeOK, TaskTypeOK, Found
    <2>2. pc[current_tid] \in CleanerPCs
      BY <2>1 DEF CleanerPCs
    <2> QED
      BY <2>1, <2>2, WhoseCode
  <1>2. posted = mailbox /\ posted \in Killers \cup Asyncs
    BY <1>0, <1>1 DEF CleanerWorks, TypeOK, Requests
  <1>3. CASE posted \in Asyncs
    BY RoleFacts, <1>0, <1>1, <1>2, <1>3
    DEF Target, CleanerWorks, AsyncsUnlisted
  <1>4. CASE posted \in Killers
    <2>1. Progress(posted) /\ t = VictimOf[posted]
      BY <1>0, <1>4 DEF KillsProgress, Target
    <2>2. pc[posted] \in Asked /\ ~Freed(posted)
      BY <1>1, <1>2, <2>1 DEF Progress, Freed
    <2> QED
      BY <2>1, <2>2 DEF Progress, Asked
  <1> QED
    BY <1>2, <1>3, <1>4

(* For any number of threads: what was declared dead or freed is not on the
   CPU, and only the dead are taken by others (task_tkill, _task_cleaner and
   task_shed_choose in proc/task.c). *)
THEOREM DeadNeverRun == Spec => []DeadStaysOff
  <1>1. IInv => DeadStaysOff
    BY DEF IInv
  <1> QED
    BY <1>1, Inductive, PTL

(* For any number of killers competing for the one mailbox: task_tkill returns
   only when its victim is freed, and no request is lost before. *)
THEOREM KillReturnsAfterFree == Spec => []ReturnMeansFreed
  <1>1. IInv => ReturnMeansFreed
    BY DEF IInv, KillsProgress, Progress, Freed, Asked, ReturnMeansFreed
  <1> QED
    BY <1>1, Inductive, PTL

(* _task_cleanup frees only what is dead, taken off the CPU for good and not to
   be found through any process, under every interleaving: the victim of
   _task_prkill_async because its process has left the table before, a thread
   that kills itself because it has left the list. *)
THEOREM FreesOnlyTheDead == Spec => FreedOnlyWhenDead
  <1>1. IInv /\ [Next]_vars =>
          [\A t \in Tids : status[t] # "NULL" /\ status'[t] = "NULL"
             => status[t] = "DEAD" /\ running[t] /\ t \notin Found]_vars
    BY OnlyCleanupFrees, CleanupOfDead
  <1> QED
    BY <1>1, Inductive, PTL DEF Spec, FreedOnlyWhenDead
=============================================================================
