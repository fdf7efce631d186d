---------------------------- MODULE MCThreadKill ----------------------------
(***************************************************************************)
(* The cleaner, a killer with its victim and a thread that kills itself.   *)
(* Two parts keep the run small: in "mailbox" the last two compete for    *)
(* the mailbox and the victim's system calls do not wait, in "waits" they  *)
(* wait in all ways and the asynchronous function goes on.                 *)
(***************************************************************************)
EXTENDS ThreadKill, TLC

VARIABLE part
killRunVars == <<part, vars>>

Killer == {2}
Victim == {3}
VictimOf1 == 2 :> 3
Async == {4}
NoAsync == {}

Within ==
  /\ part = "waits" => \A a \in Asyncs : pc[a] = "func"
  /\ part = "mailbox" =>
       queued = {} /\ \A v \in Victims : pc[v] \notin {"bytes", "sleep_yield"}

KillRunInit == Init /\ part \in {"mailbox", "waits"}
KillRunNext == UNCHANGED part /\ Next /\ Within'

KillRunSafe == KillRunInit /\ [][KillRunNext]_killRunVars

(* The fairness of ThreadKill!FairSpec, within the part. *)
KillRunSpec ==
  /\ KillRunSafe
  /\ WF_vars(UNCHANGED part /\ task_reshed_irq)
  /\ \A t \in Tids : SF_vars(me = t /\ UNCHANGED part /\ ThreadStep /\ Within')
=============================================================================
