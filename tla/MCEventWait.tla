----------------------------- MODULE MCEventWait ----------------------------
(* Two waiters and one thread that triggers the event and aborts waiters. *)
EXTENDS EventWait

OneTriggerer == {3}
TwoWaiters == {1, 2}
OneKiller == {3}
=============================================================================
