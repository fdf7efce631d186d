----------------------------- MODULE BoundedFifo -----------------------------
(***************************************************************************)
(* What a byte pipe promises: what readers are given is what writers put   *)
(* in, in that order, each byte once, and never more than Capacity bytes   *)
(* are under way.  A put or a get moves any non-empty run of bytes.        *)
(***************************************************************************)
EXTENDS Integers, Sequences

CONSTANTS Readers, Values, Capacity

VARIABLES
  q,    \* the bytes under way
  got   \* what the last get of each reader delivered

fifoVars == <<q, got>>

Runs == UNION {[1 .. n -> Values] : n \in 1 .. Capacity}

Init ==
  /\ q = <<>>
  /\ got = [r \in Readers |-> <<>>]

Put ==
  /\ \E s \in Runs : Len(q) + Len(s) <= Capacity /\ q' = q \o s
  /\ UNCHANGED got

Get(r) ==
  \E n \in 1 .. Len(q) :
    /\ got' = [got EXCEPT ![r] = SubSeq(q, 1, n)]
    /\ q' = SubSeq(q, n + 1, Len(q))

Next == Put \/ \E r \in Readers : Get(r)

Spec == Init /\ [][Next]_fifoVars
=============================================================================
