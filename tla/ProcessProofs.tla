--------------------------- MODULE ProcessProofs ---------------------------
(***************************************************************************)
(* The references of a process are exact, and nobody finds it disposed,    *)
(* for any number of callers and of threads.                               *)
(***************************************************************************)
EXTENDS Process, FiniteSetTheorems, TLAPS

CallerStates == {"idle", "borrowed", "wait", "queued", "woken", "exited",
                 "dead"}
UserStates == {"idle", "counting", "counted", "using", "releasing", "released"}
KillerStates == {"start", "remove", "threads", "unheard", "busy", "signal",
                 "refs", "dispose", "walking", "unref", "done"}

TypeOK ==
  /\ refs \in Int /\ present \in BOOLEAN /\ busy \in Int
  /\ disposed \in BOOLEAN
  /\ caller \in [Callers -> CallerStates]
  /\ user \in [Threads -> UserStates]
  /\ killer \in KillerStates

(* How far _task_prkill_async is tells what is gone: the entry, the threads,
   the borrowers, the process itself. *)
KillOrder ==
  /\ present <=> killer \in {"start", "remove"}
  /\ killer \notin {"start", "remove", "threads", "unheard"} => alive = {}
  /\ killer \in {"dispose", "walking", "unref", "done"} => Borrowers = {}
  /\ disposed => killer \in {"unref", "done"}

(* Only a thread that lives and is in a system call is worked for, and none
   that task_tkill has found outside: no new work begins once the entry is out
   of the table. *)
CallsAlive ==
  /\ \A t \in Threads :
       user[t] # "idle" => t \in alive /\ t \in inside /\ t \notin quiet
  /\ quiet # {} => ~present

(* The inductive invariant: when the killer finds one reference it is its own
   only because the counts are exact, and no thread is worked for by then only
   because the calls have ended. *)
IInv == TypeOK /\ RefsExact /\ KillOrder /\ CallsAlive

-----------------------------------------------------------------------------
(* The cardinalities of two sets that differ in one element at most. *)
LEMMA CountChange ==
  ASSUME NEW old, IsFiniteSet(old), NEW new, NEW x, new \ {x} = old \ {x}
  PROVE  /\ x \in new /\ x \notin old => Cardinality(new) = Cardinality(old) + 1
         /\ x \notin new /\ x \in old => Cardinality(new) = Cardinality(old) - 1
         /\ (x \in new <=> x \in old) => new = old
  <1>1. ASSUME x \in new, x \notin old
        PROVE  Cardinality(new) = Cardinality(old) + 1
    <2>1. new = old \cup {x}
      BY <1>1
    <2>2. Cardinality(old \cup {x}) = Cardinality(old) + 1
      BY <1>1, FS_AddElement
    <2> QED
      BY <2>1, <2>2, Zenon
  <1>2. ASSUME x \notin new, x \in old
        PROVE  Cardinality(new) = Cardinality(old) - 1
    <2>1. new = old \ {x}
      BY <1>2
    <2>2. Cardinality(old \ {x}) = Cardinality(old) - 1
      BY <1>2, FS_RemoveElement
    <2> QED
      BY <2>1, <2>2, Zenon
  <1>3. ASSUME x \in new <=> x \in old
        PROVE  new = old
    BY <1>3
  <1> QED
    BY <1>1, <1>2, <1>3

(* The counts are naturals, and zero for nobody only. *)
LEMMA CountsNat ==
  /\ IsFiniteSet(Borrowers) /\ Cardinality(Borrowers) \in Nat
  /\ IsFiniteSet(Counters) /\ Cardinality(Counters) \in Nat
  /\ IsFiniteSet(InUse) /\ Cardinality(InUse) \in Nat
  /\ Cardinality(Borrowers) = 0 => Borrowers = {}
  <1>1. Borrowers \subseteq Callers /\ Counters \subseteq Threads
          /\ InUse \subseteq Threads
    BY DEF Borrowers, Counters, InUse
  <1>2. /\ IsFiniteSet(Borrowers) /\ IsFiniteSet(Counters) /\ IsFiniteSet(InUse)
    BY <1>1, ProcessAssumption, FS_Subset
  <1> QED
    BY <1>2, FS_CardinalityType, FS_EmptySet

(* The states of a caller or of a user in which it holds a reference, and
   those of a user between task_pruse and task_prrelease. *)
HoldsEntry == {"borrowed", "wait", "queued", "woken", "dead",
               "counting", "counted", "releasing", "released"}
UsesProcess == {"counted", "using", "releasing"}

(* A caller that goes from one state to another changes the borrowers by one
   at most. *)
LEMMA CallerMoves ==
  ASSUME TypeOK, NEW c \in Callers, NEW s \in CallerStates,
         caller' = [caller EXCEPT ![c] = s]
  PROVE  /\ caller' \in [Callers -> CallerStates]
         /\ s \in HoldsEntry /\ caller[c] \notin HoldsEntry
              => Cardinality(Borrowers)' = Cardinality(Borrowers) + 1
         /\ s \notin HoldsEntry /\ caller[c] \in HoldsEntry
              => Cardinality(Borrowers)' = Cardinality(Borrowers) - 1
         /\ (s \in HoldsEntry <=> caller[c] \in HoldsEntry) => Borrowers' = Borrowers
  <1>1. caller \in [Callers -> CallerStates]
    BY DEF TypeOK
  <1>2. /\ s \in HoldsEntry /\ caller[c] \notin HoldsEntry
          => Cardinality(Borrowers)' = Cardinality(Borrowers) + 1
        /\ s \notin HoldsEntry /\ caller[c] \in HoldsEntry
          => Cardinality(Borrowers)' = Cardinality(Borrowers) - 1
        /\ (s \in HoldsEntry <=> caller[c] \in HoldsEntry) => Borrowers' = Borrowers
    <2>1. /\ Borrowers' \ {c} = Borrowers \ {c}
          /\ c \in Borrowers <=> caller[c] \in HoldsEntry
          /\ c \in Borrowers' <=> s \in HoldsEntry
      BY <1>1 DEF Borrowers, HoldsEntry, CallerStates
    <2>2. /\ c \in Borrowers' /\ c \notin Borrowers
            => Cardinality(Borrowers') = Cardinality(Borrowers) + 1
          /\ c \notin Borrowers' /\ c \in Borrowers
            => Cardinality(Borrowers') = Cardinality(Borrowers) - 1
          /\ (c \in Borrowers' <=> c \in Borrowers) => Borrowers' = Borrowers
      BY <2>1, CountsNat, CountChange
    <2> QED
      BY <2>1, <2>2, Zenon
  <1> QED
    BY <1>1, <1>2

(* The same for the user that works for a thread. *)
LEMMA UserMoves ==
  ASSUME TypeOK, NEW t \in Threads, NEW s \in UserStates,
         user' = [user EXCEPT ![t] = s]
  PROVE  /\ user' \in [Threads -> UserStates]
         /\ s \in HoldsEntry /\ user[t] \notin HoldsEntry
              => Cardinality(Counters)' = Cardinality(Counters) + 1
         /\ s \notin HoldsEntry /\ user[t] \in HoldsEntry
              => Cardinality(Counters)' = Cardinality(Counters) - 1
         /\ (s \in HoldsEntry <=> user[t] \in HoldsEntry) => Counters' = Counters
         /\ s \in UsesProcess /\ user[t] \notin UsesProcess
              => Cardinality(InUse)' = Cardinality(InUse) + 1
         /\ s \notin UsesProcess /\ user[t] \in UsesProcess
              => Cardinality(InUse)' = Cardinality(InUse) - 1
         /\ (s \in UsesProcess <=> user[t] \in UsesProcess) => InUse' = InUse
  <1>1. user \in [Threads -> UserStates]
    BY DEF TypeOK
  <1>2. /\ s \in HoldsEntry /\ user[t] \notin HoldsEntry
          => Cardinality(Counters)' = Cardinality(Counters) + 1
        /\ s \notin HoldsEntry /\ user[t] \in HoldsEntry
          => Cardinality(Counters)' = Cardinality(Counters) - 1
        /\ (s \in HoldsEntry <=> user[t] \in HoldsEntry) => Counters' = Counters
    <2>1. /\ Counters' \ {t} = Counters \ {t}
          /\ t \in Counters <=> user[t] \in HoldsEntry
          /\ t \in Counters' <=> s \in HoldsEntry
      BY <1>1 DEF Counters, HoldsEntry, UserStates
    <2>2. /\ t \in Counters' /\ t \notin Counters
            => Cardinality(Counters') = Cardinality(Counters) + 1
          /\ t \notin Counters' /\ t \in Counters
            => Cardinality(Counters') = Cardinality(Counters) - 1
          /\ (t \in Counters' <=> t \in Counters) => Counters' = Counters
      BY <2>1, CountsNat, CountChange
    <2> QED
      BY <2>1, <2>2, Zenon
  <1>3. /\ s \in UsesProcess /\ user[t] \notin UsesProcess
          => Cardinality(InUse)' = Cardinality(InUse) + 1
        /\ s \notin UsesProcess /\ user[t] \in UsesProcess
          => Cardinality(InUse)' = Cardinality(InUse) - 1
        /\ (s \in UsesProcess <=> user[t] \in UsesProcess) => InUse' = InUse
    <2>1. /\ InUse' \ {t} = InUse \ {t}
          /\ t \in InUse <=> user[t] \in UsesProcess
          /\ t \in InUse' <=> s \in UsesProcess
      BY <1>1 DEF InUse, UsesProcess, UserStates
    <2>2. /\ t \in InUse' /\ t \notin InUse
            => Cardinality(InUse') = Cardinality(InUse) + 1
          /\ t \notin InUse' /\ t \in InUse
            => Cardinality(InUse') = Cardinality(InUse) - 1
          /\ (t \in InUse' <=> t \in InUse) => InUse' = InUse
      BY <2>1, CountsNat, CountChange
    <2> QED
      BY <2>1, <2>2, Zenon
  <1> QED
    BY <1>1, <1>2, <1>3

-----------------------------------------------------------------------------
LEMMA InitIInv == Init => IInv
  <1> SUFFICES ASSUME Init PROVE IInv
    OBVIOUS
  <1>1. Borrowers = {} /\ Counters = {} /\ InUse = {}
    BY DEF Init, Borrowers, Counters, InUse
  <1>2. Cardinality({}) = 0
    BY FS_EmptySet
  <1>3. RefsExact
    BY <1>1, <1>2 DEF Init, RefsExact, KillerHolds
  <1>4. TypeOK
    <2>1. present \in BOOLEAN /\ disposed \in BOOLEAN
      BY Zenon DEF Init
    <2>2. /\ refs \in Int /\ busy \in Int /\ killer \in KillerStates
          /\ caller \in [Callers -> CallerStates]
          /\ user \in [Threads -> UserStates]
      BY DEF Init, CallerStates, UserStates, KillerStates
    <2> QED
      BY <2>1, <2>2 DEF TypeOK
  <1> QED
    BY <1>3, <1>4 DEF Init, IInv, KillOrder, CallsAlive

(* A caller gets the entry: task_prstart and its like, or task_prwait. *)
LEMMA CallerGets ==
  ASSUME IInv, NEW c \in Callers, Borrow(c) \/ PrwaitGet(c)
  PROVE  IInv'
  <1>1. PICK s \in {"borrowed", "wait"} : caller' = [caller EXCEPT ![c] = s]
    BY DEF Borrow, PrwaitGet
  <1>2. /\ caller[c] = "idle" /\ present /\ present' = present
        /\ refs' = refs + 1
        /\ UNCHANGED <<busy, waiting, disposed, alive, quiet, inside, user, killer>>
    BY DEF Borrow, PrwaitGet, rcptable_get, life, calls
  <1>3. /\ caller' \in [Callers -> CallerStates]
        /\ Cardinality(Borrowers)' = Cardinality(Borrowers) + 1
    BY Zenon, <1>1, <1>2, CallerMoves DEF IInv, HoldsEntry, CallerStates
  <1>4. Counters' = Counters /\ InUse' = InUse /\ KillerHolds' = KillerHolds
    BY <1>2 DEF Counters, InUse, KillerHolds
  <1>5. TypeOK'
    BY <1>2, <1>3 DEF IInv, TypeOK
  <1>6. RefsExact'
    BY <1>2, <1>3, <1>4, CountsNat DEF IInv, TypeOK, RefsExact
  <1>7. KillOrder'
    BY <1>2 DEF IInv, KillOrder
  <1>8. CallsAlive'
    BY <1>1, <1>2 DEF IInv, TypeOK, CallsAlive
  <1> QED
    BY <1>5, <1>6, <1>7, <1>8 DEF IInv

(* A caller gives the entry back. *)
LEMMA CallerGives ==
  ASSUME IInv, NEW c \in Callers, GiveBack(c) \/ PrwaitReturn(c)
  PROVE  IInv'
  <1>1. PICK s \in {"idle", "exited"} : caller' = [caller EXCEPT ![c] = s]
    BY DEF GiveBack, PrwaitReturn
  <1>2. /\ caller[c] \in {"borrowed", "woken"} /\ present' = present
        /\ refs' = refs - 1
        /\ UNCHANGED <<busy, waiting, disposed, alive, quiet, inside, user, killer>>
    BY DEF GiveBack, PrwaitReturn, rcptable_unref, life, calls
  <1>3. /\ caller' \in [Callers -> CallerStates]
        /\ Cardinality(Borrowers)' = Cardinality(Borrowers) - 1
    BY Zenon, <1>1, <1>2, CallerMoves DEF IInv, HoldsEntry, CallerStates
  <1>4. Counters' = Counters /\ InUse' = InUse /\ KillerHolds' = KillerHolds
    BY <1>2 DEF Counters, InUse, KillerHolds
  <1>5. TypeOK'
    BY <1>2, <1>3 DEF IInv, TypeOK
  <1>6. RefsExact'
    BY <1>2, <1>3, <1>4, CountsNat DEF IInv, TypeOK, RefsExact
  <1>7. Borrowers' \subseteq Borrowers
    BY <1>1, <1>2 DEF IInv, TypeOK, Borrowers
  <1>8. KillOrder'
    BY <1>2, <1>7 DEF IInv, KillOrder
  <1>9. CallsAlive'
    BY <1>1, <1>2 DEF IInv, TypeOK, CallsAlive
  <1> QED
    BY <1>5, <1>6, <1>8, <1>9 DEF IInv

(* A caller joins the queue, leaves it, or dies: it keeps its reference. *)
LEMMA CallerKeeps ==
  ASSUME IInv, NEW c \in Callers,
         PrwaitQueue(c) \/ PrwaitAbort(c) \/ CallerKilled(c)
  PROVE  IInv'
  <1>0. PICK s \in {"queued", "woken", "dead"} :
          caller' = [caller EXCEPT ![c] = s]
    BY DEF PrwaitQueue, PrwaitAbort, CallerKilled
  <1>1. /\ caller[c] \in {"borrowed", "wait", "queued", "woken"}
        /\ UNCHANGED <<refs, present, busy, disposed, alive, quiet, inside, user,
                       killer>>
    BY DEF PrwaitQueue, PrwaitAbort, CallerKilled, entry, life, calls
  <1>2. caller' \in [Callers -> CallerStates] /\ Borrowers' = Borrowers
    BY Zenon, <1>0, <1>1, CallerMoves DEF IInv, HoldsEntry, CallerStates
  <1>3. Counters' = Counters /\ InUse' = InUse /\ KillerHolds' = KillerHolds
    BY <1>1 DEF Counters, InUse, KillerHolds
  <1>4. TypeOK'
    BY <1>1, <1>2 DEF IInv, TypeOK
  <1>5. RefsExact'
    BY <1>1, <1>2, <1>3 DEF IInv, RefsExact
  <1>6. KillOrder'
    BY <1>1, <1>2 DEF IInv, KillOrder
  <1>7. CallsAlive'
    BY <1>1 DEF IInv, TypeOK, CallsAlive
  <1> QED
    BY <1>4, <1>5, <1>6, <1>7 DEF IInv

(* A thread enters the kernel, or leaves it when nobody works for it. *)
LEMMA ThreadCalls ==
  ASSUME IInv, NEW t \in Threads,
         EnterKernel(t) \/ FallDeaf(t) \/ LeaveKernel(t)
  PROVE  IInv'
  <1>1. /\ UNCHANGED <<refs, present, busy, waiting, disposed, alive, quiet, caller,
                       user, killer>>
        /\ \/ inside' = inside \cup {t} /\ t \in alive
           \/ inside' = inside
           \/ inside' = inside \ {t} /\ user[t] = "idle"
    BY DEF EnterKernel, FallDeaf, LeaveKernel, entry, life, calls
  <1>2. /\ Borrowers' = Borrowers /\ Counters' = Counters /\ InUse' = InUse
        /\ KillerHolds' = KillerHolds
    BY <1>1 DEF Borrowers, Counters, InUse, KillerHolds
  <1>3. TypeOK'
    BY <1>1 DEF IInv, TypeOK
  <1>4. RefsExact'
    BY <1>1, <1>2 DEF IInv, RefsExact
  <1>5. KillOrder'
    BY <1>1, <1>2 DEF IInv, KillOrder
  <1>6. CallsAlive'
    BY <1>1 DEF IInv, CallsAlive
  <1> QED
    BY <1>3, <1>4, <1>5, <1>6 DEF IInv

(* What the user that works for a thread in a call does changes neither the
   callers nor the killer: the counts it moves are all there is to show. *)
LEMMA UserActs ==
  ASSUME IInv, NEW t \in Threads, NEW s \in UserStates,
         t \in alive, t \in inside, t \notin quiet,
         user' = [user EXCEPT ![t] = s],
         UNCHANGED <<present, waiting, disposed, alive, quiet, inside, caller, killer>>,
         refs' \in Int, busy' \in Int,
         refs' - refs = Cardinality(Counters)' - Cardinality(Counters),
         \/ busy' - busy = Cardinality(InUse)' - Cardinality(InUse)
         \/ ~present /\ busy' = busy
              /\ Cardinality(InUse)' = Cardinality(InUse) - 1
  PROVE  IInv'
  <1>1. user' \in [Threads -> UserStates]
    BY Zenon, UserMoves DEF IInv
  <1>2. Borrowers' = Borrowers /\ KillerHolds' = KillerHolds
    BY DEF Borrowers, KillerHolds
  <1>3. /\ Cardinality(Borrowers) \in Nat
        /\ Cardinality(Counters) \in Nat /\ Cardinality(Counters)' \in Nat
        /\ Cardinality(InUse) \in Nat /\ Cardinality(InUse)' \in Nat
    <2>1. Cardinality(Counters)' \in Nat /\ Cardinality(InUse)' \in Nat
      <3>1. /\ Counters' \subseteq Threads /\ InUse' \subseteq Threads
        BY DEF Counters, InUse
      <3>2. IsFiniteSet(Counters') /\ IsFiniteSet(InUse')
        BY <3>1, ProcessAssumption, FS_Subset
      <3> QED
        BY <3>2, FS_CardinalityType
    <2> QED
      BY <2>1, CountsNat
  <1>4. TypeOK'
    BY <1>1 DEF IInv, TypeOK
  <1>5. RefsExact'
    BY <1>2, <1>3 DEF IInv, TypeOK, RefsExact
  <1>6. KillOrder'
    BY <1>2 DEF IInv, KillOrder
  <1>7. CallsAlive'
    BY DEF IInv, TypeOK, CallsAlive
  <1> QED
    BY <1>4, <1>5, <1>6, <1>7 DEF IInv

(* task_pruse and task_prrelease. *)
LEMMA UserSteps ==
  ASSUME IInv, NEW t \in Threads, PruseGet(t) \/ UserStep(t)
  PROVE  IInv'
  <1>0. refs \in Int /\ busy \in Int /\ CallsAlive
    BY DEF IInv, TypeOK
  <1>1. CASE PruseGet(t)
    <2>1. /\ user[t] = "idle" /\ t \in alive /\ t \in inside
          /\ t \notin quiet
          /\ user' = [user EXCEPT ![t] = "counting"]
          /\ refs' = refs + 1 /\ busy' = busy
          /\ UNCHANGED <<present, waiting, disposed, alive, quiet, inside, caller,
                         killer>>
      BY <1>0, <1>1 DEF PruseGet, rcptable_get, life, calls, CallsAlive
    <2>2. /\ Cardinality(Counters)' = Cardinality(Counters) + 1
          /\ InUse' = InUse
      BY Zenon, <2>1, UserMoves DEF IInv, HoldsEntry, UsesProcess, UserStates
    <2>3. /\ refs' \in Int /\ busy' \in Int
          /\ refs' - refs = Cardinality(Counters)' - Cardinality(Counters)
          /\ busy' - busy = Cardinality(InUse)' - Cardinality(InUse)
      BY <1>0, <2>1, <2>2, CountsNat
    <2> QED
      BY Zenon, <2>1, <2>3, UserActs DEF UserStates
  <1>2. CASE PruseCount(t)
    <2>1. /\ user[t] = "counting" /\ t \in alive /\ t \in inside
          /\ t \notin quiet
          /\ user' = [user EXCEPT ![t] = "counted"]
          /\ refs' = refs /\ busy' = busy + 1
          /\ UNCHANGED <<present, waiting, disposed, alive, quiet, inside, caller,
                         killer>>
      BY <1>0, <1>2 DEF PruseCount, entry, life, calls, CallsAlive
    <2>2. /\ Cardinality(InUse)' = Cardinality(InUse) + 1
          /\ Counters' = Counters
      BY Zenon, <2>1, UserMoves DEF IInv, HoldsEntry, UsesProcess, UserStates
    <2>3. /\ refs' \in Int /\ busy' \in Int
          /\ refs' - refs = Cardinality(Counters)' - Cardinality(Counters)
          /\ busy' - busy = Cardinality(InUse)' - Cardinality(InUse)
      BY <1>0, <2>1, <2>2, CountsNat
    <2> QED
      BY Zenon, <2>1, <2>3, UserActs DEF UserStates
  <1>3. CASE PruseUnref(t)
    <2>1. /\ user[t] = "counted" /\ t \in alive /\ t \in inside
          /\ t \notin quiet
          /\ user' = [user EXCEPT ![t] = "using"]
          /\ refs' = refs - 1 /\ busy' = busy
          /\ UNCHANGED <<present, waiting, disposed, alive, quiet, inside, caller,
                         killer>>
      BY <1>0, <1>3 DEF PruseUnref, rcptable_unref, life, calls, CallsAlive
    <2>2. /\ Cardinality(Counters)' = Cardinality(Counters) - 1
          /\ InUse' = InUse
      BY Zenon, <2>1, UserMoves DEF IInv, HoldsEntry, UsesProcess, UserStates
    <2>3. /\ refs' \in Int /\ busy' \in Int
          /\ refs' - refs = Cardinality(Counters)' - Cardinality(Counters)
          /\ busy' - busy = Cardinality(InUse)' - Cardinality(InUse)
      BY <1>0, <2>1, <2>2, CountsNat
    <2> QED
      BY Zenon, <2>1, <2>3, UserActs DEF UserStates
  <1>4. CASE PrreleaseGet(t) /\ present
    <2>1. /\ user[t] = "using" /\ t \in alive /\ t \in inside
          /\ t \notin quiet
          /\ user' = [user EXCEPT ![t] = "releasing"]
          /\ refs' = refs + 1 /\ busy' = busy
          /\ UNCHANGED <<present, waiting, disposed, alive, quiet, inside, caller,
                         killer>>
      BY <1>0, <1>4 DEF PrreleaseGet, rcptable_get, life, calls, CallsAlive
    <2>2. /\ Cardinality(Counters)' = Cardinality(Counters) + 1
          /\ InUse' = InUse
      BY Zenon, <2>1, UserMoves DEF IInv, HoldsEntry, UsesProcess, UserStates
    <2>3. /\ refs' \in Int /\ busy' \in Int
          /\ refs' - refs = Cardinality(Counters)' - Cardinality(Counters)
          /\ busy' - busy = Cardinality(InUse)' - Cardinality(InUse)
      BY <1>0, <2>1, <2>2, CountsNat
    <2> QED
      BY Zenon, <2>1, <2>3, UserActs DEF UserStates
  <1>5. CASE PrreleaseGet(t) /\ ~present
    <2>1. /\ user[t] = "using" /\ t \in alive /\ t \in inside
          /\ t \notin quiet
          /\ user' = [user EXCEPT ![t] = "idle"]
          /\ refs' = refs /\ busy' = busy
          /\ UNCHANGED <<present, waiting, disposed, alive, quiet, inside, caller,
                         killer>>
      BY <1>0, <1>5 DEF PrreleaseGet, rcptable_get, entry, life, calls, CallsAlive
    <2>2. /\ Cardinality(InUse)' = Cardinality(InUse) - 1
          /\ Counters' = Counters
      BY Zenon, <2>1, UserMoves DEF IInv, HoldsEntry, UsesProcess, UserStates
    <2>3. /\ refs' \in Int /\ busy' \in Int
          /\ refs' - refs = Cardinality(Counters)' - Cardinality(Counters)
          /\ ~present /\ busy' = busy
          /\ Cardinality(InUse)' = Cardinality(InUse) - 1
      BY <1>0, <1>5, <2>1, <2>2, CountsNat
    <2> QED
      BY Zenon, <2>1, <2>3, UserActs DEF UserStates
  <1>6. CASE PrreleaseCount(t)
    <2>1. /\ user[t] = "releasing" /\ t \in alive /\ t \in inside
          /\ t \notin quiet
          /\ user' = [user EXCEPT ![t] = "released"]
          /\ refs' = refs /\ busy' = busy - 1
          /\ UNCHANGED <<present, waiting, disposed, alive, quiet, inside, caller,
                         killer>>
      BY <1>0, <1>6 DEF PrreleaseCount, entry, life, calls, CallsAlive
    <2>2. /\ Cardinality(InUse)' = Cardinality(InUse) - 1
          /\ Counters' = Counters
      BY Zenon, <2>1, UserMoves DEF IInv, HoldsEntry, UsesProcess, UserStates
    <2>3. /\ refs' \in Int /\ busy' \in Int
          /\ refs' - refs = Cardinality(Counters)' - Cardinality(Counters)
          /\ busy' - busy = Cardinality(InUse)' - Cardinality(InUse)
      BY <1>0, <2>1, <2>2, CountsNat
    <2> QED
      BY Zenon, <2>1, <2>3, UserActs DEF UserStates
  <1>7. CASE PrreleaseUnref(t)
    <2>1. /\ user[t] = "released" /\ t \in alive /\ t \in inside
          /\ t \notin quiet
          /\ user' = [user EXCEPT ![t] = "idle"]
          /\ refs' = refs - 1 /\ busy' = busy
          /\ UNCHANGED <<present, waiting, disposed, alive, quiet, inside, caller,
                         killer>>
      BY <1>0, <1>7 DEF PrreleaseUnref, rcptable_unref, life, calls, CallsAlive
    <2>2. /\ Cardinality(Counters)' = Cardinality(Counters) - 1
          /\ InUse' = InUse
      BY Zenon, <2>1, UserMoves DEF IInv, HoldsEntry, UsesProcess, UserStates
    <2>3. /\ refs' \in Int /\ busy' \in Int
          /\ refs' - refs = Cardinality(Counters)' - Cardinality(Counters)
          /\ busy' - busy = Cardinality(InUse)' - Cardinality(InUse)
      BY <1>0, <2>1, <2>2, CountsNat
    <2> QED
      BY Zenon, <2>1, <2>3, UserActs DEF UserStates
  <1> QED
    BY <1>1, <1>2, <1>3, <1>4, <1>5, <1>6, <1>7 DEF UserStep

-----------------------------------------------------------------------------
(* The steps of _task_prkill_async that move no reference, and leave the
   callers, the users and the threads alone. *)
LEMMA KillerMoves ==
  ASSUME IInv,
         \/ ThreadsKilled \/ KillBusy \/ KillRefs \/ Dispose
         \/ CleanerMisses \/ CleanerLooks \/ WalkForGood
  PROVE  IInv'
  <1>1. /\ UNCHANGED <<refs, present, busy, waiting, alive, quiet, inside, caller,
                       user>>
        /\ \/ disposed' = disposed
           \/ disposed' = TRUE /\ killer' = "unref"
        /\ \/ killer = "threads" /\ killer' = "busy" /\ alive = {}
           \/ killer = "busy" /\ killer' = "signal"
           \/ killer = "refs" /\ killer' = "dispose" /\ refs <= 1
           \/ killer = "dispose" /\ killer' \in {"walking", "unref"}
           \/ killer = "threads" /\ killer' = "unheard"
           \/ killer = "unheard" /\ killer' = "threads"
    BY DEF ThreadsKilled, KillBusy, KillRefs, Dispose, CleanerMisses,
           CleanerLooks, WalkForGood, OnlyMine, entry, others, calls
  <1>2. /\ Borrowers' = Borrowers /\ Counters' = Counters /\ InUse' = InUse
        /\ KillerHolds /\ KillerHolds'
    BY <1>1 DEF Borrowers, Counters, InUse, KillerHolds
  <1>3. TypeOK'
    <2>1. disposed' \in BOOLEAN
      BY <1>1, Zenon DEF IInv, TypeOK
    <2> QED
      BY <1>1, <2>1 DEF IInv, TypeOK, KillerStates
  <1>4. RefsExact'
    BY <1>1, <1>2 DEF IInv, RefsExact
  <1>5. killer = "refs" /\ refs <= 1 => Borrowers = {}
    BY <1>2, CountsNat DEF IInv, KillOrder, RefsExact
  <1>6. KillOrder'
    BY <1>1, <1>2, <1>5 DEF IInv, KillOrder, TypeOK
  <1>7. CallsAlive'
    BY <1>1 DEF IInv, CallsAlive
  <1> QED
    BY <1>3, <1>4, <1>6, <1>7 DEF IInv

(* KillGet, KillRemove and KillUnref move one reference of the killer or of
   the table. *)
LEMMA KillerCounts ==
  ASSUME IInv, KillGet \/ KillRemove \/ KillUnref
  PROVE  IInv'
  <1>1. /\ UNCHANGED <<busy, waiting, disposed, alive, quiet, inside, caller, user>>
        /\ \/ killer = "start" /\ killer' = "remove" /\ present
                /\ present' = present /\ refs' = refs + 1
           \/ killer = "remove" /\ killer' = "threads" /\ present
                /\ present' = FALSE /\ refs' = refs - 1
           \/ killer = "unref" /\ killer' = "done" /\ ~present
                /\ present' = present /\ refs' = refs - 1
    BY DEF KillGet, KillRemove, KillUnref, rcptable_get, rcptable_remove,
           rcptable_unref, others, calls, IInv, KillOrder
  <1>2. Borrowers' = Borrowers /\ Counters' = Counters /\ InUse' = InUse
    BY <1>1 DEF Borrowers, Counters, InUse
  <1>3. TypeOK'
    <2>1. present' \in BOOLEAN
      BY <1>1, Zenon DEF IInv, TypeOK
    <2>2. refs' \in Int
      BY <1>1 DEF IInv, TypeOK
    <2> QED
      BY <1>1, <2>1, <2>2 DEF IInv, TypeOK, KillerStates
  <1>4. RefsExact'
    BY <1>1, <1>2, CountsNat DEF IInv, TypeOK, RefsExact, KillerHolds
  <1>5. KillOrder'
    BY <1>1, <1>2 DEF IInv, KillOrder
  <1>6. CallsAlive'
    BY <1>1 DEF IInv, CallsAlive
  <1> QED
    BY <1>3, <1>4, <1>5, <1>6 DEF IInv

(* task_tkill finds a thread outside the kernel, and ends it. *)
LEMMA ThreadDies ==
  ASSUME IInv, NEW t \in Threads, FindQuiet(t) \/ KillThread(t)
  PROVE  IInv'
  <1>1. /\ UNCHANGED <<refs, present, busy, waiting, disposed, inside, caller,
                       user, killer>>
        /\ killer = "threads"
        /\ \/ quiet' = quiet \cup {t} /\ alive' = alive /\ t \notin inside
           \/ quiet' = quiet /\ alive' = alive \ {t} /\ t \in quiet
    BY DEF FindQuiet, KillThread, Killable, entry, others, calls
  <1>2. /\ Borrowers' = Borrowers /\ Counters' = Counters /\ InUse' = InUse
        /\ KillerHolds' = KillerHolds
    BY <1>1 DEF Borrowers, Counters, InUse, KillerHolds
  <1>3. TypeOK'
    BY <1>1 DEF IInv, TypeOK
  <1>4. RefsExact'
    BY <1>1, <1>2 DEF IInv, RefsExact
  <1>5. KillOrder'
    BY <1>1, <1>2 DEF IInv, KillOrder
  <1>6. CallsAlive'
    BY <1>1 DEF IInv, CallsAlive, KillOrder
  <1> QED
    BY <1>3, <1>4, <1>5, <1>6 DEF IInv

(* event_defunct wakes waiters, who keep their references. *)
LEMMA WaitersWoken ==
  ASSUME IInv, KillSignal
  PROVE  IInv'
  <1>1. /\ UNCHANGED <<refs, present, busy, disposed, alive, quiet, inside, user>>
        /\ killer = "signal" /\ killer' = "refs" /\ waiting' = {}
        /\ caller' = [c \in Callers |->
                        IF c \in waiting /\ caller[c] = "queued"
                        THEN "woken" ELSE caller[c]]
    BY DEF KillSignal, entry, calls
  <1>2. /\ Counters' = Counters /\ InUse' = InUse
        /\ KillerHolds /\ KillerHolds'
    BY <1>1 DEF Counters, InUse, KillerHolds
  <1>3. Borrowers' = Borrowers
    BY <1>1 DEF Borrowers
  <1>4. TypeOK'
    BY <1>1 DEF IInv, TypeOK, KillerStates, CallerStates
  <1>5. RefsExact'
    BY <1>1, <1>2, <1>3 DEF IInv, RefsExact
  <1>6. KillOrder'
    BY <1>1, <1>3 DEF IInv, KillOrder
  <1>7. CallsAlive'
    BY <1>1 DEF IInv, CallsAlive
  <1> QED
    BY <1>4, <1>5, <1>6, <1>7 DEF IInv

LEMMA NextIInv == IInv /\ [Next]_vars => IInv'
  <1> SUFFICES ASSUME IInv, [Next]_vars PROVE IInv'
    OBVIOUS
  <1>1. ASSUME NEW c \in Callers,
               \/ Borrow(c) \/ PrwaitGet(c) \/ CallerStep(c)
               \/ PrwaitAbort(c) \/ CallerKilled(c)
        PROVE  IInv'
    BY <1>1, CallerGets, CallerGives, CallerKeeps DEF CallerStep
  <1>2. ASSUME NEW t \in Threads,
               \/ EnterKernel(t) \/ FallDeaf(t) \/ LeaveKernel(t)
               \/ PruseGet(t) \/ UserStep(t)
        PROVE  IInv'
    BY <1>2, ThreadCalls, UserSteps
  <1>3. CASE \/ KillGet \/ KillStep
             \/ CleanerMisses \/ CleanerLooks \/ WalkForGood
    BY <1>3, KillerMoves, KillerCounts, ThreadDies, WaitersWoken DEF KillStep
  <1>4. CASE UNCHANGED vars
    <2>1. UNCHANGED <<refs, present, busy, waiting, disposed, alive, quiet, inside,
                      caller, user, killer>>
      BY <1>4 DEF vars
    <2>2. /\ Borrowers' = Borrowers /\ Counters' = Counters /\ InUse' = InUse
          /\ KillerHolds' = KillerHolds
      BY <2>1 DEF Borrowers, Counters, InUse, KillerHolds
    <2>3. TypeOK'
      BY <2>1 DEF IInv, TypeOK
    <2>4. RefsExact' /\ KillOrder' /\ CallsAlive'
      BY <2>1, <2>2 DEF IInv, RefsExact, KillOrder, CallsAlive
    <2> QED
      BY <2>3, <2>4 DEF IInv
  <1> QED
    BY <1>1, <1>2, <1>3, <1>4 DEF Next

LEMMA Inductive == Spec => []IInv
  BY InitIInv, NextIInv, PTL DEF Spec

(* The refs of a process's entry in the table (rcptable_get, rcptable_unref,
   rcptable_remove) count its presence and the pointers in use, neither more
   nor less, whatever task_prkill interleaves with. *)
THEOREM ProcessRefsExact == Spec => []RefsExact
  <1>1. IInv => RefsExact
    BY DEF IInv
  <1> QED
    BY <1>1, Inductive, PTL

(* _task_prkill_async disposes of a process nobody borrows, waits for, counts
   or uses, and none of these begins afterwards. *)
THEOREM ProcessUsedNotDisposed == Spec => []UsedNotDisposed
  <1>1. IInv => UsedNotDisposed
    <2> SUFFICES ASSUME IInv, disposed
                 PROVE  Borrowers = {} /\ Counters = {} /\ InUse = {}
      BY DEF UsedNotDisposed
    <2>1. Borrowers = {} /\ alive = {}
      BY DEF IInv, KillOrder
    <2>2. \A t \in Threads : user[t] = "idle"
      BY <2>1 DEF IInv, CallsAlive
    <2> QED
      BY <2>1, <2>2 DEF Counters, InUse
  <1> QED
    BY <1>1, Inductive, PTL

=============================================================================
