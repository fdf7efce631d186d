------------------------------ MODULE RcpArray ------------------------------
(***************************************************************************)
(* The reference counting pointer array of include/aex/rcparray.h, used by *)
(* its clients the way fs/fd.c uses the table of open files: readers get   *)
(* an entry, use it and unref it; closers, serialised by a lock of their   *)
(* own, get, unref and remove it.  Every macro holds the array's lock from *)
(* its first to its last access, so each macro is one step.                *)
(***************************************************************************)
EXTENDS Integers, FiniteSets

CONSTANTS Clients,  \* threads that call the macros
          Values,   \* what the entries hold
          MaxSize,  \* bound on the size the array grows to
          NULL,     \* an empty slot
          None      \* no client, no slot

Slots == 0 .. MaxSize - 1
Entry == [refs : Int, present : BOOLEAN, value : Values]

ASSUME ConstantsAssumption ==
  /\ IsFiniteSet(Clients)
  /\ MaxSize \in Nat
  /\ NULL \notin Entry
  /\ None \notin Slots
  /\ None \notin Clients

VARIABLES
  array,       \* rcparray.array: an entry or NULL per slot
  size,        \* rcparray.size
  hold,        \* the slot whose value a client has a pointer to
  closing,     \* the slot a client is about to remove
  close_lock   \* fd_close's lock: the client that holds it

vars == <<array, size, hold, closing, close_lock>>

Idle(c) == hold[c] = None /\ closing[c] = None

(* The slot is one the bounds and NULL checks of the macros accept. *)
InUse(id) == id < size /\ array[id] # NULL

Present(id) == InUse(id) /\ array[id].present

-----------------------------------------------------------------------------
Init ==
  /\ array = [i \in Slots |-> NULL]
  /\ size = 0
  /\ hold = [c \in Clients |-> None]
  /\ closing = [c \in Clients |-> None]
  /\ close_lock = None

NewEntry(v) == [refs |-> 1, present |-> TRUE, value |-> v]

(* Mutant of rcparray_add: a removed entry that is still referenced is taken
   for the new value, its count carried over. *)
add_revives_removed(c, v) ==
  /\ Idle(c)
  /\ \/ \E i \in Slots :
          /\ InUse(i) /\ ~Present(i)
          /\ array' = [array EXCEPT ![i] =
                         [refs |-> @.refs + 1, present |-> TRUE, value |-> v]]
          /\ UNCHANGED size
     \/ /\ size < MaxSize
        /\ array' = [array EXCEPT ![size] = NewEntry(v)]
        /\ size' = size + 1
  /\ UNCHANGED <<hold, closing, close_lock>>

(* The first empty slot below size is reused; with none, the array grows. *)
rcparray_add(c, v) ==
  /\ Idle(c)
  /\ \/ \E i \in Slots :
          /\ i < size /\ array[i] = NULL
          /\ \A j \in Slots : j < i => array[j] # NULL
          /\ array' = [array EXCEPT ![i] = NewEntry(v)]
          /\ UNCHANGED size
     \/ /\ \A i \in Slots : i < size => array[i] # NULL
        /\ size < MaxSize
        /\ array' = [array EXCEPT ![size] = NewEntry(v)]
        /\ size' = size + 1
  /\ UNCHANGED <<hold, closing, close_lock>>

(* What remains of an entry after refs is decremented: NULL once it is 0. *)
Dropped(e) == IF e.refs = 1 THEN NULL ELSE [e EXCEPT !.refs = @ - 1]

(* A get of an empty or removed slot returns NULL and changes nothing. *)
rcparray_get(c, id) ==
  /\ Idle(c)
  /\ Present(id)
  /\ array' = [array EXCEPT ![id].refs = @ + 1]
  /\ hold' = [hold EXCEPT ![c] = id]
  /\ UNCHANGED <<size, closing, close_lock>>

(* The first present entry with the value looked for. *)
rcparray_find(c, v) ==
  \E id \in Slots :
    /\ Present(id) /\ array[id].value = v
    /\ \A j \in Slots : j < id /\ Present(j) => array[j].value # v
    /\ rcparray_get(c, id)

rcparray_unref(c) ==
  /\ hold[c] # None /\ closing[c] = None
  /\ array' = IF InUse(hold[c])
              THEN [array EXCEPT ![hold[c]] = Dropped(@)]
              ELSE array
  /\ hold' = [hold EXCEPT ![c] = None]
  /\ UNCHANGED <<size, closing, close_lock>>

(* fd_close: lock, get, unref, remove, unlock; readers run in between. *)
CloseGet(c, id) ==
  /\ Idle(c) /\ close_lock = None
  /\ Present(id)
  /\ array' = [array EXCEPT ![id].refs = @ + 1]
  /\ hold' = [hold EXCEPT ![c] = id]
  /\ closing' = [closing EXCEPT ![c] = id]
  /\ close_lock' = c
  /\ UNCHANGED size

CloseUnref(c) ==
  /\ close_lock = c /\ hold[c] # None
  /\ array' = IF InUse(hold[c])
              THEN [array EXCEPT ![hold[c]] = Dropped(@)]
              ELSE array
  /\ hold' = [hold EXCEPT ![c] = None]
  /\ UNCHANGED <<size, closing, close_lock>>

(* Mutant of rcparray_remove: the entry is freed whoever still holds it. *)
remove_frees_at_once(c) ==
  /\ close_lock = c /\ hold[c] = None
  /\ array' = [array EXCEPT ![closing[c]] = NULL]
  /\ closing' = [closing EXCEPT ![c] = None]
  /\ close_lock' = None
  /\ UNCHANGED <<size, hold>>

rcparray_remove(c) ==
  /\ close_lock = c /\ hold[c] = None
  /\ array' = IF InUse(closing[c])
              THEN [array EXCEPT ![closing[c]] =
                      Dropped([@ EXCEPT !.present = FALSE])]
              ELSE array
  /\ closing' = [closing EXCEPT ![c] = None]
  /\ close_lock' = None
  /\ UNCHANGED <<size, hold>>

Next ==
  \E c \in Clients :
    \/ \E v \in Values : rcparray_add(c, v) \/ rcparray_find(c, v)
    \/ \E id \in Slots : rcparray_get(c, id) \/ CloseGet(c, id)
    \/ rcparray_unref(c) \/ CloseUnref(c) \/ rcparray_remove(c)

Spec == Init /\ [][Next]_vars

-----------------------------------------------------------------------------
Holders(id) == {c \in Clients : hold[c] = id}

(* Slots at and above size are empty, and every variable keeps its type. *)
TypeOK ==
  /\ array \in [Slots -> Entry \cup {NULL}]
  /\ size \in 0 .. MaxSize
  /\ \A i \in Slots : i >= size => array[i] = NULL
  /\ hold \in [Clients -> Slots \cup {None}]
  /\ closing \in [Clients -> Slots \cup {None}]
  /\ close_lock \in Clients \cup {None}

(* The count of rcparray.h is exact: refs is the number of pointers handed
   out by get and find and not yet given back, plus one while the entry is
   present.  In particular an entry nobody holds any more is not leaked. *)
RefsAccount ==
  \A i \in Slots : array[i] # NULL =>
    /\ array[i].refs > 0
    /\ array[i].refs =
         Cardinality(Holders(i)) + (IF array[i].present THEN 1 ELSE 0)

(* The entry behind a pointer that get or find returned is not freed before
   it is given back: kfree in unref and remove never runs under a holder. *)
NoDanglingPointer ==
  \A c \in Clients : hold[c] # None => InUse(hold[c])

(* fd_close removes what it looked up: the entry a closer is going to remove
   is still there and still present, whatever readers did in between. *)
RemovesPresentEntry ==
  \A c \in Clients : closing[c] # None => Present(closing[c])

(* While a client keeps its pointer, the slot is not given to another value:
   rcparray_add never reuses a slot somebody still reads. *)
HeldValueStable ==
  [][\A c \in Clients, i \in Slots :
       hold[c] = i /\ hold'[c] = i /\ array[i] # NULL
         => array'[i] # NULL /\ array'[i].value = array[i].value]_vars
=============================================================================
