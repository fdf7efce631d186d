--------------------------- MODULE RcpArrayProofs ---------------------------
(***************************************************************************)
(* The reference counts of rcparray.h are exact for any number of clients, *)
(* values and slots, and no pointer handed out dangles.                    *)
(***************************************************************************)
EXTENDS RcpArray, FiniteSetTheorems, TLAPS

(* A closer owns close_lock, and until its unref it holds the slot it is
   going to remove. *)
ClosersLocked ==
  \A c \in Clients :
    /\ closing[c] # None <=> close_lock = c
    /\ closing[c] # None /\ hold[c] # None => hold[c] = closing[c]

(* The inductive invariant: exact counts keep a held entry alive only
   together with the closers' protocol, because remove decrements the count
   without looking at present. *)
IInv ==
  /\ TypeOK
  /\ RefsAccount
  /\ NoDanglingPointer
  /\ RemovesPresentEntry
  /\ ClosersLocked

(* The clients that hold a slot are finitely many; the count is a natural. *)
LEMMA HoldersFinite ==
  ASSUME TypeOK, NEW i \in Slots
  PROVE  IsFiniteSet(Holders(i)) /\ Cardinality(Holders(i)) \in Nat
  <1>1. Holders(i) \subseteq Clients
    BY DEF Holders
  <1>2. IsFiniteSet(Holders(i))
    BY <1>1, ConstantsAssumption, FS_Subset
  <1> QED
    BY <1>2, FS_CardinalityType

(* get and find add one holder to the slot and to no other. *)
LEMMA HoldersAfterGet ==
  ASSUME TypeOK, NEW c \in Clients, NEW id \in Slots, hold[c] = None,
         hold' = [hold EXCEPT ![c] = id], NEW i \in Slots
  PROVE  Cardinality(Holders(i))' =
           Cardinality(Holders(i)) + (IF i = id THEN 1 ELSE 0)
  <1>1. CASE i = id
    <2>1. Holders(i)' = Holders(i) \cup {c}
      BY <1>1 DEF Holders, TypeOK
    <2>2. c \notin Holders(i)
      BY ConstantsAssumption DEF Holders
    <2>3. Cardinality(Holders(i) \cup {c}) = Cardinality(Holders(i)) + 1
      BY Zenon, <2>2, HoldersFinite, FS_AddElement
    <2> QED
      BY <1>1, <2>1, <2>3
  <1>2. CASE i # id
    <2>1. Holders(i)' = Holders(i)
      BY <1>2, ConstantsAssumption DEF Holders, TypeOK
    <2> QED
      BY <1>2, <2>1, HoldersFinite
  <1> QED
    BY <1>1, <1>2

(* unref takes one holder from the slot and from no other. *)
LEMMA HoldersAfterUnref ==
  ASSUME TypeOK, NEW c \in Clients, hold[c] # None,
         hold' = [hold EXCEPT ![c] = None], NEW i \in Slots
  PROVE  /\ Cardinality(Holders(i))' =
              Cardinality(Holders(i)) - (IF i = hold[c] THEN 1 ELSE 0)
         /\ i = hold[c] => Cardinality(Holders(i)) > 0
  <1>1. CASE i = hold[c]
    <2>1. Holders(i)' = Holders(i) \ {c}
      BY <1>1, ConstantsAssumption DEF Holders, TypeOK
    <2>2. c \in Holders(i)
      BY <1>1 DEF Holders
    <2>3. Cardinality(Holders(i) \ {c}) = Cardinality(Holders(i)) - 1
      BY Zenon, <2>2, HoldersFinite, FS_RemoveElement
    <2>4. Cardinality(Holders(i)) # 0
      BY <2>2, HoldersFinite, FS_EmptySet
    <2> QED
      BY <1>1, <2>1, <2>3, <2>4, HoldersFinite
  <1>2. CASE i # hold[c]
    <2>1. Holders(i)' = Holders(i)
      BY <1>2, ConstantsAssumption DEF Holders, TypeOK
    <2> QED
      BY <1>2, <2>1, HoldersFinite
  <1> QED
    BY <1>1, <1>2

(* A slot somebody holds has a positive number of holders. *)
LEMMA HolderCounts ==
  ASSUME TypeOK, NEW c \in Clients, hold[c] # None
  PROVE  Cardinality(Holders(hold[c])) > 0
  <1>1. hold[c] \in Slots /\ c \in Holders(hold[c])
    BY DEF TypeOK, Holders
  <1> QED
    BY <1>1, HoldersFinite, FS_EmptySet

LEMMA InitIInv == Init => IInv
  <1> SUFFICES ASSUME Init PROVE IInv
    OBVIOUS
  <1>1. TypeOK
    BY ConstantsAssumption DEF Init, TypeOK, Slots
  <1>2. RefsAccount
    BY DEF Init, RefsAccount
  <1> QED
    BY <1>1, <1>2, ConstantsAssumption
    DEF Init, IInv, NoDanglingPointer, RemovesPresentEntry, ClosersLocked

(* A new reference to a present slot: the part common to get, find and the
   first step of fd_close. *)
LEMMA TakeReference ==
  ASSUME IInv, NEW c \in Clients, NEW id \in Slots, Idle(c), Present(id),
         array' = [array EXCEPT ![id].refs = @ + 1],
         hold' = [hold EXCEPT ![c] = id], UNCHANGED size
  PROVE  /\ array' \in [Slots -> Entry \cup {NULL}]
         /\ \A i \in Slots : i >= size' => array'[i] = NULL
         /\ \A i \in Slots : array'[i] = NULL <=> array[i] = NULL
         /\ \A i \in Slots : array[i] # NULL =>
               /\ array'[i].present = array[i].present
               /\ array'[i].value = array[i].value
         /\ RefsAccount'
         /\ NoDanglingPointer'
  <1> USE ConstantsAssumption
  <1>1. array \in [Slots -> Entry \cup {NULL}] /\ array[id] \in Entry
    BY DEF IInv, TypeOK, Present, InUse
  <1>2. array' = [array EXCEPT ![id] = [array[id] EXCEPT !.refs = @ + 1]]
    OBVIOUS
  <1>3. /\ array'[id] \in Entry
        /\ array'[id].refs = array[id].refs + 1
        /\ array'[id].present = array[id].present
        /\ array'[id].value = array[id].value
    BY <1>1, <1>2 DEF Entry
  <1>4. \A i \in Slots : i # id => array'[i] = array[i]
    BY <1>1, <1>2
  <1>5. array' \in [Slots -> Entry \cup {NULL}]
    BY <1>1, <1>2, <1>3
  <1>6. \A i \in Slots : array'[i] = NULL <=> array[i] = NULL
    BY <1>1, <1>3, <1>4
  <1>7. RefsAccount'
    <2> SUFFICES ASSUME NEW i \in Slots, array'[i] # NULL
                 PROVE  /\ array'[i].refs > 0
                        /\ array'[i].refs = Cardinality(Holders(i))'
                              + (IF array'[i].present THEN 1 ELSE 0)
      BY DEF RefsAccount
    <2>1. /\ array[i].refs > 0 /\ array[i].refs \in Int
          /\ array[i].refs = Cardinality(Holders(i))
                + (IF array[i].present THEN 1 ELSE 0)
      BY <1>1, <1>6 DEF IInv, RefsAccount, Entry
    <2>2. Cardinality(Holders(i))' =
            Cardinality(Holders(i)) + (IF i = id THEN 1 ELSE 0)
      BY Zenon, HoldersAfterGet DEF IInv, Idle
    <2>3. Cardinality(Holders(i)) \in Nat
      BY HoldersFinite DEF IInv
    <2> QED
      BY <1>3, <1>4, <2>1, <2>2, <2>3
  <1>8. NoDanglingPointer'
    BY <1>1, <1>6 DEF NoDanglingPointer, IInv, TypeOK, InUse, Present
  <1>9. \A i \in Slots : array[i] # NULL =>
               /\ array'[i].present = array[i].present
               /\ array'[i].value = array[i].value
    BY <1>3, <1>4
  <1>10. \A i \in Slots : i >= size' => array'[i] = NULL
    BY <1>6 DEF IInv, TypeOK
  <1> QED
    BY <1>5, <1>6, <1>7, <1>8, <1>9, <1>10

(* A reference given back: the part common to unref and to the second step
   of fd_close.  An entry that is present, or that somebody else holds,
   survives with its value. *)
LEMMA GiveReference ==
  ASSUME IInv, NEW c \in Clients, hold[c] # None,
         array' = IF InUse(hold[c])
                  THEN [array EXCEPT ![hold[c]] = Dropped(@)]
                  ELSE array,
         hold' = [hold EXCEPT ![c] = None], UNCHANGED size
  PROVE  /\ array' \in [Slots -> Entry \cup {NULL}]
         /\ \A i \in Slots : i >= size' => array'[i] = NULL
         /\ \A i \in Slots : Present(i) => Present(i)'
         /\ \A i \in Slots, d \in Clients : d # c /\ hold[d] = i =>
               array'[i] # NULL /\ array'[i].value = array[i].value
         /\ RefsAccount'
         /\ NoDanglingPointer'
  <1> USE ConstantsAssumption
  <1>0. PICK id \in Slots : id = hold[c]
    BY DEF IInv, TypeOK
  <1>1. id \in Slots /\ array \in [Slots -> Entry \cup {NULL}]
    BY DEF IInv, TypeOK
  <1>2. InUse(id) /\ array[id] \in Entry
    BY <1>0, <1>1 DEF IInv, NoDanglingPointer, InUse
  <1>3. array' = [array EXCEPT ![id] = Dropped(array[id])]
    BY <1>0, <1>2
  <1>4. \A i \in Slots : i # id => array'[i] = array[i]
    BY <1>1, <1>3
  <1>5. /\ array[id].refs \in Int /\ array[id].refs > 0
        /\ array[id].refs = Cardinality(Holders(id))
              + (IF array[id].present THEN 1 ELSE 0)
    BY <1>1, <1>2 DEF IInv, RefsAccount, Entry
  <1>6. \A i \in Slots : Cardinality(Holders(i)) \in Nat
    BY HoldersFinite DEF IInv
  <1>7. \A i \in Slots :
          /\ Cardinality(Holders(i))' =
               Cardinality(Holders(i)) - (IF i = id THEN 1 ELSE 0)
          /\ i = id => Cardinality(Holders(i)) > 0
    BY Zenon, <1>0, HoldersAfterUnref DEF IInv
  <1>8. CASE array[id].refs = 1
    <2>1. array'[id] = NULL
      BY <1>1, <1>3, <1>8 DEF Dropped
    <2>2. ~array[id].present /\ Cardinality(Holders(id))' = 0
      BY <1>1, <1>5, <1>6, <1>7, <1>8
    <2>3. \A d \in Clients : d # c => hold[d] # id
      <3> SUFFICES ASSUME NEW d \in Clients, d # c, hold[d] = id PROVE FALSE
        OBVIOUS
      <3>1. d \in Holders(id)'
        BY <1>0 DEF Holders, IInv, TypeOK
      <3>2. IsFiniteSet(Holders(id)')
        <4>1. Holders(id)' \subseteq Clients
          BY DEF Holders
        <4> QED
          BY <4>1, FS_Subset
      <3> QED
        BY <2>2, <3>1, <3>2, FS_EmptySet
    <2>4. array' \in [Slots -> Entry \cup {NULL}]
      BY Zenon, <1>1, <1>3, <1>8 DEF Dropped
    <2>5. RefsAccount'
      BY <1>4, <1>6, <1>7, <2>1 DEF RefsAccount, IInv
    <2>6. NoDanglingPointer'
      BY <1>0, <1>1, <1>4, <2>3 DEF NoDanglingPointer, IInv, TypeOK, InUse
    <2>7. \A i \in Slots : Present(i) => Present(i)'
      BY <1>4, <2>2 DEF Present, InUse
    <2>8. \A i \in Slots : i >= size' => array'[i] = NULL
      BY <1>4, <2>1 DEF IInv, TypeOK
    <2> QED
      BY <1>1, <1>4, <2>3, <2>4, <2>5, <2>6, <2>7, <2>8
      DEF IInv, NoDanglingPointer, InUse
  <1>9. CASE array[id].refs # 1
    <2>1. array' = [array EXCEPT ![id] = [array[id] EXCEPT !.refs = @ - 1]]
      BY Zenon, <1>3, <1>9 DEF Dropped
    <2>2. /\ array'[id] \in Entry
          /\ array'[id].refs = array[id].refs - 1
          /\ array'[id].present = array[id].present
          /\ array'[id].value = array[id].value
      BY <1>1, <1>2, <2>1 DEF Entry
    <2>3. array' \in [Slots -> Entry \cup {NULL}]
      BY Zenon, <1>1, <2>1, <2>2
    <2>4. \A i \in Slots : array'[i] = NULL <=> array[i] = NULL
      BY <1>2, <1>4, <2>2
    <2>5. RefsAccount'
      <3> SUFFICES ASSUME NEW i \in Slots, array'[i] # NULL
                   PROVE  /\ array'[i].refs > 0
                          /\ array'[i].refs = Cardinality(Holders(i))'
                                + (IF array'[i].present THEN 1 ELSE 0)
        BY DEF RefsAccount
      <3>1. /\ array[i].refs > 0 /\ array[i].refs \in Int
            /\ array[i].refs = Cardinality(Holders(i))
                  + (IF array[i].present THEN 1 ELSE 0)
        BY <1>1, <2>4 DEF IInv, RefsAccount, Entry
      <3>2. CASE i = id
        <4>1. Cardinality(Holders(i))' = Cardinality(Holders(i)) - 1
          BY <1>7, <3>2
        <4> QED
          BY <1>6, <1>9, <2>2, <3>1, <3>2, <4>1
      <3>3. CASE i # id
        <4>1. Cardinality(Holders(i))' = Cardinality(Holders(i)) - 0
          BY <1>7, <3>3
        <4> QED
          BY <1>4, <1>6, <3>1, <3>3, <4>1
      <3> QED
        BY <3>2, <3>3
    <2>6. NoDanglingPointer'
      BY <1>1, <2>4 DEF NoDanglingPointer, IInv, TypeOK, InUse
    <2>7. \A i \in Slots : Present(i) => Present(i)'
      BY <1>4, <2>2, <2>4 DEF Present, InUse
    <2>8. \A i \in Slots : i >= size' => array'[i] = NULL
      BY <2>4 DEF IInv, TypeOK
    <2>9. \A i \in Slots : array'[i].value = array[i].value
      BY <1>4, <2>2
    <2>10. \A i \in Slots, d \in Clients : hold[d] = i => array[i] # NULL
      BY DEF IInv, NoDanglingPointer, InUse, TypeOK
    <2> QED
      BY <2>3, <2>4, <2>5, <2>6, <2>7, <2>8, <2>9, <2>10
  <1> QED
    BY <1>8, <1>9

LEMMA AddStep ==
  ASSUME IInv, NEW c \in Clients, NEW v \in Values, rcparray_add(c, v)
  PROVE  /\ IInv'
         /\ \A i \in Slots : array[i] # NULL => array'[i] = array[i]
  <1> USE ConstantsAssumption
  <1>1. PICK k \in Slots : /\ array[k] = NULL
                          /\ array' = [array EXCEPT ![k] = NewEntry(v)]
                          /\ size' \in 0 .. MaxSize
                          /\ k < size' /\ size <= size'
    BY SMTT(30) DEF rcparray_add, IInv, TypeOK, Slots
  <1>2. UNCHANGED <<hold, closing, close_lock>>
    BY DEF rcparray_add
  <1>3. /\ array'[k] = NewEntry(v) /\ NewEntry(v) \in Entry
        /\ \A i \in Slots : i # k => array'[i] = array[i]
    BY <1>1 DEF IInv, TypeOK, NewEntry, Entry
  <1>4. TypeOK'
    BY <1>1, <1>2, <1>3 DEF IInv, TypeOK, Slots
  <1>5. \A i \in Slots : Holders(i)' = Holders(i)
    BY <1>2 DEF Holders
  <1>6. Holders(k) = {}
    BY <1>1 DEF Holders, IInv, NoDanglingPointer, InUse
  <1>7. RefsAccount'
    <2>1. Cardinality(Holders(k))' = 0
      BY <1>5, <1>6, FS_EmptySet
    <2> QED
      BY <1>3, <1>5, <2>1 DEF IInv, RefsAccount, NewEntry
  <1>8. \A i \in Slots : array[i] # NULL => array'[i] = array[i]
    BY <1>1, <1>3
  <1>9. NoDanglingPointer' /\ RemovesPresentEntry'
    BY <1>1, <1>2, <1>8
    DEF IInv, TypeOK, NoDanglingPointer, RemovesPresentEntry, Present, InUse, Slots
  <1> QED
    BY <1>2, <1>4, <1>7, <1>8, <1>9 DEF IInv, ClosersLocked

LEMMA GetStep ==
  ASSUME IInv, NEW c \in Clients, NEW id \in Slots, rcparray_get(c, id)
  PROVE  IInv'
  <1> USE ConstantsAssumption
  <1>1. /\ array' \in [Slots -> Entry \cup {NULL}]
        /\ \A i \in Slots : i >= size' => array'[i] = NULL
        /\ \A i \in Slots : array'[i] = NULL <=> array[i] = NULL
        /\ \A i \in Slots : array[i] # NULL =>
              array'[i].present = array[i].present
        /\ RefsAccount' /\ NoDanglingPointer'
    BY Zenon, TakeReference DEF rcparray_get
  <1>2. TypeOK'
    BY <1>1 DEF IInv, TypeOK, rcparray_get
  <1>3. RemovesPresentEntry'
    BY <1>1 DEF IInv, TypeOK, RemovesPresentEntry, Present, InUse, rcparray_get
  <1>4. ClosersLocked'
    BY DEF IInv, TypeOK, ClosersLocked, rcparray_get, Idle
  <1> QED
    BY <1>1, <1>2, <1>3, <1>4 DEF IInv

LEMMA CloseGetStep ==
  ASSUME IInv, NEW c \in Clients, NEW id \in Slots, CloseGet(c, id)
  PROVE  IInv'
  <1> USE ConstantsAssumption
  <1>1. /\ array' \in [Slots -> Entry \cup {NULL}]
        /\ \A i \in Slots : i >= size' => array'[i] = NULL
        /\ \A i \in Slots : array'[i] = NULL <=> array[i] = NULL
        /\ \A i \in Slots : array[i] # NULL =>
              array'[i].present = array[i].present
        /\ RefsAccount' /\ NoDanglingPointer'
    BY Zenon, TakeReference DEF CloseGet
  <1>2. TypeOK'
    BY <1>1 DEF IInv, TypeOK, CloseGet
  <1>3. RemovesPresentEntry'
    BY <1>1 DEF IInv, TypeOK, RemovesPresentEntry, Present, InUse, CloseGet
  <1>4. ClosersLocked'
    BY DEF IInv, TypeOK, ClosersLocked, CloseGet, Idle
  <1> QED
    BY <1>1, <1>2, <1>3, <1>4 DEF IInv

LEMMA UnrefStep ==
  ASSUME IInv, NEW c \in Clients, rcparray_unref(c) \/ CloseUnref(c)
  PROVE  IInv'
  <1> USE ConstantsAssumption
  <1>1. /\ hold[c] # None
        /\ array' = IF InUse(hold[c])
                    THEN [array EXCEPT ![hold[c]] = Dropped(@)]
                    ELSE array
        /\ hold' = [hold EXCEPT ![c] = None]
        /\ UNCHANGED <<size, closing, close_lock>>
    BY DEF rcparray_unref, CloseUnref
  <1>2. /\ array' \in [Slots -> Entry \cup {NULL}]
        /\ \A i \in Slots : i >= size' => array'[i] = NULL
        /\ \A i \in Slots : Present(i) => Present(i)'
        /\ RefsAccount' /\ NoDanglingPointer'
    BY Zenon, <1>1, GiveReference
  <1>3. TypeOK'
    BY <1>1, <1>2 DEF IInv, TypeOK
  <1>4. RemovesPresentEntry'
    BY <1>1, <1>2 DEF IInv, TypeOK, RemovesPresentEntry
  <1>5. ClosersLocked'
    BY <1>1 DEF IInv, TypeOK, ClosersLocked
  <1> QED
    BY <1>2, <1>3, <1>4, <1>5 DEF IInv

(* remove takes back the one reference present stands for, so it frees the
   entry only when nobody holds it. *)
LEMMA RemoveStep ==
  ASSUME IInv, NEW c \in Clients, rcparray_remove(c)
  PROVE  /\ IInv'
         /\ \A d \in Clients, i \in Slots : hold[d] = i =>
              array'[i] # NULL /\ array'[i].value = array[i].value
  <1> USE ConstantsAssumption
  <1>0. PICK id \in Slots : id = closing[c]
    BY DEF rcparray_remove, IInv, TypeOK, ClosersLocked
  <1>1. /\ array \in [Slots -> Entry \cup {NULL}]
        /\ InUse(id) /\ array[id] \in Entry /\ array[id].present
    BY <1>0 DEF IInv, TypeOK, RemovesPresentEntry, Present, InUse
  <1> DEFINE e == [array[id] EXCEPT !.present = FALSE]
  <1>2. array' = [array EXCEPT ![id] = Dropped(e)]
    BY <1>0, <1>1 DEF rcparray_remove
  <1>3. e \in Entry /\ e.refs = array[id].refs /\ ~e.present
        /\ e.value = array[id].value
    BY Zenon, <1>1 DEF Entry
  <1>4. \A i \in Slots : i # id => array'[i] = array[i]
    BY <1>1, <1>2
  <1>5. \A i \in Slots : Holders(i)' = Holders(i)
                         /\ Cardinality(Holders(i)) \in Nat
    BY HoldersFinite DEF rcparray_remove, Holders, IInv
  <1>6. array[id].refs = Cardinality(Holders(id)) + 1
    BY <1>1 DEF IInv, RefsAccount, InUse
  <1>7. IF array[id].refs = 1
        THEN array'[id] = NULL
        ELSE /\ array'[id] \in Entry /\ ~array'[id].present
             /\ array'[id].refs = array[id].refs - 1
             /\ array'[id].value = array[id].value
    <2>1. array'[id] = Dropped(e)
      BY <1>1, <1>2
    <2> HIDE DEF e
    <2> QED
      BY <1>3, <2>1 DEF Dropped, Entry
  <1>8. array'[id] # NULL \/ Holders(id) = {}
    <2>1. array[id].refs = 1 => Holders(id) = {}
      BY <1>5, <1>6, HoldersFinite, FS_EmptySet DEF IInv
    <2> QED
      BY <1>7, <2>1
  <1>9. \A d \in Clients, i \in Slots : hold[d] = i =>
              array'[i] # NULL /\ array'[i].value = array[i].value
    BY <1>1, <1>4, <1>7, <1>8 DEF Holders, IInv, NoDanglingPointer, InUse
  <1>10. TypeOK'
    <2>1. array' \in [Slots -> Entry \cup {NULL}]
      BY <1>1, <1>2, <1>7
    <2>2. \A i \in Slots : i >= size' => array'[i] = NULL
      BY <1>1, <1>4, <1>7 DEF IInv, TypeOK, rcparray_remove, InUse, Slots
    <2> QED
      BY Zenon, <2>1, <2>2 DEF IInv, TypeOK, rcparray_remove
  <1>11. RefsAccount'
    BY <1>4, <1>5, <1>6, <1>7 DEF IInv, RefsAccount
  <1>12. NoDanglingPointer'
    BY ZenonT(30), <1>9 DEF IInv, TypeOK, NoDanglingPointer, InUse, rcparray_remove
  <1>13. \A d \in Clients : closing'[d] = None
    BY DEF rcparray_remove, IInv, TypeOK, ClosersLocked
  <1>14. RemovesPresentEntry' /\ ClosersLocked'
    BY <1>13 DEF rcparray_remove, RemovesPresentEntry, ClosersLocked
  <1> QED
    BY <1>9, <1>10, <1>11, <1>12, <1>14 DEF IInv

LEMMA NextIInv == IInv /\ [Next]_vars => IInv'
  <1> SUFFICES ASSUME IInv, [Next]_vars PROVE IInv'
    OBVIOUS
  <1>1. CASE UNCHANGED vars
    BY <1>1 DEF vars, IInv, TypeOK, RefsAccount, Holders, NoDanglingPointer,
                RemovesPresentEntry, Present, InUse, ClosersLocked
  <1>2. ASSUME NEW c \in Clients, NEW v \in Values,
               rcparray_add(c, v) \/ rcparray_find(c, v)
        PROVE  IInv'
    BY <1>2, AddStep, GetStep DEF rcparray_find
  <1>3. ASSUME NEW c \in Clients, NEW id \in Slots,
               rcparray_get(c, id) \/ CloseGet(c, id)
        PROVE  IInv'
    BY <1>3, GetStep, CloseGetStep
  <1>4. ASSUME NEW c \in Clients, rcparray_unref(c) \/ CloseUnref(c)
        PROVE  IInv'
    BY <1>4, UnrefStep
  <1>5. ASSUME NEW c \in Clients, rcparray_remove(c)
        PROVE  IInv'
    BY <1>5, RemoveStep
  <1> QED
    BY <1>1, <1>2, <1>3, <1>4, <1>5 DEF Next

(* In every behaviour of the array and its clients: the variables keep their
   types, the reference counts are exact, no pointer handed out dangles, and
   fd_close removes the entry it looked up. *)
THEOREM ArraySafe ==
  Spec => [](TypeOK /\ RefsAccount /\ NoDanglingPointer /\ RemovesPresentEntry)
  <1>1. IInv => TypeOK /\ RefsAccount /\ NoDanglingPointer /\ RemovesPresentEntry
    BY DEF IInv
  <1> QED
    BY <1>1, InitIInv, NextIInv, PTL DEF Spec

(* The slot a client holds keeps its value until the client gives it back:
   neither a concurrent close nor the reuse of slots by add touches it. *)
THEOREM ValueStable == Spec => HeldValueStable
  <1> DEFINE Stable == \A c \in Clients, i \in Slots :
               hold[c] = i /\ hold'[c] = i /\ array[i] # NULL
                 => array'[i] # NULL /\ array'[i].value = array[i].value
  <1>1. IInv /\ [Next]_vars => [Stable]_vars
    <2> SUFFICES ASSUME IInv, Next, NEW c \in Clients, NEW i \in Slots,
                        hold[c] = i, hold'[c] = i, array[i] # NULL
                 PROVE  array'[i] # NULL /\ array'[i].value = array[i].value
      BY DEF vars
    <2>1. ASSUME NEW d \in Clients, NEW v \in Values, rcparray_add(d, v)
          PROVE  array'[i] # NULL /\ array'[i].value = array[i].value
      BY <2>1, AddStep
    <2>2. ASSUME NEW d \in Clients, NEW id \in Slots,
                 rcparray_get(d, id) \/ CloseGet(d, id)
          PROVE  array'[i] # NULL /\ array'[i].value = array[i].value
      BY <2>2, TakeReference DEF rcparray_get, CloseGet
    <2>3. ASSUME NEW d \in Clients, rcparray_unref(d) \/ CloseUnref(d)
          PROVE  array'[i] # NULL /\ array'[i].value = array[i].value
      <3>1. /\ hold[d] # None
            /\ array' = IF InUse(hold[d])
                        THEN [array EXCEPT ![hold[d]] = Dropped(@)]
                        ELSE array
            /\ hold' = [hold EXCEPT ![d] = None]
            /\ UNCHANGED size
        BY <2>3 DEF rcparray_unref, CloseUnref
      <3>2. d # c
        BY <3>1, ConstantsAssumption DEF IInv, TypeOK
      <3> QED
        BY Zenon, <3>1, <3>2, GiveReference
    <2>4. ASSUME NEW d \in Clients, rcparray_remove(d)
          PROVE  array'[i] # NULL /\ array'[i].value = array[i].value
      BY <2>4, RemoveStep
    <2> QED
      BY <2>1, <2>2, <2>3, <2>4 DEF Next, rcparray_find
  <1> QED
    BY <1>1, InitIInv, NextIInv, PTL DEF Spec, HeldValueStable
=============================================================================
