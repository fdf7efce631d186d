---------------------------- MODULE BlockProofs -----------------------------
(***************************************************************************)
(* What the queue of a block device and the slots of its controller keep,  *)
(* for every number of requesters, slots and sizes.                        *)
(***************************************************************************)
EXTENDS Block, Disk, FiniteSetTheorems, WellFoundedInduction, NaturalsInduction, SequenceTheorems, TLAPS

USE Zenon

(***************************************************************************)
(* The request queue of a block device.                                    *)
(***************************************************************************)
CallPlaces == {"idle", "check", "init", "read", "release", "trigger", "poll"}

Request == [type : Types, done : BOOLEAN, next : Pointer, error : BOOLEAN]

(* The list holds the requests of q: it starts at io_queue, is linked by next
   and ends at last_brq. *)
ListOf(q) ==
  /\ q \in Seq(Requesters)
  /\ \A i, j \in 1 .. Len(q) : q[i] = q[j] => i = j
  /\ io_queue = IF Len(q) = 0 THEN NULL ELSE q[1]
  /\ \A i \in 1 .. Len(q) : brq[q[i]].next = IF i = Len(q) THEN NULL ELSE q[i + 1]
  /\ Len(q) > 0 => last_brq = q[Len(q)]

(* They are the outstanding ones, and the worker is at the first of them. *)
Queued(q) ==
  /\ ListOf(q)
  /\ \A r \in Requesters : r \in Outstanding <=> \E i \in 1 .. Len(q) : q[i] = r
  /\ \A i \in 1 .. Len(q) : at[q[i]] \in {"trigger", "poll"}
  /\ worker \in {"use", "driver", "finish", "dropped"} => Len(q) > 0 /\ current = q[1]
  /\ worker = "dropped" => brq[current].done
  /\ worker = "blocked" /\ Len(q) > 0 => \E r \in Requesters : at[r] = "trigger"

BlockTypeOK ==
  /\ brq \in [Requesters -> Request]
  /\ at \in [Requesters -> CallPlaces]

BlockIInv == ~stale => BlockTypeOK /\ \E q : Queued(q)

-----------------------------------------------------------------------------
(* Every set of numbers that is not empty has a least one. *)
LEMMA SmallestElement ==
  ASSUME NEW T \in SUBSET Nat, T # {}
  PROVE  \E x \in T : \A y \in T : x <= y
<1>1. IsWellFoundedOn(OpToRel(<, Nat), Nat)
  BY NatLessThanWellFounded
<1>2. PICK x \in T : \A y \in T : ~ (<<y, x>> \in OpToRel(<, Nat))
  BY <1>1, WFMin
<1>3. \A y \in T : ~ (y < x)
  BY <1>2 DEF OpToRel
<1> QED
  BY SMT, <1>3

(* The list is never longer than the requesters are many. *)
LEMMA ListFits ==
  ASSUME NEW q \in Seq(Requesters), \A i, j \in 1 .. Len(q) : q[i] = q[j] => i = j
  PROVE  Count \in Nat /\ Len(q) \in 0 .. Count
<1>1. q \in [1 .. Len(q) -> Requesters] /\ Len(q) \in Nat
  BY SMT
<1>2. q \in Injection(1 .. Len(q), Requesters)
  BY <1>1 DEF Injection, IsInjective
<1>3. Cardinality(1 .. Len(q)) <= Count
  BY <1>2, FS_Injection, BlockAssumption DEF Count
<1>4. Cardinality(1 .. Len(q)) = Len(q)
  <2>1. 1 \in Int /\ Len(q) \in Int
    BY SMT, <1>1
  <2>2. Cardinality(1 .. Len(q)) = IF 1 > Len(q) THEN 0 ELSE Len(q) - 1 + 1
    BY <2>1, FS_Interval
  <2> QED
    BY SMT, <1>1, <2>2
<1>5. Count \in Nat
  BY FS_CardinalityType, BlockAssumption DEF Count
<1> QED
  BY SMT, <1>1, <1>3, <1>4, <1>5

(* A function that follows the links of the list finds its requests in order,
   and then nothing. *)
LEMMA FollowsLinks ==
  ASSUME NEW q, ListOf(q)
  PROVE  /\ Len(q) \in 0 .. Count /\ Count \in Nat
         /\ chain = [i \in 0 .. Count |-> IF i < Len(q) THEN q[i + 1] ELSE NULL]
<1> DEFINE g == [i \in 0 .. Count |-> IF i < Len(q) THEN q[i + 1] ELSE NULL]
           Followed(c) == [i \in 0 .. Count |->
                             IF i = 0 THEN io_queue
                             ELSE IF c[i - 1] = NULL THEN NULL ELSE brq[c[i - 1]].next]
<1>1. /\ q \in Seq(Requesters)
      /\ \A i, j \in 1 .. Len(q) : q[i] = q[j] => i = j
      /\ io_queue = IF Len(q) = 0 THEN NULL ELSE q[1]
      /\ \A i \in 1 .. Len(q) : brq[q[i]].next = IF i = Len(q) THEN NULL ELSE q[i + 1]
  BY DEF ListOf
<1>2. Count \in Nat /\ Len(q) \in 0 .. Count
  BY <1>1, ListFits
<1>3. \A i \in 1 .. Len(q) : q[i] \in Requesters /\ q[i] # NULL
  BY SMT, <1>1, BlockAssumption
<1>4. ASSUME NEW c, NEW i \in 0 .. Count, i # 0 => c[i - 1] = g[i - 1]
      PROVE  Followed(c)[i] = g[i]
  <2>1. CASE i = 0
    <3>1. Followed(c)[i] = io_queue /\ g[i] = IF 0 < Len(q) THEN q[0 + 1] ELSE NULL
      BY <2>1
    <3> QED
      BY SMT, <1>1, <1>2, <3>1
  <2>2. CASE i # 0
    <3>1. i - 1 \in 0 .. Count /\ i \in Nat
      BY SMT, <1>2, <2>2
    <3>2. /\ Followed(c)[i] = IF g[i - 1] = NULL THEN NULL ELSE brq[g[i - 1]].next
          /\ g[i - 1] = IF i - 1 < Len(q) THEN q[(i - 1) + 1] ELSE NULL
          /\ g[i] = IF i < Len(q) THEN q[i + 1] ELSE NULL
      BY <1>4, <2>2, <3>1
    <3> HIDE DEF g, Followed
    <3>3. (i - 1) + 1 = i /\ (i - 1 < Len(q) <=> i \in 1 .. Len(q)) /\ (i < Len(q) <=> i \in 1 .. Len(q) /\ i # Len(q))
      BY SMT, <1>2, <2>2
    <3> QED
      BY <1>1, <1>3, <3>2, <3>3
  <2> QED
    BY <2>1, <2>2
<1>5. chain = Followed(chain)
  <2>1. g = Followed(g)
    <3>1. g = [i \in 0 .. Count |-> g[i]]
      OBVIOUS
    <3> HIDE DEF g
    <3>2. Followed(g) = [i \in 0 .. Count |-> Followed(g)[i]]
      OBVIOUS
    <3> HIDE DEF Followed
    <3>3. \A i \in 0 .. Count : Followed(g)[i] = g[i]
      BY <1>4
    <3> QED
      BY <3>1, <3>2, <3>3
  <2> QED
    BY <2>1 DEF chain
<1>6. \A i \in 0 .. Count : chain[i] = g[i]
  <2> DEFINE T == {i \in 0 .. Count : chain[i] # g[i]}
  <2> SUFFICES ASSUME T # {} PROVE FALSE
    OBVIOUS
  <2>1. T \in SUBSET Nat
    BY SMT, <1>2
  <2>2. PICK i \in T : \A j \in T : i <= j
    BY <2>1, SmallestElement
  <2>3. i # 0 => i - 1 \in 0 .. Count /\ ~(i <= i - 1)
    BY SMT, <1>2, <2>2
  <2>4. i # 0 => chain[i - 1] = g[i - 1]
    BY <2>2, <2>3
  <2>5. Followed(chain)[i] = g[i]
    BY <1>4, <2>4
  <2> HIDE DEF Followed, g
  <2> QED
    BY <1>5, <2>2, <2>5
<1>7. chain = g
  <2>1. chain = [i \in 0 .. Count |-> chain[i]]
    BY <1>5
  <2> QED
    BY <1>6, <2>1
<1> QED
  BY <1>2, <1>7

(* The requests that following the links finds are the list's. *)
LEMMA QueueIs ==
  ASSUME NEW q, ListOf(q)
  PROVE  /\ Length = Len(q)
         /\ Queue = q
         /\ chain[Count] = NULL
<1>1. /\ Len(q) \in 0 .. Count /\ Count \in Nat
      /\ chain = [i \in 0 .. Count |-> IF i < Len(q) THEN q[i + 1] ELSE NULL]
  BY FollowsLinks
<1>2. q \in [1 .. Len(q) -> Requesters] /\ NULL \notin Requesters
  BY SMT, BlockAssumption DEF ListOf
<1>3. ASSUME NEW i \in 0 .. Count PROVE chain[i] # NULL <=> i \in 0 .. Len(q) - 1
  <2>1. chain[i] = IF i < Len(q) THEN q[i + 1] ELSE NULL
    BY <1>1
  <2>2. i < Len(q) => i + 1 \in 1 .. Len(q)
    BY SMT, <1>1
  <2>3. i < Len(q) => q[i + 1] # NULL
    BY <1>2, <2>2
  <2>4. i < Len(q) <=> i \in 0 .. Len(q) - 1
    BY SMT, <1>1
  <2> QED
    BY <2>1, <2>3, <2>4
<1>4. Length = Len(q)
  <2>1. {i \in 0 .. Count : chain[i] # NULL} = 0 .. Len(q) - 1
    BY SMT, <1>1, <1>3
  <2>2. 0 \in Int /\ Len(q) - 1 \in Int
    BY SMT, <1>1
  <2>3. Cardinality(0 .. Len(q) - 1) = IF 0 > Len(q) - 1 THEN 0 ELSE Len(q) - 1 - 0 + 1
    BY <2>2, FS_Interval
  <2> QED
    BY SMTT(30), <1>1, <2>1, <2>3 DEF Length
<1>5. Queue = q
  <2>1. \A i \in 1 .. Len(q) : chain[i - 1] = q[i]
    BY SMT, <1>1
  <2>2. Queue = [i \in 1 .. Len(q) |-> chain[i - 1]]
    BY <1>4 DEF Queue
  <2>3. q = [i \in 1 .. Len(q) |-> q[i]]
    BY <1>2
  <2> QED
    BY <2>1, <2>2, <2>3
<1>6. chain[Count] = NULL
  BY SMT, <1>1
<1> QED
  BY <1>4, <1>5, <1>6

LEMMA QueueBecomes == (\A q : ListOf(q) => Length = Len(q) /\ Queue = q)'
<1>1. \A q : ListOf(q) => Length = Len(q) /\ Queue = q
  BY QueueIs
<1> QED
  BY <1>1, PTL

-----------------------------------------------------------------------------
Waits(r) == at[r] \in {"trigger", "poll"} /\ ~brq[r].done

(* What is outstanding: who waits, and what the worker is about to drop. *)
LEMMA WhoIsOutstanding ==
  \A r \in Requesters : r \in Outstanding <=> Waits(r) \/ (worker = "dropped" /\ current = r)
  BY DEF Outstanding, Waits

LEMMA WhoBecomesOutstanding ==
  \A r \in Requesters : r \in Outstanding' <=> Waits(r)' \/ (worker' = "dropped" /\ current' = r)
  BY DEF Outstanding, Waits

LEMMA ListBounds ==
  ASSUME NEW q, ListOf(q)
  PROVE  /\ Len(q) \in Nat
         /\ \A i \in 1 .. Len(q) : q[i] \in Requesters /\ q[i] # NULL
         /\ Len(q) > 0 <=> Len(q) # 0
         /\ Len(q) > 0 => 1 \in 1 .. Len(q) /\ Len(q) \in 1 .. Len(q)
  BY SMT, BlockAssumption DEF ListOf

(* A step that leaves the list as it is. *)
LEMMA SameList ==
  ASSUME NEW q, Queued(q),
         io_queue' = io_queue, last_brq' = last_brq,
         \A i \in 1 .. Len(q) : brq'[q[i]].next = brq[q[i]].next,
         \A r \in Requesters :
           Waits(r)' \/ (worker' = "dropped" /\ current' = r)
             <=> Waits(r) \/ (worker = "dropped" /\ current = r),
         \A i \in 1 .. Len(q) : at'[q[i]] \in {"trigger", "poll"},
         worker' \in {"use", "driver", "finish", "dropped"} => Len(q) > 0 /\ current' = q[1],
         worker' = "dropped" => brq'[current'].done,
         worker' = "blocked" /\ Len(q) > 0 => \E r \in Requesters : at'[r] = "trigger"
  PROVE  Queued(q)'
<1>1. ListOf(q)'
  <2>1. ListOf(q)
    BY DEF Queued
  <2>2. \A i \in 1 .. Len(q) : brq'[q[i]].next = IF i = Len(q) THEN NULL ELSE q[i + 1]
    BY <2>1 DEF ListOf
  <2> QED
    BY <2>1, <2>2 DEF ListOf
<1>2. \A r \in Requesters : r \in Outstanding' <=> \E i \in 1 .. Len(q) : q[i] = r
  BY WhoIsOutstanding, WhoBecomesOutstanding DEF Queued
<1> QED
  BY <1>1, <1>2 DEF Queued

(* The head leaves the list. *)
LEMMA HeadLeaves ==
  ASSUME NEW q, Queued(q), Len(q) > 0,
         io_queue' = brq[q[1]].next, last_brq' = last_brq,
         \A i \in 1 .. Len(q) : brq'[q[i]].next = brq[q[i]].next,
         \A r \in Requesters :
           Waits(r)' \/ (worker' = "dropped" /\ current' = r)
             <=> r # q[1] /\ (Waits(r) \/ (worker = "dropped" /\ current = r)),
         at' = at, worker' = "look"
  PROVE  Queued(Tail(q))'
<1>1. /\ q \in Seq(Requesters)
      /\ \A i, j \in 1 .. Len(q) : q[i] = q[j] => i = j
      /\ \A i \in 1 .. Len(q) : brq[q[i]].next = IF i = Len(q) THEN NULL ELSE q[i + 1]
      /\ last_brq = q[Len(q)]
      /\ 1 \in 1 .. Len(q)
  BY ListBounds DEF Queued, ListOf
<1>2. PICK p : p = Tail(q)
  OBVIOUS
<1>3. /\ p \in Seq(Requesters)
      /\ Len(p) = Len(q) - 1
      /\ Len(p) \in Nat
      /\ \A i \in 1 .. Len(p) : i + 1 \in 1 .. Len(q) /\ p[i] = q[i + 1]
  BY SMT, <1>1, <1>2
<1>4. \A i, j \in 1 .. Len(p) : p[i] = p[j] => i = j
  <2> SUFFICES ASSUME NEW i \in 1 .. Len(p), NEW j \in 1 .. Len(p), p[i] = p[j] PROVE i = j
    OBVIOUS
  <2>1. PICK k, l : k = i + 1 /\ l = j + 1
    OBVIOUS
  <2>2. k \in 1 .. Len(q) /\ l \in 1 .. Len(q) /\ q[k] = q[l]
    BY <1>3, <2>1
  <2>3. k = l
    BY <1>1, <2>2
  <2> QED
    BY SMT, <1>3, <2>1, <2>3
<1>5. io_queue' = IF Len(p) = 0 THEN NULL ELSE p[1]
  <2>1. (1 = Len(q) <=> Len(p) = 0) /\ (Len(p) # 0 => 1 \in 1 .. Len(p))
    BY SMT, <1>1, <1>3
  <2> QED
    BY <1>1, <1>3, <2>1
<1>6. ASSUME NEW i \in 1 .. Len(p) PROVE brq'[p[i]].next = IF i = Len(p) THEN NULL ELSE p[i + 1]
  <2>1. /\ i = Len(p) <=> i + 1 = Len(q)
        /\ i # Len(p) => i + 1 \in 1 .. Len(p)
    BY SMT, <1>3
  <2>2. brq'[p[i]].next = IF i + 1 = Len(q) THEN NULL ELSE q[(i + 1) + 1]
    <3>1. PICK k : k = i + 1
      OBVIOUS
    <3>2. k \in 1 .. Len(q) /\ p[i] = q[k]
      BY <1>3, <3>1
    <3>3. brq'[q[k]].next = IF k = Len(q) THEN NULL ELSE q[k + 1]
      BY <1>1, <3>2
    <3> QED
      BY <3>1, <3>2, <3>3
  <2>3. i # Len(p) => p[i + 1] = q[(i + 1) + 1]
    BY <1>3, <2>1
  <2> QED
    BY <2>1, <2>2, <2>3
<1>7. Len(p) > 0 => last_brq' = p[Len(p)]
  <2>1. Len(p) > 0 => Len(p) \in 1 .. Len(p) /\ Len(p) + 1 = Len(q)
    BY SMT, <1>3
  <2> QED
    BY <1>1, <1>3, <2>1
<1>8. ASSUME NEW r \in Requesters PROVE r \in Outstanding' <=> \E i \in 1 .. Len(p) : p[i] = r
  <2>1. /\ r \in Outstanding' <=> r # q[1] /\ r \in Outstanding
        /\ r \in Outstanding <=> \E i \in 1 .. Len(q) : q[i] = r
    <3>1. r \in Outstanding <=> Waits(r) \/ (worker = "dropped" /\ current = r)
      BY WhoIsOutstanding
    <3>2. r \in Outstanding' <=> Waits(r)' \/ (worker' = "dropped" /\ current' = r)
      BY WhoBecomesOutstanding
    <3> QED
      BY <3>1, <3>2 DEF Queued
  <2>2. ASSUME NEW i \in 1 .. Len(q), q[i] = r, r # q[1] PROVE \E j \in 1 .. Len(p) : p[j] = r
    <3>1. i - 1 \in 1 .. Len(p) /\ (i - 1) + 1 = i
      BY SMT, <1>1, <1>3, <2>2
    <3> QED
      BY <1>3, <2>2, <3>1
  <2>3. ASSUME NEW j \in 1 .. Len(p), p[j] = r PROVE r # q[1] /\ \E i \in 1 .. Len(q) : q[i] = r
    <3>1. j + 1 \in 1 .. Len(q) /\ q[j + 1] = r /\ j + 1 # 1
      BY SMT, <1>3, <2>3
    <3> QED
      BY <1>1, <3>1
  <2> QED
    BY <2>1, <2>2, <2>3
<1>9. \A i \in 1 .. Len(p) : at'[p[i]] \in {"trigger", "poll"}
  BY ZenonT(30), <1>3 DEF Queued
<1>10. ListOf(p)'
  BY <1>3, <1>4, <1>5, <1>6, <1>7 DEF ListOf
<1>11. Queued(p)'
  BY <1>8, <1>9, <1>10 DEF Queued
<1> QED
  BY <1>2, <1>11

(* A request that is sent is put behind the others. *)
LEMMA SendJoins ==
  ASSUME NEW q, Queued(q), BlockTypeOK, NEW r \in Requesters, Send(r)
  PROVE  BlockTypeOK' /\ Queued(Append(q, r))'
<1> DEFINE n == Len(q)
           new == NewRequest(r)
<1>1. /\ q \in Seq(Requesters)
      /\ \A i, j \in 1 .. n : q[i] = q[j] => i = j
      /\ io_queue = IF n = 0 THEN NULL ELSE q[1]
      /\ \A i \in 1 .. n : brq[q[i]].next = IF i = n THEN NULL ELSE q[i + 1]
      /\ n > 0 => last_brq = q[n]
      /\ n \in Nat
      /\ \A i \in 1 .. n : q[i] \in Requesters /\ q[i] # NULL
      /\ n > 0 <=> n # 0
      /\ n > 0 => 1 \in 1 .. n /\ n \in 1 .. n
  BY ListBounds DEF Queued, ListOf
<1>2. /\ brq \in [Requesters -> Request] /\ at \in [Requesters -> CallPlaces]
      /\ at[r] \in Types /\ at' = [at EXCEPT ![r] = "trigger"] /\ last_brq' = r
      /\ worker' = worker /\ current' = current /\ stale' = stale
  BY DEF BlockTypeOK, Send, NewTail, workerVars
<1>3. \A i \in 1 .. n : q[i] # r
  BY <1>2 DEF Queued, Types
<1>4. new \in Request /\ new.next = NULL /\ new.done = FALSE
  BY <1>2 DEF NewRequest, Request, Pointer
<1> HIDE DEF new
<1>5. /\ brq' \in [Requesters -> Request]
      /\ brq'[r].next = NULL /\ brq'[r].done = FALSE
      /\ n > 0 => brq'[q[n]].next = r
      /\ \A s \in Requesters \ {r} : brq'[s].done = brq[s].done
      /\ \A i \in 1 .. n : i # n => brq'[q[i]].next = brq[q[i]].next
      /\ io_queue' = IF n = 0 THEN r ELSE io_queue
  <2>1. CASE n = 0
    <3>1. brq' = [brq EXCEPT ![r] = new] /\ io_queue' = r
      BY <1>1, <2>1 DEF Send, Linked, new
    <3>2. brq'[r] = new /\ \A s \in Requesters \ {r} : brq'[s] = brq[s]
      BY <1>2, <3>1
    <3>3. brq' \in [Requesters -> Request]
      BY <1>2, <1>4, <3>1
    <3>4. 1 .. n = {}
      BY SMT, <2>1
    <3> QED
      BY <1>1, <1>4, <2>1, <3>1, <3>2, <3>3, <3>4
  <2>2. CASE n # 0
    <3>1. PICK l : l = q[n]
      OBVIOUS
    <3>2. l \in Requesters /\ l # r /\ io_queue # NULL /\ last_brq = l
      BY <1>1, <1>3, <2>2, <3>1
    <3>3. /\ brq' = [[brq EXCEPT ![r] = new] EXCEPT ![l].next = r]
          /\ io_queue' = io_queue
      BY <2>2, <3>2 DEF Send, Linked, new
    <3>4. PICK b : b = [brq EXCEPT ![r] = new]
      OBVIOUS
    <3>5. /\ b \in [Requesters -> Request] /\ b[r] = new
          /\ \A s \in Requesters \ {r} : b[s] = brq[s]
      BY <1>2, <1>4, <3>4
    <3>6. PICK x : x = [b[l] EXCEPT !.next = r]
      OBVIOUS
    <3>7. brq' = [b EXCEPT ![l] = x]
      BY <3>3, <3>4, <3>6
    <3>8. x \in Request /\ x.next = r /\ x.done = b[l].done
      <4>1. b[l] \in Request
        BY <3>2, <3>5
      <4> QED
        BY <3>6, <4>1 DEF Request, Pointer
    <3>9. /\ brq' \in [Requesters -> Request] /\ brq'[l] = x
          /\ \A s \in Requesters \ {l} : brq'[s] = b[s]
      BY <3>2, <3>5, <3>7, <3>8
    <3>10. \A s \in Requesters \ {r} : brq'[s].done = brq[s].done
      BY <3>2, <3>5, <3>8, <3>9
    <3>11. \A i \in 1 .. n : i # n => brq'[q[i]].next = brq[q[i]].next
      BY <1>1, <1>3, <2>2, <3>1, <3>5, <3>9
    <3> QED
      BY <1>4, <2>2, <3>1, <3>2, <3>3, <3>5, <3>8, <3>9, <3>10, <3>11
  <2> QED
    BY <2>1, <2>2
<1>6. /\ at' \in [Requesters -> CallPlaces] /\ at'[r] = "trigger"
      /\ \A s \in Requesters \ {r} : at'[s] = at[s]
  BY <1>2 DEF CallPlaces
<1>7. PICK p : p = Append(q, r)
  OBVIOUS
<1>8. /\ p \in Seq(Requesters)
      /\ Len(p) = n + 1 /\ Len(p) > 0 /\ Len(p) # 0
      /\ p[n + 1] = r /\ n + 1 \in 1 .. n + 1
      /\ \A i \in 1 .. n : p[i] = q[i] /\ i \in 1 .. n + 1 /\ i # n + 1
      /\ \A i \in 1 .. n + 1 : i = n + 1 \/ i \in 1 .. n
  BY SMT, <1>1, <1>7
<1>9. ListOf(p)'
  <2>1. \A i, j \in 1 .. Len(p) : p[i] = p[j] => i = j
    <3> SUFFICES ASSUME NEW i \in 1 .. n + 1, NEW j \in 1 .. n + 1, p[i] = p[j] PROVE i = j
      BY <1>8
    <3>1. CASE i \in 1 .. n /\ j \in 1 .. n
      BY <1>1, <1>8, <3>1
    <3>2. CASE i = n + 1
      BY <1>3, <1>8, <3>2
    <3>3. CASE j = n + 1
      BY <1>3, <1>8, <3>3
    <3> QED
      BY <1>8, <3>1, <3>2, <3>3
  <2>2. io_queue' = p[1]
    <3>1. CASE n = 0
      <4>1. 1 = n + 1
        BY SMT, <3>1
      <4> QED
        BY <1>5, <1>8, <3>1, <4>1
    <3>2. CASE n # 0
      BY <1>1, <1>5, <1>8, <3>2
    <3> QED
      BY <3>1, <3>2
  <2>3. ASSUME NEW i \in 1 .. Len(p) PROVE brq'[p[i]].next = IF i = Len(p) THEN NULL ELSE p[i + 1]
    <3>1. CASE i = n + 1
      BY <1>5, <1>8, <3>1
    <3>2. CASE i = n /\ i # n + 1
      <4>1. n > 0 /\ i \in 1 .. n
        BY SMT, <1>1, <3>2
      <4> QED
        BY <1>5, <1>8, <3>2, <4>1
    <3>3. CASE i # n /\ i # n + 1
      <4>1. i \in 1 .. n /\ i + 1 \in 1 .. n
        BY SMT, <1>1, <1>8, <3>3
      <4> QED
        <5>1. p[i] = q[i] /\ p[i + 1] = q[i + 1]
          BY <1>8, <4>1
        <5>2. brq'[q[i]].next = q[i + 1]
          BY <1>1, <1>5, <3>3, <4>1
        <5> QED
          BY <1>8, <3>3, <5>1, <5>2
    <3> QED
      BY <3>1, <3>2, <3>3
  <2> QED
    BY <1>2, <1>8, <2>1, <2>2, <2>3 DEF ListOf
<1>10. ASSUME NEW s \in Requesters PROVE s \in Outstanding' <=> \E i \in 1 .. Len(p) : p[i] = s
  <2>1. s \in Outstanding <=> \E i \in 1 .. n : q[i] = s
    BY DEF Queued
  <2>2. /\ s \in Outstanding <=> Waits(s) \/ (worker = "dropped" /\ current = s)
        /\ s \in Outstanding' <=> Waits(s)' \/ (worker' = "dropped" /\ current' = s)
    BY WhoIsOutstanding, WhoBecomesOutstanding
  <2>3. CASE s = r
    BY <1>5, <1>6, <1>8, <2>2, <2>3 DEF Waits
  <2>4. CASE s # r
    <3>1. Waits(s)' <=> Waits(s)
      BY <1>5, <1>6, <2>4 DEF Waits
    <3>2. (\E i \in 1 .. Len(p) : p[i] = s) <=> \E i \in 1 .. n : q[i] = s
      BY <1>8, <2>4
    <3> QED
      BY <1>2, <2>1, <2>2, <3>1, <3>2
  <2> QED
    BY <2>3, <2>4
<1>11. \A i \in 1 .. Len(p) : at'[p[i]] \in {"trigger", "poll"}
  <2>1. \A i \in 1 .. n : at'[q[i]] \in {"trigger", "poll"}
    BY <1>1, <1>3, <1>6 DEF Queued
  <2> QED
    BY <1>6, <1>8, <2>1
<1>12. worker' \in {"use", "driver", "finish", "dropped"} => current' = p[1] /\ (worker' = "dropped" => brq'[current'].done)
  <2> SUFFICES ASSUME worker \in {"use", "driver", "finish", "dropped"}
               PROVE  current = p[1] /\ (worker = "dropped" => brq'[current].done)
    BY <1>2
  <2>1. n > 0 /\ current = q[1] /\ (worker = "dropped" => brq[current].done)
    BY DEF Queued
  <2> QED
    BY <1>1, <1>3, <1>5, <1>8, <2>1
<1>13. Queued(p)'
  BY <1>6, <1>8, <1>9, <1>10, <1>11, <1>12 DEF Queued
<1> QED
  BY <1>5, <1>6, <1>7, <1>13 DEF BlockTypeOK

(* The other steps of the callers leave the list as it is: who moves is not in
   it, or stays in it. *)
LEMMA CallerKeeps ==
  ASSUME NEW q, Queued(q), BlockTypeOK, NEW r \in Requesters,
         NEW p \in CallPlaces, at' = [at EXCEPT ![r] = p],
         \/ at[r] \notin {"trigger", "poll"} /\ p \notin {"trigger", "poll"}
         \/ at[r] = "trigger" /\ p = "poll",
         UNCHANGED <<listVars, current>>,
         (worker' = worker /\ at[r] # "trigger") \/ worker' = Woken
  PROVE  BlockTypeOK' /\ Queued(q)'
<1>1. /\ at \in [Requesters -> CallPlaces] /\ at' \in [Requesters -> CallPlaces]
      /\ at'[r] = p /\ \A s \in Requesters \ {r} : at'[s] = at[s]
  BY DEF BlockTypeOK
<1>2. io_queue' = io_queue /\ last_brq' = last_brq /\ brq' = brq /\ current' = current
  BY DEF listVars
<1>3. \A i \in 1 .. Len(q) : q[i] \in Requesters
  BY ListBounds DEF Queued
<1>4. \A i \in 1 .. Len(q) : at'[q[i]] \in {"trigger", "poll"}
  BY <1>1, <1>3 DEF Queued
<1>5. \A s \in Requesters : Waits(s)' <=> Waits(s)
  BY <1>1, <1>2 DEF Waits
<1>6. \/ worker' \in {"look", "blocked"} /\ worker \in {"look", "blocked"}
      \/ worker' = worker
  BY DEF Woken
<1>7. worker' = "blocked" => worker = "blocked" /\ at[r] # "trigger"
  BY DEF Woken
<1>8. worker' = "blocked" /\ Len(q) > 0 => \E s \in Requesters : at'[s] = "trigger"
  <2> SUFFICES ASSUME worker' = "blocked", Len(q) > 0 PROVE \E s \in Requesters : at'[s] = "trigger"
    OBVIOUS
  <2>1. PICK s \in Requesters : at[s] = "trigger"
    BY <1>7 DEF Queued
  <2> QED
    BY <1>1, <1>7, <2>1
<1>9. worker' \in {"use", "driver", "finish", "dropped"} => Len(q) > 0 /\ current' = q[1]
  BY <1>2, <1>6 DEF Queued
<1>10. worker' = "dropped" <=> worker = "dropped"
  BY <1>6
<1>11. worker' = "dropped" => brq'[current'].done
  BY <1>2, <1>10 DEF Queued
<1>12. \A s \in Requesters : Waits(s)' \/ (worker' = "dropped" /\ current' = s)
                               <=> Waits(s) \/ (worker = "dropped" /\ current = s)
  BY <1>2, <1>5, <1>10
<1>13. \A i \in 1 .. Len(q) : brq'[q[i]].next = brq[q[i]].next
  BY <1>2
<1>14. Queued(q)'
  BY <1>2, <1>4, <1>8, <1>9, <1>11, <1>12, <1>13, SameList
<1> QED
  BY <1>1, <1>2, <1>14 DEF BlockTypeOK

(* Who leaves its frame is not in the list, unless the worker was to drop
   its request. *)
LEMMA ReturnKeeps ==
  ASSUME NEW q, Queued(q), BlockTypeOK, NEW r \in Requesters, Return(r), ~stale'
  PROVE  BlockTypeOK' /\ Queued(q)'
<1>1. /\ at[r] = "poll" /\ brq[r].done
      /\ ~(worker = "dropped" /\ current = r)
      /\ brq' = [brq EXCEPT ![r] = NoRequest(NULL)]
      /\ io_queue' = io_queue /\ last_brq' = last_brq
      /\ worker' = worker /\ current' = current
  BY DEF Return, LeaveFrame, workerVars
<1>2. PICK p \in {"read", "idle"} : at' = [at EXCEPT ![r] = p]
  BY DEF Return
<1>3. /\ at \in [Requesters -> CallPlaces] /\ at' \in [Requesters -> CallPlaces]
      /\ at'[r] = p /\ \A s \in Requesters \ {r} : at'[s] = at[s]
  BY <1>2 DEF BlockTypeOK, CallPlaces
<1>4. NoRequest(NULL) \in Request
  BY DEF NoRequest, Request, Types, Pointer
<1>5. /\ brq' \in [Requesters -> Request]
      /\ \A s \in Requesters \ {r} : brq'[s] = brq[s]
  BY <1>1, <1>4 DEF BlockTypeOK
<1>6. r \notin Outstanding
  BY <1>1, WhoIsOutstanding DEF Waits
<1>7. \A i \in 1 .. Len(q) : q[i] \in Requesters \ {r}
  <2>1. \A i \in 1 .. Len(q) : q[i] \in Requesters
    BY ListBounds DEF Queued
  <2> QED
    BY <1>6, <2>1 DEF Queued
<1>8. /\ \A i \in 1 .. Len(q) : brq'[q[i]].next = brq[q[i]].next
      /\ \A i \in 1 .. Len(q) : at'[q[i]] \in {"trigger", "poll"}
  BY <1>3, <1>5, <1>7 DEF Queued
<1>9. \A s \in Requesters : Waits(s)' <=> Waits(s)
  BY <1>1, <1>2, <1>3, <1>5 DEF Waits
<1>10. worker' \in {"use", "driver", "finish", "dropped"} => Len(q) > 0 /\ current' = q[1]
  BY <1>1 DEF Queued
<1>11. worker' = "dropped" => brq'[current'].done
  <2> SUFFICES ASSUME worker = "dropped" PROVE brq'[current].done
    BY <1>1
  <2>1. Len(q) > 0 /\ current = q[1] /\ brq[current].done
    BY DEF Queued
  <2>2. current \in Requesters
    BY <2>1, ListBounds DEF Queued
  <2> QED
    BY <1>1, <1>5, <2>1, <2>2
<1>12. worker' = "blocked" /\ Len(q) > 0 => \E s \in Requesters : at'[s] = "trigger"
  <2> SUFFICES ASSUME worker = "blocked", Len(q) > 0 PROVE \E s \in Requesters : at'[s] = "trigger"
    BY <1>1
  <2>1. PICK s \in Requesters : at[s] = "trigger"
    BY DEF Queued
  <2> QED
    BY <1>1, <1>3, <2>1
<1>13. \A s \in Requesters : Waits(s)' \/ (worker' = "dropped" /\ current' = s)
                               <=> Waits(s) \/ (worker = "dropped" /\ current = s)
  BY <1>1, <1>9
<1>14. Queued(q)'
  BY <1>1, <1>8, <1>10, <1>11, <1>12, <1>13, SameList
<1> QED
  BY <1>3, <1>5, <1>14 DEF BlockTypeOK

(* What the worker writes into the request it is at. *)
LEMMA CurrentWritten ==
  ASSUME BlockTypeOK, NEW c \in Requesters, NEW x \in Request, brq' = [brq EXCEPT ![c] = x]
  PROVE  /\ brq' \in [Requesters -> Request] /\ brq'[c] = x
         /\ \A s \in Requesters \ {c} : brq'[s] = brq[s]
  BY DEF BlockTypeOK

(* The worker at its request: it looks at it, asks the driver, and takes it
   off the list. *)
LEMMA WorkerKeepsList ==
  ASSUME NEW q, Queued(q), BlockTypeOK, WorkerStep
  PROVE  BlockTypeOK' /\ (Queued(q)' \/ Queued(Tail(q))')
<1>1. at' = at
  BY DEF WorkerStep, Look, Use, DropFailed, CallDriver, Finish, callVars
<1>2. /\ \A i \in 1 .. Len(q) : q[i] \in Requesters
      /\ Len(q) > 0 <=> Len(q) # 0
      /\ Len(q) > 0 => 1 \in 1 .. Len(q)
      /\ brq \in [Requesters -> Request] /\ at \in [Requesters -> CallPlaces]
      /\ \A i \in 1 .. Len(q) : at[q[i]] \in {"trigger", "poll"}
  BY ListBounds DEF Queued, BlockTypeOK
<1>3. CASE Look
  <2>1. /\ brq' = brq /\ io_queue' = io_queue /\ last_brq' = last_brq
        /\ current' = io_queue /\ worker = "look"
        /\ worker' = IF io_queue = NULL THEN "blocked" ELSE "use"
    BY <1>3 DEF Look, listVars
  <2>2. io_queue = IF Len(q) = 0 THEN NULL ELSE q[1]
    BY DEF Queued, ListOf
  <2>3. /\ worker' \in {"use", "driver", "finish", "dropped"} => Len(q) > 0 /\ current' = q[1]
        /\ worker' # "dropped" /\ worker # "dropped"
        /\ ~(worker' = "blocked" /\ Len(q) > 0)
    <3>1. Len(q) > 0 => q[1] # NULL
      BY <1>2, BlockAssumption
    <3> QED
      BY <1>2, <2>1, <2>2, <3>1
  <2>4. \A s \in Requesters : Waits(s)' <=> Waits(s)
    BY <1>1, <2>1 DEF Waits
  <2>5. Queued(q)'
    BY <1>1, <1>2, <2>1, <2>3, <2>4, SameList
  <2> QED
    BY <1>1, <1>2, <2>1, <2>5 DEF BlockTypeOK
<1>4. ASSUME worker \in {"use", "driver", "finish", "dropped"}
      PROVE  /\ Len(q) > 0 /\ current = q[1] /\ current \in Requesters
             /\ brq[current] \in Request
             /\ worker = "dropped" => brq[current].done
             /\ worker # "dropped" => Waits(current)
  <2>1. Len(q) > 0 /\ current = q[1] /\ (worker = "dropped" => brq[current].done)
    BY <1>4 DEF Queued
  <2>2. current \in Requesters /\ current \in Outstanding
    BY <1>2, <2>1 DEF Queued
  <2> QED
    BY <1>2, <2>1, <2>2, WhoIsOutstanding
<1>5. CASE Use
  <2>1. /\ io_queue' = io_queue /\ last_brq' = last_brq /\ current' = current
        /\ worker = "use"
        /\ \/ brq' = brq /\ worker' = "driver"
           \/ /\ brq' = [brq EXCEPT ![current].error = TRUE, ![current].done = TRUE]
              /\ worker' = "dropped"
    BY <1>5 DEF Use
  <2>2. /\ Len(q) > 0 /\ current = q[1] /\ current \in Requesters
        /\ brq[current] \in Request /\ Waits(current)
    BY <1>4, <2>1
  <2>3. /\ brq' \in [Requesters -> Request]
        /\ \A s \in Requesters : brq'[s].next = brq[s].next
        /\ \A s \in Requesters \ {current} : brq'[s].done = brq[s].done
        /\ worker' = "driver" => brq' = brq
        /\ worker' = "dropped" => brq'[current].done
        /\ worker' \in {"driver", "dropped"}
    <3>1. CASE brq' = brq /\ worker' = "driver"
      BY <1>2, <3>1
    <3>2. CASE /\ brq' = [brq EXCEPT ![current].error = TRUE, ![current].done = TRUE]
               /\ worker' = "dropped"
      <4>1. PICK x : x = [brq[current] EXCEPT !.error = TRUE, !.done = TRUE]
        OBVIOUS
      <4>2. x \in Request /\ x.next = brq[current].next /\ x.done = TRUE
        BY <2>2, <4>1 DEF Request
      <4>3. brq' = [brq EXCEPT ![current] = x]
        BY <1>2, <2>2, <3>2, <4>1
      <4>4. /\ brq' \in [Requesters -> Request] /\ brq'[current] = x
            /\ \A s \in Requesters \ {current} : brq'[s] = brq[s]
        BY <2>2, <4>2, <4>3, CurrentWritten
      <4> QED
        BY <3>2, <4>2, <4>4
    <3> QED
      BY <2>1, <3>1, <3>2
  <2>4. \A s \in Requesters : Waits(s)' \/ (worker' = "dropped" /\ current' = s)
                                <=> Waits(s) \/ (worker = "dropped" /\ current = s)
    BY <1>1, <2>1, <2>2, <2>3 DEF Waits
  <2>5. Queued(q)'
    BY <1>1, <1>2, <2>1, <2>2, <2>3, <2>4, SameList
  <2> QED
    BY <1>1, <1>2, <2>3, <2>5 DEF BlockTypeOK
<1>6. CASE CallDriver
  <2>1. PICK e \in BOOLEAN : brq' = [brq EXCEPT ![current].error = e]
    BY <1>6 DEF CallDriver
  <2>2. /\ io_queue' = io_queue /\ last_brq' = last_brq /\ current' = current
        /\ worker = "driver" /\ worker' = "finish"
    BY <1>6 DEF CallDriver
  <2>3. /\ Len(q) > 0 /\ current = q[1] /\ current \in Requesters
        /\ brq[current] \in Request
    BY <1>4, <2>2
  <2>4. PICK x : x = [brq[current] EXCEPT !.error = e]
    OBVIOUS
  <2>5. x \in Request /\ x.next = brq[current].next /\ x.done = brq[current].done
    BY <2>1, <2>3, <2>4 DEF Request
  <2>6. brq' = [brq EXCEPT ![current] = x]
    BY <1>2, <2>1, <2>3, <2>4
  <2>7. /\ brq' \in [Requesters -> Request] /\ brq'[current] = x
        /\ \A s \in Requesters \ {current} : brq'[s] = brq[s]
    BY <2>3, <2>5, <2>6, CurrentWritten
  <2>8. \A s \in Requesters : Waits(s)' <=> Waits(s)
    BY <1>1, <2>5, <2>7 DEF Waits
  <2>9. \A s \in Requesters : brq'[s].next = brq[s].next
    BY <2>5, <2>7
  <2>10. Queued(q)'
    BY <1>1, <1>2, <2>2, <2>3, <2>8, <2>9, SameList
  <2> QED
    BY <1>1, <1>2, <2>7, <2>10 DEF BlockTypeOK
<1>7. CASE DropFailed
  <2>1. /\ io_queue' = brq[current].next /\ last_brq' = last_brq /\ brq' = brq
        /\ worker = "dropped" /\ worker' = "look"
    BY <1>7 DEF DropFailed
  <2>2. /\ Len(q) > 0 /\ current = q[1] /\ current \in Requesters
        /\ brq[current].done
    BY <1>4, <2>1
  <2>3. \A s \in Requesters : Waits(s)' \/ (worker' = "dropped" /\ current' = s)
                                <=> s # q[1] /\ (Waits(s) \/ (worker = "dropped" /\ current = s))
    BY <1>1, <2>1, <2>2 DEF Waits
  <2>4. Queued(Tail(q))'
    BY <1>1, <1>2, <2>1, <2>2, <2>3, HeadLeaves
  <2> QED
    BY <1>1, <1>2, <2>1, <2>4 DEF BlockTypeOK
<1>8. CASE Finish
  <2>1. /\ io_queue' = brq[current].next /\ last_brq' = last_brq
        /\ brq' = [brq EXCEPT ![current].done = TRUE]
        /\ worker = "finish" /\ worker' = "look"
    BY <1>8 DEF Finish
  <2>2. /\ Len(q) > 0 /\ current = q[1] /\ current \in Requesters
        /\ brq[current] \in Request
    BY <1>4, <2>1
  <2>3. PICK x : x = [brq[current] EXCEPT !.done = TRUE]
    OBVIOUS
  <2>4. x \in Request /\ x.next = brq[current].next /\ x.done = TRUE
    BY <2>2, <2>3 DEF Request
  <2>5. brq' = [brq EXCEPT ![current] = x]
    BY <1>2, <2>1, <2>2, <2>3
  <2>6. /\ brq' \in [Requesters -> Request] /\ brq'[current] = x
        /\ \A s \in Requesters \ {current} : brq'[s] = brq[s]
    BY <2>2, <2>4, <2>5, CurrentWritten
  <2>7. \A s \in Requesters : brq'[s].next = brq[s].next
    BY <2>4, <2>6
  <2>8. \A s \in Requesters : Waits(s)' \/ (worker' = "dropped" /\ current' = s)
                                <=> s # q[1] /\ (Waits(s) \/ (worker = "dropped" /\ current = s))
    BY <1>1, <2>1, <2>2, <2>4, <2>6 DEF Waits
  <2>9. Queued(Tail(q))'
    BY <1>1, <1>2, <2>1, <2>2, <2>7, <2>8, HeadLeaves
  <2> QED
    BY <1>1, <1>2, <2>6, <2>9 DEF BlockTypeOK
<1> QED
  BY <1>3, <1>5, <1>6, <1>7, <1>8 DEF WorkerStep

(* Every step keeps the list, puts a request behind it, or takes the first
   one off. *)
LEMMA NextQueued ==
  ASSUME NEW q, Queued(q), BlockTypeOK, [Next]_vars, ~stale'
  PROVE  /\ BlockTypeOK'
         /\ \/ Queued(q)'
            \/ \E r \in Requesters : Queued(Append(q, r))'
            \/ Queued(Tail(q))'
<1>1. CASE UNCHANGED vars
  <2>1. /\ io_queue' = io_queue /\ last_brq' = last_brq /\ brq' = brq /\ at' = at
        /\ worker' = worker /\ current' = current
    BY <1>1 DEF vars
  <2> QED
    BY <2>1 DEF Queued, ListOf, Outstanding, BlockTypeOK
<1>2. CASE WorkerStep
  BY <1>2, WorkerKeepsList
<1>3. ASSUME NEW r \in Requesters, dev_block_init(r) PROVE BlockTypeOK' /\ Queued(q)'
  <2>1. PICK p \in {"read", "init"} : at' = [at EXCEPT ![r] = p]
    BY <1>3 DEF dev_block_init
  <2>2. /\ at[r] = "check" /\ p \in CallPlaces
        /\ UNCHANGED <<listVars, current>> /\ worker' = worker
    BY <1>3, <2>1 DEF dev_block_init, CallPlaces, workerVars
  <2> QED
    BY <2>1, <2>2, CallerKeeps
<1>4. ASSUME NEW r \in Requesters, NEW n, dev_block_read(r, n) PROVE BlockTypeOK' /\ Queued(q)'
  <2>1. PICK p \in {"read", "check"} : at' = [at EXCEPT ![r] = p]
    BY <1>4 DEF dev_block_read
  <2>2. /\ at[r] = "idle" /\ p \in CallPlaces
        /\ UNCHANGED <<listVars, current>> /\ worker' = worker
    BY <1>4, <2>1 DEF dev_block_read, CallPlaces, workerVars
  <2> QED
    BY <2>1, <2>2, CallerKeeps
<1>5. ASSUME NEW r \in Requesters, dev_block_release(r) PROVE BlockTypeOK' /\ Queued(q)'
  <2>1. /\ at[r] = "idle" /\ "release" \in CallPlaces /\ at' = [at EXCEPT ![r] = "release"]
        /\ UNCHANGED <<listVars, current>> /\ worker' = worker
    BY <1>5 DEF dev_block_release, CallPlaces, workerVars
  <2> QED
    BY <2>1, CallerKeeps
<1>6. ASSUME NEW r \in Requesters, Trigger(r) PROVE BlockTypeOK' /\ Queued(q)'
  <2>1. /\ at[r] = "trigger" /\ "poll" \in CallPlaces /\ at' = [at EXCEPT ![r] = "poll"]
        /\ UNCHANGED <<listVars, current>> /\ worker' = Woken
    BY <1>6 DEF Trigger, CallPlaces
  <2> QED
    BY <2>1, CallerKeeps
<1>7. ASSUME NEW r \in Requesters, KillProcess(r) PROVE BlockTypeOK' /\ Queued(q)'
  <2>1. /\ io_queue' = io_queue /\ last_brq' = last_brq /\ brq' = brq /\ at' = at
        /\ worker' = worker /\ current' = current
    BY <1>7 DEF KillProcess, listVars, callVars
  <2> QED
    BY <2>1 DEF Queued, ListOf, Outstanding, BlockTypeOK
<1>8. ASSUME NEW r \in Requesters, Return(r) PROVE BlockTypeOK' /\ Queued(q)'
  BY <1>8, ReturnKeeps
<1>9. ASSUME NEW r \in Requesters, Send(r) PROVE BlockTypeOK' /\ Queued(Append(q, r))'
  BY <1>9, SendJoins
<1> QED
  BY <1>1, <1>2, <1>3, <1>4, <1>5, <1>6, <1>7, <1>8, <1>9 DEF Next, CallStep

LEMMA BlockInductive == Spec => []BlockIInv
<1>1. Init => BlockIInv
  <2> SUFFICES ASSUME Init PROVE BlockTypeOK /\ Queued(<<>>)
    BY DEF BlockIInv
  <2>1. BlockTypeOK
    BY DEF Init, BlockTypeOK, NoRequest, Request, Types, Pointer, CallPlaces
  <2>2. <<>> \in Seq(Requesters) /\ Len(<<>>) = 0 /\ 1 .. 0 = {} /\ ~(0 > 0)
    BY SMT
  <2>3. ListOf(<<>>)
    BY <2>2 DEF ListOf, Init
  <2>4. \A r \in Requesters : r \notin Outstanding
    BY DEF Init, Outstanding
  <2> QED
    BY <2>1, <2>2, <2>3, <2>4 DEF Queued, Init
<1>2. BlockIInv /\ [Next]_vars => BlockIInv'
  <2> SUFFICES ASSUME BlockIInv, [Next]_vars, ~stale' PROVE BlockTypeOK' /\ \E q : Queued(q)'
    BY DEF BlockIInv
  <2>1. ~stale
    BY DEF Next, vars, WorkerStep, Look, Use, DropFailed, CallDriver, Finish, CallStep, dev_block_init, Send,
           Trigger, Return, LeaveFrame, dev_block_read, dev_block_release, KillProcess
  <2>2. BlockTypeOK /\ \E q : Queued(q)
    BY <2>1 DEF BlockIInv
  <2>3. PICK q : Queued(q)
    BY <2>2
  <2> QED
    BY <2>2, <2>3, NextQueued
<1> QED
  BY <1>1, <1>2, PTL DEF Spec

(* As long as nobody left a frame the worker still reads, following the links
   of the list from io_queue finds each outstanding request once, ends, and
   ends at last_brq; the worker never sleeps on requests nobody is about to
   wake it for: for any number of requesters (queue_io_wait, blk_worker). *)
THEOREM BlockListIntact == Spec => []ListIntact
<1>1. ASSUME BlockIInv PROVE ListIntact
  <2> SUFFICES ASSUME ~stale
               PROVE  /\ chain[Count] = NULL
                      /\ {Queue[i] : i \in 1 .. Length} = Outstanding
                      /\ Length > 0 => Queue[Length] = last_brq
                      /\ worker = "blocked" /\ Length > 0 => \E r \in Requesters : at[r] = "trigger"
    BY DEF ListIntact
  <2>1. PICK q : Queued(q)
    BY <1>1 DEF BlockIInv
  <2>2. Length = Len(q) /\ Queue = q /\ chain[Count] = NULL
    BY <2>1, QueueIs DEF Queued
  <2>3. \A i \in 1 .. Len(q) : q[i] \in Requesters
    BY <2>1, ListBounds DEF Queued
  <2>4. Outstanding \subseteq Requesters
    <3>1. worker = "dropped" => current \in Requesters
      <4>1. worker = "dropped" => Len(q) > 0 /\ current = q[1]
        BY <2>1 DEF Queued
      <4>2. Len(q) > 0 => 1 \in 1 .. Len(q)
        BY <2>1, ListBounds DEF Queued
      <4> QED
        BY <2>3, <4>1, <4>2
    <3> QED
      BY <3>1 DEF Outstanding
  <2>5. {q[i] : i \in 1 .. Len(q)} = Outstanding
    <3>1. \A r \in Requesters : r \in Outstanding <=> \E i \in 1 .. Len(q) : q[i] = r
      BY <2>1 DEF Queued
    <3> QED
      BY <2>3, <2>4, <3>1
  <2>6. /\ Len(q) > 0 => last_brq = q[Len(q)]
        /\ worker = "blocked" /\ Len(q) > 0 => \E r \in Requesters : at[r] = "trigger"
    BY <2>1 DEF Queued, ListOf
  <2> QED
    BY <2>2, <2>5, <2>6
<1> QED
  BY <1>1, BlockInductive, PTL

(* Requests enter the list at its end and leave it at its head: the driver
   serves them in the order they were sent in. *)
THEOREM BlockServesInOrder == Spec => FirstComeFirstServed
<1>1. ASSUME BlockIInv, [Next]_vars, ~stale'
      PROVE  \/ Queue' = Queue
             \/ \E r \in Requesters : Queue' = Append(Queue, r)
             \/ Queue' = Tail(Queue)
  <2>1. ~stale
    BY <1>1
       DEF Next, vars, WorkerStep, Look, Use, DropFailed, CallDriver, Finish, CallStep, dev_block_init, Send,
           Trigger, Return, LeaveFrame, dev_block_read, dev_block_release, KillProcess
  <2>2. PICK q : Queued(q)
    BY <1>1, <2>1 DEF BlockIInv
  <2>3. Queue = q
    BY <2>2, QueueIs DEF Queued
  <2>4. \A p : Queued(p)' => Queue' = p
    BY QueueBecomes DEF Queued
  <2>5. \/ Queued(q)'
        \/ \E r \in Requesters : Queued(Append(q, r))'
        \/ Queued(Tail(q))'
    BY <1>1, <2>1, <2>2, NextQueued DEF BlockIInv
  <2> QED
    BY <2>3, <2>4, <2>5
<1>2. BlockIInv /\ [Next]_vars
        => [~stale' => \/ Queue' = Queue
                       \/ \E r \in Requesters : Queue' = Append(Queue, r)
                       \/ Queue' = Tail(Queue)]_vars
  BY <1>1
<1> QED
  BY <1>2, BlockInductive, PTL DEF Spec, FirstComeFirstServed

(***************************************************************************)
(* The optical drive behind the queue.                                     *)
(***************************************************************************)

(* ahci_start_cmd and ahci_stop_cmd empty ci, so that it never holds more than
   the command of the last Issue. *)
PortOK ==
  /\ port \in [ci : SUBSET Int, is : BOOLEAN, ST : BOOLEAN]
  /\ ~port.ST => port.ci = {}
  /\ \A s, t \in port.ci : s = t
  /\ packet \in {NoCommand, NoSlot, 0, 1}
  /\ MaxCommands > 1 => packet # NoSlot

LEMMA NoneIsNotNoSlot == NoCommand # NoSlot
  BY SMT DEF NoCommand, NoSlot

LEMMA SlotFound ==
  ASSUME PortOK
  PROVE  /\ ahci_find_cmdslot \in {NoSlot, 0, 1}
         /\ MaxCommands > 1 => ahci_find_cmdslot # NoSlot
         /\ port.ci = {} => ahci_find_cmdslot = 0
<1> DEFINE free == (0 .. MaxCommands - 1) \ port.ci
<1>1. /\ 0 \in 0 .. MaxCommands - 1 /\ (MaxCommands = 1 \/ 1 \in 0 .. MaxCommands - 1)
      /\ MaxCommands = 1 => 0 .. MaxCommands - 1 = {0}
      /\ free \subseteq Nat /\ (\A t \in Nat : 0 <= t) /\ (\A t \in Nat : t # 0 => 1 <= t)
      /\ \A t \in Nat : (t <= 0 => t = 0) /\ (t <= 1 => t = 0 \/ t = 1)
      /\ 0 \in Nat /\ 1 \in Nat /\ 0 # 1 /\ 0 # NoSlot /\ 1 # NoSlot
      /\ MaxCommands = 1 => ~(MaxCommands > 1)
  BY SMT, DiskAssumption DEF NoSlot
<1>2. ahci_find_cmdslot = IF free = {} THEN NoSlot ELSE CHOOSE s \in free : \A t \in free : s <= t
  BY DEF ahci_find_cmdslot
<1>3. CASE 0 \in free
  <2>1. \A t \in free : 0 <= t
    BY <1>1
  <2>2. PICK s : s = CHOOSE c \in free : \A t \in free : c <= t
    OBVIOUS
  <2>3. s \in free /\ \A t \in free : s <= t
    BY <1>3, <2>1, <2>2
  <2>4. s = 0
    BY <1>1, <1>3, <2>3
  <2> HIDE DEF free
  <2> QED
    BY <1>1, <1>2, <1>3, <2>2, <2>4
<1>4. CASE 0 \notin free
  <2>1. 0 \in port.ci
    BY <1>1, <1>4
  <2>2. port.ci = {0}
    BY <2>1 DEF PortOK
  <2>3. CASE MaxCommands = 1
    <3>1. free = {}
      BY <1>1, <2>2, <2>3
    <3> QED
      BY <1>1, <1>2, <2>2, <2>3, <3>1
  <2>4. CASE 1 \in 0 .. MaxCommands - 1
    <3>1. 1 \in free /\ \A t \in free : 1 <= t
      BY <1>1, <1>4, <2>2, <2>4
    <3>2. PICK s : s = CHOOSE c \in free : \A t \in free : c <= t
      OBVIOUS
    <3>3. s \in free /\ \A t \in free : s <= t
      BY <3>1, <3>2
    <3>4. s = 1
      BY <1>1, <1>4, <3>1, <3>3
    <3> HIDE DEF free
    <3> QED
      BY <1>1, <1>2, <2>2, <3>1, <3>2, <3>4
  <2> QED
    BY <1>1, <2>3, <2>4
<1> QED
  BY <1>3, <1>4

LEMMA IssueKeepsPort ==
  ASSUME PortOK, NEW type, NEW sector, NEW count, Issue(type, sector, count)
  PROVE  /\ PortOK' /\ port'.is = port.is /\ port'.ci = {packet'}
         /\ packet = NoCommand /\ packet' = ahci_find_cmdslot
<1>1. packet = NoCommand /\ packet' = ahci_find_cmdslot /\ packet' \in {NoSlot, 0, 1}
      /\ (MaxCommands > 1 => packet' # NoSlot)
  BY SlotFound DEF Issue
<1>2. port' = [ci |-> {packet'}, is |-> port.is, ST |-> TRUE]
  BY <1>1 DEF PortOK, Issue, ahci_start_cmd
<1>3. packet' \in Int
  BY SMT, <1>1 DEF NoSlot
<1> QED
  BY <1>1, <1>2, <1>3 DEF PortOK

LEMMA AnswerKeepsPort ==
  ASSUME PortOK, Answered
  PROVE  /\ PortOK' /\ port'.is = port.is /\ packet' = NoCommand /\ packet # NoCommand
         /\ UNCHANGED slots
         /\ ~port.is => port'.ci = {} /\ packet \notin port.ci
<1>1. CASE port.is
  BY <1>1, NoneIsNotNoSlot DEF PortOK, Answered
<1>2. CASE ~port.is
  <2>1. port' = [ci |-> {}, is |-> port.is, ST |-> FALSE]
    BY <1>2 DEF PortOK, Answered, ahci_stop_cmd
  <2>2. port' \in [ci : SUBSET Int, is : BOOLEAN, ST : BOOLEAN] /\ port'.is = port.is /\ port'.ci = {}
    <3>1. {} \in SUBSET Int /\ port.is \in BOOLEAN
      BY DEF PortOK
    <3> QED
      BY <2>1, <3>1
  <2> QED
    BY <1>2, <2>2, NoneIsNotNoSlot DEF PortOK, Answered
<1> QED
  BY <1>1, <1>2

LEMMA ControllerKeepsPort ==
  ASSUME PortOK, NEW outcome, Controller(outcome)
  PROVE  PortOK' /\ (port'.is => outcome = "error") /\ ~port.is
<1>1. PICK s \in port.ci \cap DOMAIN slots :
        port' = IF outcome = "error" THEN [port EXCEPT !.is = TRUE] ELSE [port EXCEPT !.ci = @ \ {s}]
  BY DEF Controller
<1>2. CASE outcome = "error"
  <2>1. port' = [ci |-> port.ci, is |-> TRUE, ST |-> port.ST]
    BY <1>1, <1>2 DEF PortOK
  <2> QED
    BY <1>2, <2>1 DEF PortOK, Controller
<1>3. CASE outcome # "error"
  <2>1. port' = [ci |-> port.ci \ {s}, is |-> port.is, ST |-> port.ST]
    BY <1>1, <1>3 DEF PortOK
  <2> QED
    BY <1>3, <2>1 DEF PortOK, Controller
<1> QED
  BY <1>2, <1>3

LEMMA PortInductive == PortOK /\ [DiskNext]_diskVars => PortOK'
<1> SUFFICES ASSUME PortOK, [DiskNext]_diskVars PROVE PortOK'
  OBVIOUS
<1>1. ASSUME NEW outcome, Controller(outcome) PROVE PortOK'
  BY <1>1, ControllerKeepsPort
<1>2. ASSUME NEW type, NEW sector, NEW count, Issue(type, sector, count) PROVE PortOK'
  BY <1>2, IssueKeepsPort
<1>3. CASE Answered
  BY <1>3, AnswerKeepsPort
<1>4. CASE UNCHANGED <<port, packet>>
  BY <1>4 DEF PortOK
<1>5. CASE ahci_rw_scsi
  <2> PICK n, sector : n = BurstCount(call.sector_count) /\ sector = call.current_sector
    OBVIOUS
  <2> QED
    BY <1>2, <1>5 DEF ahci_rw_scsi
<1> QED
  BY <1>1, <1>2, <1>3, <1>4, <1>5
  DEF DiskNext, Identify, AskCapacity, Capacity, AddDrive, StartRead, ReadReturns, diskVars

LEMMA PortInit == DiskInit => PortOK
<1> SUFFICES ASSUME DiskInit PROVE PortOK
  OBVIOUS
<1>1. {} \in SUBSET Int
  OBVIOUS
<1>2. port = [ci |-> {}, is |-> FALSE, ST |-> FALSE] /\ packet = NoCommand
  BY DEF DiskInit
<1>3. port \in [ci : SUBSET Int, is : BOOLEAN, ST : BOOLEAN] /\ port.ci = {}
  BY <1>1, <1>2
<1> QED
  BY <1>2, <1>3, NoneIsNotNoSlot DEF PortOK

(* SlotHasTable for a controller of two command slots or more and at least two
   tables: ahci_find_cmdslot finds a slot and it has a table, whatever errors left
   behind.  Only with a single slot can its -1 be used. *)
THEOREM CommandsHaveTables ==
  ASSUME MaxCommands > 1
  PROVE  DiskSpec => []SlotHasTable
<1>1. PortOK => SlotHasTable
  <2>1. 0 \in 0 .. Tables - 1 /\ 1 \in 0 .. Tables - 1
    BY SMT, DiskAssumption
  <2> QED
    BY <2>1 DEF PortOK, SlotHasTable
<1> QED
  BY <1>1, PortInit, PortInductive, PTL DEF DiskSpec

(***************************************************************************)
(* What a read has put into the caller's buffer.                           *)
(***************************************************************************)
Byte == Int \cup {STALE}

DmaSlot == [type : {"none", "identify", "capacity", "read"}, sector : Nat, count : Nat,
            prdbc : Nat, dma : [1 .. DmaSize -> Byte]]

ReadCall == [pc : {"done", "burst", "packet"}, ret : Int, pos : Nat, len : Nat,
             read_offset : Nat, current_sector : Nat, sector_count : Nat,
             burst_count : Nat, bursts : Nat, buffer : Seq(Byte), spilt : BOOLEAN]

(* A command that was answered has brought its sectors, or nothing. *)
Loaded(slot) ==
  \/ slot.prdbc = 0
  \/ /\ slot.prdbc = slot.count
     /\ \A b \in 1 .. DmaSize : b <= slot.count * SectorSize
                                  => slot.dma[b] = slot.sector * SectorSize + b - 1

(* As long as there was no error, every command goes to slot 0, and the packet
   of a read is there until the read returns. *)
PacketOK ==
  /\ slots \in [0 .. Tables - 1 -> DmaSlot]
  /\ packet \in {NoCommand, 0} /\ port.ci \subseteq {0}
  /\ packet = NoCommand => port.ci = {}
  /\ packet = 0 /\ port.ci = {} => Loaded(slots[0])
  /\ call.pc # "done" => drive = "added"
  /\ call.pc = "packet" => /\ packet = 0
                           /\ slots[0].sector = call.current_sector
                           /\ slots[0].count = call.burst_count

(* The byte before x is in the sector before y. *)
EndsIn(y, x) == (y - 1) * SectorSize < x /\ x <= y * SectorSize

(* The next byte comes from current_sector and read_offset; the last one is in
   the last of the sectors left. *)
OnItsWay(c) ==
  /\ c.ret = 0 /\ c.len > 0 /\ c.sector_count > 0 /\ c.read_offset < SectorSize
  /\ c.current_sector * SectorSize + c.read_offset = c.pos + Len(c.buffer)
  /\ EndsIn(c.current_sector + c.sector_count, c.pos + c.len)
  /\ c.bursts = (IF c.pc = "packet" THEN 1 ELSE 0) => Len(c.buffer) = 0
  /\ c.pc = "packet" => /\ c.bursts > 0 /\ c.burst_count \in 1 .. c.sector_count
                        /\ ~c.spilt => c.burst_count <= DmaSectors

Delivered(c) ==
  /\ c.len <= Len(c.buffer)
  /\ c.bursts = 1 \/ (c.pos + c.len) % SectorSize = 0 => Len(c.buffer) = c.len

Ordered(c) == \A i \in 1 .. Len(c.buffer) : c.buffer[i] = c.pos + i - 1

ReadOK(c) ==
  /\ c \in ReadCall
  /\ c.pc # "done" => OnItsWay(c)
  /\ c.pc = "done" /\ c.ret = 0 /\ c.bursts > 0 => Delivered(c)
  /\ c.ret = 0 /\ ~c.spilt => Ordered(c)

DiskIInv == PortOK /\ (~port.is => PacketOK /\ ReadOK(call))

LEMMA Division ==
  ASSUME NEW S \in Nat \ {0}, NEW x \in Nat
  PROVE  /\ x \div S \in Nat /\ x % S \in Nat /\ x % S < S
         /\ (x \div S) * S + (x % S) = x
  BY SMT

LEMMA Distributes ==
  ASSUME NEW S \in Nat \ {0}, NEW a \in Nat, NEW c \in Nat
  PROVE  (a + c) * S = a * S + c * S /\ ((a + c) - 1) * S = a * S + c * S - S
  BY SMT

(* A read of len bytes at pos begins in the sector of pos and ends in the last
   of the sectors it counts. *)
Sectors(S, pos, len, off, cs, sc) ==
  /\ off \in Nat /\ off < S /\ cs \in Nat /\ sc \in Nat /\ sc > 0
  /\ cs * S + off = pos
  /\ ((cs + sc) - 1) * S < pos + len
  /\ pos + len <= (cs + sc) * S

LEMMA SectorsCounted ==
  ASSUME NEW S \in Nat \ {0}, NEW pos \in Nat, NEW len \in Nat \ {0}
  PROVE  Sectors(S, pos, len, pos % S, pos \div S, ((pos % S) + len + S - 1) \div S)
<1> PICK off, cs, sc : /\ off = pos % S /\ cs = pos \div S
                       /\ sc = (off + len + S - 1) \div S
  OBVIOUS
<1> SUFFICES Sectors(S, pos, len, off, cs, sc)
  OBVIOUS
<1>1. off \in Nat /\ off < S /\ cs \in Nat /\ cs * S + off = pos
  BY Division
<1>2. PICK y : y = off + len + S - 1
  OBVIOUS
<1>3. y \in Nat /\ y >= S
  BY SMT, <1>1, <1>2
<1>4. PICK m : m = y % S
  OBVIOUS
<1>5. sc \in Nat /\ m \in Nat /\ m < S /\ sc * S + m = y
  BY <1>2, <1>3, <1>4, Division
<1>6. sc > 0
  <2>1. sc = 0 => sc * S = 0
    BY SMT
  <2> QED
    BY SMT, <1>3, <1>5, <2>1
<1>7. (cs + sc) * S = cs * S + sc * S /\ ((cs + sc) - 1) * S = cs * S + sc * S - S
  BY ONLY SMT, S \in Nat \ {0}, <1>1, <1>5, Distributes
<1>8. PICK P, Q : P = cs * S /\ Q = sc * S /\ P \in Nat /\ Q \in Nat
  BY SMT, <1>1, <1>5
<1>9. P + Q - S < pos + len /\ pos + len <= P + Q
  BY SMT, <1>1, <1>2, <1>5, <1>8
<1> QED
  BY <1>1, <1>5, <1>6, <1>7, <1>8, <1>9 DEF Sectors

(* What one burst of b sectors adds: k bytes, up to the end of its sectors or
   to the last byte asked for. *)
Adds(S, cs, sc, off, L, pos, len, b, k) ==
  /\ k \in Nat /\ off + k <= b * S
  /\ b < sc => (cs + b) * S = pos + L + k
  /\ b = sc => /\ len <= L + k
               /\ L = 0 \/ (pos + len) % S = 0 => L + k = len

LEMMA BurstAdds ==
  ASSUME NEW S \in Nat \ {0}, NEW cs \in Nat, NEW sc \in Nat, NEW off \in Nat, NEW L \in Nat,
         NEW pos \in Nat, NEW len \in Nat, NEW b \in Nat, len > 0, off < S, 1 <= b, b <= sc,
         cs * S + off = pos + L,
         ((cs + sc) - 1) * S < pos + len,
         pos + len <= (cs + sc) * S
  PROVE  Adds(S, cs, sc, off, L, pos, len, b, Shorter(b * S - off, len))
<1> PICK k : k = Shorter(b * S - off, len)
  OBVIOUS
<1> SUFFICES Adds(S, cs, sc, off, L, pos, len, b, k)
  OBVIOUS
<1>1. PICK P, Q, R : P = cs * S /\ Q = b * S /\ R = sc * S /\ P \in Nat /\ Q \in Nat /\ R \in Nat
  BY SMT
<1>2. /\ ((cs + sc) - 1) * S = P + R - S /\ (cs + sc) * S = P + R /\ (cs + b) * S = P + Q
  BY SMT, <1>1
<1>3. Q >= S
  <2>1. (b - 1) * S >= 0 /\ (b - 1) * S = b * S - S
    BY SMT
  <2> QED
    BY SMT, <1>1, <2>1
<1>4. b < sc => Q <= R - S
  <2>1. ASSUME b < sc PROVE (sc - 1 - b) * S >= 0 /\ (sc - 1 - b) * S = sc * S - S - b * S
    <3>1. PICK d \in Nat : d = sc - 1 - b
      BY SMT, <2>1
    <3>2. d * S \in Nat
      BY SMT
    <3>3. d * S = sc * S - S - b * S
      BY SMT, <3>1
    <3> QED
      BY SMT, <3>1, <3>2, <3>3
  <2> QED
    BY SMT, <1>1, <2>1
<1>5. /\ P + off = pos + L /\ P + R - S < pos + len /\ pos + len <= P + R
      /\ k = IF Q - off < len THEN Q - off ELSE len
  BY <1>1, <1>2 DEF Shorter
<1>6. k \in Nat /\ off + k <= Q
  BY SMT, <1>1, <1>3, <1>5
<1>7. b < sc => P + Q = pos + L + k
  BY SMT, <1>1, <1>4, <1>5
<1>8. b = sc => Q = R
  BY <1>1
<1>9. b = sc => len <= L + k /\ (L = 0 => L + k = len)
  BY SMT, <1>1, <1>5, <1>8
<1>10. ASSUME b = sc, (pos + len) % S = 0
       PROVE  L + k = len
  <2>1. PICK q \in Nat : q * S = pos + len
    <3>1. /\ (pos + len) \div S \in Nat
          /\ ((pos + len) \div S) * S + ((pos + len) % S) = pos + len
      BY SMT, Division
    <3>2. PICK q : q = (pos + len) \div S
      OBVIOUS
    <3>3. q \in Nat /\ q * S + 0 = pos + len
      BY <1>10, <3>1, <3>2
    <3>4. q * S = pos + len
      BY SMT, <3>3
    <3> QED
      BY <3>3, <3>4
  <2>2. q >= cs + sc
    <3> SUFFICES ASSUME q < cs + sc PROVE FALSE
      BY SMT
    <3>1. PICK d \in Nat : d = cs + sc - 1 - q
      BY SMT
    <3>2. d * S \in Nat /\ d * S = ((cs + sc) - 1) * S - q * S
      BY SMT, <3>1
    <3> QED
      BY SMTT(30), <1>1, <1>2, <1>5, <2>1, <3>2
  <2>3. pos + len = P + R
    <3>1. PICK d \in Nat : d = q - (cs + sc)
      BY SMT, <2>2
    <3>2. d * S \in Nat /\ d * S = q * S - (cs + sc) * S
      BY SMT, <3>1
    <3> QED
      BY SMT, <1>1, <1>2, <1>5, <2>1, <3>2
  <2> QED
    BY SMT, <1>1, <1>5, <1>8, <1>10, <2>3
<1> QED
  BY <1>1, <1>2, <1>6, <1>7, <1>9, <1>10 DEF Adds

-----------------------------------------------------------------------------
LEMMA ReadStarts ==
  ASSUME NEW pos \in Nat, NEW len \in Nat \ {0}, StartRead(pos, len)
  PROVE  ReadOK(call') /\ call'.pc = "burst"
<1>0. Sectors(SectorSize, pos, len, pos % SectorSize, pos \div SectorSize,
              ((pos % SectorSize) + len + SectorSize - 1) \div SectorSize)
  BY DiskAssumption, SectorsCounted
<1> PICK off, cs, sc : /\ off = pos % SectorSize /\ cs = pos \div SectorSize
                       /\ sc = ((pos % SectorSize) + len + SectorSize - 1) \div SectorSize
  OBVIOUS
<1>1. call' = [pc |-> "burst", ret |-> 0, pos |-> pos, len |-> len,
               read_offset |-> off, current_sector |-> cs, sector_count |-> sc,
               burst_count |-> 0, bursts |-> 0, buffer |-> <<>>, spilt |-> FALSE]
  BY DEF StartRead
<1>2. /\ off \in Nat /\ off < SectorSize /\ cs \in Nat /\ sc \in Nat /\ sc > 0
      /\ cs * SectorSize + off = pos
      /\ ((cs + sc) - 1) * SectorSize < pos + len
      /\ pos + len <= (cs + sc) * SectorSize
  BY <1>0 DEF Sectors
<1>3. /\ 0 \in Nat /\ 0 \in Int /\ <<>> \in Seq(Byte) /\ Len(<<>>) = 0 /\ len > 0 /\ pos + 0 = pos
      /\ 1 .. 0 = {}
  BY SMT
<1>4. call' \in ReadCall
  BY <1>1, <1>2, <1>3 DEF ReadCall
<1>5. OnItsWay(call')
  <2>1. /\ call'.pc = "burst" /\ call'.ret = 0 /\ call'.pos = pos /\ call'.len = len
        /\ call'.read_offset = off /\ call'.current_sector = cs /\ call'.sector_count = sc
        /\ call'.buffer = <<>>
    BY <1>1
  <2>2. cs * SectorSize + off = pos + Len(<<>>)
    BY SMT, <1>2
  <2>3. EndsIn(cs + sc, pos + len)
    BY <1>2 DEF EndsIn
  <2>4. EndsIn(call'.current_sector + call'.sector_count, call'.pos + call'.len)
    BY <2>1, <2>3
  <2>5. call'.current_sector * SectorSize + call'.read_offset = call'.pos + Len(call'.buffer)
    BY <2>1, <2>2
  <2> QED
    BY <1>2, <1>3, <2>1, <2>4, <2>5 DEF OnItsWay
<1>6. Ordered(call')
  BY <1>1, <1>3 DEF Ordered
<1> QED
  BY <1>1, <1>4, <1>5, <1>6 DEF ReadOK

(* The packet of the next burst. *)
NextBurst(c, n) == [c EXCEPT !.pc = "packet", !.burst_count = n, !.bursts = @ + 1,
                             !.spilt = @ \/ n > DmaSectors]

Asked(c, n, d) == /\ ReadOK(d) /\ d.pc = "packet" /\ n \in Nat
                  /\ d.current_sector = c.current_sector /\ d.burst_count = n

LEMMA BurstIssued ==
  ASSUME ReadOK(call), call.pc = "burst",
         NEW n, n = BurstCount(call.sector_count), NEW d, d = NextBurst(call, n)
  PROVE  Asked(call, n, d)
<1>1. call \in ReadCall /\ OnItsWay(call)
  BY DEF ReadOK
<1>2. call.sector_count \in Nat /\ call.sector_count > 0 /\ call.bursts \in Nat /\ call.spilt \in BOOLEAN
  BY <1>1 DEF ReadCall, OnItsWay
<1>3. n \in 1 .. call.sector_count
  BY SMT, <1>2, DiskAssumption DEF BurstCount, Shorter
<1>4. /\ n \in Nat /\ call.bursts + 1 \in Nat /\ call.bursts + 1 > 0
      /\ call.bursts + 1 = 1 => call.bursts = 0
      /\ n <= DmaSectors <=> ~(n > DmaSectors)
  BY SMT, <1>2, <1>3, DiskAssumption
<1>5. /\ d \in ReadCall /\ d.pc = "packet" /\ d.burst_count = n /\ d.bursts = call.bursts + 1
      /\ d.spilt = (call.spilt \/ n > DmaSectors)
      /\ d.ret = call.ret /\ d.pos = call.pos /\ d.len = call.len
      /\ d.read_offset = call.read_offset /\ d.current_sector = call.current_sector
      /\ d.sector_count = call.sector_count /\ d.buffer = call.buffer
  BY <1>1, <1>4 DEF ReadCall, NextBurst
<1>6. OnItsWay(d)
  BY <1>1, <1>3, <1>4, <1>5 DEF OnItsWay
<1>7. d.ret = 0 /\ ~d.spilt => Ordered(d)
  BY <1>5 DEF ReadOK, Ordered
<1> QED
  BY <1>4, <1>5, <1>6, <1>7 DEF ReadOK, Asked

(* What a burst makes of the caller's buffer s: k bytes of the bouncer behind
   what was there. *)
Copied(s, bouncer, off, k, u) ==
  /\ u \in Seq(Byte) /\ Len(u) = Len(s) + k
  /\ \A i \in 1 .. Len(s) : u[i] = s[i]
  /\ \A i \in 1 .. Len(u) : i \in 1 .. Len(s)
       \/ \E j \in 1 .. k : i = Len(s) + j /\ off + j \in 1 .. Len(bouncer)
                            /\ u[i] = bouncer[off + j]

LEMMA CopiesInOrder ==
  ASSUME NEW s \in Seq(Byte), NEW bouncer \in Seq(Byte), NEW off \in Nat, NEW k \in Nat,
         off + k <= Len(bouncer)
  PROVE  Copied(s, bouncer, off, k, s \o SubSeq(bouncer, off + 1, off + k))
<1> PICK u : u = s \o SubSeq(bouncer, off + 1, off + k)
  OBVIOUS
<1> SUFFICES Copied(s, bouncer, off, k, u)
  OBVIOUS
<1>1. PICK t : t = SubSeq(bouncer, off + 1, off + k)
  OBVIOUS
<1>2. /\ t \in Seq(Byte) /\ Len(t) = k
      /\ \A j \in 1 .. k : t[j] = bouncer[off + j] /\ off + j \in 1 .. Len(bouncer)
  BY SMT, <1>1
<1>3. u \in Seq(Byte) /\ Len(u) = Len(s) + k /\ Len(s) \in Nat
  BY SMT, <1>1, <1>2
<1>4. \A i \in 1 .. Len(s) : u[i] = s[i]
  BY SMT, <1>1, <1>2
<1>5. ASSUME NEW i \in 1 .. Len(u), i \notin 1 .. Len(s)
      PROVE  \E j \in 1 .. k : i = Len(s) + j /\ off + j \in 1 .. Len(bouncer) /\ u[i] = bouncer[off + j]
  <2>1. PICK j : j = i - Len(s)
    OBVIOUS
  <2>2. j \in 1 .. k /\ i = Len(s) + j
    BY SMT, <1>3, <1>5, <2>1
  <2>3. u[i] = t[j]
    BY SMT, <1>1, <1>2, <1>3, <1>5, <2>1
  <2> QED
    BY <1>2, <2>2, <2>3
<1> QED
  BY <1>3, <1>4, <1>5 DEF Copied

(* A burst that was read without an error. *)
LEMMA BurstCopied ==
  ASSUME ReadOK(call), call.pc = "packet", NEW bouncer \in Seq(Byte),
         Len(bouncer) = call.burst_count * SectorSize,
         ~call.spilt => \A j \in 1 .. Len(bouncer) : bouncer[j] = call.current_sector * SectorSize + j - 1,
         NEW d, d = CopyBurst(bouncer)
  PROVE  ReadOK(d) /\ d.pc # "packet"
<1> DEFINE c == call
           k == Shorter(c.burst_count * SectorSize - c.read_offset, c.len)
           u == c.buffer \o SubSeq(bouncer, c.read_offset + 1, c.read_offset + k)
           last == c.sector_count = c.burst_count
<1>1. c \in ReadCall /\ OnItsWay(c)
  BY DEF ReadOK
<1>2. /\ c.pos \in Nat /\ c.len \in Nat /\ c.read_offset \in Nat /\ c.current_sector \in Nat
      /\ c.sector_count \in Nat /\ c.burst_count \in Nat /\ c.bursts \in Nat
      /\ c.buffer \in Seq(Byte) /\ c.spilt \in BOOLEAN
  BY <1>1 DEF ReadCall
<1>3. /\ c.ret = 0 /\ c.len > 0 /\ c.read_offset < SectorSize /\ c.bursts > 0
      /\ c.current_sector * SectorSize + c.read_offset = c.pos + Len(c.buffer)
      /\ EndsIn(c.current_sector + c.sector_count, c.pos + c.len)
      /\ c.bursts = 1 => Len(c.buffer) = 0
      /\ c.burst_count \in 1 .. c.sector_count
  BY <1>1 DEF OnItsWay
<1>4. 1 <= c.burst_count /\ c.burst_count <= c.sector_count /\ Len(c.buffer) \in Nat
  BY SMT, <1>2, <1>3
<1>5. Adds(SectorSize, c.current_sector, c.sector_count, c.read_offset, Len(c.buffer), c.pos, c.len,
           c.burst_count, k)
  <2>1. /\ ((c.current_sector + c.sector_count) - 1) * SectorSize < c.pos + c.len
        /\ c.pos + c.len <= (c.current_sector + c.sector_count) * SectorSize
    BY <1>3 DEF EndsIn
  <2>2. c.current_sector * SectorSize + c.read_offset = c.pos + Len(c.buffer)
        /\ c.len > 0 /\ c.read_offset < SectorSize /\ SectorSize \in Nat \ {0}
    BY <1>3, DiskAssumption
  <2> QED
    BY ONLY Zenon, <1>2, <1>4, <2>1, <2>2, BurstAdds
<1>6. k \in Nat /\ c.read_offset + k <= Len(bouncer)
  BY <1>5 DEF Adds
<1>7. /\ u \in Seq(Byte) /\ Len(u) = Len(c.buffer) + k
      /\ \A i \in 1 .. Len(c.buffer) : u[i] = c.buffer[i]
      /\ \A i \in 1 .. Len(u) : i \in 1 .. Len(c.buffer)
           \/ \E j \in 1 .. k : /\ i = Len(c.buffer) + j /\ c.read_offset + j \in 1 .. Len(bouncer)
                                /\ u[i] = bouncer[c.read_offset + j]
  <2>1. Copied(c.buffer, bouncer, c.read_offset, k, u)
    BY <1>2, <1>6, CopiesInOrder
  <2> HIDE DEF c, k, u
  <2> QED
    BY <2>1 DEF Copied
<1>8. d = [c EXCEPT !.buffer = u, !.read_offset = 0, !.current_sector = @ + c.burst_count,
                    !.sector_count = @ - c.burst_count, !.pc = IF last THEN "done" ELSE "burst"]
  BY DEF CopyBurst
<1> HIDE DEF u, k, last
<1>9. /\ c.current_sector + c.burst_count \in Nat /\ c.sector_count - c.burst_count \in Nat /\ 0 \in Nat
      /\ ~last => c.burst_count < c.sector_count /\ c.sector_count - c.burst_count > 0
      /\ (c.current_sector + c.burst_count) + (c.sector_count - c.burst_count) = c.current_sector + c.sector_count
  BY SMTT(30), <1>2, <1>4 DEF last
<1>10. /\ d \in ReadCall /\ d.pc = (IF last THEN "done" ELSE "burst")
       /\ d.buffer = u /\ d.read_offset = 0
       /\ d.current_sector = c.current_sector + c.burst_count
       /\ d.sector_count = c.sector_count - c.burst_count
       /\ d.ret = c.ret /\ d.pos = c.pos /\ d.len = c.len /\ d.bursts = c.bursts /\ d.spilt = c.spilt
  BY ZenonT(30), <1>1, <1>7, <1>8, <1>9 DEF ReadCall
<1>11. ASSUME ~last PROVE OnItsWay(d)
  <2>1. (c.current_sector + c.burst_count) * SectorSize = c.pos + Len(c.buffer) + k
    BY <1>5, <1>9, <1>11 DEF Adds
  <2>2. d.current_sector * SectorSize + d.read_offset = d.pos + Len(d.buffer)
    <3>1. PICK X : X = d.current_sector * SectorSize
      OBVIOUS
    <3>2. X = c.pos + Len(c.buffer) + k /\ Len(d.buffer) = Len(c.buffer) + k
      BY <1>7, <1>10, <2>1, <3>1
    <3>3. PICK P, L : P = c.pos /\ L = Len(c.buffer)
      OBVIOUS
    <3>4. P \in Nat /\ L \in Nat /\ k \in Nat /\ X = P + L + k
      BY <1>2, <1>4, <1>6, <3>2, <3>3
    <3>5. X + 0 = P + (L + k)
      BY ONLY SMT, <3>4
    <3> QED
      BY <1>10, <3>1, <3>2, <3>3, <3>5
  <2>3. d.current_sector + d.sector_count = c.current_sector + c.sector_count
    BY <1>9, <1>10
  <2>4. 0 < SectorSize /\ c.bursts # 0
    <3>1. c.bursts \in Nat /\ c.bursts > 0
      BY <1>2, <1>3
    <3> QED
      BY ONLY SMT, <3>1, DiskAssumption
  <2>5. EndsIn(d.current_sector + d.sector_count, d.pos + d.len)
    BY <1>3, <1>10, <2>3
  <2> QED
    BY <1>3, <1>9, <1>10, <1>11, <2>2, <2>4, <2>5 DEF OnItsWay
<1>12. ASSUME last PROVE Delivered(d)
  <2>1. /\ c.len <= Len(c.buffer) + k
        /\ Len(c.buffer) = 0 \/ (c.pos + c.len) % SectorSize = 0 => Len(c.buffer) + k = c.len
    BY <1>5, <1>12 DEF Adds, last
  <2> QED
    BY <1>3, <1>7, <1>10, <2>1 DEF Delivered
<1>13. ASSUME ~c.spilt PROVE Ordered(d)
  <2> SUFFICES ASSUME NEW i \in 1 .. Len(u) PROVE u[i] = c.pos + i - 1
    BY <1>10 DEF Ordered
  <2>1. CASE i \in 1 .. Len(c.buffer)
    BY <1>3, <1>7, <1>13, <2>1 DEF ReadOK, Ordered
  <2>2. CASE i \notin 1 .. Len(c.buffer)
    <3>1. PICK j \in 1 .. k : /\ i = Len(c.buffer) + j /\ c.read_offset + j \in 1 .. Len(bouncer)
                              /\ u[i] = bouncer[c.read_offset + j]
      BY <1>7, <2>2
    <3>2. PICK X : X = c.current_sector * SectorSize
      OBVIOUS
    <3>3. u[i] = X + (c.read_offset + j) - 1
      BY <1>13, <3>1, <3>2
    <3>4. X + c.read_offset = c.pos + Len(c.buffer) /\ X \in Nat
      <4>1. c.current_sector * SectorSize \in Nat
        <5>1. PICK cs : cs = c.current_sector
          OBVIOUS
        <5>2. cs \in Nat
          BY <1>2, <5>1
        <5>3. cs * SectorSize \in Nat
          BY ONLY SMT, <5>2, DiskAssumption
        <5> QED
          BY <5>1, <5>3
      <4> QED
        BY <1>3, <3>2, <4>1
    <3>5. PICK o, L, p : o = c.read_offset /\ L = Len(c.buffer) /\ p = c.pos
      OBVIOUS
    <3>6. /\ o \in Nat /\ L \in Nat /\ p \in Nat /\ X \in Nat /\ j \in 1 .. k /\ k \in Nat
          /\ X + o = p + L /\ i = L + j /\ u[i] = X + (o + j) - 1
      BY <1>2, <1>4, <1>6, <3>1, <3>3, <3>4, <3>5
    <3>7. u[i] = p + i - 1
      BY ONLY SMT, <3>6
    <3> QED
      BY <3>5, <3>7
  <2> QED
    BY <2>1, <2>2
<1> QED
  BY <1>3, <1>10, <1>11, <1>12, <1>13 DEF ReadOK

-----------------------------------------------------------------------------
LEMMA Slot0 == 0 \in 0 .. Tables - 1
  BY SMT, DiskAssumption

(* Without an error every command finds slot 0 free. *)
LEMMA PacketIssued ==
  ASSUME DiskIInv, ~port.is, NEW type \in {"identify", "capacity", "read"},
         NEW sector \in Nat, NEW count \in Nat, Issue(type, sector, count)
  PROVE  /\ packet = NoCommand /\ packet' = 0 /\ port'.ci = {0}
         /\ slots' \in [0 .. Tables - 1 -> DmaSlot]
         /\ slots'[0].sector = sector /\ slots'[0].count = count
<1>1. packet = NoCommand /\ port.ci = {}
  BY DEF Issue, DiskIInv, PacketOK
<1>2. packet' = 0 /\ port'.ci = {0}
  BY <1>1, SlotFound, IssueKeepsPort DEF DiskIInv
<1>3. slots \in [0 .. Tables - 1 -> DmaSlot]
  BY DEF DiskIInv, PacketOK
<1>4. slots' = [s \in 0 .. Tables - 1 |-> IF s # 0 THEN slots[s] ELSE
                  [type |-> type, sector |-> sector, count |-> count, prdbc |-> 0, dma |-> slots[s].dma]]
  BY <1>2, <1>3 DEF Issue
<1>5. 0 \in Nat
  OBVIOUS
<1>6. ASSUME NEW s \in 0 .. Tables - 1
      PROVE  [type |-> type, sector |-> sector, count |-> count, prdbc |-> 0, dma |-> slots[s].dma] \in DmaSlot
  <2>1. slots[s] \in DmaSlot
    BY <1>3
  <2> QED
    BY <1>5, <2>1 DEF DmaSlot
<1> QED
  BY <1>1, <1>2, <1>3, <1>4, <1>6, Slot0

LEMMA IssueKeeps ==
  ASSUME DiskIInv, NEW type \in {"identify", "capacity"}, Issue(type, 0, 1),
         drive # "added", UNCHANGED call
  PROVE  DiskIInv'
<1>1. PortOK' /\ port'.is = port.is
  BY IssueKeepsPort DEF DiskIInv
<1>2. ASSUME ~port.is PROVE PacketOK' /\ ReadOK(call)'
  <2>1. call.pc = "done" /\ ReadOK(call)
    BY <1>2 DEF DiskIInv, PacketOK
  <2>2. 0 \in Nat /\ 1 \in Nat /\ 0 # NoCommand
    BY SMT DEF NoCommand
  <2>3. packet' = 0 /\ port'.ci = {0} /\ slots' \in [0 .. Tables - 1 -> DmaSlot]
    BY <1>2, <2>2, PacketIssued
  <2>4. PacketOK'
    BY <2>1, <2>2, <2>3 DEF PacketOK
  <2> QED
    BY <2>1, <2>4 DEF ReadOK
<1> QED
  BY <1>1, <1>2 DEF DiskIInv

LEMMA AnswerKeeps ==
  ASSUME DiskIInv, Answered, UNCHANGED call, drive # "added"
  PROVE  DiskIInv'
<1>1. PortOK' /\ port'.is = port.is /\ packet' = NoCommand /\ slots' = slots
      /\ (~port.is => port'.ci = {})
  BY AnswerKeepsPort DEF DiskIInv
<1>2. ASSUME ~port.is PROVE PacketOK' /\ ReadOK(call)'
  <2>1. call.pc = "done" /\ ReadOK(call) /\ slots \in [0 .. Tables - 1 -> DmaSlot]
    BY <1>2 DEF DiskIInv, PacketOK
  <2>2. 0 # NoCommand
    BY SMT DEF NoCommand
  <2>3. PacketOK'
    BY <1>1, <1>2, <2>1, <2>2 DEF PacketOK
  <2> QED
    BY <2>1, <2>3 DEF ReadOK
<1> QED
  BY <1>1, <1>2 DEF DiskIInv

LEMMA StartKeeps ==
  ASSUME DiskIInv, NEW pos \in Nat, NEW len \in Nat \ {0}, StartRead(pos, len)
  PROVE  DiskIInv'
<1>1. UNCHANGED <<port, slots, packet, drive>> /\ drive = "added"
  BY DEF StartRead
<1>2. ReadOK(call') /\ call'.pc = "burst"
  BY ReadStarts
<1>3. PortOK'
  BY <1>1 DEF DiskIInv, PortOK
<1>4. ~port.is => PacketOK'
  BY <1>1, <1>2 DEF DiskIInv, PacketOK
<1>5. ReadOK(call)'
  BY <1>2 DEF ReadOK
<1> QED
  BY <1>1, <1>3, <1>4, <1>5 DEF DiskIInv

LEMMA BurstKeeps ==
  ASSUME DiskIInv, ahci_rw_scsi
  PROVE  DiskIInv'
<1> PICK n, cs : n = BurstCount(call.sector_count) /\ cs = call.current_sector
  OBVIOUS
<1>1. /\ call.pc = "burst" /\ Issue("read", cs, n) /\ drive' = drive
      /\ call' = [call EXCEPT !.pc = "packet", !.burst_count = n, !.bursts = @ + 1,
                              !.spilt = @ \/ n > DmaSectors]
  BY DEF ahci_rw_scsi
<1>2. PortOK' /\ port'.is = port.is
  BY <1>1, IssueKeepsPort DEF DiskIInv
<1>3. ASSUME ~port.is PROVE PacketOK' /\ ReadOK(call')
  <2>1. ReadOK(call) /\ drive = "added"
    BY <1>1, <1>3 DEF DiskIInv, PacketOK
  <2>2. cs \in Nat
    BY <2>1 DEF ReadOK, ReadCall
  <2>3. /\ ReadOK(call') /\ call'.pc = "packet" /\ n \in Nat
        /\ call'.current_sector = cs /\ call'.burst_count = n
    <3>1. n = BurstCount(call.sector_count) /\ cs = call.current_sector
      OBVIOUS
    <3>2. call' = NextBurst(call, n)
      BY <1>1 DEF NextBurst
    <3>3. Asked(call, n, call')
      BY <1>1, <2>1, <3>1, <3>2, BurstIssued
    <3> QED
      BY <3>1, <3>3 DEF Asked
  <2>4. /\ packet' = 0 /\ port'.ci = {0} /\ slots' \in [0 .. Tables - 1 -> DmaSlot]
        /\ slots'[0].sector = cs /\ slots'[0].count = n
    BY <1>1, <1>3, <2>2, <2>3, PacketIssued
  <2>5. 0 # NoCommand
    BY SMT DEF NoCommand
  <2> QED
    BY <1>1, <2>1, <2>3, <2>4, <2>5 DEF PacketOK
<1> QED
  BY <1>2, <1>3 DEF DiskIInv, ReadOK

LEMMA ReturnKeepsRead ==
  ASSUME DiskIInv, ReadReturns
  PROVE  DiskIInv'
<1>1. PortOK' /\ port'.is = port.is /\ packet' = NoCommand /\ slots' = slots
      /\ (~port.is => port'.ci = {} /\ packet \notin port.ci)
  BY AnswerKeepsPort DEF DiskIInv, ReadReturns
<1>2. ASSUME ~port.is PROVE ReadOK(call') /\ call'.pc # "packet"
  <2> DEFINE slot == slots[0]
             n == call.burst_count * SectorSize
             bouncer == Received(n)
  <2>1. /\ call.pc = "packet" /\ packet = 0 /\ port.ci = {} /\ ReadOK(call) /\ Loaded(slot)
        /\ slot.sector = call.current_sector /\ slot.count = call.burst_count
        /\ slots \in [0 .. Tables - 1 -> DmaSlot]
    BY <1>1, <1>2 DEF DiskIInv, PacketOK, ReadReturns
  <2>2. Amount = slot.prdbc
    BY <1>2, <2>1 DEF Amount
  <2>3. slot \in DmaSlot /\ call \in ReadCall /\ OnItsWay(call)
    BY <2>1, Slot0 DEF ReadOK
  <2>4. CASE Amount = 0
    <3>1. call' = [call EXCEPT !.ret = -1, !.pc = "done"]
      BY <2>4 DEF ReadReturns
    <3>2. -1 \in Int /\ -1 # 0
      BY SMT
    <3>3. call' \in ReadCall /\ call'.pc = "done" /\ call'.ret = -1
      BY <2>3, <3>1, <3>2 DEF ReadCall
    <3> QED
      BY <3>2, <3>3 DEF ReadOK
  <2>5. CASE Amount # 0
    <3>1. call' = CopyBurst(bouncer)
      BY <2>5 DEF ReadReturns
    <3>2. bouncer = [b \in 1 .. n |-> IF b <= DmaSize THEN slot.dma[b] ELSE STALE]
      BY <1>2, <2>1 DEF Received
    <3>3. n \in Nat
      <4>1. call.burst_count \in Nat
        BY <2>3 DEF ReadCall
      <4> QED
        BY SMT, <4>1, DiskAssumption
    <3>4. bouncer \in Seq(Byte) /\ Len(bouncer) = n
      <4>1. DmaSize \in Nat
        BY SMT, DiskAssumption DEF DmaSize
      <4>2. \A b \in 1 .. n : b <= DmaSize => b \in 1 .. DmaSize
        BY SMT, <3>3, <4>1
      <4>3. \A b \in 1 .. n : bouncer[b] \in Byte
        BY <2>3, <3>2, <4>2 DEF DmaSlot, Byte
      <4> HIDE DEF bouncer, n
      <4>4. bouncer = [b \in 1 .. n |-> bouncer[b]]
        BY <3>2
      <4>5. bouncer \in [1 .. n -> Byte]
        BY <4>3, <4>4
      <4> QED
        BY SMT, <3>3, <4>5
    <3>5. ASSUME ~call.spilt, NEW j \in 1 .. Len(bouncer)
          PROVE  bouncer[j] = call.current_sector * SectorSize + j - 1
      <4>1. /\ call.burst_count <= DmaSectors /\ call.burst_count \in Nat
        BY <2>1, <2>3, <3>5 DEF OnItsWay, ReadCall
      <4>2. n <= DmaSize
        <5>1. PICK x \in Nat : x = DmaSectors - call.burst_count
          BY SMT, <4>1, DiskAssumption
        <5>2. x * SectorSize \in Nat /\ x * SectorSize = DmaSectors * SectorSize - call.burst_count * SectorSize
          BY SMT, <4>1, <5>1, DiskAssumption
        <5> QED
          BY SMTT(30), <3>3, <4>1, <5>2, DiskAssumption DEF DmaSize
      <4>3. j \in 1 .. n /\ j \in 1 .. DmaSize /\ j <= DmaSize /\ j <= slot.count * SectorSize
        <5>1. DmaSize \in Nat /\ slot.count * SectorSize = n /\ j \in 1 .. n
          <6>1. DmaSize \in Nat
            BY SMT, DiskAssumption DEF DmaSize
          <6> QED
            BY <2>1, <3>4, <6>1
        <5> HIDE DEF n
        <5> QED
          BY SMT, <3>3, <4>2, <5>1
      <4>4. bouncer[j] = slot.dma[j]
        BY <3>2, <4>3
      <4>5. slot.dma[j] = slot.sector * SectorSize + j - 1
        BY <2>1, <2>2, <2>5, <4>3 DEF Loaded
      <4> QED
        BY <2>1, <4>4, <4>5
    <3> HIDE DEF bouncer
    <3> QED
      BY <2>1, <3>1, <3>4, <3>5, BurstCopied
  <2> QED
    BY <2>4, <2>5
<1>3. ASSUME ~port.is PROVE PacketOK'
  <2>1. 0 # NoCommand
    BY SMT DEF NoCommand
  <2>2. drive' = "added" /\ slots \in [0 .. Tables - 1 -> DmaSlot]
    BY <1>3 DEF DiskIInv, PacketOK, ReadReturns
  <2> QED
    BY <1>1, <1>2, <1>3, <2>1, <2>2 DEF PacketOK
<1> QED
  BY <1>1, <1>2, <1>3 DEF DiskIInv, ReadOK

LEMMA ControllerKeeps ==
  ASSUME DiskIInv, NEW outcome \in {"data", "empty", "error"}, Controller(outcome)
  PROVE  DiskIInv'
<1>1. PortOK' /\ ~port.is
  BY ControllerKeepsPort DEF DiskIInv
<1>2. CASE outcome = "error"
  <2>1. port' = [port EXCEPT !.is = TRUE] /\ port \in [ci : SUBSET Int, is : BOOLEAN, ST : BOOLEAN]
    BY <1>2 DEF Controller, DiskIInv, PortOK
  <2>2. port'.is
    BY <2>1
  <2> QED
    BY <1>1, <2>2 DEF DiskIInv
<1>3. CASE outcome # "error"
  <2>1. PacketOK /\ ReadOK(call) /\ port \in [ci : SUBSET Int, is : BOOLEAN, ST : BOOLEAN]
    BY <1>1 DEF DiskIInv, PortOK
  <2> DEFINE old == slots[0]
             loaded == [b \in 1 .. DmaSize |-> IF outcome = "data" /\ b <= old.count * SectorSize
                                               THEN old.sector * SectorSize + b - 1 ELSE old.dma[b]]
             amount == IF outcome = "data" THEN old.count ELSE 0
  <2>2. old \in DmaSlot /\ slots \in [0 .. Tables - 1 -> DmaSlot]
    BY <2>1, Slot0 DEF PacketOK
  <2>3. /\ port.ci = {0} /\ port' = [port EXCEPT !.ci = @ \ {0}]
        /\ slots' = [slots EXCEPT ![0].prdbc = amount, ![0].dma = loaded]
        /\ UNCHANGED <<packet, drive, call>>
    <3>1. PICK s \in port.ci \cap DOMAIN slots :
            /\ port' = [port EXCEPT !.ci = @ \ {s}]
            /\ slots' = [slots EXCEPT ![s].prdbc = IF outcome = "data" THEN slots[s].count ELSE 0,
                   ![s].dma = [b \in 1 .. DmaSize |->
                     IF outcome = "data" /\ b <= slots[s].count * SectorSize
                       THEN slots[s].sector * SectorSize + b - 1 ELSE @[b]]]
      BY <1>3 DEF Controller
    <3>2. s = 0 /\ port.ci = {0}
      <4>1. s \in port.ci /\ port.ci \subseteq {0}
        BY <2>1, <3>1 DEF PacketOK
      <4> QED
        BY <4>1
    <3> QED
      BY ZenonT(30), <3>1, <3>2 DEF Controller
  <2>4. port'.ci = {}
    BY <2>1, <2>3
  <2>5. loaded \in [1 .. DmaSize -> Byte]
    <3>1. \A b \in 1 .. DmaSize : old.sector * SectorSize + b - 1 \in Int
      <4>1. old.sector \in Nat /\ SectorSize \in Nat
        BY <2>2, DiskAssumption DEF DmaSlot
      <4>2. PICK X \in Nat : X = old.sector * SectorSize
        BY SMT, <4>1
      <4>3. DmaSize \in Nat
        BY SMT, DiskAssumption DEF DmaSize
      <4>4. \A b \in 1 .. DmaSize : X + b - 1 \in Int
        BY SMT, <4>3
      <4> QED
        BY <4>2, <4>4
    <3> QED
      BY <2>2, <3>1 DEF DmaSlot, Byte
  <2> HIDE DEF loaded, amount
  <2>6. PICK x : x = [old EXCEPT !.prdbc = amount, !.dma = loaded]
    OBVIOUS
  <2>7. /\ x \in DmaSlot /\ x.sector = old.sector /\ x.count = old.count
        /\ x.prdbc = amount /\ x.dma = loaded
    <3>1. amount \in Nat
      BY <2>2 DEF DmaSlot, amount
    <3> QED
      BY <2>2, <2>5, <2>6, <3>1 DEF DmaSlot
  <2>8. slots' \in [0 .. Tables - 1 -> DmaSlot] /\ slots'[0] = x
    <3>1. slots' = [slots EXCEPT ![0] = x]
      BY <2>2, <2>3, <2>6
    <3> QED
      BY <2>2, <2>7, <3>1, Slot0
  <2>9. Loaded(x)
    BY <1>3, <2>7 DEF Loaded, loaded, amount
  <2>10. PacketOK'
    BY <2>1, <2>3, <2>4, <2>7, <2>8, <2>9 DEF PacketOK
  <2> QED
    BY <1>1, <2>1, <2>3, <2>10 DEF DiskIInv, ReadOK
<1> QED
  BY <1>2, <1>3

-----------------------------------------------------------------------------
LEMMA DiskInitIInv == DiskInit => DiskIInv
<1> SUFFICES ASSUME DiskInit PROVE DiskIInv
  OBVIOUS
<1>1. PortOK
  BY PortInit
<1>2. 0 \in Nat /\ 0 \in Int /\ 0 # NoCommand /\ ~(0 > 0) /\ <<>> \in Seq(Byte) /\ Len(<<>>) = 0
  BY SMT DEF NoCommand
<1>3. Old(DmaSize) \in [1 .. DmaSize -> Byte]
  BY DEF Old, Byte
<1>4. [type |-> "none", sector |-> 0, count |-> 0, prdbc |-> 0, dma |-> Old(DmaSize)] \in DmaSlot
  BY <1>2, <1>3 DEF DmaSlot
<1>5. PacketOK
  BY <1>2, <1>4 DEF PacketOK, DiskInit
<1>6. call \in ReadCall /\ call.pc = "done" /\ ~(call.bursts > 0) /\ call.buffer = <<>>
  BY <1>2 DEF DiskInit, ReadCall
<1>7. Ordered(call)
  <2>1. 1 .. 0 = {}
    BY SMT
  <2> QED
    BY <1>2, <1>6, <2>1 DEF Ordered
<1> QED
  BY <1>1, <1>5, <1>6, <1>7 DEF DiskIInv, ReadOK

LEMMA DiskInductive == DiskIInv /\ [DiskNext]_diskVars => DiskIInv'
<1> SUFFICES ASSUME DiskIInv, [DiskNext]_diskVars PROVE DiskIInv'
  OBVIOUS
<1>1. ASSUME NEW outcome \in {"data", "empty", "error"}, Controller(outcome) PROVE DiskIInv'
  BY <1>1, ControllerKeeps
<1>2. CASE Identify
  BY <1>2, IssueKeeps DEF Identify
<1>3. CASE AskCapacity
  BY <1>3, AnswerKeeps DEF AskCapacity
<1>4. CASE Capacity
  BY <1>4, IssueKeeps DEF Capacity
<1>5. CASE AddDrive
  BY <1>5, AnswerKeeps DEF AddDrive
<1>6. ASSUME NEW pos \in 0 .. SectorCount * SectorSize - 1,
             NEW len \in 1 .. SectorCount * SectorSize - pos, StartRead(pos, len)
      PROVE  DiskIInv'
  <2>1. PICK total \in Nat : total = SectorCount * SectorSize
    BY SMT, DiskAssumption
  <2>2. pos \in Nat /\ len \in Nat \ {0}
    BY SMT, <2>1
  <2> QED
    BY <1>6, <2>2, StartKeeps
<1>7. CASE ahci_rw_scsi
  BY <1>7, BurstKeeps
<1>8. CASE ReadReturns
  BY <1>8, ReturnKeepsRead
<1>9. CASE UNCHANGED diskVars
  <2>1. UNCHANGED <<port, slots, packet, drive, call>>
    BY <1>9 DEF diskVars
  <2> QED
    BY <2>1 DEF DiskIInv, PortOK, PacketOK, ReadOK
<1> QED
  BY <1>1, <1>2, <1>3, <1>4, <1>5, <1>6, <1>7, <1>8, <1>9 DEF DiskNext

LEMMA ReadsAreDelivered == DiskIInv => ReadsDeliver
<1> SUFFICES ASSUME DiskIInv, call.pc = "done", call.ret = 0, call.bursts > 0, ~port.is, ~call.spilt
             PROVE  /\ SubSeq(call.buffer, 1, call.len) = [b \in 1 .. call.len |-> call.pos + b - 1]
                    /\ call.bursts = 1 \/ (call.pos + call.len) % SectorSize = 0
                         => Len(call.buffer) = call.len
  BY DEF ReadsDeliver
<1>1. call \in ReadCall /\ Delivered(call) /\ Ordered(call)
  BY DEF DiskIInv, ReadOK
<1>2. PICK buffer, len, pos : buffer = call.buffer /\ len = call.len /\ pos = call.pos
  OBVIOUS
<1>3. /\ buffer \in Seq(Byte) /\ len \in Nat /\ len <= Len(buffer)
      /\ \A i \in 1 .. Len(buffer) : buffer[i] = pos + i - 1
  BY <1>1, <1>2 DEF ReadCall, Delivered, Ordered
<1>4. SubSeq(buffer, 1, len) = [b \in 1 .. len |-> buffer[b]]
  BY ONLY SMT, <1>3
<1>5. \A b \in 1 .. len : b \in 1 .. Len(buffer)
  BY ONLY SMT, <1>3
<1>6. [b \in 1 .. len |-> buffer[b]] = [b \in 1 .. len |-> pos + b - 1]
  BY ONLY Zenon, <1>3, <1>5
<1> QED
  BY <1>1, <1>2, <1>4, <1>6 DEF Delivered

(* Whatever the sizes of sectors, bursts and DMA buffers are, a dev_block_read
   that returns 0 without a port error and without a burst behind the DMA
   buffer has put the bytes it was asked for into the caller's buffer, in
   order, and nothing behind them after one burst or up to a sector's end:
   read_offset is used for the first burst only, and burst_count, prdbc and
   current_sector stay together. *)
THEOREM ReadsDelivered == DiskSpec => []ReadsDeliver
<1>1. DiskInit => DiskIInv
  BY DiskInitIInv
<1>2. DiskIInv /\ [DiskNext]_diskVars => DiskIInv'
  BY DiskInductive
<1>3. DiskIInv => ReadsDeliver
  BY ReadsAreDelivered
<1> QED
  BY <1>1, <1>2, <1>3, PTL DEF DiskSpec
=============================================================================
