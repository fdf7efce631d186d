----------------------------- MODULE HeapProofs -----------------------------
(***************************************************************************)
(* The heap of mem/pool.c keeps the blocks apart and its counts exact, for *)
(* any number of threads and pieces; and the layout kmpool_create gives a  *)
(* pool is sound for every size _kmalloc makes one for: the pieces end     *)
(* within the pages of the pool, and the words of the bitmap end before    *)
(* the pieces begin.                                                       *)
(***************************************************************************)
EXTENDS Heap, FiniteSetTheorems, WellFoundedInduction, TLAPS

(* Sizes are multiples of a piece and the heap at least doubles a size that
   is over a megabyte: kmpool_create sees multiples of two pieces. *)
LEMMA GrowSizes ==
  ASSUME NEW n \in Nat
  PROVE  \E k \in Nat : k >= 32768 /\ GrowSize(n * 16) = 32 * k
<1>1. CASE n * 16 > 1048576
  <2>1. n >= 32768 /\ GrowSize(n * 16) = 32 * n
    BY <1>1 DEF GrowSize, DEFAULT_POOL_SIZE
  <2> QED
    BY <2>1
<1>2. CASE ~(n * 16 > 1048576)
  <2>1. GrowSize(n * 16) = 32 * 32768
    BY <1>2 DEF GrowSize, DEFAULT_POOL_SIZE
  <2> QED
    BY <2>1
<1> QED
  BY <1>1, <1>2

(* What the roundings come to for a pool of 32 k bytes: p pages, a bitmap of
   q bytes in whole pieces, and the pieces that are left. *)
LEMMA Layout ==
  ASSUME NEW k \in Nat
  PROVE  LET p == (32 * k + 4159) \div 4096
             c == ((k \div 4) + 15) \div 16
         IN  kmpool_create(32 * k)
               = [end |-> 4096 * p, pieces |-> 256 * p - 4 - c, start |-> 64 + 16 * c]
<1> DEFINE p == (32 * k + 4159) \div 4096
           c == ((k \div 4) + 15) \div 16
           s == 32 * k + ((32 * k) % 32)
<1>1. s = 32 * k
  OBVIOUS
<1>2. s \div 16 = 2 * k /\ (2 * k) \div 8 = k \div 4
  BY <1>1
<1>3. p \in Nat /\ c \in Nat /\ (s + 64 + (4096 - 1)) \div 4096 = p
  BY <1>1
<1>4. ((p * 4096 - 64) \div 16) * 16 = p * 4096 - 64
  BY <1>3
<1>5. ((p * 4096 - 64 - (k \div 4)) \div 16) = 256 * p - 4 - c
  BY <1>3
<1>6. ((256 * p - 4 - c) * 16) \div 16 = 256 * p - 4 - c
  BY <1>3
<1>7. ((64 + (k \div 4) + (16 - 1)) \div 16) * 16 = 64 + 16 * c
  BY <1>3
<1>8. p * 4096 = 4096 * p
  BY <1>3
<1> HIDE DEF p, c, s
<1> QED
  BY <1>1, <1>2, <1>3, <1>4, <1>5, <1>6, <1>7, <1>8
  DEF kmpool_create, floor_to_alignment, ceil_to_alignment, POOL_PIECE_SIZE,
      PAGE_BYTES, POOL_HEADER, s

(* Every pool the heap makes fits in the pages it gets, whatever allocation it
   is made for: the pieces fill the pages to the end and the bitmap has a bit
   for each of them.  The bitmap of a pool of 446560 bytes would still run
   into its pieces; the size of the smallest pool rules that out. *)
THEOREM PoolsAlwaysFit == \A n \in Nat : PoolFits(n * POOL_PIECE_SIZE)
<1> SUFFICES ASSUME NEW n \in Nat PROVE PoolFits(n * 16)
  BY DEF POOL_PIECE_SIZE
<1> PICK k \in Nat : k >= 32768 /\ GrowSize(n * 16) = 32 * k
  BY GrowSizes
<1> DEFINE p == (32 * k + 4159) \div 4096
           c == ((k \div 4) + 15) \div 16
<1>1. kmpool_create(GrowSize(n * 16))
        = [end |-> 4096 * p, pieces |-> 256 * p - 4 - c, start |-> 64 + 16 * c]
  BY Layout
<1>2. /\ p \in Nat /\ c \in Nat
      /\ 4096 * p <= 32 * k + 4159
      /\ k - 3 <= 64 * c
  OBVIOUS
<1> HIDE DEF p, c
<1>3. (64 + 16 * c) + (256 * p - 4 - c) * 16 <= 4096 * p
  BY <1>2
<1>4. 60 + ((256 * p - 4 - c + (32 - 1)) \div 32) * 4 <= 64 + 16 * c
  BY <1>2
<1> QED
  BY <1>1, <1>3, <1>4 DEF PoolFits, POOL_PIECE_SIZE, BITMAP_OFFSET, BITMAP_WORD

-----------------------------------------------------------------------------
Contents == [pieces : Nat] \cup [data : Data]

Calls ==
  {Outside}
    \cup [pc : {"header"}, at : PoolCells, n : 1 .. MaxData,
          then : {[pc |-> "own"]} \cup [pc : {"copy"}, from : PoolCells]]
    \cup [pc : {"copy"}, at : PoolCells, n : 1 .. MaxData, from : PoolCells]
    \cup [pc : {"free"}, from : PoolCells, at : PoolCells]

HeapTypes ==
  /\ occupied \subseteq PoolCells /\ Leftover \subseteq occupied
  /\ cell \in [PoolCells -> Contents]
  /\ owned \subseteq PoolCells
  /\ call \in [Allocators -> Calls]

Size(b) == cell[b].pieces

(* The headers in use are intact, and a block ends within the pool. *)
HeadersIntact ==
  /\ \A b \in owned : Size(b) \in 1 .. MaxData /\ b + Size(b) < PoolPieces
  /\ \A t \in Old : /\ Size(OldBlock(t)) \in 1 .. MaxData
                    /\ OldBlock(t) + Size(OldBlock(t)) < PoolPieces
  /\ \A t \in Made : /\ NewSize(t) \in 1 .. MaxData
                     /\ call[t].at + NewSize(t) < PoolPieces
  /\ \A t \in Made : call[t].pc = "copy" => Size(call[t].at) = call[t].n

Apart(b, m, c, n) == b + m < c \/ c + n < b

(* The blocks of any two holders lie apart. *)
HoldersApart ==
  /\ \A b, c \in owned : b # c => Apart(b, Size(b), c, Size(c))
  /\ \A t \in Made, b \in owned : Apart(call[t].at, NewSize(t), b, Size(b))
  /\ \A t, u \in Made :
       t # u => Apart(call[t].at, NewSize(t), call[u].at, NewSize(u))
  /\ \A t \in Made, u \in Old :
       Apart(call[t].at, NewSize(t), OldBlock(u), Size(OldBlock(u)))
  /\ \A t \in Old, b \in owned :
       Apart(OldBlock(t), Size(OldBlock(t)), b, Size(b))
  /\ \A t, u \in Old :
       t # u => Apart(OldBlock(t), Size(OldBlock(t)),
                      OldBlock(u), Size(OldBlock(u)))

Covered(p) ==
  \/ \E b \in owned : b <= p /\ p <= b + Size(b)
  \/ \E t \in Old : OldBlock(t) <= p /\ p <= OldBlock(t) + Size(OldBlock(t))
  \/ \E t \in Made : call[t].at <= p /\ p <= call[t].at + NewSize(t)

(* What is free is blank, and so is a block whose header is not written. *)
BlankCells ==
  /\ \A p \in PoolCells \ Taken : cell[p] = Blank
  /\ \A t \in Made : call[t].pc = "header" =>
       \A p \in call[t].at .. call[t].at + call[t].n : cell[p] = Blank

(* The inductive invariant: what HeapSound says, with the headers: a store or
   a copy that reached the header of another block would change its size. *)
Sound ==
  /\ HeapTypes
  /\ HeadersIntact
  /\ HoldersApart
  /\ \A p \in PoolCells : p \in Taken <=> Covered(p)
  /\ free_pieces = PoolPieces - Cardinality(Taken)
  /\ BlankCells

HeapIInv == heap_stop # "grow" => heap_stop = "no" /\ Sound

-----------------------------------------------------------------------------
(* The leaves that reason about pieces and distances name SMT. *)
USE Zenon

(* What a call holds follows from where it is. *)
LEMMA CallFields ==
  ASSUME HeapTypes, NEW t \in Allocators
  PROVE  /\ call[t].pc \in {"none", "header", "copy", "free"}
         /\ call[t].pc = "none" <=> call[t] = Outside
         /\ t \in Made <=> call[t].pc # "none"
         /\ call[t].pc = "header" =>
              /\ call[t].at \in PoolCells /\ call[t].n \in 1 .. MaxData
              /\ call[t].then.pc \in {"own", "copy"}
              /\ call[t].then.pc = "own" => t \notin Old
              /\ call[t].then.pc = "copy" =>
                   /\ t \in Old /\ OldBlock(t) = call[t].then.from
                   /\ call[t].then.from \in PoolCells
              /\ NewSize(t) = call[t].n
         /\ call[t].pc = "copy" =>
              /\ call[t].at \in PoolCells /\ call[t].n \in 1 .. MaxData
              /\ t \in Old /\ OldBlock(t) = call[t].from
              /\ call[t].from \in PoolCells
              /\ NewSize(t) = Size(call[t].at)
         /\ call[t].pc = "free" =>
              /\ call[t].at \in PoolCells
              /\ t \in Old /\ OldBlock(t) = call[t].from
              /\ call[t].from \in PoolCells
              /\ NewSize(t) = Size(call[t].at)
         /\ call[t].pc = "none" => t \notin Old
  <1>1. call[t] \in Calls
    BY DEF HeapTypes
  <1>2. CASE call[t] = Outside
    BY SMT, <1>2 DEF Outside, Made, Old
  <1>3. CASE call[t] \in [pc : {"header"}, at : PoolCells, n : 1 .. MaxData,
          then : {[pc |-> "own"]} \cup [pc : {"copy"}, from : PoolCells]]
    BY SMT, <1>3 DEF Outside, Made, Old, OldBlock, NewSize
  <1>4. CASE call[t] \in [pc : {"copy"}, at : PoolCells, n : 1 .. MaxData,
                          from : PoolCells]
    BY SMT, <1>4 DEF Outside, Made, Old, OldBlock, NewSize, Size
  <1>5. CASE call[t] \in [pc : {"free"}, from : PoolCells, at : PoolCells]
    BY SMT, <1>5 DEF Outside, Made, Old, OldBlock, NewSize, Size
  <1> QED
    BY <1>1, <1>2, <1>3, <1>4, <1>5 DEF Calls

(* Calls that did not move hold what they held. *)
LEMMA CallsUnmoved ==
  ASSUME NEW u \in Allocators, call'[u] = call[u]
  PROVE  /\ u \in Made' <=> u \in Made
         /\ u \in Old' <=> u \in Old
         /\ OldBlock(u)' = OldBlock(u)
         /\ call[u].pc = "header" => NewSize(u)' = NewSize(u)
         /\ call[u].pc # "header" => NewSize(u)' = Size(call[u].at)'
                                     /\ NewSize(u) = Size(call[u].at)
  BY DEF Made, Old, OldBlock, NewSize, Size

(* How the counts change with the bits of a block. *)
LEMMA CountPieces ==
  ASSUME NEW S, IsFiniteSet(S), NEW b \in Int, NEW n \in Nat
  PROVE  /\ b .. b + n \cap S = {} =>
              Cardinality(S \cup (b .. b + n)) = Cardinality(S) + (n + 1)
         /\ b .. b + n \subseteq S =>
              Cardinality(S \ (b .. b + n)) = Cardinality(S) - (n + 1)
  <1> DEFINE I == b .. b + n
  <1>1. IsFiniteSet(I) /\ Cardinality(I) = n + 1
    BY SMT, FS_Interval
  <1>2. Cardinality(S) \in Nat
    BY FS_CardinalityType
  <1> HIDE DEF I
  <1>3. ASSUME I \cap S = {}
        PROVE  Cardinality(S \cup I) = Cardinality(S) + (n + 1)
    <2>1. S \cap I = {}
      BY <1>3
    <2>2. Cardinality(S \cup I)
            = Cardinality(S) + Cardinality(I) - Cardinality(S \cap I)
      BY <1>1, FS_Union
    <2> QED
      BY SMT, <1>1, <1>2, <2>1, <2>2, FS_EmptySet
  <1>4. ASSUME I \subseteq S PROVE Cardinality(S \ I) = Cardinality(S) - (n + 1)
    <2>1. S \cap I = I
      BY <1>4
    <2>2. Cardinality(S \ I) = Cardinality(S) - Cardinality(S \cap I)
      BY FS_Difference
    <2> QED
      BY <1>1, <2>1, <2>2
  <1> QED
    BY <1>3, <1>4 DEF I

LEMMA PoolFinite ==
  ASSUME HeapTypes
  PROVE  IsFiniteSet(Taken) /\ Cardinality(Taken) \in Nat
  <1>1. IsFiniteSet(PoolCells)
    BY SMT, HeapAssumption, FS_Interval DEF PoolCells
  <1> QED
    BY <1>1, FS_Subset, FS_CardinalityType DEF HeapTypes, Taken

(* The section of _kmalloc under the lock: the new block is apart from all
   there are, because its pieces were clear; a block given to _krealloc
   changes hands. *)
LEMMA TakeKeeps ==
  ASSUME Sound, NEW t \in Allocators, call[t] = Outside,
         NEW n \in 1 .. MaxData, NEW p \in Fits(n + 1), NEW then,
         occupied' = occupied \cup (p .. p + n),
         free_pieces' = free_pieces - (n + 1),
         call' = [call EXCEPT ![t] = [pc |-> "header", at |-> p, n |-> n,
                                      then |-> then]],
         UNCHANGED cell,
         \/ then = [pc |-> "own"] /\ owned' = owned
         \/ \E b \in owned : /\ then = [pc |-> "copy", from |-> b]
                             /\ owned' = owned \ {b}
  PROVE  Sound'
  <1> USE HeapAssumption
  <1>1. /\ p \in PoolCells /\ p \in Int /\ n \in Nat /\ p + n < PoolPieces
        /\ p .. p + n \cap occupied = {} /\ p .. p + n \subseteq PoolCells
    BY SMT DEF Fits, PoolCells
  <1>0. Taken' = Taken \cup (p .. p + n) /\ p .. p + n \cap Taken = {}
    BY <1>1 DEF Sound, HeapTypes, Taken
  <1>2. \A q \in p .. p + n : ~Covered(q)
    BY <1>0, <1>1 DEF Sound
  <1>3. HeapTypes /\ call[t].pc = "none" /\ t \notin Made /\ t \notin Old
    BY CallFields DEF Sound, Outside
  <1>4. HeapTypes'
    <2>1. call'[t] \in Calls
      <3>1. then \in {[pc |-> "own"]} \cup [pc : {"copy"}, from : PoolCells]
        BY SMT, <1>3 DEF HeapTypes
      <3> QED
        BY <1>1, <1>3, <3>1 DEF HeapTypes, Calls
    <2> QED
      BY <1>1, <1>3, <2>1 DEF HeapTypes
  <1>5. /\ \A u \in Allocators : u # t => call'[u] = call[u]
        /\ call'[t].pc = "header" /\ call'[t].at = p /\ call'[t].n = n
        /\ call'[t].then = then
    BY <1>3 DEF HeapTypes
  <1>6. \A u \in Allocators : u # t =>
          /\ u \in Made' <=> u \in Made
          /\ u \in Old' <=> u \in Old
          /\ OldBlock(u)' = OldBlock(u)
          /\ NewSize(u)' = NewSize(u)
    BY SMT, <1>5, CallsUnmoved DEF Size
  <1>7. t \in Made' /\ NewSize(t)' = n /\ \A b : Size(b)' = Size(b)
    BY <1>5 DEF Made, NewSize, Size
  <1>8. \/ owned' = owned /\ t \notin Old'
        \/ \E b \in owned : /\ owned' = owned \ {b}
                            /\ t \in Old' /\ OldBlock(t)' = b
    BY SMT, <1>5 DEF Old, OldBlock
  <1>9. /\ HeadersIntact /\ HoldersApart /\ BlankCells
        /\ Made \subseteq Allocators /\ Old \subseteq Allocators
        /\ Made' \subseteq Allocators /\ Old' \subseteq Allocators
        /\ owned \subseteq Int
        /\ \A u \in Made : call[u].at \in PoolCells
        /\ \A u \in Old : OldBlock(u) \in PoolCells
    <2>1. /\ HeadersIntact /\ HoldersApart /\ BlankCells
          /\ Made \subseteq Allocators /\ Old \subseteq Allocators
          /\ Made' \subseteq Allocators /\ Old' \subseteq Allocators
      BY DEF Sound, Made, Old
    <2>2. PoolCells \subseteq Int
      BY SMT DEF PoolCells
    <2>3. owned \subseteq Int
      BY <1>3, <2>2 DEF HeapTypes
    <2>4. ASSUME NEW u \in Made PROVE call[u].at \in PoolCells
      BY <1>3, <2>1, <2>4, CallFields
    <2>5. ASSUME NEW u \in Old PROVE OldBlock(u) \in PoolCells
      BY SMT, <1>3, <2>1, <2>5, CallFields
    <2> QED
      BY <2>1, <2>3, <2>4, <2>5
  <1>10. /\ \A b \in owned : Apart(p, n, b, Size(b))
         /\ \A u \in Made : Apart(p, n, call[u].at, NewSize(u))
         /\ \A u \in Old : Apart(p, n, OldBlock(u), Size(OldBlock(u)))
    <2>1. ASSUME NEW b \in owned PROVE Apart(p, n, b, Size(b))
      BY SMT, <1>1, <1>2, <1>9 DEF Apart, Covered, HeadersIntact
    <2>2. ASSUME NEW u \in Made PROVE Apart(p, n, call[u].at, NewSize(u))
      BY SMT, <1>1, <1>2, <1>9 DEF Apart, Covered, HeadersIntact, PoolCells
    <2>3. ASSUME NEW u \in Old
          PROVE  Apart(p, n, OldBlock(u), Size(OldBlock(u)))
      BY SMT, <1>1, <1>2, <1>9 DEF Apart, Covered, HeadersIntact, PoolCells
    <2> QED
      BY <2>1, <2>2, <2>3
  <1>11. HeadersIntact'
    BY <1>1, <1>5, <1>6, <1>7, <1>8, <1>9 DEF HeadersIntact
  <1>12. HoldersApart'
    <2> USE <1>9, <1>10 DEF HoldersApart
    <2>1. /\ owned' \subseteq owned
          /\ t \in Old' => OldBlock(t)' \in owned /\ OldBlock(t)' \notin owned'
          /\ \A u \in Made' : u # t => u \in Made /\ call'[u].at = call[u].at
                                       /\ NewSize(u)' = NewSize(u)
          /\ \A u \in Old' : u # t => u \in Old /\ OldBlock(u)' = OldBlock(u)
      BY <1>5, <1>6, <1>8
    <2>2. \A b, c \in owned' : b # c => Apart(b, Size(b)', c, Size(c)')
      BY <1>7, <2>1
    <2>3. \A u \in Made', b \in owned' :
            Apart(call'[u].at, NewSize(u)', b, Size(b)')
      BY SMT, <1>5, <1>7, <2>1
    <2>4. \A u, v \in Made' :
            u # v => Apart(call'[u].at, NewSize(u)', call'[v].at, NewSize(v)')
      BY SMT, <1>5, <1>7, <2>1 DEF Apart
    <2>5. \A u \in Made', v \in Old' :
            Apart(call'[u].at, NewSize(u)', OldBlock(v)', Size(OldBlock(v))')
      BY SMT, <1>5, <1>7, <2>1
    <2>6. \A u \in Old', b \in owned' :
            Apart(OldBlock(u)', Size(OldBlock(u))', b, Size(b)')
      BY SMT, <1>7, <2>1
    <2>7. \A u, v \in Old' : u # v =>
            Apart(OldBlock(u)', Size(OldBlock(u))', OldBlock(v)', Size(OldBlock(v))')
      BY SMT, <1>7, <2>1 DEF Apart
    <2> QED
      BY <2>2, <2>3, <2>4, <2>5, <2>6, <2>7
  <1>13. \A q \in PoolCells : q \in Taken' <=> Covered(q)'
    <2> SUFFICES ASSUME NEW q \in PoolCells
                 PROVE  Covered(q)' <=> Covered(q) \/ q \in p .. p + n
      BY <1>0 DEF Sound
    <2>1. q \in p .. p + n <=> call'[t].at <= q /\ q <= call'[t].at + NewSize(t)'
      BY SMT, <1>1, <1>5, <1>7 DEF PoolCells
    <2>2. CASE owned' = owned /\ t \notin Old'
      BY <1>5, <1>6, <1>7, <1>3, <1>9, <2>1, <2>2 DEF Covered
    <2>3. CASE \E b \in owned :
                 owned' = owned \ {b} /\ t \in Old' /\ OldBlock(t)' = b
      BY SMT, <1>5, <1>6, <1>7, <1>3, <1>9, <2>1, <2>3 DEF Covered
    <2> QED
      BY <1>8, <2>2, <2>3
  <1>14. free_pieces' = PoolPieces - Cardinality(Taken')
    <2>1. IsFiniteSet(Taken) /\ Cardinality(Taken) \in Nat
      BY <1>3, PoolFinite
    <2>2. Cardinality(Taken \cup (p .. p + n)) = Cardinality(Taken) + (n + 1)
      BY <1>0, <1>1, <2>1, CountPieces
    <2>3. free_pieces = PoolPieces - Cardinality(Taken)
      BY DEF Sound
    <2> QED
      BY SMT, <1>0, <1>1, <2>1, <2>2, <2>3
  <1>15. BlankCells'
    BY SMT, <1>0, <1>1, <1>5, <1>6, <1>9 DEF BlankCells
  <1> QED
    BY <1>4, <1>11, <1>12, <1>13, <1>14, <1>15 DEF Sound

(* What the holders hold, in a form that is needed again and again. *)
Held ==
  /\ Made \subseteq Allocators /\ Old \subseteq Allocators
  /\ \A b \in owned : b \in PoolCells /\ b \in Int /\ Size(b) \in Nat
  /\ \A u \in Made : /\ call[u].at \in PoolCells /\ call[u].at \in Int
                     /\ NewSize(u) \in Nat
  /\ \A u \in Old : /\ OldBlock(u) \in PoolCells /\ OldBlock(u) \in Int
                    /\ Size(OldBlock(u)) \in Nat

LEMMA HoldersHold ==
  ASSUME Sound
  PROVE  /\ HeapTypes /\ HeadersIntact /\ HoldersApart /\ BlankCells /\ Held
         /\ \A q \in PoolCells : q \in Taken <=> Covered(q)
  <1>1. /\ HeapTypes /\ HeadersIntact /\ HoldersApart /\ BlankCells
        /\ \A q \in PoolCells : q \in Taken <=> Covered(q)
    BY DEF Sound
  <1>2. /\ Made \subseteq Allocators /\ Old \subseteq Allocators
        /\ owned \subseteq Int /\ owned \subseteq PoolCells
        /\ \A u \in Made : call[u].at \in PoolCells /\ call[u].at \in Int
        /\ \A u \in Old : OldBlock(u) \in PoolCells /\ OldBlock(u) \in Int
    BY SMT, <1>1, HeapAssumption, CallFields
    DEF Made, Old, HeapTypes, PoolCells
  <1>3. /\ \A b \in owned : Size(b) \in Nat
        /\ \A u \in Made : NewSize(u) \in Nat
        /\ \A u \in Old : Size(OldBlock(u)) \in Nat
    BY SMT, <1>1, HeapAssumption DEF HeadersIntact
  <1> QED
    BY <1>1, <1>2, <1>3 DEF Held

(* Data written inside a block whose header is written touches no header, no
   piece that is free and no block that is still to be blank: what a client
   stores, and the copy of _krealloc. *)
LEMMA DataWritten ==
  ASSUME Sound, NEW a \in Int, NEW m \in Int,
         \/ a \in owned /\ m = Size(a)
         \/ \E t \in Made : /\ call[t].pc # "header"
                            /\ a = call[t].at /\ m = NewSize(t),
         \A q \in PoolCells : q \notin a + 1 .. a + m => cell'[q] = cell[q]
  PROVE  /\ \A b \in owned : Size(b)' = Size(b)
         /\ \A u \in Old : cell'[OldBlock(u)] = cell[OldBlock(u)]
         /\ \A u \in Made : cell'[call[u].at] = cell[call[u].at]
         /\ \A q \in PoolCells \ Taken : cell'[q] = Blank
         /\ \A u \in Made : call[u].pc = "header" =>
              \A q \in call[u].at .. call[u].at + call[u].n : cell'[q] = Blank
  <1> USE HeapAssumption
  <1>h. /\ HeapTypes /\ HeadersIntact /\ HoldersApart /\ BlankCells /\ Held
        /\ \A q \in PoolCells : q \in Taken <=> Covered(q)
    BY HoldersHold
  <1> USE <1>h DEF Held
  <1>1. /\ \A b \in owned : b \notin a + 1 .. a + m
        /\ \A u \in Old : OldBlock(u) \notin a + 1 .. a + m
        /\ \A u \in Made : call[u].at \notin a + 1 .. a + m
    <2>1. ASSUME NEW b \in owned PROVE b \notin a + 1 .. a + m
      BY SMT, <1>h DEF HoldersApart, HeadersIntact, Apart
    <2>2. ASSUME NEW u \in Old PROVE OldBlock(u) \notin a + 1 .. a + m
      BY SMT, <1>h DEF HoldersApart, HeadersIntact, Apart
    <2>3. ASSUME NEW u \in Made PROVE call[u].at \notin a + 1 .. a + m
      BY SMT, <1>h DEF HoldersApart, HeadersIntact, Apart
    <2> QED
      BY <2>1, <2>2, <2>3
  <1>2. ASSUME NEW q \in PoolCells \ Taken PROVE cell'[q] = Blank
    <2>1. ~Covered(q) /\ cell[q] = Blank
      BY <1>h DEF BlankCells
    <2>2. q \notin a + 1 .. a + m
      BY SMT, <2>1 DEF Covered, PoolCells
    <2> QED
      BY <2>1, <2>2
  <1>3. ASSUME NEW u \in Made, call[u].pc = "header",
               NEW q \in call[u].at .. call[u].at + call[u].n
        PROVE  cell'[q] = Blank
    <2>1. /\ NewSize(u) = call[u].n /\ call[u].n \in Int
          /\ call[u].at + call[u].n < PoolPieces
      BY SMT, <1>h, <1>3, CallFields DEF HeadersIntact
    <2>2. cell[q] = Blank /\ q \in PoolCells
      BY SMTT(30), <1>h, <1>3, <2>1 DEF BlankCells, PoolCells
    <2>3. q \notin a + 1 .. a + m
      BY SMT, <1>h, <1>3, <2>1 DEF HoldersApart, Apart
    <2> QED
      BY <2>2, <2>3
  <1> QED
    BY <1>1, <1>2, <1>3 DEF Size

(* A step that leaves each holder its block keeps the blocks sound. *)
LEMMA SameBlocks ==
  ASSUME Sound, HeapTypes', UNCHANGED <<occupied, free_pieces, owned>>,
         Made' = Made, Old' = Old,
         \A b \in owned : Size(b)' = Size(b),
         \A u \in Old : /\ OldBlock(u)' = OldBlock(u)
                        /\ Size(OldBlock(u))' = Size(OldBlock(u)),
         \A u \in Made : /\ call'[u].at = call[u].at
                         /\ NewSize(u)' = NewSize(u)
                         /\ call'[u].pc = "copy" => Size(call[u].at)' = call'[u].n,
         BlankCells'
  PROVE  Sound'
  <1>1. HeadersIntact'
    BY DEF Sound, HeadersIntact
  <1>2. HoldersApart'
    BY SMT DEF Sound, HoldersApart
  <1>3. Taken' = Taken
    BY DEF Taken
  <1>4. \A q \in PoolCells : q \in Taken' <=> Covered(q)'
    BY <1>3 DEF Sound, Covered
  <1> QED
    BY <1>1, <1>2, <1>3, <1>4 DEF Sound

LEMMA StoreKeeps ==
  ASSUME Sound, NEW b \in owned, NEW i \in 1 .. Size(b), NEW d \in Data,
         cell' = [cell EXCEPT ![b + i] = [data |-> d]],
         UNCHANGED <<occupied, free_pieces, owned, call>>
  PROVE  Sound'
  <1> USE HeapAssumption
  <1>h. /\ HeapTypes /\ HeadersIntact /\ HoldersApart /\ BlankCells /\ Held
        /\ \A q \in PoolCells : q \in Taken <=> Covered(q)
    BY HoldersHold
  <1>0. Taken' = Taken
    BY DEF Taken
  <1>1. /\ b \in Int /\ Size(b) \in Int /\ b + i \in PoolCells
        /\ cell \in [PoolCells -> Contents]
    BY SMT, <1>h DEF HeadersIntact, HeapTypes, PoolCells, Held
  <1>2. \A q \in PoolCells : q \notin b + 1 .. b + Size(b) => cell'[q] = cell[q]
    BY SMT, <1>1 DEF PoolCells
  <1>3. /\ \A c \in owned : Size(c)' = Size(c)
        /\ \A u \in Old : cell'[OldBlock(u)] = cell[OldBlock(u)]
        /\ \A u \in Made : cell'[call[u].at] = cell[call[u].at]
        /\ \A q \in PoolCells \ Taken : cell'[q] = Blank
        /\ \A u \in Made : call[u].pc = "header" =>
             \A q \in call[u].at .. call[u].at + call[u].n : cell'[q] = Blank
    BY <1>1, <1>2, DataWritten
  <1>4. HeapTypes'
    <2>1. [data |-> d] \in Contents
      BY DEF Contents
    <2> QED
      BY <1>h, <1>1, <2>1 DEF HeapTypes
  <1>5. Made' = Made /\ Old' = Old
    BY DEF Made, Old
  <1>6. BlankCells'
    BY <1>0, <1>3, <1>5 DEF BlankCells
  <1>7. \A u \in Old : /\ OldBlock(u)' = OldBlock(u)
                       /\ Size(OldBlock(u))' = Size(OldBlock(u))
    BY <1>3 DEF OldBlock, Size
  <1>8. \A u \in Made : /\ call'[u].at = call[u].at
                        /\ NewSize(u)' = NewSize(u)
                        /\ call'[u].pc = "copy" => Size(call[u].at)' = call'[u].n
    BY SMT, <1>h, <1>3 DEF HeadersIntact, NewSize, Size
  <1> QED
    BY <1>3, <1>4, <1>5, <1>6, <1>7, <1>8, SameBlocks

LEMMA MinOfTwo ==
  ASSUME NEW a \in Nat, NEW c \in Nat
  PROVE  Min({a, c}) \in {a, c} /\ Min({a, c}) <= a /\ Min({a, c}) <= c
<1>1. \E x \in {a, c} : \A y \in {a, c} : x <= y
  <2>1. a <= c \/ c <= a
    BY SMT
  <2>2. a <= a /\ c <= c
    BY SMT
  <2> QED
    BY Zenon, <2>1, <2>2
<1> QED
  BY Zenon, <1>1 DEF Min

LEMMA CopyKeeps ==
  ASSUME Sound, NEW t \in Allocators, heap_stop = "no", CopyOver(t)
  PROVE  Sound'
  <1> USE HeapAssumption
  <1>h. /\ HeapTypes /\ HeadersIntact /\ HoldersApart /\ BlankCells /\ Held
        /\ \A q \in PoolCells : q \in Taken <=> Covered(q)
    BY HoldersHold
  <1> DEFINE p == call[t].at
             b == call[t].from
             n == call[t].n
             k == Min({n, cell[b].pieces})
  <1>1. /\ call[t].pc = "copy" /\ t \in Made /\ t \in Old
        /\ p \in PoolCells /\ b \in PoolCells /\ b = OldBlock(t)
        /\ n \in Nat /\ NewSize(t) = Size(p) /\ Size(p) = n
        /\ Size(b) \in Nat /\ b + Size(b) < PoolPieces /\ p + n < PoolPieces
    BY SMT, <1>h, CallFields DEF CopyOver, HeadersIntact
  <1>2. k \in Nat /\ k <= n /\ k <= Size(b)
    <2>1. k \in {n, Size(b)} /\ k <= n /\ k <= Size(b)
      BY Zenon, <1>1, MinOfTwo DEF Size
    <2> QED
      BY <1>1, <2>1
  <1>3. /\ cell' = [i \in PoolCells |-> IF i \in p + 1 .. p + k
                                        THEN cell[b + (i - p)] ELSE cell[i]]
        /\ call' = [call EXCEPT ![t] = [pc |-> "free", from |-> b, at |-> p]]
        /\ UNCHANGED <<occupied, free_pieces, owned, Taken>>
    BY DEF CopyOver, Taken
  <1> HIDE DEF k
  <1>4. \A q \in PoolCells : q \notin p + 1 .. p + n => cell'[q] = cell[q]
    <2>1. \A q \in PoolCells : q \notin p + 1 .. p + n => q \notin p + 1 .. p + k
      BY SMT, <1>1, <1>2 DEF PoolCells
    <2> QED
      BY <1>3, <2>1
  <1>5. /\ \A c \in owned : Size(c)' = Size(c)
        /\ \A u \in Old : cell'[OldBlock(u)] = cell[OldBlock(u)]
        /\ \A u \in Made : cell'[call[u].at] = cell[call[u].at]
        /\ \A q \in PoolCells \ Taken : cell'[q] = Blank
        /\ \A u \in Made : call[u].pc = "header" =>
             \A q \in call[u].at .. call[u].at + call[u].n : cell'[q] = Blank
    <2>1. p \in Int /\ n \in Int
      BY SMT, <1>1 DEF PoolCells
    <2>2. \E u \in Made : /\ call[u].pc # "header"
                          /\ p = call[u].at /\ n = NewSize(u)
      BY <1>1
    <2> HIDE DEF p, n
    <2> QED
      BY <1>4, <2>1, <2>2, DataWritten
  <1>6. HeapTypes'
    <2>1. \A i \in PoolCells : i \in p + 1 .. p + k => b + (i - p) \in PoolCells
      BY SMT, <1>1, <1>2 DEF PoolCells
    <2>2. cell' \in [PoolCells -> Contents]
      BY <1>h, <1>3, <2>1 DEF HeapTypes
    <2>3. call' \in [Allocators -> Calls]
      BY <1>h, <1>1, <1>3 DEF HeapTypes, Calls
    <2> QED
      BY <1>h, <1>3, <2>2, <2>3 DEF HeapTypes
  <1>7. /\ \A u \in Allocators : u # t => call'[u] = call[u]
        /\ call'[t].pc = "free" /\ call'[t].at = p /\ call'[t].from = b
    BY <1>h, <1>3 DEF HeapTypes
  <1>8. Made' = Made /\ Old' = Old
    BY SMTT(30), <1>1, <1>7 DEF Made, Old
  <1>9. BlankCells'
    BY SMTT(30), <1>h, <1>3, <1>5, <1>7, <1>8 DEF BlankCells, Held
  <1>10. \A u \in Old : /\ OldBlock(u)' = OldBlock(u)
                        /\ Size(OldBlock(u))' = Size(OldBlock(u))
    BY SMTT(30), <1>h, <1>1, <1>5, <1>7 DEF OldBlock, Size, Held
  <1>11. \A u \in Made : /\ call'[u].at = call[u].at
                         /\ NewSize(u)' = NewSize(u)
                         /\ call'[u].pc = "copy" => Size(call[u].at)' = call'[u].n
    BY SMT, <1>h, <1>1, <1>5, <1>7 DEF HeadersIntact, NewSize, Size, Held
  <1> QED
    BY <1>3, <1>5, <1>6, <1>8, <1>9, <1>10, <1>11, SameBlocks

(* The rest of _kmalloc finds its pieces blank; the block passes to the
   client, or _krealloc goes on with it. *)
LEMMA HeaderKeeps ==
  ASSUME Sound, NEW t \in Allocators, heap_stop = "no", WriteHeader(t)
  PROVE  heap_stop' = "no" /\ Sound'
  <1> USE HeapAssumption
  <1>h. /\ HeapTypes /\ HeadersIntact /\ HoldersApart /\ BlankCells /\ Held
        /\ \A q \in PoolCells : q \in Taken <=> Covered(q)
    BY SMT, HoldersHold
  <1> PICK p \in PoolCells, n \in 1 .. MaxData : p = call[t].at /\ n = call[t].n
    BY ZenonT(30), <1>h, CallFields DEF WriteHeader
  <1>1. /\ call[t].pc = "header" /\ t \in Made
        /\ p \in Int /\ n \in Nat
        /\ NewSize(t) = n /\ p + n < PoolPieces
        /\ \A i \in p .. p + n : cell[i] = Blank
    BY SMT, <1>h, CallFields
    DEF WriteHeader, HeadersIntact, BlankCells, PoolCells
  <1>2. /\ cell' = [cell EXCEPT ![p] = Header(n)]
        /\ UNCHANGED <<heap_stop, occupied, free_pieces, Taken>>
        /\ IF call[t].then.pc = "own"
           THEN /\ owned' = owned \cup {p}
                /\ call' = [call EXCEPT ![t] = Outside]
           ELSE /\ owned' = owned
                /\ call' = [call EXCEPT ![t] = [pc |-> "copy", at |-> p, n |-> n,
                                                from |-> call[t].then.from]]
    BY <1>1 DEF WriteHeader, Taken
  <1>3. /\ cell'[p] = Header(n) /\ Size(p)' = n
        /\ \A q \in PoolCells : q # p => cell'[q] = cell[q] /\ Size(q)' = Size(q)
    BY <1>h, <1>1, <1>2 DEF HeapTypes, Size, Header
  <1>4. HeapTypes'
    <2>1. Header(n) \in Contents
      BY <1>1 DEF Header, Contents
    <2>2. cell' \in [PoolCells -> Contents]
      BY <1>h, <1>2, <2>1 DEF HeapTypes
    <2>3. call' \in [Allocators -> Calls]
      BY SMT, <1>h, <1>1, <1>2, CallFields DEF HeapTypes, Calls
    <2> QED
      BY ZenonT(30), <1>h, <1>1, <1>2, <2>2, <2>3 DEF HeapTypes
  <1>5. \A u \in Allocators : u # t => call'[u] = call[u]
    BY <1>h, <1>2 DEF HeapTypes
  (* No other holder has its header at p. *)
  <1>6. /\ \A b \in owned : b # p
        /\ \A u \in Made : u # t => call[u].at # p
        /\ \A u \in Old : OldBlock(u) # p
    BY SMT, <1>h, <1>1 DEF HoldersApart, Apart, HeadersIntact, Held
  <1>7. \A u \in Allocators : u # t =>
          /\ u \in Made' <=> u \in Made
          /\ u \in Old' <=> u \in Old
          /\ OldBlock(u)' = OldBlock(u)
          /\ u \in Made => NewSize(u)' = NewSize(u) /\ call'[u].at = call[u].at
          /\ u \in Old => Size(OldBlock(u))' = Size(OldBlock(u))
    BY SMT, <1>h, <1>3, <1>5, <1>6, CallsUnmoved DEF Held
  <1>8. \A b \in owned : Size(b)' = Size(b)
    BY <1>h, <1>3, <1>6 DEF Held
  <1>9. \A q \in PoolCells \ Taken : cell'[q] = Blank
    BY SMT, <1>h, <1>1, <1>3 DEF BlankCells, Covered, PoolCells
  <1>10. \A u \in Made : u # t /\ call[u].pc = "header" =>
           \A q \in call[u].at .. call[u].at + call[u].n : cell'[q] = Blank
    <2> SUFFICES ASSUME NEW u \in Made, u # t, call[u].pc = "header",
                        NEW q \in call[u].at .. call[u].at + call[u].n
                 PROVE  cell'[q] = Blank
      OBVIOUS
    <2>1. /\ NewSize(u) = call[u].n /\ call[u].n \in Int
          /\ call[u].at + call[u].n < PoolPieces /\ call[u].at \in PoolCells
      BY SMT, <1>h, CallFields DEF HeadersIntact, Held
    <2>2. cell[q] = Blank /\ q \in PoolCells
      BY SMTT(30), <1>h, <2>1 DEF BlankCells, PoolCells
    <2>3. q # p
      BY SMT, <1>h, <1>1, <2>1 DEF HoldersApart, Apart, PoolCells
    <2> QED
      BY <1>3, <2>2, <2>3
  <1>11. CASE call[t].then.pc = "own"
    <2>1. /\ owned' = owned \cup {p} /\ call'[t] = Outside
          /\ t \notin Made' /\ t \notin Old /\ t \notin Old'
      BY SMT, <1>h, <1>1, <1>2, <1>11, CallFields
      DEF HeapTypes, Made, Old, Outside
    <2>2. /\ Made' \subseteq Allocators /\ Old' \subseteq Allocators
          /\ Made \subseteq Allocators /\ Old \subseteq Allocators
      BY DEF Made, Old
    <2>3. HeadersIntact'
      BY SMTT(30), <1>h, <1>1, <1>3, <1>5, <1>6, <1>7, <1>8, <2>1, <2>2
      DEF HeadersIntact, Held
    <2>4. HoldersApart'
      BY SMTT(30), <1>h, <1>1, <1>3, <1>5, <1>7, <1>8, <2>1, <2>2
      DEF HoldersApart, Apart, Held
    <2>5. \A q \in PoolCells : q \in Taken' <=> Covered(q)'
      BY SMT, <1>h, <1>1, <1>2, <1>3, <1>5, <1>7, <1>8, <2>1, <2>2 DEF Covered
    <2>6. BlankCells'
      BY <1>2, <1>5, <1>7, <1>9, <1>10, <2>1, <2>2 DEF BlankCells
    <2> QED
      BY ZenonT(30), <1>2, <1>4, <2>3, <2>4, <2>5, <2>6 DEF Sound
  <1>12. CASE call[t].then.pc # "own"
    <2>1. /\ owned' = owned /\ t \in Old
          /\ call'[t] = [pc |-> "copy", at |-> p, n |-> n,
                         from |-> call[t].then.from]
          /\ OldBlock(t) = call[t].then.from
      BY ZenonT(30), <1>h, <1>1, <1>2, <1>12, CallFields DEF HeapTypes
    <2>2. /\ t \in Made' /\ t \in Old' /\ OldBlock(t)' = OldBlock(t)
          /\ NewSize(t)' = n /\ call'[t].at = p
      BY SMTT(30), <1>3, <2>1 DEF Made, Old, OldBlock, NewSize, Size
    <2>3. /\ Made' \subseteq Allocators /\ Old' \subseteq Allocators
          /\ Made \subseteq Allocators /\ Old \subseteq Allocators
      BY SMT DEF Made, Old
    <2>4. Made' = Made /\ Old' = Old
      <3>1. \A u \in Allocators :
              (u \in Made' <=> u \in Made) /\ (u \in Old' <=> u \in Old)
        BY ZenonT(30), <1>1, <1>7, <2>1, <2>2
      <3> QED
        BY <2>3, <3>1
    <2>5. \A u \in Old : /\ OldBlock(u)' = OldBlock(u)
                         /\ Size(OldBlock(u))' = Size(OldBlock(u))
      BY SMTT(30), <1>h, <1>3, <1>6, <1>7, <2>1, <2>2, <2>3 DEF Held
    <2>6. \A u \in Made : /\ call'[u].at = call[u].at
                          /\ NewSize(u)' = NewSize(u)
                          /\ call'[u].pc = "copy" => Size(call[u].at)' = call'[u].n
      BY SMTT(30), <1>h, <1>1, <1>3, <1>5, <1>6, <1>7, <2>1, <2>2, <2>3
      DEF HeadersIntact, Held
    <2>7. BlankCells'
      BY SMT, <1>2, <1>5, <1>9, <1>10, <2>1, <2>3, <2>4 DEF BlankCells
    <2> QED
      BY <1>2, <1>4, <1>8, <2>1, <2>4, <2>5, <2>6, <2>7, SameBlocks
  <1> QED
    BY <1>11, <1>12

(* What _kfree does to the pieces of a block that somebody holds. *)
LEMMA Released ==
  ASSUME Sound, heap_stop = "no", NEW b \in PoolCells, Release(b),
         b \in owned \/ \E t \in Old : b = OldBlock(t)
  PROVE  /\ heap_stop' = "no"
         /\ cell' \in [PoolCells -> Contents]
         /\ free_pieces' = PoolPieces - Cardinality(Taken')
         /\ Taken' = Taken \ (b .. b + Size(b))
         /\ occupied' \subseteq PoolCells /\ Leftover \subseteq occupied'
         /\ \A q \in PoolCells \ Taken' : cell'[q] = Blank
         /\ \A q \in PoolCells : q \notin b .. b + Size(b) => cell'[q] = cell[q]
  <1> USE HeapAssumption
  <1>h. /\ HeapTypes /\ HeadersIntact /\ HoldersApart /\ BlankCells /\ Held
        /\ \A q \in PoolCells : q \in Taken <=> Covered(q)
    BY HoldersHold
  <1>1. b \in Int /\ Size(b) \in Nat /\ b + Size(b) < PoolPieces
    BY <1>h DEF HeadersIntact, Held
  <1>2. b .. b + Size(b) \subseteq Taken
    BY SMT, <1>h, <1>1 DEF Covered, PoolCells
  <1>3. /\ occupied' = occupied \ (b .. b + Size(b))
        /\ free_pieces' = free_pieces + (Size(b) + 1)
        /\ cell' = [i \in PoolCells |-> IF i \in b .. b + Size(b)
                                        THEN Blank ELSE cell[i]]
        /\ heap_stop' = "no"
    BY <1>2 DEF Release, Size, Taken
  <1>u. /\ Taken' = Taken \ (b .. b + Size(b))
        /\ occupied' \subseteq PoolCells /\ Leftover \subseteq occupied'
    BY <1>h, <1>2, <1>3 DEF Taken, HeapTypes
  <1>4. free_pieces' = PoolPieces - Cardinality(Taken')
    <2>1. IsFiniteSet(Taken) /\ Cardinality(Taken) \in Nat
      BY PoolFinite DEF Sound
    <2>2. Cardinality(Taken \ (b .. b + Size(b)))
            = Cardinality(Taken) - (Size(b) + 1)
      BY <1>1, <1>2, <2>1, CountPieces
    <2>3. free_pieces = PoolPieces - Cardinality(Taken)
      BY DEF Sound
    <2> QED
      BY SMT, <1>1, <1>3, <1>u, <2>1, <2>2, <2>3
  <1>5. Blank \in Contents
    BY DEF Blank, Contents
  <1>6. cell' \in [PoolCells -> Contents]
    BY <1>h, <1>3, <1>5 DEF HeapTypes
  <1>7. \A q \in PoolCells \ Taken' : cell'[q] = Blank
    BY <1>h, <1>3, <1>u DEF BlankCells
  <1> QED
    BY <1>3, <1>u, <1>4, <1>6, <1>7

LEMMA KfreeKeeps ==
  ASSUME Sound, NEW t \in Allocators, NEW b \in PoolCells, kfree(t, b)
  PROVE  heap_stop' = "no" /\ Sound'
  <1> USE HeapAssumption
  <1>h. /\ HeapTypes /\ HeadersIntact /\ HoldersApart /\ BlankCells /\ Held
        /\ \A q \in PoolCells : q \in Taken <=> Covered(q)
    BY HoldersHold
  <1>1. /\ b \in owned /\ owned' = owned \ {b} /\ call' = call
        /\ Release(b) /\ heap_stop = "no"
    BY DEF kfree
  <1>2. /\ heap_stop' = "no"
        /\ cell' \in [PoolCells -> Contents]
        /\ free_pieces' = PoolPieces - Cardinality(Taken')
        /\ Taken' = Taken \ (b .. b + Size(b))
        /\ occupied' \subseteq PoolCells /\ Leftover \subseteq occupied'
        /\ \A q \in PoolCells \ Taken' : cell'[q] = Blank
        /\ \A q \in PoolCells : q \notin b .. b + Size(b) => cell'[q] = cell[q]
    BY <1>1, Released
  <1>3. b \in Int /\ Size(b) \in Nat
    BY <1>h, <1>1 DEF HeadersIntact, Held
  <1>4. /\ \A c \in owned' : c \in owned /\ Size(c)' = Size(c)
        /\ \A u \in Old : Size(OldBlock(u))' = Size(OldBlock(u))
        /\ \A u \in Made : cell'[call[u].at] = cell[call[u].at]
    <2>1. ASSUME NEW c \in owned, c # b PROVE cell'[c] = cell[c]
      <3>1. Apart(c, Size(c), b, Size(b)) /\ Size(c) \in Nat
        BY SMTT(30), <1>h, <1>1, <2>1 DEF HoldersApart, HeadersIntact
      <3>2. c \notin b .. b + Size(b)
        BY SMT, <1>h, <1>3, <3>1 DEF Apart, Held
      <3> QED
        BY ZenonT(30), <1>h, <1>2, <3>2 DEF Held
    <2>2. ASSUME NEW u \in Old PROVE cell'[OldBlock(u)] = cell[OldBlock(u)]
      <3>1. /\ Apart(OldBlock(u), Size(OldBlock(u)), b, Size(b))
            /\ Size(OldBlock(u)) \in Nat
        BY SMT, <1>h, <1>1 DEF HoldersApart, HeadersIntact
      <3>2. OldBlock(u) \notin b .. b + Size(b)
        BY SMT, <1>h, <1>3, <3>1 DEF Apart, Held
      <3> QED
        BY <1>h, <1>2, <3>2 DEF Held
    <2>3. ASSUME NEW u \in Made PROVE cell'[call[u].at] = cell[call[u].at]
      <3>1. Apart(call[u].at, NewSize(u), b, Size(b)) /\ NewSize(u) \in Nat
        BY SMT, <1>h, <1>1 DEF HoldersApart, HeadersIntact
      <3>2. call[u].at \notin b .. b + Size(b)
        BY SMT, <1>h, <1>3, <3>1 DEF Apart, Held
      <3> QED
        BY <1>h, <1>2, <3>2 DEF Held
    <2>4. \A u \in Old : OldBlock(u)' = OldBlock(u)
      BY <1>1 DEF OldBlock
    <2> QED
      BY <1>1, <2>1, <2>2, <2>3, <2>4 DEF Size
  <1>5. /\ Made' = Made /\ Old' = Old
        /\ \A u \in Old : OldBlock(u)' = OldBlock(u)
        /\ \A u \in Made : NewSize(u)' = NewSize(u)
        /\ \A u \in Made : Size(call[u].at)' = Size(call[u].at)
    BY <1>1, <1>4 DEF Made, Old, OldBlock, NewSize, Size
  <1>6. HeapTypes'
    BY <1>h, <1>1, <1>2 DEF HeapTypes
  <1>7. HeadersIntact'
    BY ZenonT(30), <1>h, <1>1, <1>4, <1>5 DEF HeadersIntact
  <1>8. HoldersApart'
    BY SMT, <1>h, <1>1, <1>4, <1>5 DEF HoldersApart
  <1>9. \A q \in PoolCells : q \in Taken' <=> Covered(q)'
    <2> SUFFICES ASSUME NEW q \in PoolCells
                 PROVE  Covered(q)' <=> Covered(q) /\ q \notin b .. b + Size(b)
      BY <1>2 DEF Sound
    <2>1. ASSUME Covered(q), q \notin b .. b + Size(b) PROVE Covered(q)'
      <3>1. ~(b <= q /\ q <= b + Size(b))
        BY SMT, <1>3, <2>1 DEF PoolCells
      <3> QED
        BY <1>1, <1>4, <1>5, <2>1, <3>1 DEF Covered
    <2>2. ASSUME Covered(q)' PROVE Covered(q) /\ q \notin b .. b + Size(b)
      <3>1. Covered(q)
        BY <1>1, <1>4, <1>5, <2>2 DEF Covered
      <3>2. \A c \in owned' : Apart(b, Size(b), c, Size(c))
        BY <1>h, <1>1, <1>3 DEF HoldersApart
      <3>3. \A u \in Made : Apart(call[u].at, NewSize(u), b, Size(b))
        BY <1>h, <1>1, <1>3 DEF HoldersApart
      <3>4. \A u \in Old : Apart(OldBlock(u), Size(OldBlock(u)), b, Size(b))
        BY <1>h, <1>1, <1>3 DEF HoldersApart
      <3>5. q \notin b .. b + Size(b)
        BY SMT, <1>h, <1>1, <1>3, <1>4, <1>5, <2>2, <3>2, <3>3, <3>4
        DEF Covered, PoolCells, Apart, Held
      <3> QED
        BY <3>1, <3>5
    <2> QED
      BY <2>1, <2>2
  <1>10. BlankCells'
    <2> SUFFICES ASSUME NEW u \in Made, call[u].pc = "header",
                        NEW q \in call[u].at .. call[u].at + call[u].n
                 PROVE  cell'[q] = Blank
      BY <1>1, <1>2, <1>5 DEF BlankCells
    <2>1. cell[q] = Blank /\ call[u].n \in Int /\ call[u].at + call[u].n < PoolPieces
      BY SMT, <1>h, CallFields DEF BlankCells, HeadersIntact, Held
    <2>2. q \in PoolCells
      BY SMT, <1>h, <2>1 DEF PoolCells, Held
    <2> QED
      BY <1>2, <2>1, <2>2
  <1> QED
    BY <1>2, <1>6, <1>7, <1>8, <1>9, <1>10 DEF Sound

LEMMA OutsideApart ==
  ASSUME NEW b \in Int, NEW m \in Nat, NEW c \in Int, NEW n \in Nat, NEW q \in PoolCells,
         Apart(b, m, c, n) \/ Apart(c, n, b, m), c <= q, q <= c + n
  PROVE  q \notin b .. b + m
  BY SMTT(30), HeapAssumption DEF Apart, PoolCells

(* The end of _krealloc: the old block goes, the new one is the client's. *)
LEMMA FreeOldKeeps ==
  ASSUME Sound, NEW t \in Allocators, FreeOld(t)
  PROVE  heap_stop' = "no" /\ Sound'
  <1> USE HeapAssumption
  <1>h. /\ HeapTypes /\ HeadersIntact /\ HoldersApart /\ BlankCells /\ Held
        /\ \A q \in PoolCells : q \in Taken <=> Covered(q)
    BY HoldersHold
  <1>0. PICK b \in PoolCells, p \in PoolCells :
          /\ call[t].pc = "free" /\ b = call[t].from /\ p = call[t].at
          /\ t \in Made /\ t \in Old /\ OldBlock(t) = b /\ NewSize(t) = Size(p)
    BY <1>h, CallFields DEF FreeOld
  <1>1. /\ owned' = owned \cup {p} /\ call' = [call EXCEPT ![t] = Outside]
        /\ Release(b) /\ heap_stop = "no"
    BY <1>0 DEF FreeOld
  <1>2. /\ heap_stop' = "no"
        /\ cell' \in [PoolCells -> Contents]
        /\ free_pieces' = PoolPieces - Cardinality(Taken')
        /\ Taken' = Taken \ (b .. b + Size(b))
        /\ occupied' \subseteq PoolCells /\ Leftover \subseteq occupied'
        /\ \A q \in PoolCells \ Taken' : cell'[q] = Blank
        /\ \A q \in PoolCells : q \notin b .. b + Size(b) => cell'[q] = cell[q]
    BY <1>0, <1>1, Released
  <1>3. b \in Int /\ p \in Int /\ Size(b) \in Nat /\ Size(p) \in Nat
    BY <1>h, <1>0 DEF HeadersIntact, Held
  <1>4. /\ \A u \in Allocators : u # t => call'[u] = call[u]
        /\ call'[t] = Outside /\ call'[t].pc = "none"
    BY <1>h, <1>1 DEF HeapTypes, Outside
  <1>5. /\ \A c \in owned : Size(c)' = Size(c)
        /\ \A u \in Old : u # t => cell'[OldBlock(u)] = cell[OldBlock(u)]
        /\ \A u \in Made : cell'[call[u].at] = cell[call[u].at]
    <2>1. ASSUME NEW c \in owned PROVE cell'[c] = cell[c]
      <3>1. Apart(b, Size(b), c, Size(c)) /\ Size(c) \in Nat
        BY SMTT(30), <1>h, <1>0 DEF HoldersApart, HeadersIntact
      <3>2. c \notin b .. b + Size(b)
        BY SMT, <1>h, <1>3, <3>1 DEF Apart, Held
      <3> QED
        BY <1>h, <1>2, <3>2 DEF Held
    <2>2. ASSUME NEW u \in Old, u # t
          PROVE  cell'[OldBlock(u)] = cell[OldBlock(u)]
      <3>1. /\ Apart(OldBlock(u), Size(OldBlock(u)), b, Size(b))
            /\ Size(OldBlock(u)) \in Nat
        BY SMTT(30), <1>h, <1>0, <2>2 DEF HoldersApart, HeadersIntact
      <3>2. OldBlock(u) \notin b .. b + Size(b)
        BY SMT, <1>h, <1>3, <3>1 DEF Apart, Held
      <3> QED
        BY ZenonT(30), <1>h, <1>2, <3>2 DEF Held
    <2>3. ASSUME NEW u \in Made PROVE cell'[call[u].at] = cell[call[u].at]
      <3>1. Apart(call[u].at, NewSize(u), b, Size(b)) /\ NewSize(u) \in Nat
        BY SMTT(30), <1>h, <1>0 DEF HoldersApart, HeadersIntact
      <3>2. call[u].at \notin b .. b + Size(b)
        BY SMT, <1>h, <1>3, <3>1 DEF Apart, Held
      <3> QED
        BY <1>h, <1>2, <3>2 DEF Held
    <2> QED
      BY <2>1, <2>2, <2>3 DEF Size
  <1>6. /\ Made' \subseteq Allocators /\ Old' \subseteq Allocators
        /\ Made \subseteq Allocators /\ Old \subseteq Allocators
        /\ t \notin Made' /\ t \notin Old' /\ Size(p)' = Size(p)
    BY <1>0, <1>4, <1>5 DEF Made, Old, Size
  <1>7. \A u \in Allocators : u # t =>
          /\ u \in Made' <=> u \in Made
          /\ u \in Old' <=> u \in Old
          /\ OldBlock(u)' = OldBlock(u)
          /\ u \in Made => NewSize(u)' = NewSize(u) /\ call'[u].at = call[u].at
                           /\ Size(call[u].at)' = Size(call[u].at)
          /\ u \in Old => Size(OldBlock(u))' = Size(OldBlock(u))
    <2> SUFFICES ASSUME NEW u \in Allocators, u # t
                 PROVE  /\ u \in Made' <=> u \in Made
                        /\ u \in Old' <=> u \in Old
                        /\ OldBlock(u)' = OldBlock(u)
                        /\ u \in Made => /\ NewSize(u)' = NewSize(u)
                                         /\ call'[u].at = call[u].at
                                         /\ Size(call[u].at)' = Size(call[u].at)
                        /\ u \in Old => Size(OldBlock(u))' = Size(OldBlock(u))
      OBVIOUS
    <2>1. call'[u] = call[u]
      BY <1>4
    <2>2. /\ u \in Made' <=> u \in Made
          /\ u \in Old' <=> u \in Old
          /\ OldBlock(u)' = OldBlock(u)
      BY <2>1, CallsUnmoved
    <2>3. u \in Made => Size(call[u].at)' = Size(call[u].at)
      BY <1>5, <2>1 DEF Size
    <2>4. u \in Made => NewSize(u)' = NewSize(u)
      BY <2>1, <2>3, CallsUnmoved
    <2>5. u \in Old => Size(OldBlock(u))' = Size(OldBlock(u))
      BY <1>5, <2>2 DEF Size
    <2> QED
      BY <2>1, <2>2, <2>3, <2>4, <2>5
  <1>8. HeapTypes'
    <2>1. call' \in [Allocators -> Calls]
      BY ZenonT(30), <1>h, <1>1 DEF HeapTypes, Calls
    <2> QED
      BY <1>h, <1>1, <1>2, <2>1 DEF HeapTypes
  <1>9. HeadersIntact'
    BY SMTT(30), <1>h, <1>0, <1>1, <1>4, <1>5, <1>6, <1>7 DEF HeadersIntact
  <1>10. HoldersApart'
    BY SMTT(30), <1>h, <1>0, <1>1, <1>3, <1>5, <1>6, <1>7
    DEF HoldersApart, Apart, Held
  <1>11. \A q \in PoolCells : q \in Taken' <=> Covered(q)'
    <2> SUFFICES ASSUME NEW q \in PoolCells
                 PROVE  Covered(q)' <=> Covered(q) /\ q \notin b .. b + Size(b)
      BY <1>2 DEF Sound
    <2>1. ASSUME Covered(q), q \notin b .. b + Size(b) PROVE Covered(q)'
      <3>1. ~(b <= q /\ q <= b + Size(b))
        BY SMTT(30), <1>3, <2>1 DEF PoolCells
      <3> QED
        BY <1>0, <1>1, <1>5, <1>6, <1>7, <2>1, <3>1 DEF Covered
    <2>2. ASSUME Covered(q)' PROVE Covered(q) /\ q \notin b .. b + Size(b)
      <3>1. ASSUME NEW c \in owned, c <= q, q <= c + Size(c)
            PROVE  Covered(q) /\ q \notin b .. b + Size(b)
        <4>1. Apart(b, Size(b), c, Size(c)) /\ c \in Int /\ Size(c) \in Nat
          BY <1>h, <1>0 DEF HoldersApart, Held
        <4>2. q \notin b .. b + Size(b)
          BY <1>3, <3>1, <4>1, OutsideApart DEF Apart
        <4> QED
          BY <3>1, <4>2 DEF Covered
      <3>2. ASSUME NEW u \in Old, u # t, OldBlock(u) <= q, q <= OldBlock(u) + Size(OldBlock(u))
            PROVE  Covered(q) /\ q \notin b .. b + Size(b)
        <4>1. /\ Apart(b, Size(b), OldBlock(u), Size(OldBlock(u)))
              /\ OldBlock(u) \in Int /\ Size(OldBlock(u)) \in Nat
          BY <1>h, <1>0, <3>2 DEF HoldersApart, Held
        <4>2. q \notin b .. b + Size(b)
          BY <1>3, <3>2, <4>1, OutsideApart DEF Apart
        <4> QED
          BY <3>2, <4>2 DEF Covered
      <3>3. ASSUME NEW u \in Made, call[u].at <= q, q <= call[u].at + NewSize(u)
            PROVE  Covered(q) /\ q \notin b .. b + Size(b)
        <4>1. Apart(call[u].at, NewSize(u), b, Size(b)) /\ call[u].at \in Int /\ NewSize(u) \in Nat
          BY <1>h, <1>0 DEF HoldersApart, Held
        <4>2. q \notin b .. b + Size(b)
          BY <1>3, <3>3, <4>1, OutsideApart DEF Apart
        <4> QED
          BY <3>3, <4>2 DEF Covered
      <3>4. CASE \E c \in owned' : c <= q /\ q <= c + Size(c)'
        BY <1>0, <1>1, <1>5, <1>6, <3>1, <3>3, <3>4
      <3>5. CASE \E u \in Old' : OldBlock(u)' <= q /\ q <= OldBlock(u)' + Size(OldBlock(u))'
        BY <1>6, <1>7, <3>2, <3>5
      <3>6. CASE \E u \in Made' : call'[u].at <= q /\ q <= call'[u].at + NewSize(u)'
        BY <1>6, <1>7, <3>3, <3>6
      <3> QED
        BY <2>2, <3>4, <3>5, <3>6 DEF Covered
    <2> QED
      BY <2>1, <2>2
  <1>12. BlankCells'
    <2> SUFFICES ASSUME NEW u \in Made, u # t, call[u].pc = "header",
                        NEW q \in call[u].at .. call[u].at + call[u].n
                 PROVE  cell'[q] = Blank
      BY ZenonT(30), <1>2, <1>4, <1>6, <1>7 DEF BlankCells
    <2>1. cell[q] = Blank /\ call[u].n \in Int /\ call[u].at + call[u].n < PoolPieces
      BY SMTT(30), <1>h, CallFields DEF BlankCells, HeadersIntact, Held
    <2>2. q \in PoolCells
      BY SMT, <1>h, <2>1 DEF PoolCells, Held
    <2> QED
      BY <1>2, <2>1, <2>2
  <1> QED
    BY <1>2, <1>8, <1>9, <1>10, <1>11, <1>12 DEF Sound

-----------------------------------------------------------------------------
LEMMA SmallestElement ==
  ASSUME NEW T \in SUBSET Nat, T # {}
  PROVE  \E x \in T : \A y \in T : x <= y
  <1>1. IsWellFoundedOn(OpToRel(<, Nat), Nat)
    BY NatLessThanWellFounded
  <1>2. PICK x \in T : \A y \in T : ~ (<<y, x>> \in OpToRel(<, Nat))
    BY <1>1, WFMin
  <1>3. \A y \in T : ~ (y < x)
    BY <1>2 DEF OpToRel
  <1> QED
    BY SMT, <1>3

(* find_space stops at a first piece. *)
LEMMA FirstFit ==
  ASSUME NEW n, Fits(n) # {}
  PROVE  Min(Fits(n)) \in Fits(n)
  <1>1. Fits(n) \in SUBSET Nat
    BY SMT, HeapAssumption DEF Fits, PoolCells
  <1>2. \E x \in Fits(n) : \A y \in Fits(n) : x <= y
    BY <1>1, SmallestElement
  <1> QED
    BY <1>2 DEF Min

LEMMA TakeIInv ==
  ASSUME Sound, heap_stop = "no", NEW t \in Allocators, call[t] = Outside,
         NEW n \in 1 .. MaxData, NEW then, Take(t, n, then),
         \/ then = [pc |-> "own"] /\ owned' = owned
         \/ \E b \in owned : /\ then = [pc |-> "copy", from |-> b]
                             /\ owned' = owned \ {b}
  PROVE  HeapIInv'
  <1>1. CASE free_pieces < n + 1 \/ Fits(n + 1) = {}
    BY <1>1 DEF Take, HeapIInv
  <1>2. CASE ~(free_pieces < n + 1 \/ Fits(n + 1) = {})
    <2>1. PICK p \in Fits(n + 1) : p = Min(Fits(n + 1))
      BY <1>2, FirstFit
    <2>2. /\ occupied' = occupied \cup (p .. p + n)
          /\ free_pieces' = free_pieces - (n + 1)
          /\ call' = [call EXCEPT ![t] = [pc |-> "header", at |-> p, n |-> n,
                                          then |-> then]]
          /\ UNCHANGED <<cell, heap_stop>>
      BY <1>2, <2>1 DEF Take
    <2> QED
      BY <2>2, TakeKeeps DEF HeapIInv
  <1> QED
    BY <1>1, <1>2

LEMMA InitHeapIInv == HeapInit => HeapIInv
  <1> SUFFICES ASSUME HeapInit PROVE Sound /\ heap_stop = "no"
    BY DEF HeapIInv
  <1>0. Taken = {} /\ Leftover \subseteq PoolCells
    <2>1. Leftover \subseteq PoolCells
      BY SMT, HeapAssumption DEF PoolCells
    <2> QED
      BY <2>1 DEF HeapInit, Taken
  <1>1. HeapTypes
    <2>1. Blank \in Contents
      BY HeapAssumption DEF Blank, Contents
    <2> QED
      BY <1>0, <2>1 DEF HeapInit, HeapTypes, Calls
  <1>2. Made = {} /\ Old = {}
    BY DEF HeapInit, Made, Old, Outside
  <1>3. free_pieces = PoolPieces - Cardinality(Taken)
    BY SMT, <1>0, HeapAssumption, FS_EmptySet DEF HeapInit
  <1> QED
    BY <1>0, <1>1, <1>2, <1>3
    DEF HeapInit, Sound, HeadersIntact, HoldersApart, Covered, BlankCells

LEMMA NextHeapIInv == HeapIInv /\ [HeapNext]_heapVars => HeapIInv'
  <1> SUFFICES ASSUME HeapIInv, [HeapNext]_heapVars PROVE HeapIInv'
    OBVIOUS
  <1>1. CASE UNCHANGED heapVars
    <2>1. /\ UNCHANGED <<occupied, free_pieces, cell, owned, call, heap_stop, Taken>>
      BY <1>1 DEF heapVars, Taken
    <2>2. /\ Made' = Made /\ Old' = Old /\ HeapTypes' = HeapTypes
          /\ \A t : OldBlock(t)' = OldBlock(t) /\ NewSize(t)' = NewSize(t)
          /\ \A b : Size(b)' = Size(b)
      BY <2>1 DEF Made, Old, HeapTypes, OldBlock, NewSize, Size
    <2>3. ASSUME Sound PROVE Sound'
      <3>1. BlankCells'
        BY <2>1, <2>2, <2>3 DEF Sound, BlankCells
      <3>2. /\ \A u \in Old : /\ OldBlock(u)' = OldBlock(u)
                              /\ Size(OldBlock(u))' = Size(OldBlock(u))
            /\ \A u \in Made :
                 /\ call'[u].at = call[u].at /\ NewSize(u)' = NewSize(u)
                 /\ call'[u].pc = "copy" => Size(call[u].at)' = call'[u].n
        BY <2>1, <2>2, <2>3 DEF Sound, HeadersIntact, Size
      <3>3. HeapTypes'
        BY <2>2, <2>3 DEF Sound
      <3> QED
        BY <2>1, <2>2, <2>3, <3>1, <3>2, <3>3, SameBlocks
    <2> QED
      BY <2>1, <2>3 DEF HeapIInv
  <1>2. ASSUME NEW t \in Allocators, NEW n \in 1 .. MaxData, kmalloc(t, n)
        PROVE  HeapIInv'
    BY <1>2, TakeIInv DEF kmalloc, HeapIInv
  <1>3. ASSUME NEW t \in Allocators, NEW n \in 1 .. MaxData,
               NEW b \in PoolCells, krealloc(t, b, n)
        PROVE  HeapIInv'
    BY <1>3, TakeIInv DEF krealloc, HeapIInv
  <1>4. ASSUME NEW t \in Allocators, WriteHeader(t) PROVE HeapIInv'
    BY <1>4, HeaderKeeps DEF WriteHeader, HeapIInv
  <1>5. ASSUME NEW t \in Allocators, CopyOver(t) PROVE HeapIInv'
    BY <1>5, CopyKeeps DEF CopyOver, HeapIInv
  <1>6. ASSUME NEW t \in Allocators, FreeOld(t) PROVE HeapIInv'
    BY <1>6, FreeOldKeeps DEF FreeOld, HeapIInv
  <1>7. ASSUME NEW t \in Allocators, NEW b \in PoolCells, kfree(t, b)
        PROVE  HeapIInv'
    BY <1>7, KfreeKeeps DEF kfree, HeapIInv
  <1>8. ASSUME NEW b \in PoolCells, NEW i \in 1 .. MaxData, NEW d \in Data,
               Store(b, i, d)
        PROVE  HeapIInv'
    BY <1>8, StoreKeeps DEF Store, HeapIInv, Size
  <1> QED
    BY <1>1, <1>2, <1>3, <1>4, <1>5, <1>6, <1>7, <1>8 DEF HeapNext

(* _kmalloc, _krealloc and _kfree, interleaved by any number of threads, give
   each block to one holder, keep the blocks disjoint and the free pieces
   counted and blank: none of the panics of mem/pool.c is reached. *)
THEOREM HeapAlwaysSound == HeapSpec => []HeapSound
  <1>1. HeapIInv => HeapSound
    <2> SUFFICES ASSUME HeapIInv, heap_stop # "grow"
                 PROVE  /\ heap_stop = "no"
                        /\ Leftover \subseteq occupied
                        /\ Taken = UNION {Extent(b) : b \in Blocks}
                        /\ \A b, c \in Blocks :
                             b # c => Extent(b) \cap Extent(c) = {}
                        /\ OneHolder
                        /\ free_pieces = PoolPieces - Cardinality(Taken)
                        /\ \A p \in PoolCells \ Taken : cell[p] = Blank
      BY DEF HeapSound
    <2>1. heap_stop = "no" /\ Sound
      BY DEF HeapIInv
    <2>h. /\ HeapTypes /\ HeadersIntact /\ HoldersApart /\ BlankCells /\ Held
          /\ \A q \in PoolCells : q \in Taken <=> Covered(q)
      BY ZenonT(30), <2>1, HoldersHold
    <2>2. OneHolder
      BY SMTT(30), <2>h, HeapAssumption
      DEF Held, HoldersApart, HeadersIntact, Apart, OneHolder
    <2>3. \A b, c \in Blocks : b # c => Extent(b) \cap Extent(c) = {}
      <3> SUFFICES ASSUME NEW b \in Blocks, NEW c \in Blocks, b # c
                   PROVE  /\ b[1] \in Int /\ b[2] \in Int
                          /\ c[1] \in Int /\ c[2] \in Int
                          /\ Apart(b[1], b[2], c[1], c[2])
        BY SMT DEF Extent, Apart
      <3> QED
        BY SMT, <2>h DEF Blocks, HoldersApart, Held, Apart, Size
    <2>4. Taken = UNION {Extent(b) : b \in Blocks}
      <3>1. ASSUME NEW p \in Taken
            PROVE  \E b \in Blocks : p \in Extent(b)
        <4>1. p \in PoolCells /\ p \in Int /\ Covered(p)
          BY SMT, <2>h DEF HeapTypes, PoolCells, Taken
        <4>2. ASSUME NEW b \in owned, b <= p, p <= b + Size(b)
              PROVE  p \in Extent(<<b, Size(b)>>)
          BY SMT, <2>h, <4>1, <4>2 DEF Held, Extent
        <4>3. ASSUME NEW t \in Old, OldBlock(t) <= p,
                     p <= OldBlock(t) + Size(OldBlock(t))
              PROVE  p \in Extent(<<OldBlock(t), Size(OldBlock(t))>>)
          BY SMTT(30), <2>h, <4>1, <4>3 DEF Held, Extent
        <4>4. ASSUME NEW t \in Made, call[t].at <= p, p <= call[t].at + NewSize(t)
              PROVE  p \in Extent(<<call[t].at, NewSize(t)>>)
          BY SMT, <2>h, <4>1, <4>4 DEF Held, Extent
        <4> QED
          BY <4>1, <4>2, <4>3, <4>4 DEF Covered, Blocks, Size
      <3>2. ASSUME NEW b \in Blocks, NEW p \in Extent(b)
            PROVE  p \in Taken
        <4>1. /\ b[1] \in PoolCells /\ b[1] \in Int /\ b[2] \in Int
              /\ b[1] + b[2] < PoolPieces
              /\ b[1] <= p /\ p <= b[1] + b[2] => Covered(p)
          BY SMT, <2>h DEF Blocks, Covered, Held, HeadersIntact, Size
        <4>2. p \in PoolCells /\ b[1] <= p /\ p <= b[1] + b[2]
          BY SMT, <4>1, HeapAssumption DEF Extent, PoolCells
        <4> QED
          BY <2>h, <4>1, <4>2
      <3> QED
        BY <3>1, <3>2
    <2> QED
      BY <2>1, <2>2, <2>3, <2>4 DEF Sound, BlankCells, HeapTypes
  <1>2. HeapSpec => []HeapIInv
    BY InitHeapIInv, NextHeapIInv, PTL DEF HeapSpec
  <1> QED
    BY <1>1, <1>2, PTL

=============================================================================
