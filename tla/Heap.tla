-------------------------------- MODULE Heap --------------------------------
(***************************************************************************)
(* The kernel heap of mem/pool.c.  A pool is a row of pieces with a bitmap *)
(* (the set of occupied pieces); an allocation takes one piece for its     *)
(* header (mem_block_t) and the pieces of its data behind it.  The bitmap  *)
(* is only touched under the pool's spinlock, in one step; _kmalloc checks *)
(* that the pieces are blank and writes the header after the release, and  *)
(* _krealloc is an allocation, a copy and a free.                          *)
(***************************************************************************)
EXTENDS Integers, FiniteSets, FiniteSetsExt

CONSTANTS Allocators,   \* the threads
          PoolPieces,   \* the pieces of the root pool
          Leftover,     \* the bits kmpool_create does not clear and finds set
          MaxData,      \* bound on the data pieces of an allocation
          Data          \* what a client stores in a piece; 0 is blank

ASSUME HeapAssumption ==
  /\ PoolPieces \in Nat
  /\ Leftover \subseteq 8 * (PoolPieces \div 8) .. PoolPieces - 1
  /\ MaxData \in Nat \ {0}
  /\ 0 \in Data

VARIABLES
  occupied,     \* the set bits of pool->bitmap
  free_pieces,
  cell,         \* the content of each piece
  owned,        \* the header pieces of the blocks clients hold
  call,         \* what each thread is doing in the heap
  heap_stop     \* "no", "panic", or "grow": no room in the root pool

heapVars == <<occupied, free_pieces, cell, owned, call, heap_stop>>

PoolCells == 0 .. PoolPieces - 1
Header(n) == [pieces |-> n]        \* block->pieces
Blank == [data |-> 0]
Outside   == [pc |-> "none"]

(* kmpool_create clears pieces / 8 bytes of the bitmap and counts every piece
   as free; the bits of the last, partial byte stay as the memory had them. *)
HeapInit ==
  /\ occupied = Leftover
  /\ free_pieces = PoolPieces
  /\ cell = [p \in PoolCells |-> Blank]
  /\ owned = {}
  /\ call = [t \in Allocators |-> Outside]
  /\ heap_stop = "no"

-----------------------------------------------------------------------------
(* kmpool_create: how a pool of `size' bytes is laid out in the pages it   *)
(* gets.  Offsets from the start of the pool.                              *)
POOL_PIECE_SIZE   == 16
PAGE_BYTES        == 4096
DEFAULT_POOL_SIZE == 4096 * 256
POOL_HEADER       == 64            \* sizeof(mem_pool_t)
BITMAP_OFFSET     == 60            \* offset of the bitmap in it
BITMAP_WORD       == 32            \* bits of an ALLOC_DATATYPE

floor_to_alignment(n) == (n \div POOL_PIECE_SIZE) * POOL_PIECE_SIZE
ceil_to_alignment(n)  == ((n + (POOL_PIECE_SIZE - 1)) \div POOL_PIECE_SIZE) * POOL_PIECE_SIZE

(* Mutant of kmpool_create: the bitmap is not taken off the size. *)
bitmap_not_deducted(size) ==
  LET s == size + (size % (POOL_PIECE_SIZE * 2))
      pieces == s \div POOL_PIECE_SIZE
      pages  == (s + POOL_HEADER + (PAGE_BYTES - 1)) \div PAGE_BYTES
      actual == floor_to_alignment(pages * PAGE_BYTES - POOL_HEADER)
  IN  [end    |-> pages * PAGE_BYTES,
       pieces |-> actual \div POOL_PIECE_SIZE,
       start  |-> ceil_to_alignment(POOL_HEADER + pieces \div 8)]

kmpool_create(size) ==
  LET s == size + (size % (POOL_PIECE_SIZE * 2))
      pieces == s \div POOL_PIECE_SIZE
      pages  == (s + POOL_HEADER + (PAGE_BYTES - 1)) \div PAGE_BYTES
      actual == floor_to_alignment(pages * PAGE_BYTES - POOL_HEADER)
      remaining == floor_to_alignment(actual - pieces \div 8)
  IN  [end    |-> pages * PAGE_BYTES,
       pieces |-> remaining \div POOL_PIECE_SIZE,
       start  |-> ceil_to_alignment(POOL_HEADER + pieces \div 8)]

(* The size _kmalloc asks for when it adds a pool for `size' bytes. *)
GrowSize(size) == IF size > DEFAULT_POOL_SIZE THEN size * 2 ELSE DEFAULT_POOL_SIZE

-----------------------------------------------------------------------------
(* find_space: the first run of clear bits. *)
Fits(n) == {p \in PoolCells : p + n <= PoolPieces /\ p .. p + n - 1 \cap occupied = {}}

(* The section of _kmalloc under the spinlock; `then' is what is done with *)
(* the block.  Without room the next pool is made and the lock of the pool *)
(* behind it is taken, which does not exist.                               *)
(* Mutant of Take: free_pieces is taken down by the data pieces only. *)
take_counts_data(t, n, then) ==
  IF free_pieces < n + 1 \/ Fits(n + 1) = {}
  THEN heap_stop' = "grow" /\ UNCHANGED <<occupied, free_pieces, cell, call>>
  ELSE LET p == Min(Fits(n + 1))
       IN  /\ occupied' = occupied \cup (p .. p + n)
           /\ free_pieces' = free_pieces - n
           /\ call' = [call EXCEPT ![t] = [pc |-> "header", at |-> p, n |-> n, then |-> then]]
           /\ UNCHANGED <<cell, heap_stop>>

Take(t, n, then) ==
  IF free_pieces < n + 1 \/ Fits(n + 1) = {}
  THEN heap_stop' = "grow" /\ UNCHANGED <<occupied, free_pieces, cell, call>>
  ELSE LET p == Min(Fits(n + 1))
       IN  /\ occupied' = occupied \cup (p .. p + n)
           /\ free_pieces' = free_pieces - (n + 1)
           /\ call' = [call EXCEPT ![t] = [pc |-> "header", at |-> p, n |-> n, then |-> then]]
           /\ UNCHANGED <<cell, heap_stop>>

kmalloc(t, n) ==
  /\ heap_stop = "no" /\ call[t] = Outside
  /\ Take(t, n, [pc |-> "own"])
  /\ UNCHANGED owned

(* _krealloc with a block and a size: the block is in the caller's hands. *)
krealloc(t, b, n) ==
  /\ heap_stop = "no" /\ call[t] = Outside
  /\ b \in owned
  /\ Take(t, n, [pc |-> "copy", from |-> b])
  /\ owned' = owned \ {b}

(* The rest of _kmalloc: every piece must be blank, then the header. *)
WriteHeader(t) ==
  /\ heap_stop = "no" /\ call[t].pc = "header"
  /\ LET p == call[t].at
         n == call[t].n
     IN  IF \E i \in p .. p + n : cell[i] # Blank
         THEN heap_stop' = "panic" /\ UNCHANGED <<cell, owned, call>>
         ELSE /\ cell' = [cell EXCEPT ![p] = Header(n)]
              /\ UNCHANGED heap_stop
              /\ IF call[t].then.pc = "own"
                 THEN /\ owned' = owned \cup {p}
                      /\ call' = [call EXCEPT ![t] = Outside]
                 ELSE /\ UNCHANGED owned
                      /\ call' = [call EXCEPT ![t] = [pc |-> "copy", at |-> p, n |-> n,
                                                      from |-> call[t].then.from]]
  /\ UNCHANGED <<occupied, free_pieces>>

(* memcpy of the smaller of the two sizes. *)
CopyOver(t) ==
  /\ heap_stop = "no" /\ call[t].pc = "copy"
  /\ LET p == call[t].at
         b == call[t].from
         k == Min({call[t].n, cell[b].pieces})
     IN  /\ cell' = [i \in PoolCells |-> IF i \in p + 1 .. p + k THEN cell[b + (i - p)] ELSE cell[i]]
         /\ call' = [call EXCEPT ![t] = [pc |-> "free", from |-> b, at |-> p]]
  /\ UNCHANGED <<occupied, free_pieces, owned, heap_stop>>

(* _kfree of block b: set_pieces panics if a bit is clear. *)
Release(b) ==
  LET n == cell[b].pieces
  IN  /\ occupied' = occupied \ (b .. b + n)
      /\ free_pieces' = free_pieces + (n + 1)
      /\ cell' = [i \in PoolCells |-> IF i \in b .. b + n THEN Blank ELSE cell[i]]
      /\ heap_stop' = IF b .. b + n \subseteq occupied THEN "no" ELSE "panic"

kfree(t, b) ==
  /\ heap_stop = "no" /\ call[t] = Outside
  /\ b \in owned
  /\ Release(b)
  /\ owned' = owned \ {b}
  /\ UNCHANGED call

FreeOld(t) ==
  /\ heap_stop = "no" /\ call[t].pc = "free"
  /\ Release(call[t].from)
  /\ owned' = owned \cup {call[t].at}
  /\ call' = [call EXCEPT ![t] = Outside]

(* A client stores into one of its blocks. *)
Store(b, i, d) ==
  /\ heap_stop = "no"
  /\ b \in owned
  /\ i \in 1 .. cell[b].pieces
  /\ cell' = [cell EXCEPT ![b + i] = [data |-> d]]
  /\ UNCHANGED <<occupied, free_pieces, owned, call, heap_stop>>

HeapNext ==
  \/ \E t \in Allocators, n \in 1 .. MaxData : kmalloc(t, n)
  \/ \E t \in Allocators, n \in 1 .. MaxData, b \in PoolCells : krealloc(t, b, n)
  \/ \E t \in Allocators : WriteHeader(t) \/ CopyOver(t) \/ FreeOld(t)
  \/ \E t \in Allocators, b \in PoolCells : kfree(t, b)
  \/ \E b \in PoolCells, i \in 1 .. MaxData, d \in Data : Store(b, i, d)

HeapSpec == HeapInit /\ [][HeapNext]_heapVars

-----------------------------------------------------------------------------
(* The blocks: those of clients, and those inside a call. *)
Made == {t \in Allocators : call[t].pc \in {"header", "copy", "free"}}
Old  == {t \in Allocators : \/ call[t].pc \in {"copy", "free"}
                            \/ call[t].pc = "header" /\ call[t].then.pc = "copy"}
OldBlock(t) == IF call[t].pc = "header" THEN call[t].then.from ELSE call[t].from
NewSize(t)  == IF call[t].pc = "header" THEN call[t].n ELSE cell[call[t].at].pieces

Blocks ==
  {<<b, cell[b].pieces>> : b \in owned}
    \cup {<<OldBlock(t), cell[OldBlock(t)].pieces>> : t \in Old}
    \cup {<<call[t].at, NewSize(t)>> : t \in Made}

Extent(b) == b[1] .. b[1] + b[2]

(* The pieces taken since the pool was made. *)
Taken == occupied \ Leftover

(* A block is in one pair of hands: a client's, or those of the call that
   makes it or gives it up. *)
OneHolder ==
  /\ \A t \in Made :
       /\ call[t].at \notin owned
       /\ \A u \in Made : call[u].at = call[t].at => u = t
       /\ \A u \in Old : call[t].at # OldBlock(u)
  /\ \A t \in Old :
       /\ OldBlock(t) \notin owned
       /\ \A u \in Old : OldBlock(u) = OldBlock(t) => u = t

(* The blocks in use have one holder each, are disjoint and cover exactly  *)
(* the pieces taken since the pool was made, free_pieces counts the others *)
(* (the bits that were never cleared included: no block ever takes or      *)
(* frees them), and what is free is blank, so _kmalloc never panics with   *)
(* "not blank" and set_pieces never finds a bit in the wrong state         *)
(* (_kmalloc, _kfree, _krealloc, interleaved).                             *)
HeapSound ==
  heap_stop # "grow" =>
    /\ heap_stop = "no"
    /\ Leftover \subseteq occupied
    /\ Taken = UNION {Extent(b) : b \in Blocks}
    /\ \A b, c \in Blocks : b # c => Extent(b) \cap Extent(c) = {}
    /\ OneHolder
    /\ free_pieces = PoolPieces - Cardinality(Taken)
    /\ \A p \in PoolCells \ Taken : cell[p] = Blank

(* The pools the heap makes fit: neither the pieces nor the bitmap go past *)
(* their room (kmpool_create); the bitmap is read in whole words.          *)
PoolFits(size) ==
  LET pool == kmpool_create(GrowSize(size))
  IN  /\ pool.start + pool.pieces * POOL_PIECE_SIZE <= pool.end
      /\ BITMAP_OFFSET + ((pool.pieces + (BITMAP_WORD - 1)) \div BITMAP_WORD) * 4 <= pool.start

=============================================================================
