------------------------------- MODULE Frames -------------------------------
(***************************************************************************)
(* The physical frame allocator of mem/frame.c and the set-up of its       *)
(* pieces by mem_init_multiboot (mem/mem.c).  Addresses are counted in     *)
(* frames.  A frame id numbers the frames of all pieces in list order; the *)
(* bitmaps are the set of the ids whose bit is set.  Every operation runs  *)
(* under fr_spinlock, so it is a function of the allocator's state         *)
(* [used, count, ok]: the set bits, frames_used, and whether no kpanic     *)
(* happened.                                                               *)
(***************************************************************************)
EXTENDS Integers, Sequences, SequencesExt, FiniteSetsExt

CONSTANTS Regions,      \* the multiboot memory map: [addr, len, available]
          LowEnd,       \* 0x100000: memory below it is not used
          RootFrames,   \* the bits of memfr_alloc_piece0.bitmap
          SystemFrames, \* the frames of the kernel image
          Pieces        \* the pieces mem_init_multiboot makes of them

ASSUME FramesAssumption ==
  /\ RootFrames \in Nat \ {0}
  /\ SystemFrames \in Nat

-----------------------------------------------------------------------------
(* The frames mem_init_multiboot walks over, in order. *)
Usable(r) == r.available /\ r.addr >= LowEnd

Walked ==
  FlattenSeq([i \in 1 .. Len(SelectSeq(Regions, Usable)) |->
                LET r == SelectSeq(Regions, Usable)[i]
                IN  [k \in 1 .. r.len |-> r.addr + k - 1]])

(* One turn of the loop: the frame that follows the last one extends the   *)
(* piece, unless the piece is the root and its bitmap is full.  The frame  *)
(* that opens a piece is not counted in its `usable'.                      *)
AddFrame(s, a) ==
  LET n == Len(s.pieces)
      extends == /\ ~ (n = 1 /\ s.pieces[n].usable = RootFrames)
                 /\ a = s.last
  IN  [last   |-> a + 1,
       pieces |-> IF n = 0 THEN <<[start |-> a, usable |-> 1]>>
                  ELSE IF extends
                  THEN [s.pieces EXCEPT ![n].usable = @ + 1]
                  ELSE Append(s.pieces, [start |-> a, usable |-> 0])]

PiecesOfMap == FoldLeft(AddFrame, [last |-> 0, pieces |-> <<>>], Walked).pieces

ASSUME PiecesAssumption == Pieces = PiecesOfMap

(* The frames that hold the headers and bitmaps of the pieces after the    *)
(* root: one each, and what the bitmap needs beyond CPU_PAGE_SIZE bytes.   *)
CPU_PAGE_SIZE == 4096

BitmapFrames(u) == Max({1, (u \div 8 + (CPU_PAGE_SIZE - 1)) \div CPU_PAGE_SIZE})

PieceFrames == MapThenSumSet(LAMBDA i : BitmapFrames(Pieces[i].usable), 2 .. Len(Pieces))

-----------------------------------------------------------------------------
(* Before(i): the ids of the pieces in front of piece i. *)
Before(i) == MapThenSumSet(LAMBDA j : Pieces[j].usable, 1 .. i - 1)

frames_total == Before(Len(Pieces) + 1)

Ids == 0 .. frames_total - 1

(* Walks the list, taking each piece's `usable' off the id. *)
PieceOfId(id) == CHOOSE i \in 1 .. Len(Pieces) : id \in Before(i) .. Before(i + 1) - 1

InPiece(i, id) == Pieces[i].start + (id - Before(i))

kfpaddrof(id) == InPiece(PieceOfId(id), id)

Holds(i, a) == Pieces[i].start <= a /\ Pieces[i].start + Pieces[i].usable > a

Known(a) == \E i \in 1 .. Len(Pieces) : Holds(i, a)

(* The index within the piece that holds the address. *)
kfindexof(a) ==
  LET i == CHOOSE i \in 1 .. Len(Pieces) : Holds(i, a) /\ \A j \in 1 .. i - 1 : ~ Holds(j, a)
  IN  a - Pieces[i].start

-----------------------------------------------------------------------------
kfisfree(F, id) == id \notin F.used

(* memfr_alloc_internal: a bit that is set already is reported, not counted. *)
memfr_alloc_internal(F, id) ==
  [F EXCEPT !.used = @ \cup {id}, !.count = IF id \in F.used THEN @ ELSE @ + 1]

kfalloc(F, id) == IF id \in Ids THEN memfr_alloc_internal(F, id) ELSE [F EXCEPT !.ok = FALSE]

kffree(F, id) ==
  IF id \in Ids
  THEN [F EXCEPT !.used = @ \ {id}, !.count = IF id \in F.used THEN @ - 1 ELSE @]
  ELSE [F EXCEPT !.ok = FALSE]

(* kffree(kfindexof(a)): kfindexof panics for an address of no piece. *)
FreeAt(F, a) == IF Known(a) THEN kffree(F, kfindexof(a)) ELSE [F EXCEPT !.ok = FALSE]

(* The first run of `amount' clear bits; the scan knows no piece borders. *)
Runs(F, amount) ==
  {s \in Ids : s + amount <= frames_total /\ \A i \in 0 .. amount - 1 : kfisfree(F, s + i)}

TakeRun(F, amount, s) ==
  [id |-> s, F |-> FoldLeft(memfr_alloc_internal, F, [i \in 1 .. amount |-> s + i - 1])]

TakeFirst(F, amount, runs) ==
  IF runs = {} THEN [F |-> [F EXCEPT !.ok = FALSE], id |-> 0]
               ELSE TakeRun(F, amount, Min(runs))

kfcalloc(F, amount) ==
  IF amount = 0 THEN [F |-> F, id |-> 0] ELSE TakeFirst(F, amount, Runs(F, amount))

(* The state mem_init_multiboot leaves: the frames of the pieces are taken *)
(* behind the place of the kernel image, then the image's own frames.      *)
BootFrames ==
  LET taken == FoldLeft(kfalloc, [used |-> {}, count |-> 0, ok |-> TRUE],
                        [i \in 1 .. PieceFrames |-> SystemFrames + i - 1])
  IN  kfcalloc(taken, SystemFrames).F

=============================================================================
