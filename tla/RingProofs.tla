----------------------------- MODULE RingProofs -----------------------------
(***************************************************************************)
(* The rings.  The ring buffer of kernel/cbuf.c implements a bounded pipe, *)
(* for every size, every number of readers and writers and every length of *)
(* calls; what an interrupt puts into a ring is read in order.             *)
(***************************************************************************)
EXTENDS Cbuf, Irq, Serial, Keyboard, SequenceTheorems, TLAPS

USE Zenon

(* A finite function from 1..n is a sequence of length n. *)
LEMMA RunIsSeq ==
  ASSUME NEW V, NEW n \in Nat, NEW s \in [1 .. n -> V]
  PROVE  s \in Seq(V) /\ Len(s) = n
<1>1. s \in Seq(V)
  BY SeqDef
<1>2. DOMAIN s = 1 .. Len(s) /\ Len(s) \in Nat
  BY <1>1, LenProperties
<1> QED
  BY SMT, <1>1, <1>2

(* What a run of bytes is after another was put behind it. *)
LEMMA AppendRun ==
  ASSUME NEW m \in Nat, NEW n \in Nat,
         NEW a \in [1 .. m -> Values], NEW b \in [1 .. n -> Values],
         NEW c \in [1 .. m + n -> Values],
         \A i \in 1 .. m : c[i] = a[i],
         \A i \in 1 .. n : c[m + i] = b[i]
  PROVE  c = a \o b
<1>1. /\ a \in Seq(Values) /\ Len(a) = m
      /\ b \in Seq(Values) /\ Len(b) = n
      /\ c \in Seq(Values) /\ Len(c) = m + n
  BY SMT, RunIsSeq
<1>2. /\ a \o b \in Seq(Values)
      /\ Len(a \o b) = m + n
      /\ \A i \in 1 .. m + n : (a \o b)[i] = IF i <= m THEN a[i] ELSE b[i - m]
  BY <1>1, ConcatProperties
<1>3. ASSUME NEW i \in 1 .. m + n PROVE c[i] = (a \o b)[i]
  <2>1. CASE i <= m
    BY SMT, <2>1, <1>2
  <2>2. CASE i > m
    <3>1. i - m \in 1 .. n /\ m + (i - m) = i
      BY SMT, <2>2
    <3> QED
      BY SMT, <3>1, <2>2, <1>2
  <2> QED
    BY SMT, <2>1, <2>2
<1> QED
  BY <1>1, <1>2, <1>3, SeqEqual

(* What a run of bytes is split into when its first n are taken. *)
LEMMA SplitRun ==
  ASSUME NEW m \in Nat, NEW n \in 1 .. m,
         NEW a \in [1 .. m -> Values], NEW g \in [1 .. n -> Values],
         NEW r \in [1 .. m - n -> Values],
         \A i \in 1 .. n : g[i] = a[i],
         \A i \in 1 .. m - n : r[i] = a[n + i]
  PROVE  g = SubSeq(a, 1, n) /\ r = SubSeq(a, n + 1, m)
<1>1. /\ g \in Seq(Values) /\ Len(g) = n
      /\ r \in Seq(Values) /\ Len(r) = m - n
  <2>1. n \in Nat /\ m - n \in Nat
    BY SMT
  <2>2. g \in Seq(Values) /\ Len(g) = n
    BY ONLY Zenon, <2>1, g \in [1 .. n -> Values], RunIsSeq
  <2>3. r \in Seq(Values) /\ Len(r) = m - n
    BY ONLY Zenon, <2>1, r \in [1 .. m - n -> Values], RunIsSeq
  <2> QED
    BY <2>2, <2>3
<1>2. /\ SubSeq(a, 1, n) \in Seq(Values)
      /\ Len(SubSeq(a, 1, n)) = n
      /\ \A i \in 1 .. n : SubSeq(a, 1, n)[i] = a[i]
  <2>1. \A i \in 1 .. n : a[i] \in Values
    OBVIOUS
  <2> QED
    BY SMT, <2>1, SubSeqProperties
<1>3. /\ SubSeq(a, n + 1, m) \in Seq(Values)
      /\ Len(SubSeq(a, n + 1, m)) = m - n
      /\ \A i \in 1 .. m - n : SubSeq(a, n + 1, m)[i] = a[n + i]
  <2>1. \A i \in n + 1 .. m : a[i] \in Values
    BY SMT
  <2> QED
    BY SMT, <2>1, SubSeqProperties
<1>4. g = SubSeq(a, 1, n)
  BY <1>1, <1>2, SeqEqual
<1>5. r = SubSeq(a, n + 1, m)
  BY SMT, <1>1, <1>3, SeqEqual
<1> QED
  BY <1>4, <1>5
-----------------------------------------------------------------------------
(* The inductive invariant is the two invariants together: which threads may
   be blocked depends on the pointers, and nothing else is needed. *)
IInv == TypeOK /\ BlockedForReason

(* The number of bytes under way fits, and the cells they are in exist. *)
LEMMA UsedRange ==
  ASSUME TypeOK
  PROVE  /\ Used \in 0 .. Size - 1
         /\ \A i \in 1 .. Used : Cell(i) \in Cells
         /\ Contents \in [1 .. Used -> Values]
<1>1. Used \in 0 .. Size - 1
  BY SMT, CbufAssumption DEF TypeOK, Used, Distance, Cells
<1>2. \A i \in 1 .. Used : Cell(i) \in Cells
  BY SMT, <1>1, CbufAssumption DEF TypeOK, Cells, Cell
<1>3. Contents \in [1 .. Used -> Values]
  BY <1>2 DEF TypeOK, Contents
<1> QED
  BY <1>1, <1>2, <1>3

(* Any run of bytes that fits is a chunk. *)
LEMMA RunIsChunk ==
  ASSUME NEW n \in 0 .. Size, NEW s \in [1 .. n -> Values]
  PROVE  s \in Chunks
  BY DEF Chunks

(* The initial buffer is empty. *)
LEMMA InitIInv == Init => IInv
<1> SUFFICES ASSUME Init PROVE IInv
  OBVIOUS
<1>1. <<>> \in Chunks
  <2>1. <<>> \in [1 .. 0 -> Values]
    BY SMT
  <2> QED
    BY SMT, <2>1, CbufAssumption DEF Chunks
<1>2. /\ len \in [Threads -> 0 .. MaxLen]
      /\ read_ptr \in Cells /\ write_ptr \in Cells
  BY SMT, CbufAssumption DEF Init, Cells
<1>3. /\ got \in [Readers -> Chunks]
      /\ rp \in [Readers -> Cells \cup {None}]
      /\ avail \in [Readers -> Nat]
  BY <1>1 DEF Init
<1> QED
  BY <1>2, <1>3 DEF Init, IInv, TypeOK, BlockedForReason

(* What a transfer out of the buffer does to the pointers. *)
LEMMA ReadBounds ==
  ASSUME TypeOK, NEW t \in Readers, ReadPossible(t) > 0, len[t] > 0
  PROVE  /\ ReadPossible(t) \in 1 .. Used
         /\ ReadPossible(t) <= Size - read_ptr
         /\ ReadPossible(t) <= len[t]
         /\ ReadPossible(t) <= Size
<1>1. len[t] \in 0 .. MaxLen
  BY DEF TypeOK, Threads
<1> QED
  BY SMT, <1>1, CbufAssumption DEF TypeOK, Cells, ReadPossible, Least, Used, Distance

(* What a transfer into the buffer does to the pointers: a byte stays free. *)
LEMMA WriteBounds ==
  ASSUME TypeOK, NEW t \in Writers, WritePossible(t) > 0, len[t] > 0
  PROVE  /\ WritePossible(t) \in 1 .. Size - 1 - Used
         /\ WritePossible(t) <= Size - write_ptr
         /\ WritePossible(t) <= len[t]
<1>1. len[t] \in 0 .. MaxLen
  BY DEF TypeOK, Threads
<1> QED
  BY SMT, <1>1, CbufAssumption DEF TypeOK, Cells, WritePossible, Least, Used, Distance

(* Storing n bytes at w, up to the end of the buffer and leaving one byte free,
   makes the distance from r to w grow by n. *)
LEMMA DistanceGrows ==
  ASSUME NEW r \in 0 .. Size - 1, NEW w \in 0 .. Size - 1, NEW n \in Nat,
         n <= Size - w, n <= Size - 1 - Distance(r, w)
  PROVE  Distance(r, Wrap(w + n)) = Distance(r, w) + n
<1>1. Size \in Nat \ {0}
  BY CbufAssumption
<1>2. CASE w + n = Size
  BY SMT, <1>1, <1>2 DEF Wrap, Distance
<1>3. CASE w + n # Size /\ r > w
  BY SMT, <1>1, <1>3 DEF Wrap, Distance
<1>4. CASE w + n # Size /\ r <= w
  BY SMT, <1>1, <1>4 DEF Wrap, Distance
<1> QED
  BY SMT, <1>2, <1>3, <1>4

(* Taking n bytes from r, up to the end of the buffer, makes it shrink by n. *)
LEMMA DistanceShrinks ==
  ASSUME NEW r \in 0 .. Size - 1, NEW w \in 0 .. Size - 1, NEW n \in Nat,
         n <= Size - r, n <= Distance(r, w)
  PROVE  Distance(Wrap(r + n), w) = Distance(r, w) - n
<1>1. Size \in Nat \ {0}
  BY CbufAssumption
<1>2. CASE r + n = Size
  BY SMT, <1>1, <1>2 DEF Wrap, Distance
<1>3. CASE r + n # Size /\ r > w
  BY SMT, <1>1, <1>3 DEF Wrap, Distance
<1>4. CASE r + n # Size /\ r <= w
  BY SMT, <1>1, <1>4 DEF Wrap, Distance
<1> QED
  BY SMT, <1>2, <1>3, <1>4

(* A reader waits only on an empty buffer, a writer only on a full one. *)
LEMMA WaitBounds ==
  ASSUME TypeOK, NEW t \in Threads, WaitForEvent(t)
  PROVE  /\ t \in Readers => Used = 0
         /\ t \in Writers => Used = Size - 1
<1>1. len[t] \in 1 .. MaxLen
  BY SMT, CbufAssumption DEF TypeOK, WaitForEvent, InLoop
<1>2. ASSUME t \in Readers PROVE Used = 0
  <2>1. ReadPossible(t) = 0
    BY <1>2 DEF WaitForEvent
  <2> QED
    BY SMT, <1>1, <2>1, CbufAssumption
    DEF TypeOK, Cells, ReadPossible, Least, Used, Distance
<1>3. ASSUME t \in Writers PROVE Used = Size - 1
  <2>1. WritePossible(t) = 0
    BY <1>3, CbufAssumption DEF WaitForEvent
  <2> QED
    BY SMT, <1>1, <2>1, CbufAssumption
    DEF TypeOK, Cells, WritePossible, Least, Used, Distance
<1> QED
  BY <1>2, <1>3

(* One transfer out of the buffer is a get of the pipe. *)
LEMMA ReadStep ==
  ASSUME IInv, NEW t \in Readers, cbuf_read(t)
  PROVE  IInv' /\ Fifo!Get(t) /\ Used' = Used - ReadPossible(t)
<1> PICK n : n = ReadPossible(t)
  OBVIOUS
<1>1. /\ n \in 1 .. Used /\ n <= Size - read_ptr /\ n <= len[t] /\ n <= Size
  BY ReadBounds DEF IInv, cbuf_read, InLoop
<1>2. /\ got' = [got EXCEPT ![t] = [i \in 1 .. n |-> buffer[read_ptr + i - 1]]]
      /\ len' = [len EXCEPT ![t] = @ - n]
      /\ avail' = [avail EXCEPT ![t] = IF @ > n THEN @ - n ELSE 0]
      /\ read_ptr' = Wrap(read_ptr + n)
      /\ waiting' = {}
      /\ UNCHANGED <<buffer, write_ptr, rp>>
  BY DEF cbuf_read, Transferred
<1>3. Used \in 0 .. Size - 1 /\ Contents \in [1 .. Used -> Values]
  BY UsedRange DEF IInv
<1>4. \A i \in 1 .. n : read_ptr + i - 1 \in Cells /\ Cell(i) = read_ptr + i - 1
  BY SMT, <1>1, CbufAssumption DEF IInv, TypeOK, Cells, Cell
<1>5. [i \in 1 .. n |-> buffer[read_ptr + i - 1]] \in [1 .. n -> Values]
  BY <1>4 DEF IInv, TypeOK
<1>6. TypeOK'
  <2>1. read_ptr' \in Cells
    BY SMT, <1>1, <1>2, CbufAssumption DEF IInv, TypeOK, Cells, Wrap
  <2>2. got' \in [Readers -> Chunks]
    <3>1. [i \in 1 .. n |-> buffer[read_ptr + i - 1]] \in Chunks
      <4>1. n \in 0 .. Size
        BY SMT, <1>1, <1>3, CbufAssumption
      <4> QED
        BY <4>1, <1>5, RunIsChunk
    <3> QED
      BY <3>1, <1>2 DEF IInv, TypeOK
  <2>3. len' \in [Threads -> 0 .. MaxLen]
    <3>1. len[t] - n \in 0 .. MaxLen
      BY SMT, <1>1, <1>3, CbufAssumption DEF IInv, TypeOK, Threads
    <3> QED
      BY <3>1, <1>2 DEF IInv, TypeOK, Threads
  <2>4. avail' \in [Readers -> Nat]
    <3>1. (IF avail[t] > n THEN avail[t] - n ELSE 0) \in Nat
      BY SMT, <1>1, <1>3 DEF IInv, TypeOK
    <3> QED
      BY <3>1, <1>2 DEF IInv, TypeOK
  <2> QED
    BY <2>1, <2>2, <2>3, <2>4, <1>2 DEF IInv, TypeOK
<1>7. BlockedForReason'
  BY <1>2 DEF BlockedForReason
<1>8. Used' = Used - n
  <2>1. Used' = Distance(Wrap(read_ptr + n), write_ptr)
    BY <1>2 DEF Used, Distance
  <2>2. read_ptr \in 0 .. Size - 1 /\ write_ptr \in 0 .. Size - 1 /\ n \in Nat
    BY SMT, <1>1 DEF IInv, TypeOK, Cells
  <2>3. n <= Distance(read_ptr, write_ptr) /\ n <= Size - read_ptr
    BY SMT, <1>1, <1>3 DEF Used
  <2> QED
    BY <2>1, <2>2, <2>3, DistanceShrinks DEF Used
<1>9. ASSUME NEW i \in 1 .. Used - n
      PROVE  n + i \in 1 .. Used /\ Cell(i)' = Cell(n + i)
  <2>1. /\ read_ptr \in 0 .. Size - 1 /\ Size \in Nat /\ n \in Nat /\ i \in Nat
        /\ n + i <= Used /\ Used \in Nat /\ Used < Size
    BY SMT, <1>1, <1>3, CbufAssumption DEF IInv, TypeOK, Cells
  <2>2. Cell(i)' = IF Wrap(read_ptr + n) + i - 1 < Size
                   THEN Wrap(read_ptr + n) + i - 1
                   ELSE Wrap(read_ptr + n) + i - 1 - Size
    BY <1>2 DEF Cell
  <2> HIDE DEF Used
  <2> QED
    BY SMT, <2>1, <2>2, <1>1 DEF Wrap, Cell
<1>10. Contents' = [i \in 1 .. Used - n |-> buffer[Cell(n + i)]]
  BY <1>2, <1>8, <1>9 DEF Contents
<1>11. Contents' \in [1 .. Used - n -> Values]
  BY <1>9, <1>10, UsedRange DEF IInv, TypeOK
<1>12. \A i \in 1 .. Used - n : Contents'[i] = Contents[n + i]
  BY <1>9, <1>10 DEF Contents
<1>13. \A i \in 1 .. n : buffer[read_ptr + i - 1] = Contents[i]
  BY SMT, <1>1, <1>3, <1>4 DEF Contents
<1>14. /\ [i \in 1 .. n |-> buffer[read_ptr + i - 1]] = SubSeq(Contents, 1, n)
       /\ Contents' = SubSeq(Contents, n + 1, Used)
  <2> PICK m, a, g, r :
        /\ m = Used /\ a = Contents
        /\ g = [i \in 1 .. n |-> buffer[read_ptr + i - 1]]
        /\ r = Contents'
    OBVIOUS
  <2>1. m \in Nat /\ n \in 1 .. m /\ a \in [1 .. m -> Values]
    BY SMT, <1>1, <1>3
  <2>2. g \in [1 .. n -> Values] /\ r \in [1 .. m - n -> Values]
    BY <1>5, <1>11
  <2>3. \A i \in 1 .. n : g[i] = a[i]
    BY <1>13
  <2>4. \A i \in 1 .. m - n : r[i] = a[n + i]
    BY <1>12
  <2>5. g = SubSeq(a, 1, n) /\ r = SubSeq(a, n + 1, m)
    BY ONLY Zenon, <2>1, <2>2, <2>3, <2>4, SplitRun
  <2> QED
    BY <2>5
<1>15. Len(Contents) = Used
  BY SMT, <1>3, RunIsSeq
<1>16. Fifo!Get(t)
  BY <1>1, <1>2, <1>14, <1>15 DEF Fifo!Get
<1> QED
  BY <1>6, <1>7, <1>8, <1>16 DEF IInv

(* One transfer into the buffer is a put of the pipe. *)
LEMMA WriteStep ==
  ASSUME IInv, NEW t \in Writers, cbuf_write(t)
  PROVE  IInv' /\ Fifo!Put /\ Used' = Used + WritePossible(t)
<1> PICK n : n = WritePossible(t)
  BY SMT
<1>1. n \in 1 .. Size - 1 - Used /\ n <= Size - write_ptr /\ n <= len[t]
  BY WriteBounds DEF IInv, cbuf_write, InLoop
<1> PICK data \in [1 .. n -> Values] : buffer' = Stored(data, n)
  BY DEF cbuf_write
<1>2. /\ len' = [len EXCEPT ![t] = @ - n]
      /\ write_ptr' = Wrap(write_ptr + n)
      /\ waiting' = {}
      /\ UNCHANGED <<read_ptr, got, rp, avail>>
  BY DEF cbuf_write, Transferred
<1>3. Used \in 0 .. Size - 1 /\ Contents \in [1 .. Used -> Values]
  BY UsedRange DEF IInv
<1>4. \A i \in 1 .. Used : Cell(i) \in Cells
  BY UsedRange DEF IInv
<1>5. buffer' \in [Cells -> Values]
  <2>1. ASSUME NEW c \in Cells, c >= write_ptr, c < write_ptr + n
        PROVE  data[c - write_ptr + 1] \in Values
    <3>1. c - write_ptr + 1 \in 1 .. n
      BY SMT, <2>1, <1>1, <1>3, CbufAssumption DEF IInv, TypeOK, Cells
    <3> QED
      BY <3>1
  <2> QED
    BY <2>1 DEF IInv, TypeOK, Stored
<1>6. TypeOK'
  <2>1. write_ptr' \in Cells
    BY SMT, <1>1, <1>2, <1>3, CbufAssumption DEF IInv, TypeOK, Cells, Wrap
  <2>2. len' \in [Threads -> 0 .. MaxLen]
    <3>1. len[t] - n \in 0 .. MaxLen
      BY SMT, <1>1, <1>3, CbufAssumption DEF IInv, TypeOK, Threads
    <3> QED
      BY <3>1, <1>2 DEF IInv, TypeOK, Threads
  <2> QED
    BY <2>1, <2>2, <1>2, <1>5 DEF IInv, TypeOK
<1>7. BlockedForReason'
  BY <1>2 DEF BlockedForReason
<1>8. Used' = Used + n
  <2>1. Used' = Distance(read_ptr, Wrap(write_ptr + n))
    BY <1>2 DEF Used, Distance
  <2>2. read_ptr \in 0 .. Size - 1 /\ write_ptr \in 0 .. Size - 1 /\ n \in Nat
    BY SMT, <1>1 DEF IInv, TypeOK, Cells
  <2>3. n <= Size - 1 - Distance(read_ptr, write_ptr) /\ n <= Size - write_ptr
    BY SMT, <1>1, <1>3, CbufAssumption DEF Used
  <2> QED
    BY <2>1, <2>2, <2>3, DistanceGrows DEF Used
<1>9. \A i \in 1 .. Used + n : Cell(i)' = Cell(i)
  BY <1>2 DEF Cell
<1>10. Contents' = [i \in 1 .. Used + n |-> buffer'[Cell(i)]]
  BY <1>8, <1>9 DEF Contents
<1>11. ASSUME NEW i \in 1 .. Used PROVE buffer'[Cell(i)] = Contents[i]
  <2>1. Cell(i) < write_ptr \/ Cell(i) >= write_ptr + n
    BY SMT, <1>1, <1>3, CbufAssumption
    DEF IInv, TypeOK, Cells, Cell, Used, Distance
  <2>2. buffer'[Cell(i)] = buffer[Cell(i)]
    <3>1. Cell(i) \in Int /\ Cell(i) \in Cells /\ write_ptr + n \in Int /\ write_ptr \in Int
      BY SMT, <1>1, <1>3, <1>4, CbufAssumption DEF IInv, TypeOK, Cells
    <3>2. ~(Cell(i) >= write_ptr /\ Cell(i) < write_ptr + n)
      BY SMT, <3>1, <2>1
    <3> QED
      BY <3>1, <3>2 DEF Stored
  <2> QED
    BY <2>2 DEF Contents
<1>12. ASSUME NEW i \in 1 .. n
       PROVE  Used + i \in 1 .. Used + n /\ buffer'[Cell(Used + i)] = data[i]
  <2>1. Used + i \in 1 .. Used + n
    BY SMT, <1>1, <1>3
  <2>2. Cell(Used + i) = write_ptr + i - 1
    BY SMT, <1>1, <1>3, CbufAssumption
    DEF IInv, TypeOK, Cells, Cell, Used, Distance
  <2>3. write_ptr + i - 1 \in Cells
    BY SMT, <1>1, <1>3, CbufAssumption DEF IInv, TypeOK, Cells
  <2>4. buffer'[write_ptr + i - 1] = data[i]
    BY SMT, <1>1, <1>3, <2>3, CbufAssumption DEF IInv, TypeOK, Cells, Stored
  <2> QED
    BY <2>1, <2>2, <2>4
<1>13. Contents' = Contents \o data
  <2> PICK m, a, c : m = Used /\ a = Contents /\ c = Contents'
    OBVIOUS
  <2>1. m \in Nat /\ n \in Nat /\ a \in [1 .. m -> Values]
    BY SMT, <1>1, <1>3
  <2>2. \A i \in 1 .. m : c[i] = a[i]
    BY SMT, <2>1, <1>10, <1>11
  <2>3. \A i \in 1 .. n : c[m + i] = data[i]
    BY <2>1, <1>10, <1>12
  <2>4. c \in [1 .. m + n -> Values]
    <3>1. ASSUME NEW i \in 1 .. m + n PROVE buffer'[Cell(i)] \in Values
      <4>1. CASE i <= m
        BY SMT, <4>1, <1>3, <1>11, <2>1
      <4>2. CASE i > m
        <5> PICK j \in 1 .. n : i = m + j
          <6>1. i - m \in 1 .. n /\ i = m + (i - m)
            BY SMT, <4>2, <2>1
          <6> QED
            BY <6>1
        <5> QED
          BY <1>12
      <4> QED
        BY SMT, <4>1, <4>2, <2>1
    <3> QED
      BY <3>1, <1>10
  <2>5. c = a \o data
    <3>1. data \in [1 .. n -> Values]
      OBVIOUS
    <3> QED
      BY ONLY Zenon, <2>1, <2>2, <2>3, <2>4, <3>1, AppendRun
  <2> QED
    BY <2>5
<1>14. Fifo!Put
  <2>1. Len(Contents) = Used /\ Len(data) = n
    BY SMT, <1>1, <1>3, RunIsSeq
  <2>2. data \in Fifo!Runs
    <3>1. n \in 1 .. Size - 1
      BY SMT, <1>1, <1>3, CbufAssumption
    <3> QED
      BY <3>1 DEF Fifo!Runs
  <2>3. Len(Contents) + Len(data) <= Size - 1
    BY SMT, <2>1, <1>1, <1>3, CbufAssumption
  <2> QED
    BY <2>2, <2>3, <1>2, <1>13 DEF Fifo!Put
<1> QED
  BY <1>6, <1>7, <1>8, <1>14 DEF IInv

(* Steps that move no byte leave the pipe alone. *)
LEMMA QuietStep ==
  ASSUME IInv, UNCHANGED <<cbufVars, got>>
  PROVE  /\ Used' = Used
         /\ UNCHANGED <<Contents, got>>
  BY DEF cbufVars, Used, Distance, Contents, Cell

(* The start of a call, the wait for the event and the two reads of
   cbuf_available keep the invariant and stutter in the pipe. *)
LEMMA OtherStep ==
  ASSUME IInv,
         \/ \E t \in Threads, n \in 1 .. MaxLen : Call(t, n)
         \/ \E t \in Threads : WaitForEvent(t)
         \/ \E t \in Pollers : AvailableReadPtr(t) \/ cbuf_available(t)
         \/ UNCHANGED vars
  PROVE  IInv' /\ UNCHANGED <<Contents, got>>
<1>1. ASSUME NEW t \in Threads, NEW n \in 1 .. MaxLen, Call(t, n)
      PROVE  IInv' /\ UNCHANGED <<Contents, got>>
  <2>1. Used' = Used /\ UNCHANGED <<Contents, got>>
    BY <1>1, QuietStep DEF Call
  <2>2. TypeOK'
    BY SMT, <1>1, CbufAssumption DEF Call, IInv, TypeOK, cbufVars
  <2>3. BlockedForReason'
    <3> SUFFICES ASSUME NEW u \in waiting
                 PROVE  /\ len'[u] > 0
                        /\ u \in Readers => Used' = 0
                        /\ u \in Writers => Used' = Size - 1
      BY <1>1 DEF BlockedForReason, Call
    <3>1. u # t /\ u \in Threads
      BY SMT, <1>1 DEF Call, IInv, BlockedForReason, TypeOK
    <3> QED
      BY <1>1, <2>1, <3>1 DEF Call, IInv, BlockedForReason, TypeOK
  <2> QED
    BY <2>1, <2>2, <2>3 DEF IInv
<1>2. ASSUME NEW t \in Threads, WaitForEvent(t)
      PROVE  IInv' /\ UNCHANGED <<Contents, got>>
  <2>1. Used' = Used /\ UNCHANGED <<Contents, got>>
    BY <1>2, QuietStep DEF WaitForEvent
  <2>2. TypeOK'
    BY <1>2 DEF WaitForEvent, IInv, TypeOK, cbufVars
  <2>3. /\ t \in Readers => Used = 0
        /\ t \in Writers => Used = Size - 1
        /\ len[t] > 0
    BY <1>2, WaitBounds DEF IInv, WaitForEvent, InLoop
  <2>4. BlockedForReason'
    BY <1>2, <2>1, <2>3 DEF WaitForEvent, IInv, BlockedForReason
  <2> QED
    BY <2>1, <2>2, <2>4 DEF IInv
<1>3. ASSUME NEW t \in Pollers, AvailableReadPtr(t) \/ cbuf_available(t)
      PROVE  IInv' /\ UNCHANGED <<Contents, got>>
  <2>1. Used' = Used /\ UNCHANGED <<Contents, got>>
    BY <1>3, QuietStep DEF AvailableReadPtr, cbuf_available
  <2>2. TypeOK'
    <3>1. CASE AvailableReadPtr(t)
      BY <3>1, CbufAssumption DEF AvailableReadPtr, IInv, TypeOK, cbufVars
    <3>2. CASE cbuf_available(t)
      <4>1. rp[t] \in Cells /\ write_ptr \in Cells
        BY <3>2, CbufAssumption DEF cbuf_available, IInv, TypeOK
      <4>2. Distance(rp[t], write_ptr) \in Nat
        BY SMT, <4>1, CbufAssumption DEF Distance, Cells
      <4> QED
        BY <3>2, <4>2, CbufAssumption DEF cbuf_available, IInv, TypeOK, cbufVars
    <3> QED
      BY <1>3, <3>1, <3>2
  <2>3. BlockedForReason'
    BY <1>3, <2>1 DEF AvailableReadPtr, cbuf_available, IInv, BlockedForReason
  <2> QED
    BY <2>1, <2>2, <2>3 DEF IInv
<1>4. ASSUME UNCHANGED vars
      PROVE  IInv' /\ UNCHANGED <<Contents, got>>
  <2>1. Used' = Used /\ UNCHANGED <<Contents, got>>
    BY <1>4, QuietStep DEF vars
  <2>2. TypeOK' /\ BlockedForReason'
    BY <1>4, <2>1 DEF vars, cbufVars, IInv, TypeOK, BlockedForReason
  <2> QED
    BY <2>1, <2>2 DEF IInv
<1> QED
  BY <1>1, <1>2, <1>3, <1>4

(* Every step keeps the invariant and is a step of the pipe or a stutter. *)
LEMMA NextIInv ==
  ASSUME IInv, [Next]_vars
  PROVE  IInv' /\ [Fifo!Next]_<<Contents, got>>
<1>1. ASSUME NEW t \in Readers, cbuf_read(t)
      PROVE  IInv' /\ [Fifo!Next]_<<Contents, got>>
  BY <1>1, ReadStep DEF Fifo!Next
<1>2. ASSUME NEW t \in Writers, cbuf_write(t)
      PROVE  IInv' /\ [Fifo!Next]_<<Contents, got>>
  BY <1>2, WriteStep DEF Fifo!Next
<1> QED
  BY <1>1, <1>2, OtherStep DEF Next, Step

(* For every size and any number of threads, the pointers of cbuf stay in
   the buffer, and a thread blocked in cbuf_read or cbuf_write is blocked on
   an empty, respectively full, buffer: no wakeup is missed. *)
THEOREM CbufSafe == Spec => [](TypeOK /\ BlockedForReason)
<1>1. Init => IInv
  BY InitIInv
<1>2. IInv /\ [Next]_vars => IInv'
  BY NextIInv
<1>3. IInv => TypeOK /\ BlockedForReason
  BY DEF IInv
<1> QED
  BY <1>1, <1>2, <1>3, PTL DEF Spec

(* The ring buffer of kernel/cbuf.c implements the bounded pipe: readers are
   given the bytes written, in order, each once, at most Size - 1 under way. *)
THEOREM CbufIsFifo == Spec => ImplementsFifo
<1>1. Init => IInv
  BY SMT, InitIInv
<1>2. IInv /\ [Next]_vars => IInv' /\ [Fifo!Next]_<<Contents, got>>
  BY NextIInv
<1>3. Init => Fifo!Init
  <2> SUFFICES ASSUME Init PROVE Fifo!Init
    BY SMT
  <2>1. Used = 0
    BY SMT DEF Init, Used, Distance
  <2>2. Contents = <<>>
    BY SMT, <2>1 DEF Contents
  <2> QED
    BY <2>2 DEF Init, Fifo!Init
<1> QED
  BY <1>1, <1>2, <1>3, PTL DEF Spec, ImplementsFifo, Fifo!Spec, Fifo!fifoVars
-----------------------------------------------------------------------------
(* With one reader, what cbuf_available promised is still there, and nobody
   moves read_ptr between its two reads: its caller is not in cbuf_read. *)
OneReader == \A r, q \in Readers : r = q

Promised ==
  \A r \in Readers :
    /\ rp[r] # None => len[r] = 0 /\ rp[r] = read_ptr
    /\ avail[r] <= Used

(* Writers only add to what can be read, and a read takes off the promise what
   it takes out of the buffer. *)
LEMMA NextPromised ==
  ASSUME OneReader, IInv, Promised, [Next]_vars
  PROVE  Promised'
<1>1. ASSUME NEW t \in Readers, cbuf_read(t)
      PROVE  Promised'
  <2>1. Used' = Used - ReadPossible(t)
    BY <1>1, ReadStep
  <2>2. ReadPossible(t) \in 1 .. Used /\ Used \in 0 .. Size - 1
    BY <1>1, ReadBounds, UsedRange DEF IInv, cbuf_read, InLoop
  <2>3. avail[t] \in Nat /\ avail[t] <= Used /\ rp[t] = None
    <3>1. len[t] # 0
      BY SMT, <1>1 DEF cbuf_read, InLoop
    <3> QED
      BY <3>1 DEF Promised, IInv, TypeOK
  <2>4. /\ avail'[t] = IF avail[t] > ReadPossible(t) THEN avail[t] - ReadPossible(t) ELSE 0
        /\ rp' = rp
    BY <1>1 DEF cbuf_read, IInv, TypeOK
  <2>5. avail'[t] <= Used'
    BY SMT, <2>1, <2>2, <2>3, <2>4, CbufAssumption
  <2>6. \A r \in Readers : r = t
    BY DEF OneReader
  <2> QED
    BY <2>3, <2>4, <2>5, <2>6 DEF Promised
<1>2. ASSUME NEW t \in Writers, cbuf_write(t)
      PROVE  Promised'
  <2>1. Used' = Used + WritePossible(t)
    BY <1>2, WriteStep
  <2>2. WritePossible(t) \in 1 .. Size - 1 - Used /\ Used \in 0 .. Size - 1
    BY <1>2, WriteBounds, UsedRange DEF IInv, cbuf_write, InLoop
  <2>3. Used <= Used' /\ Used \in Nat /\ Used' \in Nat
    BY SMT, <2>1, <2>2, CbufAssumption
  <2>4. avail' = avail /\ rp' = rp /\ read_ptr' = read_ptr
    BY <1>2 DEF cbuf_write
  <2>5. \A r \in Readers : len'[r] = len[r]
    BY <1>2, CbufAssumption DEF cbuf_write, Transferred, IInv, TypeOK, Threads
  <2>6. \A r \in Readers : avail[r] \in Nat /\ avail[r] <= Used
    BY DEF Promised, IInv, TypeOK
  <2>7. \A r \in Readers : avail[r] <= Used'
    BY SMT, <2>3, <2>6
  <2> QED
    BY <2>4, <2>5, <2>7 DEF Promised
<1>3. ASSUME NEW t \in Threads, NEW n \in 1 .. MaxLen, Call(t, n)
      PROVE  Promised'
  <2>1. Used' = Used
    BY <1>3, QuietStep DEF Call
  <2>2. /\ t \in Readers => rp[t] = None
        /\ UNCHANGED <<read_ptr, rp, avail>>
        /\ len' = [len EXCEPT ![t] = n]
    BY <1>3 DEF Call, cbufVars
  <2> QED
    BY <2>1, <2>2 DEF Promised, IInv, TypeOK, Threads
<1>4. ASSUME NEW t \in Threads, WaitForEvent(t)
      PROVE  Promised'
  <2>1. Used' = Used
    BY <1>4, QuietStep DEF WaitForEvent
  <2> QED
    BY <1>4, <2>1 DEF WaitForEvent, Promised, cbufVars
<1>5. ASSUME NEW t \in Pollers, AvailableReadPtr(t)
      PROVE  Promised'
  <2>1. Used' = Used
    BY <1>5, QuietStep DEF AvailableReadPtr
  <2> QED
    BY <1>5, <2>1, CbufAssumption DEF AvailableReadPtr, Promised, cbufVars, IInv, TypeOK
<1>6. ASSUME NEW t \in Pollers, cbuf_available(t)
      PROVE  Promised'
  <2>1. Used' = Used
    BY <1>6, QuietStep DEF cbuf_available
  <2>2. t \in Readers /\ Distance(rp[t], write_ptr) = Used
    BY <1>6, CbufAssumption DEF cbuf_available, Promised, Used
  <2>3. Used \in Nat
    BY SMT, UsedRange DEF IInv
  <2> QED
    BY SMT, <1>6, <2>1, <2>2, <2>3 DEF cbuf_available, Promised, cbufVars, IInv, TypeOK
<1>7. ASSUME UNCHANGED vars
      PROVE  Promised'
  <2>1. Used' = Used
    BY <1>7, QuietStep DEF vars
  <2> QED
    BY <1>7, <2>1 DEF vars, cbufVars, Promised
<1> QED
  BY <1>1, <1>2, <1>3, <1>4, <1>5, <1>6, <1>7 DEF Next, Step

(* What cbuf_available, which takes no lock, tells the only reader of a buffer
   it can read without blocking, whatever the writers do, for every size. *)
THEOREM CbufAvailable == Spec => [](OneReader => AvailableIsReadable)
<1>1. Init => IInv /\ (OneReader => Promised)
  <2> SUFFICES ASSUME Init PROVE Promised
    BY InitIInv
  <2>1. Used = 0
    BY SMT DEF Init, Used, Distance
  <2>2. \A r \in Readers : rp[r] = None /\ avail[r] = 0
    BY DEF Init
  <2>3. 0 <= Used
    BY SMT, <2>1
  <2>4. \A r \in Readers : avail[r] <= Used
    BY <2>2, <2>3
  <2> QED
    BY <2>2, <2>4 DEF Promised
<1>2. IInv /\ (OneReader => Promised) /\ [Next]_vars => (IInv /\ (OneReader => Promised))'
  <2> SUFFICES ASSUME IInv, OneReader => Promised, [Next]_vars
               PROVE  IInv' /\ (OneReader => Promised')
    BY DEF OneReader
  <2> QED
    BY NextIInv, NextPromised
<1>3. IInv /\ (OneReader => Promised) => (OneReader => AvailableIsReadable)
  BY DEF Promised, AvailableIsReadable
<1> QED
  BY <1>1, <1>2, <1>3, PTL DEF Spec


(***************************************************************************)
(* Places in a ring of N cells, where a place is followed by the next one  *)
(* and the last one by the first.                                          *)
(***************************************************************************)
Following(N, p) == IF p + 1 = N THEN 0 ELSE p + 1

(* How far w is ahead of s, and the place i after s. *)
Ahead(N, s, w) == IF s > w THEN (N - s) + w ELSE w - s
Place(N, s, i) == IF s + i < N THEN s + i ELSE s + i - N

(* A write makes every place's distance to the end grow by one, unless it
   laps the place; a read makes it shrink by one. *)
LEMMA RingSteps ==
  ASSUME NEW N \in Nat \ {0}, NEW s \in 0 .. N - 1, NEW w \in 0 .. N - 1
  PROVE  /\ Following(N, w) \in 0 .. N - 1
         /\ Ahead(N, s, w) \in 0 .. N - 1
         /\ Following(N, w) # s => Ahead(N, s, Following(N, w)) = Ahead(N, s, w) + 1
         /\ Following(N, w) = s => Ahead(N, s, w) = N - 1
         /\ Ahead(N, s, w) # 0 => Ahead(N, Following(N, s), w) = Ahead(N, s, w) - 1
  BY SMT DEF Following, Ahead

(* The cells from a place up to the end are not the one at the end. *)
LEMMA RingPlaces ==
  ASSUME NEW N \in Nat \ {0}, NEW s \in 0 .. N - 1, NEW w \in 0 .. N - 1
  PROVE  /\ Place(N, s, 0) = s
         /\ Place(N, s, Ahead(N, s, w)) = w
         /\ \A i \in 0 .. N - 1 : Place(N, s, i) \in 0 .. N - 1
         /\ \A i \in 0 .. Ahead(N, s, w) - 1 : Place(N, s, i) # w
         /\ \A i \in 0 .. N - 2 : Place(N, Following(N, s), i) = Place(N, s, i + 1)
  BY SMT DEF Following, Ahead, Place

(***************************************************************************)
(* The queue of interrupts.                                                *)
(***************************************************************************)
IrqPlaces == 0 .. IRQQ_SIZE - 1

WorkerPCs == {"acquire", "check", "read", "serve", "wait", "test", "block"}

IrqTypeOK ==
  /\ irqq.write_ptr \in IrqPlaces
  /\ irqq = [write_ptr |-> irqq.write_ptr, buffer |-> irqq.buffer]
  /\ irqq.buffer \in [IrqPlaces -> IrqLines \cup {0}]
  /\ irq_last \in IrqPlaces
  /\ workers \in [1 .. IrqWorkers -> [pc : WorkerPCs, blocked : BOOLEAN,
                                      irq : IrqLines \cup {0}, start : IrqPlaces]]
  /\ pending \in Seq([line : IrqLines, window : BOOLEAN])
  /\ overrun \in BOOLEAN

(* The ring holds the lines that were not read, from irq_last on. *)
RingHoldsPending ==
  ~overrun =>
    /\ irqq_available(irq_last) = Len(pending)
    /\ \A i \in 1 .. Len(pending) :
         pending[i].line = irqq.buffer[Place(IRQQ_SIZE, irq_last, i - 1)]

(* A worker that looks at the ring has the lock, and what it saw there is
   still there. *)
LockHeld ==
  \A w \in 1 .. IrqWorkers : workers[w].pc \in {"check", "read"} =>
    /\ irq_lock = w
    /\ workers[w].pc = "read" /\ ~overrun => pending # <<>>

(* The place worker 1 waits at is not ahead of irq_last; once it decided to
   block, only lines that came since are unread. *)
FirstWaits ==
  ~overrun =>
    /\ workers[1].pc \in {"test", "block"} => irqq_available(workers[1].start) >= Len(pending)
    /\ \/ workers[1].pc = "block"
       \/ workers[1].pc = "test" /\ workers[1].blocked
       => \A i \in 1 .. Len(pending) : pending[i].window
    /\ workers[1].blocked => workers[1].pc = "test"

IrqIInv == IrqTypeOK /\ ~misread /\ RingHoldsPending /\ LockHeld /\ FirstWaits

(* A worker's record is of these fields. *)
IrqWorker == [pc : WorkerPCs, blocked : BOOLEAN, irq : IrqLines \cup {0}, start : IrqPlaces]

LEMMA IrqInitIInv == IrqInit => IrqIInv
<1> SUFFICES ASSUME IrqInit PROVE IrqIInv
  OBVIOUS
<1>1. 0 \in IrqPlaces /\ 1 \in 1 .. IrqWorkers
  BY SMT, IrqAssumption DEF IrqPlaces
<1>2. IrqTypeOK
  <2>1. pending \in Seq([line : IrqLines, window : BOOLEAN])
    BY SMT DEF IrqInit
  <2> QED
    BY <1>1, <2>1 DEF IrqInit, IrqTypeOK, IrqPlaces, WorkerPCs
<1>3. RingHoldsPending
  <2>1. Len(pending) = 0 /\ irqq_available(irq_last) = 0
    BY SMT DEF IrqInit, irqq_available
  <2>2. \A i \in 1 .. 0 : FALSE
    BY SMT
  <2> QED
    BY <2>1, <2>2 DEF RingHoldsPending
<1>4. \A w \in 1 .. IrqWorkers : workers[w].pc = "acquire" /\ ~workers[w].blocked
  BY DEF IrqInit
<1> QED
  BY <1>1, <1>2, <1>3, <1>4 DEF IrqIInv, IrqInit, LockHeld, FirstWaits

(* What an interrupt changes. *)
LEMMA EnqueueKeeps ==
  ASSUME IrqIInv, NEW l \in IrqLines, irq_enqueue(l)
  PROVE  IrqIInv'
<1> DEFINE N == IRQQ_SIZE
           w == irqq.write_ptr
           new == [line |-> l, window |-> At(1, "block")]
<1>1. /\ N \in Nat \ {0} /\ 1 \in 1 .. IrqWorkers
      /\ w \in 0 .. N - 1 /\ irq_last \in 0 .. N - 1
      /\ irqq'.write_ptr = Following(N, w)
      /\ irqq'.buffer = [irqq.buffer EXCEPT ![w] = l]
      /\ irqq' = [write_ptr |-> irqq'.write_ptr, buffer |-> irqq'.buffer]
  <2>1. 1 \in 1 .. IrqWorkers
    BY SMT, IrqAssumption
  <2> QED
    BY <2>1, IrqAssumption DEF IrqIInv, IrqTypeOK, IrqPlaces, irq_enqueue, irqq_write, NextSlot, Following
<1>2. /\ workers' \in [1 .. IrqWorkers -> IrqWorker]
      /\ ~workers'[1].blocked
      /\ \A v \in 1 .. IrqWorkers : workers'[v].pc = workers[v].pc /\ workers'[v].start = workers[v].start
  <2>1. workers \in [1 .. IrqWorkers -> IrqWorker] /\ workers' = [workers EXCEPT ![1].blocked = FALSE]
    BY DEF IrqIInv, IrqTypeOK, irq_enqueue, irqq_write, IrqWorker
  <2>2. /\ workers'[1] = [workers[1] EXCEPT !.blocked = FALSE]
        /\ \A v \in 1 .. IrqWorkers \ {1} : workers'[v] = workers[v]
        /\ DOMAIN workers' = 1 .. IrqWorkers
        /\ workers' = [v \in 1 .. IrqWorkers |-> workers'[v]]
    BY <1>1, <2>1
  <2>3. workers[1] \in IrqWorker
    BY <1>1, <2>1
  <2>4. /\ workers'[1] \in IrqWorker /\ ~workers'[1].blocked
        /\ workers'[1].pc = workers[1].pc /\ workers'[1].start = workers[1].start
    BY <2>2, <2>3 DEF IrqWorker
  <2> QED
    BY <2>1, <2>2, <2>4
<1>3. new \in [line : IrqLines, window : BOOLEAN]
  <2>1. At(1, "block") \in BOOLEAN
    BY DEF At
  <2> QED
    BY <2>1
<1>4. /\ pending' \in Seq([line : IrqLines, window : BOOLEAN])
      /\ overrun' \in BOOLEAN
      /\ ~overrun' => /\ ~overrun /\ ~Full
                      /\ Len(pending') = Len(pending) + 1
                      /\ Len(pending) \in Nat
                      /\ pending'[Len(pending) + 1] = new
                      /\ \A i \in 1 .. Len(pending) : pending'[i] = pending[i]
  <2> HIDE DEF new
  <2>1. pending \in Seq([line : IrqLines, window : BOOLEAN])
    BY DEF IrqIInv, IrqTypeOK
  <2>2. /\ overrun' = (overrun \/ Full)
        /\ pending' = IF overrun \/ Full THEN <<>> ELSE Append(pending, new)
    BY DEF irq_enqueue, new
  <2>3. CASE overrun \/ Full
    <3>1. pending' = <<>> /\ overrun'
      BY <2>2, <2>3
    <3>2. overrun' \in BOOLEAN
      BY <2>2
    <3> QED
      BY SMT, <3>1, <3>2
  <2>4. CASE ~(overrun \/ Full)
    <3>1. pending' = Append(pending, new) /\ ~overrun'
      BY <2>2, <2>4
    <3>2. overrun' \in BOOLEAN
      BY <2>2
    <3>3. /\ pending' \in Seq([line : IrqLines, window : BOOLEAN])
          /\ Len(pending') = Len(pending) + 1
          /\ Len(pending) \in Nat
          /\ pending'[Len(pending) + 1] = new
          /\ \A i \in 1 .. Len(pending) : pending'[i] = pending[i]
      BY SMT, <1>3, <2>1, <3>1
    <3> QED
      BY <2>4, <3>1, <3>2, <3>3
  <2> QED
    BY <2>3, <2>4
<1>5. irq_last' = irq_last /\ irq_lock' = irq_lock /\ misread' = misread
  BY DEF irq_enqueue
<1>6. IrqTypeOK'
  <2>1. Following(N, w) \in 0 .. N - 1
    BY <1>1, RingSteps
  <2>2. irqq'.buffer \in [IrqPlaces -> IrqLines \cup {0}]
    BY <1>1 DEF IrqTypeOK, IrqIInv, IrqPlaces
  <2> QED
    BY <1>1, <1>2, <1>4, <1>5, <2>1, <2>2 DEF IrqTypeOK, IrqIInv, IrqPlaces, IrqWorker
<1>7. ASSUME ~overrun'
      PROVE  /\ irqq_available(irq_last)' = Len(pending')
             /\ \A i \in 1 .. Len(pending') : pending'[i].line = irqq'.buffer[Place(N, irq_last', i - 1)]
  <2>1. /\ Len(pending) + 1 # N /\ Len(pending) \in Nat
        /\ Ahead(N, irq_last, w) = Len(pending)
        /\ \A i \in 1 .. Len(pending) : pending[i].line = irqq.buffer[Place(N, irq_last, i - 1)]
    BY <1>4, <1>7 DEF Full, IrqIInv, RingHoldsPending, irqq_available, Ahead
  <2>2. /\ Ahead(N, irq_last, Following(N, w)) = Len(pending) + 1
        /\ Len(pending) \in 0 .. N - 1
    <3>1. /\ Following(N, w) = irq_last => Ahead(N, irq_last, w) = N - 1
          /\ Following(N, w) # irq_last => Ahead(N, irq_last, Following(N, w)) = Ahead(N, irq_last, w) + 1
          /\ Ahead(N, irq_last, w) \in 0 .. N - 1
      BY SMT, <1>1, RingSteps
    <3>2. Following(N, w) # irq_last
      BY SMT, <1>1, <2>1, <3>1
    <3> QED
      BY <2>1, <3>1, <3>2
  <2>3. irqq_available(irq_last)' = Ahead(N, irq_last, Following(N, w))
    BY <1>1, <1>5 DEF irqq_available, Ahead
  <2>4. /\ Place(N, irq_last, Len(pending)) = w
        /\ \A i \in 0 .. Len(pending) - 1 : Place(N, irq_last, i) # w
        /\ \A i \in 0 .. N - 1 : Place(N, irq_last, i) \in 0 .. N - 1
    BY SMT, <1>1, <2>1, RingPlaces
  <2>5. ASSUME NEW i \in 1 .. Len(pending')
        PROVE  pending'[i].line = irqq'.buffer[Place(N, irq_last, i - 1)]
    <3>1. DOMAIN irqq.buffer = 0 .. N - 1
      BY DEF IrqIInv, IrqTypeOK, IrqPlaces
    <3>2. CASE i = Len(pending) + 1
      <4>1. i - 1 = Len(pending)
        BY SMT, <3>2, <2>1
      <4> QED
        <5>1. pending'[i] = new /\ new.line = l
          BY <1>4, <1>7, <3>2
        <5>2. w \in DOMAIN irqq.buffer /\ Place(N, irq_last, i - 1) = w
          BY <1>1, <2>4, <3>1, <4>1
        <5> QED
          BY <1>1, <5>1, <5>2
    <3>3. CASE i # Len(pending) + 1
      <4>1. /\ i \in 1 .. Len(pending) /\ i - 1 \in 0 .. Len(pending) - 1 /\ i - 1 \in 0 .. N - 1
        <5>1. Len(pending') = Len(pending) + 1
          BY <1>4, <1>7
        <5> QED
          BY SMT, <5>1, <2>1, <2>2, <3>3, <1>1
      <4>2. Place(N, irq_last, i - 1) # w /\ Place(N, irq_last, i - 1) \in DOMAIN irqq.buffer
        BY <2>4, <3>1, <4>1
      <4>3. pending[i].line = irqq.buffer[Place(N, irq_last, i - 1)] /\ pending'[i] = pending[i]
        BY <2>1, <1>4, <1>7, <4>1
      <4> QED
        BY <1>1, <4>2, <4>3
    <3> QED
      BY <3>2, <3>3
  <2> QED
    BY <1>4, <1>5, <1>7, <2>2, <2>3, <2>5
<1>8. RingHoldsPending'
  BY <1>7 DEF RingHoldsPending
<1>9. LockHeld'
  <2>1. ~overrun' => pending' # <<>>
    BY SMT, <1>4
  <2> QED
    BY <1>2, <1>4, <1>5, <2>1 DEF LockHeld, IrqIInv
<1>10. FirstWaits'
  <2> SUFFICES ASSUME ~overrun'
               PROVE  /\ workers'[1].pc \in {"test", "block"} => irqq_available(workers[1].start)' >= Len(pending')
                      /\ workers'[1].pc = "block" => \A i \in 1 .. Len(pending') : pending'[i].window
                      /\ ~workers'[1].blocked
    BY <1>2 DEF FirstWaits
  <2>1. ASSUME workers'[1].pc \in {"test", "block"}
        PROVE  irqq_available(workers[1].start)' >= Len(pending')
    <3>1. PICK s : s = workers[1].start
      OBVIOUS
    <3>2. s \in 0 .. N - 1 /\ workers'[1].start = s
      BY <1>1, <1>2, <3>1 DEF IrqIInv, IrqTypeOK, IrqPlaces
    <3>3. Following(N, w) # s
      BY <1>1, <1>2, <1>4, <2>1, <3>1 DEF Full, NextSlot, Following
    <3>4. Ahead(N, s, Following(N, w)) = Ahead(N, s, w) + 1 /\ Ahead(N, s, w) \in 0 .. N - 1
      BY SMT, <1>1, <3>2, <3>3, RingSteps
    <3>5. Ahead(N, s, w) >= Len(pending)
      BY <1>1, <1>2, <1>4, <2>1, <3>1 DEF IrqIInv, FirstWaits, irqq_available, Ahead
    <3>6. irqq_available(workers[1].start)' = Ahead(N, s, Following(N, w))
      BY <1>1, <3>2 DEF irqq_available, Ahead
    <3> QED
      BY SMT, <1>4, <3>4, <3>5, <3>6
  <2>2. ASSUME workers'[1].pc = "block", NEW i \in 1 .. Len(pending')
        PROVE  pending'[i].window
    <3>1. workers[1].pc = "block" /\ ~workers[1].blocked
      BY <1>1, <1>2, <1>4, <2>2 DEF IrqIInv, FirstWaits
    <3>2. new.window /\ \A j \in 1 .. Len(pending) : pending[j].window
      BY <1>4, <3>1 DEF IrqIInv, FirstWaits, At
    <3>3. i = Len(pending) + 1 \/ i \in 1 .. Len(pending)
      BY SMT, <1>4, <2>2
    <3> QED
      BY <1>4, <3>2, <3>3
  <2> QED
    BY <1>2, <2>1, <2>2
<1> QED
  BY <1>5, <1>6, <1>8, <1>9, <1>10 DEF IrqIInv

(* What a worker's step changes of the workers. *)
LEMMA WorkerMoves ==
  ASSUME IrqIInv, NEW v \in 1 .. IrqWorkers, NEW r \in IrqWorker,
         workers' = [workers EXCEPT ![v] = r]
  PROVE  /\ workers' \in [1 .. IrqWorkers -> IrqWorker]
         /\ workers'[v] = r
         /\ \A u \in 1 .. IrqWorkers \ {v} : workers'[u] = workers[u]
  BY DEF IrqIInv, IrqTypeOK, IrqWorker

(* A step of a worker that leaves the ring alone and, if it is worker 1's,
   waits at a place not ahead of irq_last. *)
LEMMA QuietWorker ==
  ASSUME IrqIInv, NEW v \in 1 .. IrqWorkers, NEW r \in IrqWorker,
         workers' = [workers EXCEPT ![v] = r],
         UNCHANGED <<irqq, irq_last, pending, overrun, misread>>,
         irq_lock' = irq_lock \/ irq_lock \in {0, v},
         r.pc \in {"check", "read"} =>
           /\ irq_lock' = v
           /\ r.pc = "read" /\ ~overrun => pending # <<>>,
         v = 1 /\ ~overrun =>
           /\ r.pc \in {"test", "block"} => irqq_available(r.start) >= Len(pending)
           /\ \/ r.pc = "block"
              \/ r.pc = "test" /\ r.blocked
              => \A i \in 1 .. Len(pending) : pending[i].window
           /\ r.blocked => r.pc = "test"
  PROVE  IrqIInv'
<1>1. /\ workers' \in [1 .. IrqWorkers -> IrqWorker]
      /\ workers'[v] = r
      /\ \A u \in 1 .. IrqWorkers \ {v} : workers'[u] = workers[u]
  BY WorkerMoves
<1>2. IrqTypeOK' /\ ~misread'
  BY <1>1 DEF IrqIInv, IrqTypeOK, IrqWorker, IrqPlaces
<1>3. RingHoldsPending'
  BY DEF IrqIInv, RingHoldsPending, irqq_available
<1>4. LockHeld'
  <2> SUFFICES ASSUME NEW u \in 1 .. IrqWorkers, workers'[u].pc \in {"check", "read"}
               PROVE  /\ irq_lock' = u
                      /\ workers'[u].pc = "read" /\ ~overrun => pending # <<>>
    BY DEF LockHeld
  <2>1. CASE u = v
    BY <2>1, <1>1
  <2>2. CASE u # v
    <3>1. workers'[u] = workers[u]
      BY <1>1, <2>2
    <3>2. irq_lock = u /\ (workers[u].pc = "read" /\ ~overrun => pending # <<>>)
      BY <3>1 DEF IrqIInv, LockHeld
    <3>3. u # 0
      BY SMT
    <3> QED
      BY <2>2, <3>1, <3>2, <3>3
  <2> QED
    BY <2>1, <2>2
<1>5. FirstWaits'
  <2>1. 1 \in 1 .. IrqWorkers
    BY SMT, IrqAssumption
  <2>2. CASE v = 1
    BY <1>1, <2>2 DEF FirstWaits, irqq_available
  <2>3. CASE v # 1
    <3>1. workers'[1] = workers[1]
      BY <1>1, <2>1, <2>3
    <3> QED
      BY <3>1 DEF IrqIInv, FirstWaits, irqq_available
  <2> QED
    BY <2>2, <2>3
<1> QED
  BY <1>2, <1>3, <1>4, <1>5 DEF IrqIInv

LEMMA EmptyPending ==
  ASSUME IrqIInv
  PROVE  /\ Len(pending) \in Nat
         /\ pending = <<>> <=> Len(pending) = 0
         /\ ~overrun => (irqq_available(irq_last) = 0 <=> pending = <<>>)
<1>1. pending \in Seq([line : IrqLines, window : BOOLEAN])
  BY DEF IrqIInv, IrqTypeOK
<1>2. Len(pending) \in Nat /\ (pending = <<>> <=> Len(pending) = 0)
  BY SMT, <1>1
<1>3. ~overrun => irqq_available(irq_last) = Len(pending)
  BY DEF IrqIInv, RingHoldsPending
<1> QED
  BY <1>2, <1>3

(* The steps of a worker up to the read, and after it. *)
LEMMA WorkerKeeps ==
  ASSUME IrqIInv, NEW v \in 1 .. IrqWorkers,
         simplock_acquire(v) \/ CheckQueue(v) \/ irqq_wait(v) \/ Serve(v)
  PROVE  IrqIInv'
<1>1. workers \in [1 .. IrqWorkers -> IrqWorker] /\ workers[v] \in IrqWorker
  BY DEF IrqIInv, IrqTypeOK, IrqWorker
<1>2. workers[v].blocked \in BOOLEAN /\ workers[v].start \in IrqPlaces /\ workers[v].irq \in IrqLines \cup {0}
  BY <1>1 DEF IrqWorker
<1>3. 0 \in IrqPlaces /\ irq_last \in IrqPlaces
  BY SMT, IrqAssumption DEF IrqPlaces, IrqIInv, IrqTypeOK
<1>4. ASSUME NEW p \in WorkerPCs
      PROVE  LET r == [workers[v] EXCEPT !.pc = p]
             IN  /\ r \in IrqWorker /\ r.pc = p /\ r.start = workers[v].start
                 /\ r.blocked = workers[v].blocked
                 /\ Go(v, p) => workers' = [workers EXCEPT ![v] = r]
  BY <1>1 DEF IrqWorker, Go
<1>5. CASE simplock_acquire(v)
  <2> DEFINE r == [workers[v] EXCEPT !.pc = "check"]
  <2>1. /\ r \in IrqWorker /\ r.pc = "check" /\ ~r.blocked
        /\ workers' = [workers EXCEPT ![v] = r]
    BY <1>4, <1>5 DEF simplock_acquire, At, WorkerPCs
  <2> HIDE DEF r
  <2> QED
    BY <2>1, <1>5, QuietWorker DEF simplock_acquire
<1>6. CASE CheckQueue(v)
  <2>1. workers[v].pc = "check" /\ ~workers[v].blocked /\ irq_lock = v
        /\ UNCHANGED <<irqq, irq_last, pending, overrun, misread>>
    BY <1>6 DEF CheckQueue, At, LockHeld, IrqIInv
  <2>2. CASE irqq_available(irq_last) = 0 /\ irq_lock' = 0 /\ Go(v, "wait")
    <3> DEFINE r == [workers[v] EXCEPT !.pc = "wait"]
    <3>1. /\ r \in IrqWorker /\ r.pc = "wait" /\ ~r.blocked
          /\ workers' = [workers EXCEPT ![v] = r]
      BY <1>4, <2>1, <2>2 DEF WorkerPCs
    <3> HIDE DEF r
    <3> QED
      BY <3>1, <2>1, <2>2, QuietWorker
  <2>3. CASE irqq_available(irq_last) # 0 /\ irq_lock' = irq_lock /\ Go(v, "read")
    <3> DEFINE r == [workers[v] EXCEPT !.pc = "read"]
    <3>1. /\ r \in IrqWorker /\ r.pc = "read" /\ ~r.blocked
          /\ workers' = [workers EXCEPT ![v] = r]
      BY <1>4, <2>1, <2>3 DEF WorkerPCs
    <3>2. ~overrun => pending # <<>>
      BY <2>3, EmptyPending
    <3> HIDE DEF r
    <3> QED
      BY <3>1, <3>2, <2>1, <2>3, QuietWorker
  <2> QED
    BY <1>6, <2>2, <2>3 DEF CheckQueue
<1>7. CASE irqq_wait(v)
  <2>1. UNCHANGED <<irqq, irq_last, irq_lock, pending, overrun, misread>>
    BY <1>7 DEF irqq_wait
  <2>2. CASE /\ At(v, "wait")
             /\ workers' = [workers EXCEPT ![v].start = irq_last, ![v].pc = "test"]
    <3> DEFINE r == [workers[v] EXCEPT !.start = irq_last, !.pc = "test"]
    <3>1. /\ r \in IrqWorker /\ r.pc = "test" /\ ~r.blocked /\ r.start = irq_last
          /\ workers' = [workers EXCEPT ![v] = r]
      BY <1>1, <1>3, <2>2 DEF IrqWorker, WorkerPCs, At
    <3>2. ~overrun => irqq_available(r.start) >= Len(pending)
      <4>1. ~overrun => irqq_available(irq_last) = Len(pending)
        BY DEF IrqIInv, RingHoldsPending
      <4>2. Len(pending) >= Len(pending)
        BY SMT, EmptyPending
      <4> QED
        BY <3>1, <4>1, <4>2
    <3> HIDE DEF r
    <3> QED
      BY <3>1, <3>2, <2>1, QuietWorker
  <2>3. CASE At(v, "test") /\ irqq_available(workers[v].start) = 0 /\ Go(v, "block")
    <3> DEFINE r == [workers[v] EXCEPT !.pc = "block"]
    <3>1. /\ r \in IrqWorker /\ r.pc = "block" /\ ~r.blocked
          /\ workers' = [workers EXCEPT ![v] = r]
      BY <1>4, <2>3 DEF WorkerPCs, At
    <3>2. ASSUME v = 1, ~overrun
          PROVE  /\ \A i \in 1 .. Len(pending) : pending[i].window
                 /\ irqq_available(r.start) >= Len(pending)
      <4>1. irqq_available(workers[v].start) >= Len(pending) /\ r.start = workers[v].start
        BY <1>1, <2>3, <3>2 DEF IrqIInv, FirstWaits, At, IrqWorker
      <4>2. 1 .. Len(pending) = {}
        BY SMT, <2>3, <4>1, EmptyPending
      <4> QED
        BY <4>1, <4>2
    <3> HIDE DEF r
    <3> QED
      BY <3>1, <3>2, <2>1, QuietWorker
  <2>4. CASE /\ At(v, "test") /\ irqq_available(workers[v].start) # 0
             /\ workers' = [workers EXCEPT ![v].start = 0, ![v].pc = "acquire"]
    <3> DEFINE r == [workers[v] EXCEPT !.start = 0, !.pc = "acquire"]
    <3>1. /\ r \in IrqWorker /\ r.pc = "acquire" /\ ~r.blocked
          /\ workers' = [workers EXCEPT ![v] = r]
      BY <1>1, <1>3, <2>4 DEF IrqWorker, WorkerPCs, At
    <3> HIDE DEF r
    <3> QED
      BY <3>1, <2>1, QuietWorker
  <2>5. CASE /\ At(v, "block")
             /\ workers' = [workers EXCEPT ![v].blocked = TRUE, ![v].pc = "test"]
    <3> DEFINE r == [workers[v] EXCEPT !.blocked = TRUE, !.pc = "test"]
    <3>1. /\ r \in IrqWorker /\ r.pc = "test" /\ r.start = workers[v].start
          /\ workers' = [workers EXCEPT ![v] = r]
      BY <1>1, <1>3, <2>5 DEF IrqWorker, WorkerPCs, At
    <3>2. ASSUME v = 1, ~overrun
          PROVE  /\ \A i \in 1 .. Len(pending) : pending[i].window
                 /\ irqq_available(r.start) >= Len(pending)
      BY <2>5, <3>1, <3>2 DEF IrqIInv, FirstWaits, At
    <3> HIDE DEF r
    <3> QED
      BY <3>1, <3>2, <2>1, QuietWorker
  <2> QED
    BY <1>7, <2>2, <2>3, <2>4, <2>5 DEF irqq_wait
<1>8. CASE Serve(v)
  <2> DEFINE r == [workers[v] EXCEPT !.irq = 0, !.pc = "acquire"]
  <2>1. /\ r \in IrqWorker /\ r.pc = "acquire" /\ ~r.blocked
        /\ workers' = [workers EXCEPT ![v] = r]
    BY <1>1, <1>8 DEF IrqWorker, WorkerPCs, At, Serve
  <2> HIDE DEF r
  <2> QED
    BY <2>1, <1>8, QuietWorker DEF Serve
<1> QED
  BY <1>5, <1>6, <1>7, <1>8

(* The read takes the oldest line. *)
LEMMA IrqReadKeeps ==
  ASSUME IrqIInv, NEW v \in 1 .. IrqWorkers, irqq_read(v)
  PROVE  IrqIInv'
<1> DEFINE N == IRQQ_SIZE
           w == irqq.write_ptr
<1>1. /\ workers[v] \in IrqWorker /\ workers[v].pc = "read" /\ ~workers[v].blocked
      /\ irq_lock = v /\ (~overrun => pending # <<>>)
      /\ irqq' = irqq /\ overrun' = overrun
  BY DEF irqq_read, At, IrqIInv, IrqTypeOK, IrqWorker, LockHeld
<1>2. CASE irqq_available(irq_last) = 0
  <2>1. overrun
    BY <1>1, <1>2, EmptyPending
  <2> DEFINE r == [workers[v] EXCEPT !.blocked = TRUE]
  <2>2. /\ r \in IrqWorker /\ r.pc = "read"
        /\ workers' = [workers EXCEPT ![v] = r]
        /\ UNCHANGED <<irq_last, irq_lock, pending, misread>>
    BY <1>1, <1>2 DEF IrqWorker, irqq_read
  <2> HIDE DEF r
  <2> QED
    BY <2>1, <2>2, <1>1, QuietWorker
<1>3. CASE irqq_available(irq_last) # 0
  <2> DEFINE irq == irqq.buffer[irq_last]
             r == [workers[v] EXCEPT !.irq = irq, !.pc = "serve"]
  <2>1. /\ workers' = [workers EXCEPT ![v] = r]
        /\ r.pc = "serve" /\ ~r.blocked
        /\ misread' = (misread \/ (~overrun /\ (pending = <<>> \/ Head(pending).line # irq)))
        /\ irq_last' = NextSlot(irq_last)
        /\ irq_lock' = 0
        /\ pending' = IF pending = <<>> THEN <<>> ELSE Tail(pending)
    BY <1>1, <1>3 DEF irqq_read, IrqWorker
  <2>2. N \in Nat \ {0} /\ irq_last \in 0 .. N - 1 /\ w \in 0 .. N - 1
    BY IrqAssumption DEF IrqIInv, IrqTypeOK, IrqPlaces
  <2>3. /\ NextSlot(irq_last) = Following(N, irq_last)
        /\ irqq_available(irq_last) = Ahead(N, irq_last, w)
        /\ irqq_available(irq_last)' = Ahead(N, irq_last', w)
    BY <1>1, <2>1, <2>2 DEF NextSlot, Following, irqq_available, Ahead
  <2>4. /\ Following(N, irq_last) \in 0 .. N - 1
        /\ Ahead(N, irq_last, w) \in 0 .. N - 1
        /\ Ahead(N, irq_last', w) = Ahead(N, irq_last, w) - 1
    BY SMT, <1>3, <2>1, <2>2, <2>3, RingSteps
  <2>5. irq \in IrqLines \cup {0}
    BY <2>2 DEF IrqIInv, IrqTypeOK, IrqPlaces
  <2>6. r \in IrqWorker
    BY <1>1, <2>5 DEF IrqWorker, WorkerPCs
  <2>7. /\ workers' \in [1 .. IrqWorkers -> IrqWorker]
        /\ workers'[v] = r
        /\ \A u \in 1 .. IrqWorkers \ {v} : workers'[u] = workers[u]
    <3> HIDE DEF r
    <3> QED
      BY <2>1, <2>6, WorkerMoves
  <2> HIDE DEF irq, r
  <2>8. /\ pending' \in Seq([line : IrqLines, window : BOOLEAN])
        /\ pending # <<>> => /\ Len(pending') = Len(pending) - 1
                            /\ Len(pending) \in Nat \ {0}
                            /\ \A i \in 1 .. Len(pending') : pending'[i] = pending[i + 1]
                            /\ Head(pending) = pending[1]
    <3>1. pending \in Seq([line : IrqLines, window : BOOLEAN])
      BY DEF IrqIInv, IrqTypeOK
    <3>2. CASE pending = <<>>
      <4>1. pending' = <<>>
        BY <2>1, <3>2
      <4> QED
        BY <3>1, <3>2, <4>1
    <3>3. CASE pending # <<>>
      <4>1. pending' = Tail(pending)
        BY <2>1, <3>3
      <4> QED
        BY SMT, <3>1, <3>3, <4>1
    <3> QED
      BY <3>2, <3>3
  <2>9. IrqTypeOK'
    BY <1>1, <2>1, <2>3, <2>4, <2>7, <2>8 DEF IrqIInv, IrqTypeOK, IrqWorker, IrqPlaces
  <2>10. ASSUME ~overrun
         PROVE  /\ Head(pending).line = irq
                /\ irqq_available(irq_last)' = Len(pending')
                /\ \A i \in 1 .. Len(pending') : pending'[i].line = irqq.buffer[Place(N, irq_last', i - 1)]
    <3>1. /\ Ahead(N, irq_last, w) = Len(pending) /\ pending # <<>>
          /\ \A i \in 1 .. Len(pending) : pending[i].line = irqq.buffer[Place(N, irq_last, i - 1)]
      BY <1>1, <2>3, <2>10 DEF IrqIInv, RingHoldsPending
    <3>2. /\ 1 \in 1 .. Len(pending) /\ 1 - 1 = 0
          /\ irqq_available(irq_last)' = Len(pending')
      BY SMT, <2>3, <2>4, <2>8, <3>1
    <3>3. /\ Place(N, irq_last, 0) = irq_last
          /\ \A i \in 0 .. N - 2 : Place(N, irq_last', i) = Place(N, irq_last, i + 1)
      <4>1. /\ Place(N, irq_last, 0) = irq_last
            /\ \A i \in 0 .. N - 2 : Place(N, Following(N, irq_last), i) = Place(N, irq_last, i + 1)
        BY ONLY SMTT(30), <2>2, RingPlaces
      <4> QED
        BY <2>1, <2>3, <4>1
    <3>4. Head(pending).line = irq
      BY SMT, <2>8, <3>1, <3>2, <3>3 DEF irq
    <3>5. ASSUME NEW i \in 1 .. Len(pending')
          PROVE  pending'[i].line = irqq.buffer[Place(N, irq_last', i - 1)]
      <4>1. i + 1 \in 1 .. Len(pending) /\ i - 1 \in 0 .. N - 2 /\ (i + 1) - 1 = (i - 1) + 1
        BY SMT, <2>2, <2>4, <2>8, <3>1
      <4>2. Place(N, irq_last', i - 1) = Place(N, irq_last, (i + 1) - 1)
        BY <3>3, <4>1
      <4> QED
        BY ZenonT(30), <2>8, <3>1, <4>1, <4>2
    <3> QED
      BY <3>2, <3>4, <3>5
  <2>11. ~misread' /\ RingHoldsPending'
    BY <1>1, <2>1, <2>10 DEF IrqIInv, RingHoldsPending
  <2>12. LockHeld'
    <3> SUFFICES ASSUME NEW u \in 1 .. IrqWorkers, workers'[u].pc \in {"check", "read"} PROVE FALSE
      BY DEF LockHeld
    <3>1. u # v /\ workers'[u] = workers[u]
      BY <2>1, <2>7
    <3> QED
      BY <1>1, <3>1 DEF IrqIInv, LockHeld
  <2>13. FirstWaits'
    <3>1. 1 \in 1 .. IrqWorkers
      BY SMT, IrqAssumption
    <3>2. CASE v = 1
      BY <2>1, <2>7, <3>2 DEF FirstWaits
    <3>3. CASE v # 1
      <4>1. workers'[1] = workers[1]
        BY <2>7, <3>1, <3>3
      <4> SUFFICES ASSUME ~overrun
                   PROVE  /\ workers[1].pc \in {"test", "block"} => irqq_available(workers[1].start) >= Len(pending')
                          /\ \/ workers[1].pc = "block"
                             \/ workers[1].pc = "test" /\ workers[1].blocked
                             => \A i \in 1 .. Len(pending') : pending'[i].window
                          /\ workers[1].blocked => workers[1].pc = "test"
        BY <1>1, <4>1 DEF FirstWaits, irqq_available
      <4>2. /\ workers[1].pc \in {"test", "block"} => irqq_available(workers[1].start) >= Len(pending)
            /\ \/ workers[1].pc = "block"
               \/ workers[1].pc = "test" /\ workers[1].blocked
               => \A i \in 1 .. Len(pending) : pending[i].window
            /\ workers[1].blocked => workers[1].pc = "test"
        BY DEF IrqIInv, FirstWaits
      <4>3. irqq_available(workers[1].start) \in Int
        <5>1. workers[1].start \in IrqPlaces
          BY <3>1 DEF IrqIInv, IrqTypeOK
        <5> QED
          BY SMT, <2>2, <5>1 DEF irqq_available, IrqPlaces
      <4>4. irqq_available(workers[1].start) >= Len(pending) => irqq_available(workers[1].start) >= Len(pending')
        BY SMTT(30), <1>1, <2>8, <4>3
      <4>5. \A i \in 1 .. Len(pending') : i + 1 \in 1 .. Len(pending) /\ pending'[i] = pending[i + 1]
        BY SMT, <1>1, <2>8
      <4> QED
        BY <4>2, <4>4, <4>5
    <3> QED
      BY <3>2, <3>3
  <2> QED
    BY <2>9, <2>11, <2>12, <2>13 DEF IrqIInv
<1> QED
  BY <1>2, <1>3

LEMMA IrqInductive == IrqSpec => []IrqIInv
<1>1. IrqIInv /\ [IrqNext]_irqVars => IrqIInv'
  <2> SUFFICES ASSUME IrqIInv, [IrqNext]_irqVars PROVE IrqIInv'
    OBVIOUS
  <2>1. CASE UNCHANGED irqVars
    BY <2>1 DEF irqVars, IrqIInv, IrqTypeOK, RingHoldsPending, LockHeld, FirstWaits, irqq_available
  <2>2. ASSUME NEW v \in 1 .. IrqWorkers, irq_worker(v) PROVE IrqIInv'
    BY <2>2, WorkerKeeps, IrqReadKeeps DEF irq_worker
  <2>3. ASSUME NEW l \in IrqLines, irq_enqueue(l) PROVE IrqIInv'
    BY <2>3, EnqueueKeeps
  <2> QED
    BY <2>1, <2>2, <2>3 DEF IrqNext
<1> QED
  BY <1>1, IrqInitIInv, PTL DEF IrqSpec

(* Until the ring of interrupts was overrun, the workers read the lines in
   the order in which they interrupted, each once: for any number of workers
   and any size of the ring (irqq_write, irqq_read, irq_worker). *)
THEOREM InterruptsReadInOrder == IrqSpec => []InterruptsInOrder
<1>1. IrqIInv => InterruptsInOrder
  BY DEF IrqIInv, InterruptsInOrder
<1> QED
  BY <1>1, IrqInductive, PTL

(* When all workers sleep, each interrupt that was not read came in between
   worker 1's test of the ring and its change of status (irqq_wait). *)
THEOREM IrqSleepsOnlyInWindow == IrqSpec => []SleepsOnlyInWindow
<1>1. ASSUME IrqIInv PROVE SleepsOnlyInWindow
  <2>1. 1 \in 1 .. IrqWorkers
    BY SMT, IrqAssumption
  <2> QED
    BY <1>1, <2>1 DEF IrqIInv, FirstWaits, SleepsOnlyInWindow
<1> QED
  BY <1>1, IrqInductive, PTL

(***************************************************************************)
(* The receiver of the serial port.                                        *)
(***************************************************************************)
SerialPlaces == 0 .. SERIAL_SIZE - 1

SerialPCs == {"idle", "check", "wait", "event", "lock", "copy", "empty", "release"}
SerialRuns == {"on", "marked", "off"}

SerialReaderState ==
  [pc : SerialPCs, len : Nat, start : SerialPlaces, left : Nat, run : SerialRuns]

Received == [byte : SerialBytes \cup {8}, missed : SUBSET SerialReaders]

SerialTypeOK ==
  /\ pcuart_buffer.size = SERIAL_SIZE
  /\ pcuart_buffer.write_ptr \in SerialPlaces
  /\ DOMAIN pcuart_buffer.buffer = SerialPlaces
  /\ pcuart_last \in SerialPlaces
  /\ readers \in [SerialReaders -> SerialReaderState]
  /\ unread \in Seq(Received)
  /\ lapped \in BOOLEAN

(* From p on, the ring holds the bytes of u, and no more. *)
Holds(ring, u, p) ==
  /\ Ahead(SERIAL_SIZE, p, ring.write_ptr) = Len(u)
  /\ \A i \in 1 .. Len(u) : u[i].byte = ring.buffer[Place(SERIAL_SIZE, p, i - 1)]

(* One reader copies at a time, and the bytes not yet read are behind its own
   place; while nobody copies, behind the shared one. *)
CopiesAlone ==
  \A q, r \in SerialReaders : Holder(q) /\ Holder(r) => q = r

UnreadInRing ==
  ~lapped =>
    /\ (\A r \in SerialReaders : ~Holder(r)) => Holds(pcuart_buffer, unread, pcuart_last)
    /\ \A r \in SerialReaders : Holder(r) => Holds(pcuart_buffer, unread, readers[r].start)

(* A reader waits at a place from which the unread bytes are still to come,
   copies while something is left to copy, and once it found nothing, and until
   a byte wakes it, only bytes came that it missed. *)
Waits(r, x) ==
  /\ x.pc \in {"wait", "event"} =>
       Ahead(SERIAL_SIZE, x.start, pcuart_buffer.write_ptr) >= Len(unread)
  /\ x.pc \in {"copy", "empty"} => x.left > 0
  /\ x.pc \in {"event", "empty"} \/ x.run # "on" =>
       \A i \in 1 .. Len(unread) : r \in unread[i].missed

WaitsForBytes == ~lapped => \A r \in SerialReaders : Waits(r, readers[r])

SerialIInv ==
  SerialTypeOK /\ ~misheard /\ CopiesAlone /\ UnreadInRing /\ WaitsForBytes

(* A byte behind the queue, and the queue without its first k. *)
Appended(u, m, v) ==
  /\ Len(v) = Len(u) + 1 /\ v[Len(u) + 1] = m /\ Len(u) \in Nat
  /\ \A i \in 1 .. Len(u) : v[i] = u[i]
  /\ \A i \in 1 .. Len(v) : i \in 1 .. Len(u) \/ i = Len(u) + 1

LEMMA AppendIs ==
  ASSUME NEW u \in Seq(Received), NEW m, NEW v, v = Append(u, m)
  PROVE  Appended(u, m, v)
  BY SMTT(30) DEF Appended

Dropped(u, k, v) ==
  /\ v \in Seq(Received) /\ Len(v) = Len(u) - k
  /\ \A i \in 1 .. Len(v) : v[i] = u[i + k] /\ i + k \in 1 .. Len(u)

LEMMA SubSeqIs ==
  ASSUME NEW u \in Seq(Received), NEW k \in 0 .. Len(u), NEW v, v = SubSeq(u, k + 1, Len(u))
  PROVE  Dropped(u, k, v)
  BY SMTT(30) DEF Dropped

LEMMA SerialInitIInv == SerialInit => SerialIInv
<1> SUFFICES ASSUME SerialInit PROVE SerialIInv
  OBVIOUS
<1>1. 0 \in SerialPlaces /\ 0 \in Nat /\ Len(<<>>) = 0 /\ 1 .. 0 = {} /\ <<>> \in Seq(Received)
      /\ Ahead(SERIAL_SIZE, 0, 0) = 0
  BY SMT, SerialAssumption DEF SerialPlaces, Ahead
<1>2. /\ pcuart_buffer.size = SERIAL_SIZE /\ pcuart_buffer.write_ptr = 0
      /\ DOMAIN pcuart_buffer.buffer = SerialPlaces
  BY DEF SerialInit, cbufm_create, SerialPlaces
<1>3. IdleReader \in SerialReaderState /\ IdleReader.pc = "idle" /\ IdleReader.run = "on"
  BY <1>1 DEF IdleReader, SerialReaderState, SerialPCs, SerialRuns
<1>4. readers \in [SerialReaders -> SerialReaderState]
      /\ \A r \in SerialReaders : readers[r].pc = "idle" /\ readers[r].run = "on"
  BY <1>3 DEF SerialInit
<1>5. SerialTypeOK
  BY <1>1, <1>2, <1>4 DEF SerialTypeOK, SerialInit
<1>6. \A r \in SerialReaders : ~Holder(r) /\ Waits(r, readers[r])
  BY <1>4 DEF Holder, Waits
<1>7. Holds(pcuart_buffer, unread, pcuart_last)
  BY <1>1, <1>2 DEF Holds, SerialInit
<1> QED
  BY <1>5, <1>6, <1>7 DEF SerialIInv, CopiesAlone, UnreadInRing, WaitsForBytes, SerialInit

(* A step of a reader while no other one copies, which leaves the ring alone. *)
LEMMA QuietReader ==
  ASSUME SerialIInv, NEW r \in SerialReaders, NEW x \in SerialReaderState,
         \A q \in SerialReaders \ {r} : ~Holder(q),
         readers' = [readers EXCEPT ![r] = x],
         UNCHANGED <<pcuart_buffer, unread, lapped, misheard>>,
         pcuart_last' \in SerialPlaces,
         ~lapped => Holds(pcuart_buffer, unread,
                          IF x.pc \in {"copy", "empty", "release"} THEN x.start ELSE pcuart_last'),
         ~lapped => Waits(r, x)
  PROVE  SerialIInv'
<1>1. /\ readers' \in [SerialReaders -> SerialReaderState] /\ readers'[r] = x
      /\ \A q \in SerialReaders \ {r} : readers'[q] = readers[q]
  BY DEF SerialIInv, SerialTypeOK
<1>2. SerialTypeOK' /\ ~misheard'
  BY <1>1 DEF SerialIInv, SerialTypeOK
<1>3. /\ \A q \in SerialReaders \ {r} : ~Holder(q)'
      /\ Holder(r)' <=> x.pc \in {"copy", "empty", "release"}
  BY <1>1 DEF Holder
<1>4. CopiesAlone'
  BY <1>3 DEF CopiesAlone
<1>5. UnreadInRing'
  <2> SUFFICES ASSUME ~lapped
               PROVE  /\ (\A q \in SerialReaders : ~Holder(q)') => Holds(pcuart_buffer, unread, pcuart_last')
                      /\ \A q \in SerialReaders : Holder(q)' => Holds(pcuart_buffer, unread, readers'[q].start)
    BY DEF UnreadInRing
  <2> QED
    BY <1>1, <1>3
<1>6. WaitsForBytes'
  <2> SUFFICES ASSUME ~lapped, NEW q \in SerialReaders PROVE Waits(q, readers[q])'
    BY DEF WaitsForBytes
  <2>1. Waits(q, readers'[q])
    BY <1>1 DEF SerialIInv, WaitsForBytes
  <2> QED
    BY <2>1 DEF Waits
<1> QED
  BY <1>2, <1>4, <1>5, <1>6 DEF SerialIInv

(* While nobody copies, the unread bytes are behind the shared place. *)
LEMMA NobodyCopies ==
  ASSUME SerialIInv, NEW r \in SerialReaders, ~Holder(r),
         \A q \in SerialReaders \ {r} : ~Holder(q), ~lapped
  PROVE  Holds(pcuart_buffer, unread, pcuart_last)
  BY DEF SerialIInv, UnreadInRing

LEMMA OneCopies ==
  ASSUME SerialIInv, NEW r \in SerialReaders, Holder(r), ~lapped
  PROVE  Holds(pcuart_buffer, unread, readers[r].start)
  BY DEF SerialIInv, UnreadInRing

(* What cbufm_available counts is how far the writer is ahead. *)
LEMMA AvailableIsAhead ==
  ASSUME SerialIInv, NEW p \in SerialPlaces
  PROVE  /\ cbufm_available(pcuart_buffer, p) = Ahead(SERIAL_SIZE, p, pcuart_buffer.write_ptr)
         /\ Ahead(SERIAL_SIZE, p, pcuart_buffer.write_ptr) \in Nat
         /\ Len(unread) \in Nat
<1>1. /\ pcuart_buffer.size = SERIAL_SIZE /\ pcuart_buffer.write_ptr \in SerialPlaces
      /\ unread \in Seq(Received)
  BY DEF SerialIInv, SerialTypeOK
<1> QED
  BY SMT, <1>1, SerialAssumption DEF cbufm_available, Ahead, SerialPlaces

LEMMA ReadStartKeeps ==
  ASSUME SerialIInv, NEW r \in SerialReaders, NEW asked \in SerialAsked, pcuart_read(r, asked)
  PROVE  SerialIInv'
<1> PICK x : x = [readers[r] EXCEPT !.pc = "check", !.len = IF asked > SERIAL_CAP THEN SERIAL_CAP ELSE asked]
  OBVIOUS
<1>1. asked \in Nat /\ readers[r] \in SerialReaderState
  BY SerialAssumption DEF SerialIInv, SerialTypeOK
<1>2. x \in SerialReaderState /\ x.pc = "check" /\ x.run = readers[r].run
  BY <1>1, SerialAssumption DEF SerialReaderState, SerialPCs
<1>3. AtPc(r, "idle") /\ readers' = [readers EXCEPT ![r] = x] /\ pcuart_last' = pcuart_last
      /\ UNCHANGED <<pcuart_buffer, unread, lapped, misheard>>
  BY DEF pcuart_read, Becomes
<1>4. ~lapped => Holds(pcuart_buffer, unread, pcuart_last')
  BY <1>3, NobodyCopies DEF AtPc, Holder
<1>5. ~lapped => Waits(r, x)
  BY <1>2 DEF Waits, SerialIInv, WaitsForBytes
<1> QED
  BY <1>2, <1>3, <1>4, <1>5, QuietReader DEF SerialIInv, SerialTypeOK, AtPc

LEMMA ReadCheckKeeps ==
  ASSUME SerialIInv, NEW r \in SerialReaders, ReadCheck(r)
  PROVE  SerialIInv'
<1> PICK x : x = IF cbufm_available(pcuart_buffer, pcuart_last) < readers[r].len
                 THEN [readers[r] EXCEPT !.pc = "wait", !.start = pcuart_last]
                 ELSE [readers[r] EXCEPT !.pc = "lock", !.start = 0]
  OBVIOUS
<1>1. 0 \in SerialPlaces /\ readers[r] \in SerialReaderState /\ pcuart_last \in SerialPlaces
  BY SMT, SerialAssumption DEF SerialPlaces, SerialIInv, SerialTypeOK
<1>2. x \in SerialReaderState /\ x.run = readers[r].run
      /\ (\/ x.pc = "wait" /\ x.start = pcuart_last
          \/ x.pc = "lock")
  BY <1>1 DEF SerialReaderState, SerialPCs
<1>3. AtPc(r, "check") /\ readers' = [readers EXCEPT ![r] = x] /\ pcuart_last' = pcuart_last
      /\ UNCHANGED <<pcuart_buffer, unread, lapped, misheard>>
  BY DEF ReadCheck, Becomes
<1>4. ~lapped => Holds(pcuart_buffer, unread, pcuart_last)
  BY <1>3, NobodyCopies DEF AtPc, Holder
<1>5. ~lapped => Waits(r, x)
  <2>1. ~lapped => Ahead(SERIAL_SIZE, pcuart_last, pcuart_buffer.write_ptr) >= Len(unread)
    BY SMT, <1>1, <1>4, AvailableIsAhead DEF Holds
  <2> QED
    BY <1>2, <2>1 DEF Waits, SerialIInv, WaitsForBytes
<1> QED
  BY <1>1, <1>2, <1>3, <1>4, <1>5, QuietReader DEF AtPc

LEMMA ReadWaitKeeps ==
  ASSUME SerialIInv, NEW r \in SerialReaders, cbufm_wait(r)
  PROVE  SerialIInv'
<1>1. readers[r] \in SerialReaderState /\ pcuart_last \in SerialPlaces
  BY DEF SerialIInv, SerialTypeOK
<1>2. ~lapped => Waits(r, readers[r])
  BY DEF SerialIInv, WaitsForBytes
<1>3. CASE AtPc(r, "wait")
  <2> PICK x : x = [readers[r] EXCEPT !.pc =
             IF cbufm_available(pcuart_buffer, readers[r].start) = 0 THEN "event" ELSE "check"]
    OBVIOUS
  <2>1. /\ x \in SerialReaderState /\ x.start = readers[r].start /\ x.start \in SerialPlaces
        /\ x.run = readers[r].run
        /\ \/ x.pc = "event" /\ cbufm_available(pcuart_buffer, x.start) = 0
           \/ x.pc = "check"
    BY <1>1 DEF SerialReaderState, SerialPCs
  <2>2. readers' = [readers EXCEPT ![r] = x] /\ pcuart_last' = pcuart_last
        /\ UNCHANGED <<pcuart_buffer, unread, lapped, misheard>>
    BY <1>3 DEF cbufm_wait, Becomes, AtPc
  <2>3. ~lapped => Holds(pcuart_buffer, unread, pcuart_last)
    BY <1>3, NobodyCopies DEF AtPc, Holder
  <2>4. ~lapped /\ x.pc = "event" => /\ Ahead(SERIAL_SIZE, x.start, pcuart_buffer.write_ptr) >= Len(unread)
                                     /\ 1 .. Len(unread) = {}
    <3>1. readers[r].pc = "wait"
      BY <1>3 DEF AtPc
    <3>2. ~lapped => Ahead(SERIAL_SIZE, x.start, pcuart_buffer.write_ptr) >= Len(unread)
      BY <1>2, <2>1, <3>1 DEF Waits
    <3> QED
      BY SMT, <2>1, <3>2, AvailableIsAhead
  <2>5. ~lapped => Waits(r, x)
    BY <1>2, <2>1, <2>4 DEF Waits
  <2> QED
    BY <1>1, <1>3, <2>1, <2>2, <2>3, <2>5, QuietReader DEF AtPc
<1>4. CASE AtPc(r, "event")
  <2> PICK x : x = [readers[r] EXCEPT !.pc = "wait", !.run = "off"]
    OBVIOUS
  <2>1. x \in SerialReaderState /\ x.start = readers[r].start /\ x.pc = "wait"
    BY <1>1 DEF SerialReaderState, SerialPCs, SerialRuns
  <2>2. readers' = [readers EXCEPT ![r] = x] /\ pcuart_last' = pcuart_last
        /\ UNCHANGED <<pcuart_buffer, unread, lapped, misheard>>
    BY <1>4 DEF cbufm_wait, Becomes, AtPc
  <2>3. ~lapped => Holds(pcuart_buffer, unread, pcuart_last)
    BY <1>4, NobodyCopies DEF AtPc, Holder
  <2>4. ~lapped => Waits(r, x)
    BY <1>2, <1>4, <2>1 DEF Waits, AtPc
  <2> QED
    BY <1>1, <1>4, <2>1, <2>2, <2>3, <2>4, QuietReader DEF AtPc
<1> QED
  BY <1>3, <1>4 DEF cbufm_wait

LEMMA ReadLockKeeps ==
  ASSUME SerialIInv, NEW r \in SerialReaders, ReadLock(r)
  PROVE  SerialIInv'
<1> PICK x : x = [readers[r] EXCEPT !.pc = IF readers[r].len = 0 THEN "release" ELSE "copy",
                                    !.start = pcuart_last, !.left = readers[r].len]
  OBVIOUS
<1>1. readers[r] \in SerialReaderState /\ pcuart_last \in SerialPlaces
  BY DEF SerialIInv, SerialTypeOK
<1>2. /\ x \in SerialReaderState /\ x.start = pcuart_last /\ x.run = readers[r].run
      /\ x.pc = "release" \/ (x.pc = "copy" /\ x.left > 0)
  <2> PICK p : p = IF readers[r].len = 0 THEN "release" ELSE "copy"
    OBVIOUS
  <2>1. readers[r].len \in Nat /\ p \in SerialPCs
    BY <1>1 DEF SerialReaderState, SerialPCs
  <2>2. x = [readers[r] EXCEPT !.pc = p, !.start = pcuart_last, !.left = readers[r].len]
    OBVIOUS
  <2>3. /\ x \in SerialReaderState /\ x.start = pcuart_last /\ x.run = readers[r].run
        /\ x.pc = p /\ x.left = readers[r].len
    BY Zenon, <1>1, <2>1, <2>2 DEF SerialReaderState
  <2>4. readers[r].len = 0 \/ readers[r].len > 0
    BY SMT, <2>1
  <2> QED
    BY <2>3, <2>4
<1>3. AtPc(r, "lock") /\ readers' = [readers EXCEPT ![r] = x] /\ pcuart_last' = pcuart_last
      /\ UNCHANGED <<pcuart_buffer, unread, lapped, misheard>>
  BY DEF ReadLock, Becomes
<1>4. ~lapped => Holds(pcuart_buffer, unread, pcuart_last)
  BY <1>3, NobodyCopies DEF AtPc, Holder
<1>5. ~lapped => Waits(r, x)
  BY <1>2 DEF Waits, SerialIInv, WaitsForBytes
<1> QED
  BY <1>1, <1>2, <1>3, <1>4, <1>5, QuietReader DEF AtPc

LEMMA ReadReleaseKeeps ==
  ASSUME SerialIInv, NEW r \in SerialReaders, ReadRelease(r)
  PROVE  SerialIInv'
<1>1. 0 \in SerialPlaces /\ readers[r] \in SerialReaderState
  BY SMT, SerialAssumption DEF SerialPlaces, SerialIInv, SerialTypeOK
<1> PICK x : x = [IdleReader EXCEPT !.run = readers[r].run]
  OBVIOUS
<1>2. /\ x \in SerialReaderState /\ x.pc = "idle" /\ x.run = readers[r].run
      /\ readers[r].start \in SerialPlaces
  BY <1>1 DEF SerialReaderState, SerialPCs, IdleReader
<1>3. AtPc(r, "release") /\ readers' = [readers EXCEPT ![r] = x]
      /\ pcuart_last' = readers[r].start
      /\ UNCHANGED <<pcuart_buffer, unread, lapped, misheard>>
  BY DEF ReadRelease, Becomes
<1>4. ~lapped => Holds(pcuart_buffer, unread, readers[r].start)
  BY <1>3, OneCopies DEF AtPc, Holder
<1>5. ~lapped => Waits(r, x)
  BY <1>2 DEF Waits, SerialIInv, WaitsForBytes
<1> QED
  BY <1>1, <1>2, <1>3, <1>4, <1>5, QuietReader DEF AtPc

(* A BLOCKED reader leaves the CPU: it had missed the unread bytes before. *)
LEMMA SwitchOffKeeps ==
  ASSUME SerialIInv, NEW r \in SerialReaders, SwitchOff(r)
  PROVE  SerialIInv'
<1>1. /\ readers \in [SerialReaders -> SerialReaderState] /\ readers[r].run = "marked"
      /\ readers' = [readers EXCEPT ![r] = [readers[r] EXCEPT !.run = "off"]]
      /\ UNCHANGED <<pcuart_buffer, pcuart_last, unread, lapped, misheard>>
  BY DEF SwitchOff, Becomes, SerialIInv, SerialTypeOK
<1>2. ASSUME NEW q \in SerialReaders
      PROVE  /\ readers'[q] \in SerialReaderState /\ readers'[q].pc = readers[q].pc
             /\ readers'[q].start = readers[q].start /\ readers'[q].left = readers[q].left
             /\ readers'[q].run # "on" => readers[q].run # "on"
  <2>1. readers[q] \in SerialReaderState /\ readers'[q] = IF q = r THEN [readers[q] EXCEPT !.run = "off"] ELSE readers[q]
    BY <1>1
  <2> QED
    BY <1>1, <2>1 DEF SerialReaderState, SerialRuns
<1>3. readers' \in [SerialReaders -> SerialReaderState]
  BY <1>1, <1>2
<1>4. SerialTypeOK' /\ ~misheard'
  BY <1>1, <1>3 DEF SerialIInv, SerialTypeOK
<1>5. \A q \in SerialReaders : Holder(q)' <=> Holder(q)
  BY <1>2 DEF Holder
<1>6. CopiesAlone' /\ UnreadInRing'
  BY <1>1, <1>2, <1>5 DEF SerialIInv, CopiesAlone, UnreadInRing
<1>7. WaitsForBytes'
  <2> SUFFICES ASSUME ~lapped, NEW q \in SerialReaders PROVE Waits(q, readers[q])'
    BY <1>1 DEF WaitsForBytes
  <2>1. Waits(q, readers[q])
    BY DEF SerialIInv, WaitsForBytes
  <2> QED
    BY <1>1, <1>2, <2>1 DEF Waits
<1> QED
  BY <1>4, <1>6, <1>7 DEF SerialIInv

(* What an iteration of cbufm_read copies is there, and was asked for. *)
LEMMA PossibleCopy ==
  ASSUME NEW ring, NEW N \in Nat \ {0}, ring.size = N, NEW s \in 0 .. N - 1,
         ring.write_ptr \in 0 .. N - 1, NEW left \in Nat
  PROVE  /\ Possible(ring, s, left) \in Nat
         /\ Possible(ring, s, left) <= Ahead(N, s, ring.write_ptr)
         /\ Possible(ring, s, left) <= N - s
         /\ Possible(ring, s, left) <= left
<1> PICK w : w = ring.write_ptr
  OBVIOUS
<1>1. w \in 0 .. N - 1
  OBVIOUS
<1>2. Possible(ring, s, left) =
        LET w_off == IF w < s THEN w + N ELSE w
            fresh == IF N - s > w_off - s THEN w_off - s ELSE N - s
        IN  IF fresh > left THEN left ELSE fresh
  BY DEF Possible
<1> QED
  BY SMT, <1>1, <1>2 DEF Ahead

(* Nothing is possible only when nothing is unread. *)
LEMMA PossibleNothing ==
  ASSUME NEW ring, NEW N \in Nat \ {0}, ring.size = N, NEW s \in 0 .. N - 1,
         ring.write_ptr \in 0 .. N - 1, NEW left \in Nat, left > 0,
         Possible(ring, s, left) = 0
  PROVE  Ahead(N, s, ring.write_ptr) = 0
<1> PICK w : w = ring.write_ptr
  OBVIOUS
<1>1. w \in 0 .. N - 1
  OBVIOUS
<1>2. Possible(ring, s, left) =
        LET w_off == IF w < s THEN w + N ELSE w
            fresh == IF N - s > w_off - s THEN w_off - s ELSE N - s
        IN  IF fresh > left THEN left ELSE fresh
  BY DEF Possible
<1> QED
  BY SMT, <1>1, <1>2 DEF Ahead

(* An empty ring under the lock: the reader joins the queue and goes on. *)
LEMMA ReadNothingKeeps ==
  ASSUME SerialIInv, NEW r \in SerialReaders, ReadNothing(r)
  PROVE  SerialIInv'
<1>1. readers[r] \in SerialReaderState /\ pcuart_last \in SerialPlaces
  BY DEF SerialIInv, SerialTypeOK
<1>2. ~lapped => Waits(r, readers[r])
  BY DEF SerialIInv, WaitsForBytes
<1>3. CASE AtPc(r, "copy")
  <2> PICK x : x = [readers[r] EXCEPT !.pc = "empty"]
    OBVIOUS
  <2>1. /\ x \in SerialReaderState /\ x.start = readers[r].start /\ x.pc = "empty"
        /\ x.left = readers[r].left /\ x.run = readers[r].run
        /\ x.start \in SerialPlaces /\ x.left \in Nat
    BY <1>1 DEF SerialReaderState, SerialPCs
  <2>2. /\ readers' = [readers EXCEPT ![r] = x] /\ pcuart_last' = pcuart_last
        /\ UNCHANGED <<pcuart_buffer, unread, lapped, misheard>>
        /\ Possible(pcuart_buffer, x.start, x.left) = 0
    BY <1>3, <2>1 DEF ReadNothing, Becomes, AtPc
  <2>3. ~lapped => Holds(pcuart_buffer, unread, x.start)
    BY <1>3, <2>1, OneCopies DEF AtPc, Holder
  <2>4. ~lapped => x.left > 0 /\ 1 .. Len(unread) = {}
    <3>1. ~lapped => x.left > 0
      BY <1>2, <1>3, <2>1 DEF Waits, AtPc
    <3>2. /\ SERIAL_SIZE \in Nat \ {0} /\ SerialPlaces = 0 .. SERIAL_SIZE - 1
          /\ pcuart_buffer.size = SERIAL_SIZE /\ pcuart_buffer.write_ptr \in SerialPlaces
      BY SerialAssumption DEF SerialIInv, SerialTypeOK, SerialPlaces
    <3>3. ~lapped => Ahead(SERIAL_SIZE, x.start, pcuart_buffer.write_ptr) = 0
      <4>1. x.start \in 0 .. SERIAL_SIZE - 1 /\ pcuart_buffer.write_ptr \in 0 .. SERIAL_SIZE - 1
        BY <2>1, <3>2
      <4> QED
        BY ONLY Zenon, <2>1, <2>2, <3>1, <3>2, <4>1, PossibleNothing
    <3>4. ~lapped => Len(unread) = 0
      BY <2>3, <3>3 DEF Holds
    <3> QED
      BY SMT, <3>1, <3>4
  <2>5. ~lapped => Waits(r, x)
    BY <2>1, <2>4 DEF Waits
  <2> QED
    BY <1>1, <1>3, <2>1, <2>2, <2>3, <2>5, QuietReader DEF AtPc
<1>4. CASE AtPc(r, "empty")
  <2> PICK x : x = [readers[r] EXCEPT !.pc = "copy", !.run = "marked"]
    OBVIOUS
  <2>1. /\ x \in SerialReaderState /\ x.start = readers[r].start /\ x.pc = "copy"
        /\ x.left = readers[r].left
    BY <1>1 DEF SerialReaderState, SerialPCs, SerialRuns
  <2>2. /\ readers' = [readers EXCEPT ![r] = x] /\ pcuart_last' = pcuart_last
        /\ UNCHANGED <<pcuart_buffer, unread, lapped, misheard>>
    BY <1>4 DEF ReadNothing, Becomes, AtPc
  <2>3. ~lapped => Holds(pcuart_buffer, unread, x.start)
    BY <1>4, <2>1, OneCopies DEF AtPc, Holder
  <2>4. ~lapped => Waits(r, x)
    BY <1>2, <1>4, <2>1 DEF Waits, AtPc
  <2> QED
    BY <1>1, <1>4, <2>1, <2>2, <2>3, <2>4, QuietReader DEF AtPc
<1> QED
  BY <1>3, <1>4 DEF ReadNothing

LEMMA CopyKeeps ==
  ASSUME SerialIInv, NEW r \in SerialReaders, cbufm_read(r)
  PROVE  SerialIInv'
<1> DEFINE N == SERIAL_SIZE
           w == pcuart_buffer.write_ptr
           me == readers[r]
<1> PICK n : n = Possible(pcuart_buffer, me.start, me.left)
  OBVIOUS
<1> PICK k : k = IF n < Len(unread) THEN n ELSE Len(unread)
  OBVIOUS
<1> PICK x : x = [me EXCEPT !.left = @ - n, !.start = After(pcuart_buffer, @, n),
                            !.pc = IF n = me.left THEN "release" ELSE "copy"]
  OBVIOUS
<1>1. /\ N \in Nat \ {0} /\ SerialPlaces = 0 .. N - 1
      /\ pcuart_buffer.size = N /\ w \in SerialPlaces
      /\ me \in SerialReaderState /\ unread \in Seq(Received)
  BY SerialAssumption DEF SerialIInv, SerialTypeOK, SerialPlaces
<1>2. me.start \in SerialPlaces /\ me.left \in Nat
  BY <1>1 DEF SerialReaderState
<1>3. /\ AtPc(r, "copy") /\ n > 0
      /\ readers' = [readers EXCEPT ![r] = x]
      /\ misheard' = (misheard \/ (~lapped /\ (n # k \/ Chunk(pcuart_buffer, me.start, n)
                                      # [i \in 1 .. n |-> unread[i].byte])))
      /\ unread' = SubSeq(unread, k + 1, Len(unread))
      /\ UNCHANGED <<pcuart_buffer, pcuart_last, lapped>>
  BY DEF cbufm_read
<1>4. n \in Nat /\ n <= Ahead(N, me.start, w) /\ n <= N - me.start /\ n <= me.left
  BY <1>1, <1>2, PossibleCopy
<1>5. x.start = IF me.start + n = N THEN 0 ELSE me.start + n
  BY <1>1 DEF After, SerialReaderState
<1>6. /\ x.start \in SerialPlaces
      /\ Ahead(N, x.start, w) = Ahead(N, me.start, w) - n
      /\ \A i \in 1 .. n : Place(N, me.start, i - 1) = me.start + i - 1
      /\ \A i \in 1 .. Ahead(N, me.start, w) - n, j \in Int :
           j = i + n => Place(N, x.start, i - 1) = Place(N, me.start, j - 1)
  <2>1. N \in Nat \ {0} /\ me.start \in 0 .. N - 1 /\ w \in 0 .. N - 1
    BY <1>1, <1>2
  <2> PICK M, v, s, t : M = N /\ v = w /\ s = me.start /\ t = x.start
    OBVIOUS
  <2>2. /\ n \in Nat /\ M \in Nat \ {0} /\ s \in 0 .. M - 1 /\ v \in 0 .. M - 1
        /\ n <= Ahead(M, s, v) /\ n <= M - s /\ t = IF s + n = M THEN 0 ELSE s + n
    BY <1>4, <1>5, <2>1
  <2>3. /\ t \in 0 .. M - 1
        /\ Ahead(M, t, v) = Ahead(M, s, v) - n
        /\ \A i \in 1 .. n : Place(M, s, i - 1) = s + i - 1
        /\ \A i \in 1 .. Ahead(M, s, v) - n, j \in Int :
             j = i + n => Place(M, t, i - 1) = Place(M, s, j - 1)
    BY ONLY SMT, <2>2 DEF Ahead, Place
  <2> QED
    BY SMT, <1>1, <2>3
<1>7. /\ x \in SerialReaderState /\ x.run = me.run
      /\ x.pc = "release" \/ (x.pc = "copy" /\ x.left > 0)
  <2>1. me.left - n \in Nat /\ (n # me.left => me.left - n > 0)
    BY SMT, <1>2, <1>4
  <2> QED
    BY <1>1, <1>6, <2>1 DEF SerialReaderState, SerialPCs
<1>8. /\ k \in 0 .. Len(unread)
      /\ unread' \in Seq(Received) /\ Len(unread') = Len(unread) - k
      /\ \A i \in 1 .. Len(unread') : unread'[i] = unread[i + k] /\ i + k \in 1 .. Len(unread)
  <2>1. k \in 0 .. Len(unread) /\ Len(unread) \in Nat
    BY SMT, <1>1, <1>4
  <2>2. Dropped(unread, k, unread')
    BY <1>1, <1>3, <2>1, SubSeqIs
  <2> QED
    BY <2>1, <2>2 DEF Dropped
<1>9. /\ readers' \in [SerialReaders -> SerialReaderState] /\ readers'[r] = x
      /\ \A q \in SerialReaders \ {r} : readers'[q] = readers[q]
  BY <1>3, <1>7 DEF SerialIInv, SerialTypeOK
<1>10. SerialTypeOK'
  BY <1>3, <1>8, <1>9 DEF SerialIInv, SerialTypeOK
<1>11. Holder(r)' /\ \A q \in SerialReaders \ {r} : ~Holder(q)'
  BY <1>3, <1>7, <1>9 DEF Holder, AtPc
<1>12. CopiesAlone'
  BY <1>11 DEF CopiesAlone
<1>13. ~lapped => /\ Ahead(N, me.start, w) = Len(unread) /\ n = k
                  /\ \A i \in 1 .. Len(unread) : unread[i].byte = pcuart_buffer.buffer[Place(N, me.start, i - 1)]
  <2>1. ~lapped => Holds(pcuart_buffer, unread, me.start)
    BY <1>3, OneCopies DEF AtPc, Holder
  <2>2. ~lapped => Ahead(N, me.start, w) = Len(unread)
    BY <2>1 DEF Holds
  <2>3. Len(unread) \in Nat
    BY SMT, <1>1
  <2>4. ~lapped => n = k
    BY SMT, <1>4, <2>2, <2>3
  <2> QED
    BY <2>1, <2>2, <2>4 DEF Holds
<1>14. ~misheard'
  <2> SUFFICES ASSUME ~lapped
               PROVE  Chunk(pcuart_buffer, me.start, n) = [i \in 1 .. n |-> unread[i].byte]
    BY <1>3, <1>13 DEF SerialIInv
  <2>1. ASSUME NEW i \in 1 .. n
        PROVE  pcuart_buffer.buffer[me.start + i - 1] = unread[i].byte
    <3>1. i \in 1 .. Len(unread)
      BY SMT, <1>4, <1>8, <1>13
    <3> QED
      BY <1>6, <1>13, <3>1
  <2> QED
    BY <2>1 DEF Chunk
<1>15. UnreadInRing'
  <2> SUFFICES ASSUME ~lapped PROVE Holds(pcuart_buffer, unread', x.start)
    BY <1>3, <1>9, <1>11 DEF UnreadInRing
  <2>1. ASSUME NEW i \in 1 .. Len(unread')
        PROVE  unread'[i].byte = pcuart_buffer.buffer[Place(N, x.start, i - 1)]
    <3>1. PICK j : j = i + k
      OBVIOUS
    <3>2. j \in 1 .. Len(unread) /\ unread'[i] = unread[j]
      BY <1>8, <3>1
    <3>3. Place(N, x.start, i - 1) = Place(N, me.start, j - 1)
      <4>1. i \in 1 .. Ahead(N, me.start, w) - n /\ j = i + n
        BY <1>8, <1>13, <3>1
      <4>2. j \in Int
        BY SMT, <1>4, <4>1
      <4> QED
        BY <1>6, <4>1, <4>2
    <3> QED
      BY <1>13, <3>2, <3>3
  <2>2. Ahead(N, x.start, w) = Len(unread')
    BY <1>6, <1>8, <1>13
  <2> QED
    BY <2>1, <2>2 DEF Holds
<1>16. WaitsForBytes'
  <2> SUFFICES ASSUME ~lapped, NEW q \in SerialReaders PROVE Waits(q, readers[q])'
    BY <1>3 DEF WaitsForBytes
  <2>1. CASE q = r
    <3>1. Waits(r, me)
      BY DEF SerialIInv, WaitsForBytes
    <3>2. (\A i \in 1 .. Len(unread) : r \in unread[i].missed)
            => \A i \in 1 .. Len(unread') : r \in unread'[i].missed
      BY <1>8
    <3> QED
      BY <1>7, <1>9, <2>1, <3>1, <3>2 DEF Waits
  <2>2. CASE q # r
    <3> PICK y : y = readers[q]
      OBVIOUS
    <3>1. y \in SerialReaderState /\ Waits(q, y) /\ readers'[q] = y
      BY <1>9, <2>2 DEF SerialIInv, WaitsForBytes, SerialTypeOK
    <3>2. Ahead(N, y.start, w) >= Len(unread) => Ahead(N, y.start, w) >= Len(unread')
      BY SMT, <1>1, <1>8, <3>1, AvailableIsAhead DEF SerialReaderState
    <3>3. (\A i \in 1 .. Len(unread) : q \in unread[i].missed)
            => \A i \in 1 .. Len(unread') : q \in unread'[i].missed
      BY <1>8
    <3> QED
      BY <1>3, <3>1, <3>2, <3>3 DEF Waits
  <2> QED
    BY <2>1, <2>2
<1> QED
  BY <1>10, <1>12, <1>14, <1>15, <1>16 DEF SerialIInv

(* cbufm_write of one byte. *)
LEMMA WriteOne ==
  ASSUME NEW ring, ring.size \in Nat \ {0}, ring.write_ptr \in 0 .. ring.size - 1, NEW b
  PROVE  /\ cbufm_write(ring, <<b>>).size = ring.size
         /\ cbufm_write(ring, <<b>>).write_ptr = Following(ring.size, ring.write_ptr)
         /\ DOMAIN cbufm_write(ring, <<b>>).buffer = 0 .. ring.size - 1
         /\ cbufm_write(ring, <<b>>).buffer[ring.write_ptr] = b
         /\ \A i \in 0 .. ring.size - 1 : i # ring.write_ptr =>
               cbufm_write(ring, <<b>>).buffer[i] = ring.buffer[i]
<1> DEFINE w == ring.write_ptr
           R == cbufm_write(ring, <<b>>)
           Behind(i) == IF i < w THEN (ring.size - w) + i ELSE i - w
<1>1. /\ Len(<<b>>) = 1 /\ <<b>>[1] = b /\ Behind(w) = 0 /\ 0 + 1 = 1 /\ 0 < 1
      /\ \A i \in 0 .. ring.size - 1 : i # w => ~(Behind(i) < 1)
      /\ (IF w + 1 >= ring.size THEN w + 1 - ring.size ELSE w + 1) = Following(ring.size, w)
  BY SMT DEF Following
<1> HIDE DEF Behind
<1>2. R.size = ring.size
  BY DEF cbufm_write
<1>w. R.write_ptr = IF w + Len(<<b>>) >= ring.size THEN w + Len(<<b>>) - ring.size ELSE w + Len(<<b>>)
  BY SMT DEF cbufm_write
<1>b. R.buffer = [i \in 0 .. ring.size - 1 |->
         IF Behind(i) < Len(<<b>>) THEN <<b>>[Behind(i) + 1] ELSE ring.buffer[i]]
  BY DEF cbufm_write, Behind
<1> HIDE DEF R
<1>3. R.write_ptr = Following(ring.size, w)
  BY <1>1, <1>w
<1>4. DOMAIN R.buffer = 0 .. ring.size - 1
  BY <1>b
<1>5. \A i \in 0 .. ring.size - 1 : R.buffer[i] = IF Behind(i) < 1 THEN <<b>>[Behind(i) + 1] ELSE ring.buffer[i]
  BY <1>1, <1>b
<1>6. R.buffer[w] = b
  BY <1>1, <1>5
<1>7. \A i \in 0 .. ring.size - 1 : i # w => R.buffer[i] = ring.buffer[i]
  BY <1>1, <1>5
<1> QED
  BY <1>2, <1>3, <1>4, <1>6, <1>7 DEF R

(* A byte that does not lap the readers is behind the unread ones. *)
LEMMA ByteArrives ==
  ASSUME SerialIInv, NEW c \in SerialBytes, pcuart_irq(c), ~lapped',
         NEW p \in SerialPlaces, Holds(pcuart_buffer, unread, p)
  PROVE  Holds(pcuart_buffer', unread', p)
<1> DEFINE N == SERIAL_SIZE
           w == pcuart_buffer.write_ptr
           m == [byte |-> Translated(c), missed |-> Missing]
<1>1. /\ N \in Nat \ {0} /\ SerialPlaces = 0 .. N - 1
      /\ pcuart_buffer.size = N /\ w \in SerialPlaces /\ unread \in Seq(Received)
  BY SerialAssumption DEF SerialIInv, SerialTypeOK, SerialPlaces
<1>2. /\ pcuart_buffer'.write_ptr = Following(N, w)
      /\ pcuart_buffer'.buffer[w] = Translated(c)
      /\ \A i \in SerialPlaces : i # w => pcuart_buffer'.buffer[i] = pcuart_buffer.buffer[i]
  <2>1. pcuart_buffer' = cbufm_write(pcuart_buffer, <<Translated(c)>>)
    BY DEF pcuart_irq
  <2> QED
    BY SMT, <1>1, <2>1, WriteOne
<1>3. unread' = Append(unread, m) /\ Len(unread) + 1 # N
  BY DEF pcuart_irq, Laps
<1>4. /\ Len(unread') = Len(unread) + 1 /\ unread'[Len(unread) + 1] = m /\ Len(unread) \in Nat
      /\ \A i \in 1 .. Len(unread) : unread'[i] = unread[i]
      /\ \A i \in 1 .. Len(unread') : i \in 1 .. Len(unread) \/ i = Len(unread) + 1
  <2>1. Appended(unread, m, unread')
    BY <1>1, <1>3, AppendIs
  <2> QED
    BY <2>1 DEF Appended
<1>5. /\ Ahead(N, p, w) = Len(unread)
      /\ \A i \in 1 .. Len(unread) : unread[i].byte = pcuart_buffer.buffer[Place(N, p, i - 1)]
  BY DEF Holds
<1>6. /\ Following(N, w) # p => Ahead(N, p, Following(N, w)) = Ahead(N, p, w) + 1
      /\ Following(N, w) = p => Ahead(N, p, w) = N - 1
      /\ Ahead(N, p, w) \in 0 .. N - 1
  <2>1. PICK M, v : M = N /\ v = w
    OBVIOUS
  <2>2. M \in Nat \ {0} /\ p \in 0 .. M - 1 /\ v \in 0 .. M - 1
    BY <1>1, <2>1
  <2>3. /\ Following(M, v) # p => Ahead(M, p, Following(M, v)) = Ahead(M, p, v) + 1
        /\ Following(M, v) = p => Ahead(M, p, v) = M - 1
        /\ Ahead(M, p, v) \in 0 .. M - 1
    BY ONLY SMT, <2>2 DEF Following, Ahead
  <2> QED
    BY <2>1, <2>3
<1>7. Ahead(N, p, Following(N, w)) = Len(unread')
  <2>1. Following(N, w) # p
    <3>1. PICK M, l : M = N /\ l = Len(unread)
      OBVIOUS
    <3>2. M \in Nat /\ l \in Nat /\ l + 1 # M
      BY <1>1, <1>3, <1>4, <3>1
    <3>3. l # M - 1
      BY ONLY SMT, <3>2
    <3> QED
      BY <1>5, <1>6, <3>1, <3>3
  <2> QED
    BY <1>4, <1>5, <1>6, <2>1
<1>8. /\ Place(N, p, Len(unread)) = w
      /\ \A i \in 0 .. N - 1 : Place(N, p, i) \in SerialPlaces
      /\ \A i \in 0 .. Len(unread) - 1 : Place(N, p, i) # w
  <2>1. N \in Nat \ {0} /\ p \in 0 .. N - 1 /\ w \in 0 .. N - 1
    BY <1>1
  <2>2. /\ Place(N, p, Ahead(N, p, w)) = w
        /\ \A i \in 0 .. N - 1 : Place(N, p, i) \in 0 .. N - 1
        /\ \A i \in 0 .. Ahead(N, p, w) - 1 : Place(N, p, i) # w
    <3> PICK M, v : M = N /\ v = w
      OBVIOUS
    <3>1. M \in Nat \ {0} /\ p \in 0 .. M - 1 /\ v \in 0 .. M - 1
      BY <2>1
    <3>2. /\ Place(M, p, Ahead(M, p, v)) = v
          /\ \A i \in 0 .. M - 1 : Place(M, p, i) \in 0 .. M - 1
          /\ \A i \in 0 .. Ahead(M, p, v) - 1 : Place(M, p, i) # v
      BY SMT, <3>1 DEF Ahead, Place
    <3> QED
      BY <3>2
  <2> QED
    BY <1>1, <1>5, <2>2
<1>9. ASSUME NEW i \in 1 .. Len(unread')
      PROVE  unread'[i].byte = pcuart_buffer'.buffer[Place(N, p, i - 1)]
  <2>1. CASE i \in 1 .. Len(unread)
    <3>1. i - 1 \in 0 .. N - 1 /\ i - 1 \in 0 .. Len(unread) - 1
      <4>1. PICK M, l : M = N /\ l = Len(unread)
        OBVIOUS
      <4>2. M \in Nat \ {0} /\ l \in 0 .. M - 1 /\ i \in 1 .. l
        BY <1>1, <1>5, <1>6, <2>1, <4>1
      <4>3. i - 1 \in 0 .. M - 1 /\ i - 1 \in 0 .. l - 1
        BY ONLY SMT, <4>2
      <4> QED
        BY <4>1, <4>3
    <3> QED
      BY <1>2, <1>4, <1>5, <1>8, <2>1, <3>1
  <2>2. CASE i = Len(unread) + 1
    <3>1. i - 1 = Len(unread)
      <4>1. PICK l : l = Len(unread)
        OBVIOUS
      <4>2. l \in Nat /\ i = l + 1
        BY <1>4, <2>2, <4>1
      <4>3. i - 1 = l
        BY ONLY SMT, <4>2
      <4> QED
        BY <4>1, <4>3
    <3>2. m.byte = Translated(c)
      OBVIOUS
    <3> HIDE DEF m
    <3>3. unread'[i].byte = Translated(c)
      BY <1>4, <2>2, <3>2
    <3>4. Place(N, p, i - 1) = w
      BY <1>8, <3>1
    <3> QED
      BY <1>2, <3>3, <3>4
  <2> QED
    BY <1>4, <2>1, <2>2
<1> QED
  BY <1>2, <1>7, <1>9 DEF Holds

LEMMA SerialIrqKeeps ==
  ASSUME SerialIInv, NEW c \in SerialBytes, pcuart_irq(c)
  PROVE  SerialIInv'
<1> DEFINE N == SERIAL_SIZE
           w == pcuart_buffer.write_ptr
           m == [byte |-> Translated(c), missed |-> Missing]
<1>1. /\ N \in Nat \ {0} /\ SerialPlaces = 0 .. N - 1
      /\ pcuart_buffer.size = N /\ w \in SerialPlaces /\ unread \in Seq(Received)
      /\ readers \in [SerialReaders -> SerialReaderState] /\ pcuart_last \in SerialPlaces
  BY SerialAssumption DEF SerialIInv, SerialTypeOK, SerialPlaces
<1>2. /\ pcuart_buffer'.size = N /\ pcuart_buffer'.write_ptr = Following(N, w)
      /\ DOMAIN pcuart_buffer'.buffer = SerialPlaces
  <2>1. pcuart_buffer' = cbufm_write(pcuart_buffer, <<Translated(c)>>)
    BY DEF pcuart_irq
  <2> QED
    BY SMT, <1>1, <2>1, WriteOne
<1>3. Following(N, w) \in SerialPlaces
  BY <1>1, RingSteps
<1>4. ASSUME NEW r \in SerialReaders
      PROVE  /\ readers'[r] \in SerialReaderState /\ readers'[r].start = readers[r].start
             /\ readers'[r].pc = readers[r].pc /\ readers'[r].run = "on"
             /\ readers'[r].left = readers[r].left
  <2>1. readers[r] \in SerialReaderState
    BY <1>1
  <2> QED
    BY <2>1 DEF pcuart_irq, SerialReaderState, SerialRuns
<1>5. readers' \in [SerialReaders -> SerialReaderState]
  <2>1. DOMAIN readers' = SerialReaders /\ readers' = [r \in SerialReaders |-> readers'[r]]
    BY DEF pcuart_irq
  <2> QED
    BY <1>4, <2>1
<1>6. m \in Received
  BY DEF Received, Translated, Missing
<1>7. unread' \in Seq(Received)
  <2>1. Append(unread, m) \in Seq(Received) /\ <<>> \in Seq(Received)
    BY SMT, <1>1, <1>6
  <2> QED
    BY <2>1 DEF pcuart_irq
<1>8. SerialTypeOK' /\ ~misheard'
  <2>1. lapped' \in BOOLEAN /\ pcuart_last' = pcuart_last /\ misheard' = misheard
    BY DEF pcuart_irq
  <2> QED
    BY <1>1, <1>2, <1>3, <1>5, <1>7, <2>1 DEF SerialTypeOK, SerialIInv
<1>9. \A r \in SerialReaders : Holder(r)' <=> Holder(r)
  BY <1>4 DEF Holder
<1>10. CopiesAlone'
  BY <1>9 DEF CopiesAlone, SerialIInv
<1>11. ~lapped' => ~lapped
  BY DEF pcuart_irq
<1>12. UnreadInRing'
  <2> SUFFICES ASSUME ~lapped'
               PROVE  /\ (\A q \in SerialReaders : ~Holder(q)') => Holds(pcuart_buffer', unread', pcuart_last')
                      /\ \A q \in SerialReaders : Holder(q)' => Holds(pcuart_buffer', unread', readers'[q].start)
    BY DEF UnreadInRing
  <2>1. pcuart_last' = pcuart_last
    BY DEF pcuart_irq
  <2>2. (\A q \in SerialReaders : ~Holder(q)') => Holds(pcuart_buffer', unread', pcuart_last')
    BY <1>1, <1>9, <1>11, <2>1, ByteArrives DEF SerialIInv, UnreadInRing
  <2>3. ASSUME NEW q \in SerialReaders, Holder(q)'
        PROVE  Holds(pcuart_buffer', unread', readers'[q].start)
    <3>1. readers[q].start \in SerialPlaces
      BY <1>1 DEF SerialReaderState
    <3>2. Holds(pcuart_buffer, unread, readers[q].start)
      BY <1>9, <1>11, <2>3 DEF SerialIInv, UnreadInRing
    <3>3. Holds(pcuart_buffer', unread', readers[q].start)
      BY <3>1, <3>2, ByteArrives
    <3> QED
      BY <1>4, <3>3
  <2> QED
    BY <2>2, <2>3
<1>13. WaitsForBytes'
  <2> SUFFICES ASSUME ~lapped', NEW r \in SerialReaders PROVE Waits(r, readers[r])'
    BY DEF WaitsForBytes
  <2>1. unread' = Append(unread, m) /\ ~Laps
    BY DEF pcuart_irq
  <2>2. /\ Len(unread') = Len(unread) + 1 /\ unread'[Len(unread) + 1] = m
        /\ \A i \in 1 .. Len(unread) : unread'[i] = unread[i]
        /\ \A i \in 1 .. Len(unread') : i \in 1 .. Len(unread) \/ i = Len(unread) + 1
    <3>1. Appended(unread, m, unread')
      BY <1>1, <2>1, AppendIs
    <3> QED
      BY <3>1 DEF Appended
  <2>3. Waits(r, readers[r])
    BY <1>11 DEF SerialIInv, WaitsForBytes
  <2>4. ASSUME readers[r].pc \in {"wait", "event"}
        PROVE  Ahead(N, readers[r].start, Following(N, w)) >= Len(unread')
    <3> PICK s : s = readers[r].start
      OBVIOUS
    <3>1. s \in SerialPlaces
      BY <1>1 DEF SerialReaderState
    <3>2. Following(N, w) # s
      BY <1>1, <2>1, <2>4 DEF Laps, After, Following
    <3>3. Ahead(N, s, Following(N, w)) = Ahead(N, s, w) + 1
      <4>1. PICK M, v : M = N /\ v = w
        OBVIOUS
      <4>2. M \in Nat \ {0} /\ s \in 0 .. M - 1 /\ v \in 0 .. M - 1 /\ Following(M, v) # s
        BY <1>1, <3>1, <3>2, <4>1
      <4>3. Ahead(M, s, Following(M, v)) = Ahead(M, s, v) + 1
        BY ONLY SMT, <4>2 DEF Following, Ahead
      <4> QED
        BY <4>1, <4>3
    <3>4. Ahead(N, s, w) >= Len(unread)
      BY <2>3, <2>4 DEF Waits
    <3>5. Ahead(N, s, w) \in Nat /\ Len(unread) \in Nat
      BY <3>1, AvailableIsAhead
    <3> QED
      <4>1. PICK a, b, l : a = Ahead(N, s, w) /\ b = Ahead(N, s, Following(N, w)) /\ l = Len(unread)
        OBVIOUS
      <4>2. a \in Nat /\ l \in Nat /\ a >= l /\ b = a + 1
        BY <3>3, <3>4, <3>5, <4>1
      <4>3. b >= l + 1
        BY ONLY SMT, <4>2
      <4> QED
        BY <2>2, <4>1, <4>3
  <2>5. ASSUME readers[r].pc \in {"event", "empty"}
        PROVE  \A i \in 1 .. Len(unread') : r \in unread'[i].missed
    <3>1. \A i \in 1 .. Len(unread) : r \in unread[i].missed
      BY <2>3, <2>5 DEF Waits
    <3>2. r \in m.missed
      BY <2>5 DEF Missing
    <3> HIDE DEF m
    <3> QED
      BY <2>2, <3>1, <3>2
  <2> QED
    BY <1>2, <1>4, <2>3, <2>4, <2>5 DEF Waits
<1> QED
  BY <1>8, <1>10, <1>12, <1>13 DEF SerialIInv

LEMMA SerialInductive ==
  SerialIInv /\ [SerialNext]_serialVars => SerialIInv'
<1> SUFFICES ASSUME SerialIInv, [SerialNext]_serialVars PROVE SerialIInv'
  OBVIOUS
<1>1. ASSUME NEW c \in SerialBytes, pcuart_irq(c) PROVE SerialIInv'
  BY <1>1, SerialIrqKeeps
<1>2. ASSUME NEW r \in SerialReaders, SerialReader(r) PROVE SerialIInv'
  BY <1>2, ReadCheckKeeps, ReadWaitKeeps, ReadLockKeeps, ReadNothingKeeps, CopyKeeps, ReadReleaseKeeps,
     SwitchOffKeeps
  DEF SerialReader
<1>3. ASSUME NEW r \in SerialReaders, NEW asked \in SerialAsked, pcuart_read(r, asked)
      PROVE  SerialIInv'
  BY <1>3, ReadStartKeeps
<1>4. CASE UNCHANGED serialVars
  BY <1>4 DEF serialVars, SerialIInv, SerialTypeOK, CopiesAlone, UnreadInRing, WaitsForBytes, Waits, Holder
<1> QED
  BY <1>1, <1>2, <1>3, <1>4 DEF SerialNext

(* SerialInOrder for every ring size, cap and number of readers: whatever
   bytes the interrupt writes between the steps of pcuart_read, and however
   the readers take turns, none gets anything but the oldest unread bytes. *)
THEOREM SerialReadsInOrder == SerialSpec => []SerialInOrder
<1>1. SerialIInv => SerialInOrder
  BY DEF SerialIInv, SerialInOrder
<1> QED
  BY <1>1, SerialInitIInv, SerialInductive, PTL DEF SerialSpec

(* SerialSleepsForBytes for every ring size, cap and number of readers: only a
   byte written between a test for an empty ring, in cbufm_wait or under the
   lock in cbufm_read, and the event_wait after it can find its reader off the
   CPU. *)
THEOREM SerialSleepsOnlyInWindow == SerialSpec => []SerialSleepsForBytes
<1>1. SerialIInv => SerialSleepsForBytes
  BY DEF SerialIInv, WaitsForBytes, Waits, SerialSleepsForBytes
<1> QED
  BY <1>1, SerialInitIInv, SerialInductive, PTL DEF SerialSpec

(***************************************************************************)
(* The key events.                                                         *)
(***************************************************************************)
Bytes == 0 .. 255
KeyEvent == Nat \X Bytes

(* The events the ring has room for; the pointers into it are even, and half
   of them is the number of an event. *)
Events == KB_SIZE \div 2

(* The events not yet read are in the ring from event l to event h. *)
KeysIn(cells, u, l, h) ==
  /\ Ahead(Events, l, h) = Len(u)
  /\ \A i \in 1 .. Len(u) : u[i] = <<cells[2 * Place(Events, l, i - 1)],
                                     cells[2 * Place(Events, l, i - 1) + 1]>>

KeyRingAt(l, h) ==
  /\ kb_ring.write_ptr = 2 * h /\ ttyk_current_ptr = 2 * l
  /\ ~kb_lapped => KeysIn(kb_ring.buffer, untyped, l, h)

KeyIInv ==
  /\ untyped \in Seq(KeyEvent) /\ ~mistyped
  /\ kb_ring.size = KB_SIZE
  /\ \E l, h \in 0 .. Events - 1 : KeyRingAt(l, h)

(* The keys input_loop repeats are bytes. *)
HeldIInv ==
  /\ pressed_keys \subseteq Bytes
  /\ looping \in [pc : {"asleep", "look", "append"}, key : Bytes]

(* The prefix 0xF0 is remembered until the key of the release comes. *)
PressedIInv ==
  /\ KeysFollowKeyboard
  /\ release <=> prefixed
  /\ down \subseteq Buttons

-----------------------------------------------------------------------------
LEMMA EvenRing == Events \in Nat \ {0} /\ KB_SIZE = 2 * Events
  BY SMT, KeyboardAssumption DEF Events

(* cbufm_write of an event at event h. *)
Wrote(ring, h, m, k, new) ==
  /\ new.size = KB_SIZE /\ new.write_ptr = 2 * Following(Events, h)
  /\ new.buffer[2 * h] = m /\ new.buffer[2 * h + 1] = k
  /\ \A j \in 0 .. Events - 1 : j # h =>
       new.buffer[2 * j] = ring.buffer[2 * j] /\ new.buffer[2 * j + 1] = ring.buffer[2 * j + 1]

LEMMA WriteEvent ==
  ASSUME NEW ring, ring.size = KB_SIZE, NEW h \in 0 .. Events - 1, ring.write_ptr = 2 * h,
         NEW m, NEW k, NEW new, new = cbufm_write(ring, <<m, k>>)
  PROVE  Wrote(ring, h, m, k, new)
<1> PICK M : M = Events
  OBVIOUS
<1>1. M \in Nat \ {0} /\ KB_SIZE = 2 * M /\ h \in 0 .. M - 1
  BY EvenRing
<1> DEFINE w == 2 * h
           Behind(i) == IF i < w THEN (2 * M - w) + i ELSE i - w
           two == <<m, k>>
<1>2. /\ Behind(2 * h) = 0 /\ Behind(2 * h + 1) = 1 /\ 0 < 2 /\ 1 < 2 /\ 0 + 1 = 1 /\ 1 + 1 = 2
      /\ \A j \in 0 .. M - 1 : j # h => ~(Behind(2 * j) < 2) /\ ~(Behind(2 * j + 1) < 2)
      /\ \A j \in 0 .. M - 1 : 2 * j \in 0 .. 2 * M - 1 /\ 2 * j + 1 \in 0 .. 2 * M - 1
      /\ (IF w + 2 >= 2 * M THEN (w + 2) - 2 * M ELSE w + 2) = 2 * Following(M, h)
  BY ONLY SMT, <1>1 DEF Following
<1>3. Len(two) = 2 /\ two[1] = m /\ two[2] = k
  BY ONLY SMT
<1> HIDE DEF two
<1>4. new = [size |-> ring.size,
             write_ptr |-> IF w + Len(two) >= 2 * M THEN (w + Len(two)) - 2 * M ELSE w + Len(two),
             buffer |-> [i \in 0 .. 2 * M - 1 |->
               IF Behind(i) < Len(two) THEN two[Behind(i) + 1] ELSE ring.buffer[i]]]
  BY <1>1 DEF cbufm_write, two
<1> HIDE DEF w, Behind
<1>5. new.size = KB_SIZE /\ new.write_ptr = 2 * Following(M, h)
  <2>1. new.size = ring.size /\ new.write_ptr = IF w + Len(two) >= 2 * M THEN (w + Len(two)) - 2 * M ELSE w + Len(two)
    BY ONLY Zenon, <1>4
  <2> QED
    BY <1>2, <1>3, <2>1
<1>6. \A i \in 0 .. 2 * M - 1 : new.buffer[i] = IF Behind(i) < 2 THEN two[Behind(i) + 1] ELSE ring.buffer[i]
  <2>1. new.buffer = [i \in 0 .. 2 * M - 1 |->
               IF Behind(i) < Len(two) THEN two[Behind(i) + 1] ELSE ring.buffer[i]]
    BY ONLY Zenon, <1>4
  <2> QED
    BY <1>3, <2>1
<1>7. new.buffer[2 * h] = m /\ new.buffer[2 * h + 1] = k
  <2>1. /\ new.buffer[2 * h] = IF Behind(2 * h) < 2 THEN two[Behind(2 * h) + 1] ELSE ring.buffer[2 * h]
        /\ new.buffer[2 * h + 1] = IF Behind(2 * h + 1) < 2 THEN two[Behind(2 * h + 1) + 1] ELSE ring.buffer[2 * h + 1]
    BY ONLY Zenon, <1>1, <1>2, <1>6
  <2> QED
    BY ONLY Zenon, <1>2, <1>3, <2>1
<1>8. \A j \in 0 .. M - 1 : j # h =>
       new.buffer[2 * j] = ring.buffer[2 * j] /\ new.buffer[2 * j + 1] = ring.buffer[2 * j + 1]
  BY <1>2, <1>6
<1> QED
  BY <1>5, <1>7, <1>8 DEF Wrote

(* An event that does not fill the ring is behind those not yet read. *)
LEMMA EventAppended ==
  ASSUME NEW ring, NEW l \in 0 .. Events - 1, NEW h \in 0 .. Events - 1,
         NEW u \in Seq(KeyEvent), KeysIn(ring.buffer, u, l, h), Len(u) + 1 # Events,
         NEW m, NEW k, NEW new, Wrote(ring, h, m, k, new), NEW v, v = Append(u, <<m, k>>)
  PROVE  KeysIn(new.buffer, v, l, Following(Events, h))
<1> PICK M, n : M = Events /\ n = Len(u)
  OBVIOUS
<1>1. M \in Nat \ {0} /\ l \in 0 .. M - 1 /\ h \in 0 .. M - 1 /\ n \in Nat /\ n + 1 # M /\ Ahead(M, l, h) = n
  <2>1. Len(u) \in Nat
    BY LenProperties
  <2> QED
    BY <2>1, EvenRing DEF KeysIn
<1>2. /\ Ahead(M, l, Following(M, h)) = n + 1 /\ Place(M, l, n) = h
      /\ \A i \in 0 .. n - 1 : Place(M, l, i) \in 0 .. M - 1 /\ Place(M, l, i) # h
  BY ONLY SMT, <1>1 DEF Following, Ahead, Place
<1>3. /\ Len(v) = n + 1 /\ v[n + 1] = <<m, k>>
      /\ \A i \in 1 .. n : v[i] = u[i]
  BY SMT
<1>4. /\ \A i \in 1 .. n : i - 1 \in 0 .. n - 1
      /\ \A i \in 1 .. n + 1 : i \in 1 .. n \/ i = n + 1
      /\ n + 1 - 1 = n
  BY ONLY SMT, <1>1
<1>5. ASSUME NEW i \in 1 .. n + 1
      PROVE  v[i] = <<new.buffer[2 * Place(M, l, i - 1)], new.buffer[2 * Place(M, l, i - 1) + 1]>>
  <2>1. CASE i \in 1 .. n
    <3>1. PICK p : p = Place(M, l, i - 1)
      OBVIOUS
    <3>2. p \in 0 .. M - 1 /\ p # h
      BY <1>2, <1>4, <2>1, <3>1
    <3>3. u[i] = <<ring.buffer[2 * p], ring.buffer[2 * p + 1]>>
      BY <2>1, <3>1 DEF KeysIn
    <3>4. new.buffer[2 * p] = ring.buffer[2 * p] /\ new.buffer[2 * p + 1] = ring.buffer[2 * p + 1]
      BY <3>2 DEF Wrote
    <3> QED
      BY <1>3, <2>1, <3>1, <3>3, <3>4
  <2>2. CASE i = n + 1
    <3>1. i - 1 = n
      BY ONLY SMT, <1>1, <2>2
    <3>2. Place(M, l, i - 1) = h
      BY <1>2, <3>1
    <3> QED
      BY <1>3, <2>2, <3>2 DEF Wrote
  <2> QED
    BY <1>4, <2>1, <2>2
<1> QED
  BY <1>2, <1>3, <1>5 DEF KeysIn

(* The first of the events not yet read is the one at ttyk_current_ptr. *)
FirstEvent(cells, u, l, h, v) ==
  /\ u # <<>> /\ Head(u) = <<cells[2 * l], cells[2 * l + 1]>> /\ v \in Seq(KeyEvent)
  /\ KeysIn(cells, v, Following(Events, l), h)

LEMMA EventRead ==
  ASSUME NEW cells, NEW l \in 0 .. Events - 1, NEW h \in 0 .. Events - 1,
         NEW u \in Seq(KeyEvent), KeysIn(cells, u, l, h), Ahead(Events, l, h) # 0, NEW v, v = Tail(u)
  PROVE  FirstEvent(cells, u, l, h, v)
<1> PICK M, n : M = Events /\ n = Len(u)
  OBVIOUS
<1>1. M \in Nat \ {0} /\ l \in 0 .. M - 1 /\ h \in 0 .. M - 1 /\ n \in Nat /\ n # 0 /\ Ahead(M, l, h) = n
  <2>1. Len(u) \in Nat
    BY LenProperties
  <2> QED
    BY <2>1, EvenRing DEF KeysIn
<1>2. /\ Ahead(M, Following(M, l), h) = n - 1 /\ Place(M, l, 1 - 1) = l
      /\ \A i \in 1 .. n - 1 : Place(M, Following(M, l), i - 1) = Place(M, l, (i + 1) - 1)
  BY ONLY SMT, <1>1 DEF Following, Ahead, Place
<1>3. /\ u # <<>> /\ Head(u) = u[1] /\ v \in Seq(KeyEvent) /\ Len(v) = n - 1
      /\ \A i \in 1 .. n - 1 : v[i] = u[i + 1]
  <2>1. u # <<>>
    BY ONLY SMT, <1>1, n = Len(u)
  <2> QED
    BY SMT, <1>1, <2>1
<1>4. 1 \in 1 .. n /\ \A i \in 1 .. n - 1 : i + 1 \in 1 .. n
  BY ONLY SMT, <1>1
<1>5. \A i \in 1 .. n : u[i] = <<cells[2 * Place(M, l, i - 1)], cells[2 * Place(M, l, i - 1) + 1]>>
  BY DEF KeysIn
<1>6. Head(u) = <<cells[2 * l], cells[2 * l + 1]>>
  BY <1>2, <1>3, <1>4, <1>5
<1>7. ASSUME NEW i \in 1 .. n - 1
      PROVE  v[i] = <<cells[2 * Place(M, Following(M, l), i - 1)], cells[2 * Place(M, Following(M, l), i - 1) + 1]>>
  BY <1>2, <1>3, <1>4, <1>5
<1> QED
  BY <1>2, <1>3, <1>6, <1>7 DEF KeysIn, FirstEvent

(* input_kb_get finds an event unless the reader is at the end. *)
Gets(ring, l, h, e) ==
  /\ Ahead(Events, l, h) = 0 => e.next = 2 * l
  /\ Ahead(Events, l, h) # 0 =>
       /\ e.next = 2 * Following(Events, l) /\ e.next # 2 * l
       /\ e.mod = ring.buffer[2 * l] /\ e.key = ring.buffer[2 * l + 1]

LEMMA GetEvent ==
  ASSUME kb_ring.size = KB_SIZE, NEW l \in 0 .. Events - 1, NEW h \in 0 .. Events - 1,
         kb_ring.write_ptr = 2 * h, NEW e, e = input_kb_get(2 * l)
  PROVE  Gets(kb_ring, l, h, e)
<1> PICK M : M = Events
  OBVIOUS
<1>1. M \in Nat \ {0} /\ KB_SIZE = 2 * M /\ l \in 0 .. M - 1 /\ h \in 0 .. M - 1
  BY EvenRing
<1>2. /\ (IF 2 * l = 2 * h THEN 0 ELSE IF 2 * l > 2 * h THEN (2 * M - 2 * l) + 2 * h ELSE 2 * h - 2 * l) < 2
           <=> Ahead(M, l, h) = 0
      /\ Ahead(M, l, h) # 0 => 2 * Following(M, l) # 2 * l
      /\ (IF 2 * l + 1 + 1 = 2 * M THEN 0 ELSE 2 * l + 1 + 1) = 2 * Following(M, l)
      /\ (2 * l + 1) + 1 - 1 = 2 * l + 1 /\ 2 * l + 1 - 1 = 2 * l /\ 1 \in 1 .. 1
  BY ONLY SMT, <1>1 DEF Ahead, Following
<1>3. cbufm_available(kb_ring, 2 * l) < 2 <=> Ahead(M, l, h) = 0
  BY <1>1, <1>2 DEF cbufm_available
<1>4. After(kb_ring, 2 * l + 1, 1) = 2 * Following(M, l)
  BY <1>1, <1>2 DEF After
<1>5. Chunk(kb_ring, 2 * l + 1, 1)[1] = kb_ring.buffer[2 * l + 1]
  BY <1>2 DEF Chunk
<1>6. Chunk(kb_ring, 2 * l, 1)[1] = kb_ring.buffer[2 * l]
  BY <1>2 DEF Chunk
<1>7. Ahead(M, l, h) = 0 => e.next = 2 * l
  BY <1>3 DEF input_kb_get
<1>8. Ahead(M, l, h) # 0 =>
       /\ e.next = 2 * Following(M, l)
       /\ e.mod = kb_ring.buffer[2 * l] /\ e.key = kb_ring.buffer[2 * l + 1]
  BY <1>3, <1>4, <1>5, <1>6 DEF input_kb_get
<1> QED
  BY <1>2, <1>7, <1>8 DEF Gets

-----------------------------------------------------------------------------
LEMMA EventsStay ==
  ASSUME KeyIInv, UNCHANGED <<kb_ring, untyped, kb_lapped, ttyk_current_ptr, mistyped>>
  PROVE  KeyIInv'
<1>1. kb_ring' = kb_ring /\ untyped' = untyped /\ (kb_lapped' <=> kb_lapped)
      /\ ttyk_current_ptr' = ttyk_current_ptr /\ ~mistyped'
  BY SMT DEF KeyIInv
<1>2. PICK l, h \in 0 .. Events - 1 : KeyRingAt(l, h)
  BY DEF KeyIInv
<1>3. KeyRingAt(l, h)'
  BY <1>1, <1>2 DEF KeyRingAt
<1> QED
  BY <1>1, <1>3 DEF KeyIInv

LEMMA FlagsByteNat == FlagsByte \in Nat
<1> PICK s, c, a : /\ s = IF "shift" \in input_flags THEN 1 ELSE 0
                   /\ c = IF "ctrl" \in input_flags THEN 2 ELSE 0
                   /\ a = IF "alt" \in input_flags THEN 4 ELSE 0
  OBVIOUS
<1>1. s \in Nat /\ c \in Nat /\ a \in Nat
  OBVIOUS
<1>2. FlagsByte = s + c + a
  BY DEF FlagsByte
<1> QED
  BY ONLY SMT, <1>1, <1>2

LEMMA AppendKeeps ==
  ASSUME KeyIInv, NEW k \in Bytes, append_key_event(k), UNCHANGED <<ttyk_current_ptr, mistyped>>
  PROVE  KeyIInv'
<1> PICK m : m = FlagsByte
  OBVIOUS
<1>0. ttyk_current_ptr' = ttyk_current_ptr /\ ~mistyped' /\ mistyped' = mistyped
  BY SMT DEF KeyIInv
<1>1. CASE UNCHANGED eventVars
  BY <1>0, <1>1, EventsStay DEF eventVars
<1>2. CASE /\ kb_ring' = cbufm_write(kb_ring, <<m, k>>)
           /\ kb_lapped' = (kb_lapped \/ 2 * (Len(untyped) + 1) = KB_SIZE)
           /\ untyped' = IF kb_lapped' THEN <<>> ELSE Append(untyped, <<m, k>>)
  <2>1. PICK l, h \in 0 .. Events - 1 : KeyRingAt(l, h)
    BY DEF KeyIInv
  <2>2. /\ kb_ring.size = KB_SIZE /\ kb_ring.write_ptr = 2 * h /\ ttyk_current_ptr = 2 * l
        /\ untyped \in Seq(KeyEvent) /\ ~mistyped
        /\ ~kb_lapped => KeysIn(kb_ring.buffer, untyped, l, h)
    BY <2>1 DEF KeyIInv, KeyRingAt
  <2>3. Wrote(kb_ring, h, m, k, kb_ring')
    BY <1>2, <2>2, WriteEvent
  <2>4. Following(Events, h) \in 0 .. Events - 1
    BY SMT, EvenRing DEF Following
  <2>5. <<m, k>> \in KeyEvent
    BY FlagsByteNat DEF KeyEvent
  <2>6. untyped' \in Seq(KeyEvent)
    <3>1. CASE kb_lapped'
      BY SMT, <1>2, <3>1
    <3>2. CASE ~kb_lapped'
      BY <1>2, <2>2, <2>5, <3>2, AppendProperties
    <3> QED
      BY <3>1, <3>2
  <2>7. ASSUME ~kb_lapped' PROVE KeysIn(kb_ring'.buffer, untyped', l, Following(Events, h))
    <3>1. ~kb_lapped /\ 2 * (Len(untyped) + 1) # KB_SIZE /\ untyped' = Append(untyped, <<m, k>>)
      BY <1>2, <2>7
    <3>2. Len(untyped) + 1 # Events
      BY <3>1, EvenRing
    <3> QED
      BY <2>2, <2>3, <3>1, <3>2, EventAppended
  <2>8. KeyRingAt(l, Following(Events, h))'
    BY <1>0, <2>2, <2>3, <2>7 DEF KeyRingAt, Wrote
  <2> QED
    BY <1>0, <2>2, <2>3, <2>4, <2>6, <2>8 DEF KeyIInv, Wrote
<1> QED
  BY <1>1, <1>2 DEF append_key_event

LEMMA ReadKeeps ==
  ASSUME KeyIInv, NEW f \in TtyFiles, ReadKeys(f)
  PROVE  KeyIInv'
<1>1. PICK l, h \in 0 .. Events - 1 : KeyRingAt(l, h)
  BY DEF KeyIInv
<1>2. /\ kb_ring.size = KB_SIZE /\ kb_ring.write_ptr = 2 * h /\ ttyk_current_ptr = 2 * l
      /\ untyped \in Seq(KeyEvent) /\ ~mistyped
      /\ ~kb_lapped => KeysIn(kb_ring.buffer, untyped, l, h)
  BY <1>1 DEF KeyIInv, KeyRingAt
<1>3. PICK e : e = input_kb_get(ttyk_current_ptr)
  OBVIOUS
<1>4. /\ ttyk_current_ptr' = e.next
      /\ kb_ring' = kb_ring /\ kb_lapped' = kb_lapped
      /\ e.next = ttyk_current_ptr => untyped' = untyped /\ mistyped' = mistyped
      /\ e.next # ttyk_current_ptr =>
           /\ untyped' = IF untyped = <<>> THEN <<>> ELSE Tail(untyped)
           /\ mistyped' = (mistyped \/
                (~kb_lapped /\ (untyped = <<>> \/ Head(untyped) # <<e.mod, e.key>>)))
  BY <1>3 DEF ReadKeys
<1>5. Gets(kb_ring, l, h, e)
  BY <1>2, <1>3, GetEvent
<1>6. CASE Ahead(Events, l, h) = 0
  <2>1. e.next = ttyk_current_ptr
    BY <1>2, <1>5, <1>6 DEF Gets
  <2> QED
    BY <1>2, <1>4, <2>1, EventsStay
<1>7. CASE Ahead(Events, l, h) # 0
  <2>1. /\ e.next = 2 * Following(Events, l) /\ e.next # ttyk_current_ptr
        /\ e.mod = kb_ring.buffer[2 * l] /\ e.key = kb_ring.buffer[2 * l + 1]
    BY <1>2, <1>5, <1>7 DEF Gets
  <2>2. Following(Events, l) \in 0 .. Events - 1
    BY SMT, EvenRing DEF Following
  <2>3. untyped' \in Seq(KeyEvent)
    <3>1. CASE untyped = <<>>
      BY <1>2, <1>4, <2>1, <3>1
    <3>2. CASE untyped # <<>>
      BY <1>2, <1>4, <2>1, <3>2, HeadTailProperties
    <3> QED
      BY <3>1, <3>2
  <2>4. ASSUME ~kb_lapped
        PROVE  ~mistyped' /\ KeysIn(kb_ring.buffer, untyped', Following(Events, l), h)
    <3>1. PICK v : v = Tail(untyped)
      OBVIOUS
    <3>2. FirstEvent(kb_ring.buffer, untyped, l, h, v)
      BY <1>2, <1>7, <2>4, <3>1, EventRead
    <3>3. untyped # <<>> /\ Head(untyped) = <<e.mod, e.key>> /\ KeysIn(kb_ring.buffer, v, Following(Events, l), h)
      BY <2>1, <3>2 DEF FirstEvent
    <3>4. untyped' = v
      BY <1>4, <2>1, <3>1, <3>3
    <3>5. ~mistyped'
      BY <1>2, <1>4, <2>1, <3>3
    <3> QED
      BY <3>3, <3>4, <3>5
  <2>5. ~mistyped'
    BY <1>2, <1>4, <2>1, <2>4
  <2>6. KeyRingAt(Following(Events, l), h)'
    BY <1>2, <1>4, <2>1, <2>4 DEF KeyRingAt
  <2> QED
    BY <1>2, <1>4, <2>2, <2>3, <2>5, <2>6 DEF KeyIInv
<1> QED
  BY <1>6, <1>7

(* A key that is pressed or released changes the modifiers, or appends. *)
LEMMA ScancodeKeeps ==
  ASSUME KeyIInv, NEW b \in Buttons, ps2kb_irq(sends[b]), UNCHANGED ttyVars
  PROVE  KeyIInv'
<1>0. ttyk_current_ptr' = ttyk_current_ptr /\ mistyped' = mistyped
  BY DEF ttyVars
<1>1. ASSUME UNCHANGED eventVars PROVE KeyIInv'
  BY <1>0, <1>1, EventsStay DEF eventVars
<1>2. translation[sends[b]] \in Bytes
  BY KeyboardAssumption DEF Bytes
<1>3. UNCHANGED eventVars \/ append_key_event(translation[sends[b]])
  BY DEF ps2kb_irq, input_kb_release, input_kb_press
<1> QED
  BY <1>0, <1>1, <1>2, <1>3, AppendKeeps

LEMMA HeldInductive == HeldIInv /\ [KeyboardNext]_kbVars => HeldIInv'
<1> SUFFICES ASSUME HeldIInv, [KeyboardNext]_kbVars PROVE HeldIInv'
  OBVIOUS
<1>1. ASSUME NEW b \in Buttons, KeyDown(b) \/ KeyUp(b) PROVE HeldIInv'
  <2>1. looping' = looping /\ ps2kb_irq(sends[b])
    BY <1>1 DEF KeyDown, KeyUp
  <2>2. translation[sends[b]] \in Bytes
    BY KeyboardAssumption DEF Bytes
  <2>3. pressed_keys' \subseteq pressed_keys \cup {translation[sends[b]]}
    BY <2>1 DEF ps2kb_irq, input_kb_release, input_kb_press, inputVars
  <2> QED
    BY <2>1, <2>2, <2>3 DEF HeldIInv
<1>2. ASSUME UNCHANGED <<looping, pressed_keys>> PROVE HeldIInv'
  BY <1>2 DEF HeldIInv
<1>3. CASE input_loop
  <2>1. PICK p \in {"asleep", "look"} : looping' = [looping EXCEPT !.pc = p]
    BY <1>3 DEF input_loop
  <2> QED
    BY <1>3, <2>1 DEF input_loop, HeldIInv
<1>4. CASE LookAtKey
  <2>1. CASE looping' = [looping EXCEPT !.pc = "asleep"]
    BY <1>4, <2>1 DEF LookAtKey, HeldIInv, inputVars
  <2>2. ASSUME NEW k \in pressed_keys, looping' = [pc |-> "append", key |-> k] PROVE HeldIInv'
    BY <1>4, <2>2 DEF LookAtKey, HeldIInv, inputVars
  <2> QED
    BY <1>4, <2>1, <2>2 DEF LookAtKey
<1>5. CASE RepeatKey
  <2>1. 0 \in Bytes
    BY SMT DEF Bytes
  <2> QED
    BY <1>5, <2>1 DEF RepeatKey, HeldIInv
<1>6. CASE KeyUpPrefix
  BY <1>2, <1>6 DEF KeyUpPrefix, inputVars
<1>7. ASSUME NEW f \in TtyFiles, NEW t \in Ttys, ttyk_open(f, t) PROVE HeldIInv'
  BY <1>2, <1>7 DEF ttyk_open, inputVars
<1>8. ASSUME NEW f \in TtyFiles,
             ttyk_close(f) \/ ttyk_read(f) \/ ReadInterrupted(f) \/ ReadTest(f) \/ ReadKeys(f)
      PROVE  HeldIInv'
  BY <1>2, <1>8 DEF ttyk_close, ttyk_read, ReadInterrupted, ReadTest, ReadKeys, inputVars
<1>9. CASE UNCHANGED kbVars
  BY <1>2, <1>9 DEF kbVars, inputVars
<1> QED
  BY <1>1, <1>3, <1>4, <1>5, <1>6, <1>7, <1>8, <1>9 DEF KeyboardNext

LEMMA KeyInductive == HeldIInv /\ KeyIInv /\ [KeyboardNext]_kbVars => KeyIInv'
<1> SUFFICES ASSUME HeldIInv, KeyIInv, [KeyboardNext]_kbVars PROVE KeyIInv'
  OBVIOUS
<1>1. ASSUME NEW b \in Buttons, KeyDown(b) \/ KeyUp(b) PROVE KeyIInv'
  BY <1>1, ScancodeKeeps DEF KeyDown, KeyUp
<1>2. CASE RepeatKey
  BY <1>2, AppendKeeps DEF RepeatKey, ttyVars, HeldIInv
<1>3. ASSUME NEW f \in TtyFiles, ReadKeys(f) PROVE KeyIInv'
  BY <1>3, ReadKeeps
<1>4. ASSUME UNCHANGED <<eventVars, ttyk_current_ptr, mistyped>> PROVE KeyIInv'
  BY <1>4, EventsStay DEF eventVars
<1>5. CASE KeyUpPrefix
  BY <1>4, <1>5 DEF KeyUpPrefix, ttyVars
<1>6. CASE input_loop
  BY <1>4, <1>6 DEF input_loop, ttyVars
<1>7. CASE LookAtKey
  BY <1>4, <1>7 DEF LookAtKey, ttyVars
<1>8. ASSUME NEW f \in TtyFiles, NEW t \in Ttys, ttyk_open(f, t) PROVE KeyIInv'
  BY <1>4, <1>8 DEF ttyk_open
<1>9. ASSUME NEW f \in TtyFiles, ttyk_close(f) PROVE KeyIInv'
  BY <1>4, <1>9 DEF ttyk_close
<1>10. ASSUME NEW f \in TtyFiles, ttyk_read(f) \/ ReadInterrupted(f) \/ ReadTest(f) PROVE KeyIInv'
  BY <1>4, <1>10 DEF ttyk_read, ReadInterrupted, ReadTest, ttyVars
<1>11. CASE UNCHANGED kbVars
  BY <1>4, <1>11 DEF kbVars, ttyVars
<1> QED
  BY <1>1, <1>2, <1>3, <1>5, <1>6, <1>7, <1>8, <1>9, <1>10, <1>11 DEF KeyboardNext

LEMMA KeyInitIInv == KeyboardInit => KeyIInv
<1> SUFFICES ASSUME KeyboardInit PROVE KeyIInv
  OBVIOUS
<1>1. kb_ring.size = KB_SIZE /\ kb_ring.write_ptr = 0 /\ ttyk_current_ptr = 0 /\ untyped = <<>>
  BY DEF KeyboardInit, cbufm_create
<1>2. /\ 0 \in 0 .. Events - 1 /\ 2 * 0 = 0 /\ <<>> \in Seq(KeyEvent)
      /\ Ahead(Events, 0, 0) = 0 /\ Len(<<>>) = 0 /\ 1 .. 0 = {}
  BY SMT, EvenRing DEF Ahead
<1>3. KeysIn(kb_ring.buffer, untyped, 0, 0)
  BY <1>1, <1>2 DEF KeysIn
<1>4. KeyRingAt(0, 0)
  BY <1>1, <1>2, <1>3 DEF KeyRingAt
<1> QED
  BY <1>1, <1>2, <1>4 DEF KeyIInv, KeyboardInit

(* For every ring a whole number of events fits in, any number of terminals
   and of files that open them, the readers get the key events of ps2kb_irq
   and input_loop in order, each once and with its modifiers, until the ring
   is lapped. *)
THEOREM KeysReadInOrder == KeyboardSpec => []KeysInOrder
<1>1. KeyIInv => KeysInOrder
  BY DEF KeyIInv, KeysInOrder
<1>2. KeyboardInit => HeldIInv
  <2>1. 0 \in Bytes
    BY SMT DEF Bytes
  <2>2. [pc |-> "asleep", key |-> 0] \in [pc : {"asleep", "look", "append"}, key : Bytes]
    BY <2>1
  <2> QED
    BY Zenon, <2>2 DEF KeyboardInit, HeldIInv
<1> QED
  BY <1>1, <1>2, KeyInitIInv, KeyInductive, HeldInductive, PTL DEF KeyboardSpec

-----------------------------------------------------------------------------
(* KeysFollowKeyboard, clause by clause. *)
OnlySender(b) == \A a \in Buttons : sends[a] = sends[b] => a = b
OnlyKey(b) == \A a \in Buttons : Key(a) = Key(b) => a = b
OnlyFlag(b, f) == \A a \in Buttons : f \in Flags(Key(a)) => a = b

NothingStuck(p, k, f, d) ==
  /\ \A c \in p : \E b \in d : sends[b] = c
  /\ \A j \in k : Flags(j) = {} /\ \E b \in d : Key(b) = j
  /\ \A g \in f : \E b \in d : g \in Flags(Key(b))

Believed(b, p, k, f) ==
  /\ OnlySender(b) => sends[b] \in p
  /\ OnlyKey(b) /\ Flags(Key(b)) = {} => Key(b) \in k
  /\ \A g \in Flags(Key(b)) : OnlyFlag(b, g) => g \in f

LEMMA FollowClauses ==
  KeysFollowKeyboard <=> /\ NothingStuck(ps2_pressed, pressed_keys, input_flags, down)
                         /\ \A b \in down : Believed(b, ps2_pressed, pressed_keys, input_flags)
  BY Zenon DEF KeysFollowKeyboard, NothingStuck, Believed, OnlySender, OnlyKey, OnlyFlag

LEMMA FollowClausesNext ==
  (KeysFollowKeyboard <=> /\ NothingStuck(ps2_pressed, pressed_keys, input_flags, down)
                          /\ \A b \in down : Believed(b, ps2_pressed, pressed_keys, input_flags))'
  BY FollowClauses, PTL

LEMMA PressKeeps ==
  ASSUME PressedIInv, NEW b \in Buttons, KeyDown(b)
  PROVE  PressedIInv'
<1>1. /\ ~prefixed /\ ~release /\ down' = down \cup {b} /\ prefixed' = prefixed /\ release' = FALSE
      /\ ps2kb_irq(sends[b]) /\ down \subseteq Buttons
  BY DEF KeyDown, ps2kb_irq, PressedIInv
<1> PICK P, K, F : P = ps2_pressed /\ K = pressed_keys /\ F = input_flags
  OBVIOUS
<1>2. NothingStuck(P, K, F, down) /\ \A a \in down : Believed(a, P, K, F)
  BY FollowClauses DEF PressedIInv
<1>3. CASE sends[b] \in P
  <2>1. ps2_pressed' = P /\ pressed_keys' = K /\ input_flags' = F
    BY <1>1, <1>3 DEF ps2kb_irq, inputVars
  <2>2. NothingStuck(P, K, F, down')
    BY <1>1, <1>2 DEF NothingStuck
  <2>3. PICK a \in down : sends[a] = sends[b]
    BY <1>2, <1>3 DEF NothingStuck
  <2>4. a \in Buttons /\ Key(a) = Key(b)
    BY <1>1, <2>3 DEF Key
  <2>5. OnlySender(b) \/ OnlyKey(b) \/ (\E g \in Flags(Key(b)) : OnlyFlag(b, g)) => b \in down
    BY <2>3, <2>4 DEF OnlySender, OnlyKey, OnlyFlag
  <2>6. Believed(b, P, K, F)
    BY <1>2, <1>3, <2>5 DEF Believed
  <2> QED
    BY <1>1, <1>2, <2>1, <2>2, <2>6, FollowClausesNext DEF PressedIInv
<1>4. CASE sends[b] \notin P
  <2>1. ps2_pressed' = P \cup {sends[b]} /\ input_kb_press(Key(b))
    BY <1>1, <1>4 DEF ps2kb_irq, Key
  <2>2. /\ pressed_keys' = K \cup (IF Flags(Key(b)) = {} THEN {Key(b)} ELSE {})
        /\ input_flags' = F \cup Flags(Key(b))
    BY <2>1 DEF input_kb_press
  <2>3. NothingStuck(ps2_pressed', pressed_keys', input_flags', down')
    BY <1>1, <1>2, <2>1, <2>2 DEF NothingStuck
  <2>4. ASSUME NEW a \in down' PROVE Believed(a, ps2_pressed', pressed_keys', input_flags')
    BY <1>1, <1>2, <2>1, <2>2 DEF Believed
  <2> QED
    BY <1>1, <2>3, <2>4, FollowClausesNext DEF PressedIInv
<1> QED
  BY <1>3, <1>4

LEMMA ReleaseKeeps ==
  ASSUME PressedIInv, NEW b \in Buttons, KeyUp(b)
  PROVE  PressedIInv'
<1>1. /\ release /\ b \in down /\ down' = down \ {b} /\ prefixed' = FALSE /\ release' = FALSE
      /\ ps2_pressed' = ps2_pressed \ {sends[b]} /\ input_kb_release(Key(b)) /\ down \subseteq Buttons
  BY DEF KeyUp, ps2kb_irq, PressedIInv, Key
<1> PICK P, K, F : P = ps2_pressed /\ K = pressed_keys /\ F = input_flags
  OBVIOUS
<1>2. NothingStuck(P, K, F, down) /\ \A a \in down : Believed(a, P, K, F)
  BY FollowClauses DEF PressedIInv
<1>3. /\ pressed_keys' = K \ (IF Flags(Key(b)) = {} THEN {Key(b)} ELSE {})
      /\ input_flags' = F \ Flags(Key(b))
  BY <1>1 DEF input_kb_release
<1>4. NothingStuck(ps2_pressed', pressed_keys', input_flags', down')
  BY <1>1, <1>2, <1>3 DEF NothingStuck
<1>5. ASSUME NEW a \in down' PROVE Believed(a, ps2_pressed', pressed_keys', input_flags')
  <2>1. a \in down /\ a # b /\ Believed(a, P, K, F)
    BY <1>1, <1>2
  <2>2. OnlySender(a) => sends[a] \in ps2_pressed'
    BY <1>1, <2>1 DEF Believed, OnlySender
  <2>3. OnlyKey(a) /\ Flags(Key(a)) = {} => Key(a) \in pressed_keys'
    BY <1>1, <1>3, <2>1 DEF Believed, OnlyKey
  <2>4. \A g \in Flags(Key(a)) : OnlyFlag(a, g) => g \in input_flags'
    BY <1>1, <1>3, <2>1 DEF Believed, OnlyFlag
  <2> QED
    BY <2>2, <2>3, <2>4 DEF Believed
<1> QED
  BY <1>1, <1>4, <1>5, FollowClausesNext DEF PressedIInv

LEMMA PressedInductive == PressedIInv /\ [KeyboardNext]_kbVars => PressedIInv'
<1> SUFFICES ASSUME PressedIInv, [KeyboardNext]_kbVars PROVE PressedIInv'
  OBVIOUS
<1>1. ASSUME NEW b \in Buttons, KeyDown(b) PROVE PressedIInv'
  BY <1>1, PressKeeps
<1>2. ASSUME NEW b \in Buttons, KeyUp(b) PROVE PressedIInv'
  BY <1>2, ReleaseKeeps
<1>3. ASSUME UNCHANGED <<ps2_pressed, down, input_flags, pressed_keys>> PROVE KeysFollowKeyboard'
  BY <1>3, FollowClauses, FollowClausesNext DEF PressedIInv
<1>4. ASSUME UNCHANGED <<ps2Vars, input_flags, pressed_keys>> PROVE PressedIInv'
  BY <1>3, <1>4 DEF ps2Vars, PressedIInv
<1>5. CASE KeyUpPrefix
  BY <1>3, <1>5 DEF KeyUpPrefix, inputVars, PressedIInv
<1>6. CASE input_loop
  BY <1>4, <1>6 DEF input_loop
<1>7. CASE LookAtKey
  BY <1>4, <1>7 DEF LookAtKey, inputVars
<1>8. CASE RepeatKey
  BY <1>4, <1>8 DEF RepeatKey
<1>9. ASSUME NEW f \in TtyFiles, NEW t \in Ttys, ttyk_open(f, t) PROVE PressedIInv'
  BY <1>4, <1>9 DEF ttyk_open, inputVars
<1>10. ASSUME NEW f \in TtyFiles,
              ttyk_close(f) \/ ttyk_read(f) \/ ReadInterrupted(f) \/ ReadTest(f) \/ ReadKeys(f)
       PROVE  PressedIInv'
  BY <1>4, <1>10 DEF ttyk_close, ttyk_read, ReadInterrupted, ReadTest, ReadKeys, inputVars
<1>11. CASE UNCHANGED kbVars
  BY <1>4, <1>11 DEF kbVars, inputVars
<1> QED
  BY <1>1, <1>2, <1>5, <1>6, <1>7, <1>8, <1>9, <1>10, <1>11 DEF KeyboardNext

(* For every keyboard, whichever of its buttons share a scancode, and every
   table, whichever scancodes share a key or a modifier: ps2.c and input.c
   never believe something held that no button holds, and never lose what one
   button alone holds, however the scancodes fall between the passes of
   input_loop and the readers. *)
THEOREM KeysAlwaysFollow == KeyboardSpec => []KeysFollowKeyboard
<1>1. KeyboardInit => PressedIInv
  BY DEF KeyboardInit, PressedIInv, KeysFollowKeyboard
<1>2. PressedIInv => KeysFollowKeyboard
  BY DEF PressedIInv
<1> QED
  BY <1>1, <1>2, PressedInductive, PTL DEF KeyboardSpec
=============================================================================
