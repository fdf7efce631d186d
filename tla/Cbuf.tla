-------------------------------- MODULE Cbuf --------------------------------
(***************************************************************************)
(* The blocking ring buffer of kernel/cbuf.c.  One iteration of the loop   *)
(* of cbuf_read or cbuf_write runs under the buffer's lock, from the       *)
(* computation of `possible' to the trigger of the event or to the wait on *)
(* it, so it is one step; other threads run between the iterations.  A     *)
(* thread that waits is queued and BLOCKED at once (event_wait, modelled   *)
(* in EventWait) and runs again after an event_trigger_all.                *)
(***************************************************************************)
EXTENDS Integers, Sequences

CONSTANTS Readers, Writers,  \* the threads that call cbuf_read, cbuf_write
          Pollers,           \* the readers that also call cbuf_available
          Values,            \* the bytes
          Size,              \* cbuf.size
          MaxLen             \* bound on the len of a call

Threads == Readers \cup Writers
Cells   == 0 .. Size - 1
None    == -1

ASSUME CbufAssumption ==
  /\ Readers \cap Writers = {}
  /\ Pollers \subseteq Readers
  /\ Values # {}
  /\ Size \in Nat \ {0}
  /\ MaxLen \in Nat \ {0}

VARIABLES
  buffer, read_ptr, write_ptr,  \* the fields of cbuf
  waiting,  \* the threads blocked on cbuf.event
  len,      \* what is left of each thread's call; 0 between calls
  got,      \* the bytes a reader's last iteration copied out
  rp,       \* cbuf_available's local: the read_ptr it saw, or None
  avail     \* what is left of what cbuf_available last told a reader

cbufVars == <<buffer, read_ptr, write_ptr>>
vars == <<cbufVars, waiting, len, got, rp, avail>>

-----------------------------------------------------------------------------
(* cbuf_create: kmalloc leaves the buffer with any content. *)
Init ==
  /\ buffer \in [Cells -> Values]
  /\ read_ptr = 0 /\ write_ptr = 0
  /\ waiting = {}
  /\ len = [t \in Threads |-> 0]
  /\ got = [r \in Readers |-> <<>>]
  /\ rp = [r \in Readers |-> None]
  /\ avail = [r \in Readers |-> 0]

Least(a, b) == IF a > b THEN b ELSE a

Wrap(p) == IF p = Size THEN 0 ELSE p

Call(t, n) ==
  /\ len[t] = 0
  /\ t \in Readers => rp[t] = None
  /\ len' = [len EXCEPT ![t] = n]
  /\ UNCHANGED <<cbufVars, waiting, got, rp, avail>>

(* The thread is in the loop of its call and about to take the lock. *)
InLoop(t) == len[t] > 0 /\ t \notin waiting

ReadPossible(t) ==
  LET w_off == IF write_ptr < read_ptr THEN write_ptr + Size ELSE write_ptr
  IN  Least(Least(Size - read_ptr, w_off - read_ptr), len[t])

(* Mutant of WritePossible: no byte is kept free to tell full from empty. *)
write_fills_all(t) ==
  LET r_off == IF read_ptr <= write_ptr THEN read_ptr + Size ELSE read_ptr
  IN  Least(Least(Size - write_ptr, r_off - write_ptr), len[t])

WritePossible(t) ==
  LET r_off == IF read_ptr <= write_ptr THEN read_ptr + Size ELSE read_ptr
  IN  Least(Least(Size - write_ptr, (r_off - 1) - write_ptr), len[t])

(* possible == 0: event_wait, release, yield, and round the loop again. *)
WaitForEvent(t) ==
  /\ InLoop(t)
  /\ (IF t \in Readers THEN ReadPossible(t) ELSE WritePossible(t)) = 0
  /\ waiting' = waiting \cup {t}
  /\ UNCHANGED <<cbufVars, len, got, rp, avail>>

(* Mutant of Transferred: what was moved is not taken off len. *)
transferred_keeps_len(t, n) ==
  /\ waiting' = {}
  /\ UNCHANGED len

(* The end of an iteration that moved n bytes: event_trigger_all. *)
Transferred(t, n) ==
  /\ len' = [len EXCEPT ![t] = @ - n]
  /\ waiting' = {}

cbuf_read(t) ==
  /\ InLoop(t)
  /\ ReadPossible(t) > 0
  /\ LET n == ReadPossible(t)
     IN  /\ got' = [got EXCEPT ![t] = [i \in 1 .. n |-> buffer[read_ptr + i - 1]]]
         /\ read_ptr' = Wrap(read_ptr + n)
         /\ avail' = [avail EXCEPT ![t] = IF @ > n THEN @ - n ELSE 0]
         /\ Transferred(t, n)
  /\ UNCHANGED <<buffer, write_ptr, rp>>

(* Stored(data, n): the buffer after memcpy of n bytes to write_ptr. *)
Stored(data, n) ==
  [c \in Cells |-> IF c >= write_ptr /\ c < write_ptr + n
                   THEN data[c - write_ptr + 1] ELSE buffer[c]]

(* The caller's bytes are any bytes. *)
cbuf_write(t) ==
  /\ InLoop(t)
  /\ WritePossible(t) > 0
  /\ LET n == WritePossible(t)
     IN  /\ \E data \in [1 .. n -> Values] : buffer' = Stored(data, n)
         /\ write_ptr' = Wrap(write_ptr + n)
         /\ Transferred(t, n)
  /\ UNCHANGED <<read_ptr, got, rp, avail>>

(* cbuf_available takes no lock: it reads read_ptr, then write_ptr. *)
AvailableReadPtr(t) ==
  /\ len[t] = 0 /\ rp[t] = None
  /\ rp' = [rp EXCEPT ![t] = read_ptr]
  /\ UNCHANGED <<cbufVars, waiting, len, got, avail>>

Distance(from, to) ==
  IF from > to THEN (Size - from) + to ELSE to - from

cbuf_available(t) ==
  /\ rp[t] # None
  /\ avail' = [avail EXCEPT ![t] = Distance(rp[t], write_ptr)]
  /\ rp' = [rp EXCEPT ![t] = None]
  /\ UNCHANGED <<cbufVars, waiting, len, got>>

Step(t) ==
  \/ WaitForEvent(t)
  \/ t \in Readers /\ cbuf_read(t)
  \/ t \in Writers /\ cbuf_write(t)

Next ==
  \/ \E t \in Threads, n \in 1 .. MaxLen : Call(t, n)
  \/ \E t \in Threads : Step(t)
  \/ \E t \in Pollers : AvailableReadPtr(t) \/ cbuf_available(t)

Spec == Init /\ [][Next]_vars

(* A thread that is not blocked is run again and again (Sched). *)
FairSpec == Spec /\ \A t \in Threads : WF_vars(Step(t))

-----------------------------------------------------------------------------
(* The bytes written and not yet read, oldest first. *)
Used == Distance(read_ptr, write_ptr)

Cell(i) ==
  IF read_ptr + i - 1 < Size THEN read_ptr + i - 1 ELSE read_ptr + i - 1 - Size

Contents == [i \in 1 .. Used |-> buffer[Cell(i)]]

Chunks == UNION {[1 .. n -> Values] : n \in 0 .. Size}

(* Both pointers stay inside the buffer and every variable keeps its type. *)
TypeOK ==
  /\ buffer \in [Cells -> Values]
  /\ read_ptr \in Cells /\ write_ptr \in Cells
  /\ waiting \subseteq Threads
  /\ len \in [Threads -> 0 .. MaxLen]
  /\ got \in [Readers -> Chunks]
  /\ rp \in [Readers -> Cells \cup {None}]
  /\ avail \in [Readers -> Nat]

(* A thread blocked on the event has no reason not to be: a blocked reader
   means the buffer is empty, a blocked writer that it is full.  This is what
   the wait under the lock and the trigger of everybody after each transfer
   are for. *)
BlockedForReason ==
  \A t \in waiting :
    /\ len[t] > 0
    /\ t \in Readers => Used = 0
    /\ t \in Writers => Used = Size - 1

Fifo == INSTANCE BoundedFifo WITH q <- Contents, Capacity <- Size - 1

(* The ring implements a pipe: through wrapping, partial transfers and any
   number of threads, readers get the bytes written, in order, once. *)
ImplementsFifo == Fifo!Spec

(* What cbuf_available told the buffer's only reader can be read without
   blocking, although it looked at the two pointers without the lock. *)
AvailableIsReadable == \A r \in Readers : avail[r] <= Used

(* When a reader and a writer both want something, one of their calls ends:
   they never wait for each other. *)
TransferEnds ==
  \A r \in Readers, w \in Writers :
    (len[r] > 0 /\ len[w] > 0) ~> (len[r] = 0 \/ len[w] = 0)
=============================================================================
