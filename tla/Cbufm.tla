------------------------------- MODULE Cbufm -------------------------------
(***************************************************************************)
(* The broadcast ring of kernel/cbufm.c, as operators on a ring: a size, a *)
(* write_ptr and a buffer.  A write never waits, every reader keeps its    *)
(* own place.  cbufm_write holds the ring's lock, and cbufm_available and  *)
(* an iteration of cbufm_read only wait for it: an interrupt may write     *)
(* between an iteration's test and its copy, which changes nothing of the  *)
(* cells tested unless the reader is lapped.  Keyboard and Serial are its  *)
(* users.                                                                  *)
(***************************************************************************)
EXTENDS Integers, Sequences

cbufm_create(size, filler) ==
  [size |-> size, write_ptr |-> 0, buffer |-> [i \in 0 .. size - 1 |-> filler]]

cbufm_available(ring, start) ==
  IF start = ring.write_ptr THEN 0
  ELSE IF start > ring.write_ptr THEN (ring.size - start) + ring.write_ptr
  ELSE ring.write_ptr - start

(* The bytes an iteration of cbufm_read copies: up to the end of the buffer,
   to the write_ptr, and to what is left to read. *)
possible_ignores_writer(ring, start, len) ==
  IF ring.size - start > len THEN len ELSE ring.size - start

Possible(ring, start, len) ==
  LET w_off == IF ring.write_ptr < start THEN ring.write_ptr + ring.size
                                         ELSE ring.write_ptr
      toEnd == ring.size - start
      fresh == IF toEnd > w_off - start THEN w_off - start ELSE toEnd
  IN  IF fresh > len THEN len ELSE fresh

Chunk(ring, start, n) == [i \in 1 .. n |-> ring.buffer[start + i - 1]]

After(ring, start, n) == IF start + n = ring.size THEN 0 ELSE start + n

(* No more bytes than the ring has cells go to the cells from write_ptr on,
   in runs up to the end of the buffer. *)
cbufm_write(ring, bytes) ==
  LET end == ring.write_ptr + Len(bytes)
      Behind(i) == IF i < ring.write_ptr THEN (ring.size - ring.write_ptr) + i
                                         ELSE i - ring.write_ptr
  IN  [size |-> ring.size,
       write_ptr |-> IF end >= ring.size THEN end - ring.size ELSE end,
       buffer |-> [i \in 0 .. ring.size - 1 |->
         IF Behind(i) < Len(bytes) THEN bytes[Behind(i) + 1] ELSE ring.buffer[i]]]
=============================================================================
