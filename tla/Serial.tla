------------------------------- MODULE Serial -------------------------------
(***************************************************************************)
(* A serial port (arch/x64/pcuart/pcuart.c): its interrupt writes each     *)
(* received byte to a ring (Cbufm) that the readers of the port share,     *)
(* with the place they have read up to.  The interrupt may come between    *)
(* any two steps of a reader; while a reader holds the read lock no other  *)
(* thread runs.  A reader of an exhausted ring that holds the lock joins   *)
(* the event's queue and is BLOCKED, but cannot yield: it goes on, turn by *)
(* turn, until a byte comes.  One CPU; no thread is killed here.           *)
(***************************************************************************)
EXTENDS Integers, Sequences, Cbufm

CONSTANTS SerialReaders,
          SerialBytes,   \* the bytes that arrive
          SERIAL_SIZE,   \* the ring's size: 256
          SERIAL_CAP,    \* the most a read returns: 64
          SerialAsked    \* the lens a reader asks for

ASSUME SerialAssumption ==
  SERIAL_SIZE \in Nat \ {0} /\ SERIAL_CAP \in Nat /\ SerialAsked \subseteq Nat

VARIABLES
  pcuart_buffer, pcuart_last,
  readers,   \* each reader's pc, len, start, what is left to read, and
             \* whether it is RUNNABLE ("on"), BLOCKED with the CPU
             \* ("marked"), or BLOCKED without ("off")
  unread,    \* ghost: the bytes received and not yet read, each with the
             \* readers that were about to sleep when it came
  lapped,    \* ghost: a full turn was written past the readers' place, or
             \* past the place a reader waits at
  misheard   \* ghost: a reader got other bytes than the oldest ones

serialVars == <<pcuart_buffer, pcuart_last, readers, unread, lapped, misheard>>

IdleReader == [pc |-> "idle", len |-> 0, start |-> 0, left |-> 0, run |-> "on"]

SerialInit ==
  /\ pcuart_buffer = cbufm_create(SERIAL_SIZE, 0)
  /\ pcuart_last = 0
  /\ readers = [r \in SerialReaders |-> IdleReader]
  /\ unread = <<>> /\ lapped = FALSE /\ misheard = FALSE

Holder(r) == readers[r].pc \in {"copy", "empty", "release"}

(* Nobody runs beside one that holds the lock or has to leave the CPU first. *)
AtPc(r, pc) ==
  /\ readers[r].pc = pc /\ readers[r].run # "off"
  /\ \A q \in SerialReaders \ {r} : ~Holder(q) /\ readers[q].run # "marked"

-----------------------------------------------------------------------------
(* pcuart_0_2_irq, for one byte: DEL is stored as a backspace.  The write
   wakes the readers in the queue of the ring's event. *)
Translated(c) == IF c = 127 THEN 8 ELSE c

Laps ==
  \/ Len(unread) + 1 = SERIAL_SIZE
  \/ \E r \in SerialReaders : /\ readers[r].pc \in {"wait", "event"}
                              /\ After(pcuart_buffer, pcuart_buffer.write_ptr, 1)
                                   = readers[r].start

(* Those who found the ring empty and are not in the queue yet. *)
Missing == {r \in SerialReaders : readers[r].pc \in {"event", "empty"}}

irq_no_trigger(c) ==
  /\ pcuart_buffer' = cbufm_write(pcuart_buffer, <<Translated(c)>>)
  /\ lapped' = (lapped \/ Laps)
  /\ unread' = IF lapped' THEN <<>>
             ELSE Append(unread, [byte |-> Translated(c), missed |-> Missing])
  /\ UNCHANGED <<readers, pcuart_last, misheard>>

pcuart_irq(c) ==
  /\ pcuart_buffer' = cbufm_write(pcuart_buffer, <<Translated(c)>>)
  /\ readers' = [r \in SerialReaders |->
                   [readers[r] EXCEPT !.run = "on"]]
  /\ lapped' = (lapped \/ Laps)
  /\ unread' = IF lapped' THEN <<>>
             ELSE Append(unread, [byte |-> Translated(c), missed |-> Missing])
  /\ UNCHANGED <<pcuart_last, misheard>>

-----------------------------------------------------------------------------
Becomes(r, state) ==
  /\ readers' = [readers EXCEPT ![r] = state]
  /\ UNCHANGED <<pcuart_buffer, unread, lapped, misheard>>

pcuart_read(r, len) ==
  /\ AtPc(r, "idle")
  /\ Becomes(r, [readers[r] EXCEPT !.pc = "check",
                   !.len = IF len > SERIAL_CAP THEN SERIAL_CAP ELSE len])
  /\ UNCHANGED pcuart_last

(* The loop before the lock is taken. *)
ReadCheck(r) ==
  /\ AtPc(r, "check")
  /\ Becomes(r, IF cbufm_available(pcuart_buffer, pcuart_last) < readers[r].len
                THEN [readers[r] EXCEPT !.pc = "wait", !.start = pcuart_last]
                ELSE [readers[r] EXCEPT !.pc = "lock", !.start = 0])
  /\ UNCHANGED pcuart_last

(* cbufm_wait: the test, then event_wait; a byte in between wakes nobody. *)
cbufm_wait(r) ==
  /\ \/ /\ AtPc(r, "wait")
        /\ Becomes(r, [readers[r] EXCEPT !.pc =
             IF cbufm_available(pcuart_buffer, readers[r].start) = 0 THEN "event" ELSE "check"])
     \/ /\ AtPc(r, "event")
        /\ Becomes(r, [readers[r] EXCEPT !.pc = "wait", !.run = "off"])
  /\ UNCHANGED pcuart_last

ReadLock(r) ==
  /\ AtPc(r, "lock")
  /\ Becomes(r, [readers[r] EXCEPT !.pc = IF readers[r].len = 0 THEN "release" ELSE "copy",
                                   !.start = pcuart_last, !.left = readers[r].len])
  /\ UNCHANGED pcuart_last

(* An iteration of cbufm_read that finds nothing: the test, then event_wait,
   which does not yield under the lock. *)
ReadNothing(r) ==
  /\ \/ /\ AtPc(r, "copy")
        /\ Possible(pcuart_buffer, readers[r].start, readers[r].left) = 0
        /\ Becomes(r, [readers[r] EXCEPT !.pc = "empty"])
     \/ /\ AtPc(r, "empty")
        /\ Becomes(r, [readers[r] EXCEPT !.pc = "copy", !.run = "marked"])
  /\ UNCHANGED pcuart_last

(* One that copies. *)
cbufm_read(r) ==
  /\ AtPc(r, "copy")
  /\ LET me == readers[r]
         n  == Possible(pcuart_buffer, me.start, me.left)
         k  == IF n < Len(unread) THEN n ELSE Len(unread)
     IN
     /\ n > 0
     /\ readers' = [readers EXCEPT ![r] =
          [me EXCEPT !.left = @ - n, !.start = After(pcuart_buffer, @, n),
                     !.pc = IF n = me.left THEN "release" ELSE "copy"]]
     /\ misheard' = (misheard \/ (~lapped /\ (n # k \/ Chunk(pcuart_buffer, me.start, n)
                                      # [i \in 1 .. n |-> unread[i].byte])))
     /\ unread' = SubSeq(unread, k + 1, Len(unread))
  /\ UNCHANGED <<pcuart_buffer, pcuart_last, lapped>>

ReadRelease(r) ==
  /\ AtPc(r, "release")
  /\ pcuart_last' = readers[r].start
  /\ Becomes(r, [IdleReader EXCEPT !.run = readers[r].run])

(* task_reshed_irq, or the yield that the release of the lock makes up for: a
   BLOCKED reader loses the CPU, whatever it has gone on to do. *)
SwitchOff(r) ==
  /\ readers[r].run = "marked" /\ ~Holder(r)
  /\ Becomes(r, [readers[r] EXCEPT !.run = "off"])
  /\ UNCHANGED pcuart_last

SerialReader(r) ==
  \/ ReadCheck(r) \/ cbufm_wait(r) \/ ReadLock(r)
  \/ ReadNothing(r) \/ cbufm_read(r) \/ ReadRelease(r) \/ SwitchOff(r)

SerialNext ==
  \/ \E c \in SerialBytes : pcuart_irq(c)
  \/ \E r \in SerialReaders : SerialReader(r)
  \/ \E r \in SerialReaders, len \in SerialAsked : pcuart_read(r, len)

SerialSpec == SerialInit /\ [][SerialNext]_serialVars

-----------------------------------------------------------------------------
(* Unless the ring was lapped, the readers of a port together get the bytes
   it received, DEL as a backspace, in order, none lost and none twice:
   whatever the bytes, the readers and the ring's wrap do between the test
   outside the lock and the copy. *)
SerialInOrder == ~misheard

(* A byte that comes between the test for an empty ring and event_wait wakes
   nobody, and the reader sleeps over it until the next one: at once in
   cbufm_wait; in cbufm_read, which the lock keeps on the CPU, after the read
   that takes what it asked for, wherever the reader is by then.  These windows
   are the only ways to sleep over a byte: a reader off the CPU has missed each
   unread byte in one of them. *)
SerialSleepsForBytes ==
  ~lapped => \A r \in SerialReaders : readers[r].run = "off"
               => \A i \in 1 .. Len(unread) : r \in unread[i].missed
=============================================================================
