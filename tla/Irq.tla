-------------------------------- MODULE Irq --------------------------------
(***************************************************************************)
(* Interrupts (sys/irq.c and irq_handler of arch/x64/irqc.c).  The handler *)
(* of an interrupt line runs with interrupts off, so irq_enqueue is one    *)
(* step: it calls the line's immediate functions, puts its number in a     *)
(* ring and makes worker 1 runnable (irq_worker_to_use never moves).  The  *)
(* workers are threads that share irq_last, the place they have read up    *)
(* to.  A simplock does not hold off the scheduler, so every statement of  *)
(* a worker that touches shared state is a step.  The ring may be overrun: *)
(* a full turn makes it look empty.  What the drivers' functions do is     *)
(* modelled with the drivers (Keyboard, Serial).                           *)
(***************************************************************************)
EXTENDS Integers, Sequences

CONSTANTS IrqWorkers,  \* IRQ_WORKER_AMOUNT
          IrqLines,
          IRQQ_SIZE    \* sizeof(irqq.buffer)

ASSUME IrqAssumption == IrqWorkers \in Nat \ {0} /\ IRQQ_SIZE \in Nat \ {0}

VARIABLES
  irqq,      \* the ring: write_ptr and buffer
  irq_last,  \* the static of irq_worker
  irq_lock,  \* the worker that holds irq_worker_spinlock, or 0
  workers,   \* each worker's pc, whether it is BLOCKED, and its locals
  pending,   \* ghost: the lines enqueued and not yet read, each with whether
             \* worker 1 was about to block
  overrun,   \* ghost: a full turn was written past irq_last, or past the
             \* place worker 1 waits at
  misread    \* ghost: a worker read another line than the oldest one

irqVars == <<irqq, irq_last, irq_lock, workers, pending, overrun, misread>>

IrqInit ==
  /\ irqq = [write_ptr |-> 0, buffer |-> [i \in 0 .. IRQQ_SIZE - 1 |-> 0]]
  /\ irq_last = 0 /\ irq_lock = 0
  /\ workers = [w \in 1 .. IrqWorkers |->
       [pc |-> "acquire", blocked |-> FALSE, irq |-> 0, start |-> 0]]
  /\ pending = <<>> /\ overrun = FALSE /\ misread = FALSE

irqq_available(start) ==
  IF start > irqq.write_ptr THEN (IRQQ_SIZE - start) + irqq.write_ptr
                            ELSE irqq.write_ptr - start

NextSlot(p) == IF p + 1 = IRQQ_SIZE THEN 0 ELSE p + 1

irqq_write_no_wakeup(irq) ==
  /\ irqq' = [write_ptr |-> NextSlot(irqq.write_ptr),
              buffer |-> [irqq.buffer EXCEPT ![irqq.write_ptr] = irq]]
  /\ UNCHANGED workers

irqq_write(irq) ==
  /\ irqq' = [write_ptr |-> NextSlot(irqq.write_ptr),
              buffer |-> [irqq.buffer EXCEPT ![irqq.write_ptr] = irq]]
  /\ workers' = [workers EXCEPT ![1].blocked = FALSE]

-----------------------------------------------------------------------------
At(w, pc) == workers[w].pc = pc /\ ~workers[w].blocked

Full ==
  \/ Len(pending) + 1 = IRQQ_SIZE
  \/ workers[1].pc \in {"test", "block"} /\ NextSlot(irqq.write_ptr) = workers[1].start

irq_enqueue(l) ==
  /\ irqq_write(l)
  /\ pending' = IF overrun \/ Full THEN <<>> ELSE Append(pending, [line |-> l, window |-> At(1, "block")])
  /\ overrun' = (overrun \/ Full)
  /\ UNCHANGED <<irq_last, irq_lock, misread>>

-----------------------------------------------------------------------------
Go(w, pc) == workers' = [workers EXCEPT ![w].pc = pc]

(* simplock_acquire spins; it gives up with a panic after a million turns,
   which the workers' schedule is taken to avoid. *)
simplock_acquire(w) ==
  /\ At(w, "acquire") /\ irq_lock = 0
  /\ irq_lock' = w
  /\ Go(w, "check")
  /\ UNCHANGED <<irqq, irq_last, pending, overrun, misread>>

CheckQueue(w) ==
  /\ At(w, "check")
  /\ \/ /\ irqq_available(irq_last) = 0
        /\ irq_lock' = 0
        /\ Go(w, "wait")
     \/ /\ irqq_available(irq_last) # 0
        /\ Go(w, "read")
        /\ UNCHANGED irq_lock
  /\ UNCHANGED <<irqq, irq_last, pending, overrun, misread>>

(* irqq_wait(irq_last): the argument, the test and the change of status are
   three steps; an interrupt between the last two wakes a worker that then
   blocks. *)
irqq_wait(w) ==
  /\ \/ /\ At(w, "wait")
        /\ workers' = [workers EXCEPT ![w].start = irq_last, ![w].pc = "test"]
     \/ /\ At(w, "test") /\ irqq_available(workers[w].start) = 0
        /\ Go(w, "block")
     \/ /\ At(w, "test") /\ irqq_available(workers[w].start) # 0
        /\ workers' = [workers EXCEPT ![w].start = 0, ![w].pc = "acquire"]
     \/ /\ At(w, "block")
        /\ workers' = [workers EXCEPT ![w].blocked = TRUE, ![w].pc = "test"]
  /\ UNCHANGED <<irqq, irq_last, irq_lock, pending, overrun, misread>>

(* irqq_read under irq_worker_spinlock, to the release of that lock.  It
   finds the ring empty, and blocks with the lock held, only when a full
   turn was written since the check. *)
irqq_read_skips(w) ==
  /\ At(w, "read")
  /\ irqq_available(irq_last) # 0
  /\ workers' = [workers EXCEPT ![w].irq = irqq.buffer[irq_last], ![w].pc = "serve"]
  /\ irq_last' = irqq.write_ptr
  /\ irq_lock' = 0
  /\ misread' = (misread \/ (~overrun /\ (pending = <<>> \/ Head(pending).line # irqq.buffer[irq_last])))
  /\ pending' = IF pending = <<>> THEN <<>> ELSE Tail(pending)
  /\ UNCHANGED <<irqq, overrun>>

irqq_read(w) ==
  /\ At(w, "read")
  /\ \/ /\ irqq_available(irq_last) = 0
        /\ workers' = [workers EXCEPT ![w].blocked = TRUE]
        /\ UNCHANGED <<irq_last, irq_lock, pending, misread>>
     \/ /\ irqq_available(irq_last) # 0
        /\ LET irq == irqq.buffer[irq_last] IN
           /\ workers' = [workers EXCEPT ![w].irq = irq, ![w].pc = "serve"]
           /\ misread' = (misread \/ (~overrun /\ (pending = <<>> \/ Head(pending).line # irq)))
        /\ irq_last' = NextSlot(irq_last)
        /\ irq_lock' = 0
        /\ pending' = IF pending = <<>> THEN <<>> ELSE Tail(pending)
  /\ UNCHANGED <<irqq, overrun>>

(* The loop over the functions the drivers installed on the line. *)
Serve(w) ==
  /\ At(w, "serve")
  /\ workers' = [workers EXCEPT ![w].irq = 0, ![w].pc = "acquire"]
  /\ UNCHANGED <<irqq, irq_last, irq_lock, pending, overrun, misread>>

irq_worker(w) ==
  simplock_acquire(w) \/ CheckQueue(w) \/ irqq_wait(w) \/ irqq_read(w) \/ Serve(w)

IrqNext ==
  \/ \E w \in 1 .. IrqWorkers : irq_worker(w)
  \/ \E l \in IrqLines : irq_enqueue(l)

IrqSpec == IrqInit /\ [][IrqNext]_irqVars

-----------------------------------------------------------------------------
(* While the ring was never overrun, the workers of sys/irq.c read the lines
   in the order they interrupted, each once, whichever worker reads: the
   shared irq_last and the ring's two pointers stay in step. *)
InterruptsInOrder == ~misread

(* A worker may fall asleep over an interrupt that came between irqq_wait's
   test and its change of status, and only worker 1 is ever woken; the next
   interrupt repairs it.  That window is the only way to do so: when every
   worker is BLOCKED, each interrupt not yet read came in worker 1's. *)
SleepsOnlyInWindow ==
  ~overrun /\ (\A w \in 1 .. IrqWorkers : workers[w].blocked)
    => \A i \in 1 .. Len(pending) : pending[i].window
=============================================================================
