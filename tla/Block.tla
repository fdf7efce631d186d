------------------------------- MODULE Block -------------------------------
(***************************************************************************)
(* The request queue of a block device, dev/block.c: threads that read or  *)
(* release the device link a request, which lives in their own stack       *)
(* frame, into a list and poll it until it is done; one worker thread      *)
(* takes the requests off the list and calls the driver.  A request is     *)
(* named by the thread whose frame holds it.  What runs under              *)
(* dev_block.access is one step.  Each thread here has a process of its    *)
(* own; the processes of Mortal may be killed at any time.                 *)
(***************************************************************************)
EXTENDS Integers, FiniteSets, Sequences

CONSTANTS Requesters,  \* threads that call dev_block_read and dev_block_release
          Mortal,      \* those whose process may be killed
          MaxBursts,   \* bound on the requests one dev_block_read makes
          MaxLeaks,    \* bound on the reads that fail
          NULL

ASSUME BlockAssumption ==
  /\ IsFiniteSet(Requesters)
  /\ Mortal \subseteq Requesters
  /\ MaxBursts \in Nat \ {0}
  /\ MaxLeaks \in Nat
  /\ NULL \notin Requesters

Pointer == Requesters \cup {NULL}

VARIABLES
  io_queue,     \* dev_block.io_queue: the oldest request
  last_brq,     \* dev_block.last_brq
  brq,          \* the requests: blk_request.type, done, next, and whether
                \* response is an error
  initialized,  \* dev_block.initialized
  refs,         \* references to the device taken by dev_block_get
  at,           \* where a requester is
  todo,         \* requests its dev_block_read has still to make
  worker,       \* where blk_worker is
  current,      \* blk_worker's brq
  present,      \* the requester's process is in the process table
  leaked,       \* references whose holder has left (history)
  stale         \* a request's frame was left while it was linked (history)

vars == <<io_queue, last_brq, brq, initialized, refs, at, todo, worker,
          current, present, leaked, stale>>

listVars == <<io_queue, last_brq, brq>>
callVars == <<refs, at, todo, leaked>>
workerVars == <<worker, current, present>>

Types == {"init", "read", "release"}

(* A frame without a request; its next field, if it is read, reads as p. *)
NoRequest(p) == [type |-> "init", done |-> TRUE, next |-> p, error |-> FALSE]

Init ==
  /\ io_queue = NULL
  /\ last_brq = NULL
  /\ brq = [r \in Requesters |-> NoRequest(NULL)]
  /\ initialized = FALSE
  /\ refs = 0
  /\ at = [r \in Requesters |-> "idle"]
  /\ todo = [r \in Requesters |-> 0]
  /\ worker = "look"
  /\ current = NULL
  /\ present = [r \in Requesters |-> TRUE]
  /\ leaked = 0
  /\ stale = FALSE

-----------------------------------------------------------------------------
(* The callers. *)

(* The fields a request is made with, before the lock is taken; the old ones
   in the same frame are gone. *)
NewRequest(r) ==
  [type |-> at[r], done |-> FALSE, next |-> NULL, error |-> FALSE]

(* Links the request of r, under the lock. *)
Linked(r) ==
  LET new == [brq EXCEPT ![r] = NewRequest(r)]
  IN  IF io_queue = NULL
        THEN io_queue' = r /\ brq' = new
        ELSE io_queue' = io_queue /\ brq' = [new EXCEPT ![last_brq].next = r]

(* Mutant of Send: the request is put in front of the others. *)
send_at_head(r) ==
  /\ at[r] \in Types
  /\ io_queue' = r
  /\ brq' = [brq EXCEPT ![r] = [NewRequest(r) EXCEPT !.next = io_queue]]
  /\ last_brq' = IF io_queue = NULL THEN r ELSE last_brq
  /\ at' = [at EXCEPT ![r] = "trigger"]
  /\ UNCHANGED <<initialized, refs, todo, workerVars, leaked, stale>>

(* Mutant of NewTail: the tail only moves for the first request. *)
tail_stays(r) == IF io_queue = NULL THEN r ELSE last_brq

NewTail(r) == r

(* The request is made and put at the end of the list: the common part of
   dev_block_init, queue_io_wait and dev_block_release. *)
Send(r) ==
  /\ at[r] \in Types
  /\ Linked(r)
  /\ last_brq' = NewTail(r)
  /\ at' = [at EXCEPT ![r] = "trigger"]
  /\ UNCHANGED <<initialized, refs, todo, workerVars, leaked, stale>>

dev_block_get == refs' = refs + 1

(* dev_block_read, up to its first request: a device that is not initialized
   is initialized first.  A read of n bursts makes n requests. *)
dev_block_read(r, n) ==
  /\ at[r] = "idle"
  /\ present[r] \/ leaked < MaxLeaks
  /\ todo' = [todo EXCEPT ![r] = n]
  /\ dev_block_get
  /\ at' = [at EXCEPT ![r] = IF initialized THEN "read" ELSE "check"]
  /\ UNCHANGED <<listVars, initialized, workerVars, leaked, stale>>

(* dev_block_init as dev_block_read calls it: nothing to do if somebody else
   has initialized the device by now. *)
dev_block_init(r) ==
  /\ at[r] = "check"
  /\ IF initialized
       THEN at' = [at EXCEPT ![r] = "read"] /\ UNCHANGED refs
       ELSE at' = [at EXCEPT ![r] = "init"] /\ dev_block_get
  /\ UNCHANGED <<listVars, initialized, todo, workerVars, leaked, stale>>

dev_block_release(r) ==
  /\ at[r] = "idle"
  /\ present[r]
  /\ initialized
  /\ dev_block_get
  /\ at' = [at EXCEPT ![r] = "release"]
  /\ UNCHANGED <<listVars, initialized, todo, workerVars, leaked, stale>>

(* The worker after an event_trigger on brq_event. *)
Woken == IF worker = "blocked" THEN "look" ELSE worker

Trigger(r) ==
  /\ at[r] = "trigger"
  /\ at' = [at EXCEPT ![r] = "poll"]
  /\ worker' = Woken
  /\ UNCHANGED <<listVars, initialized, refs, todo, current, present,
                 leaked, stale>>

(* The frame of r's request is left: if the worker has still to read it, it
   will read what the stack holds by then. *)
LeaveFrame(r) ==
  IF worker = "dropped" /\ current = r
    THEN /\ stale' = TRUE
         /\ \E junk \in Pointer : brq' = [brq EXCEPT ![r] = NoRequest(junk)]
    ELSE /\ stale' = stale
         /\ brq' = [brq EXCEPT ![r] = NoRequest(NULL)]

(* What dev_block_read has still to do when the request of r is done. *)
BurstsLeft(r) ==
  CASE brq[r].type = "read" /\ brq[r].error -> 0
    [] brq[r].type = "read" /\ ~brq[r].error -> todo[r] - 1
    [] OTHER -> todo[r]

(* The loop on brq.done ends.  What dev_block_init returns is ignored by
   dev_block_read; a failed burst ends the read without dev_block_unref. *)
Return(r) ==
  /\ at[r] = "poll"
  /\ brq[r].done
  /\ LeaveFrame(r)
  /\ todo' = [todo EXCEPT ![r] = BurstsLeft(r)]
  /\ at' = [at EXCEPT ![r] = IF BurstsLeft(r) > 0 THEN "read" ELSE "idle"]
  /\ IF brq[r].type = "read" /\ brq[r].error
       THEN leaked' = leaked + 1 /\ UNCHANGED refs
       ELSE /\ refs' = IF brq[r].type = "read" /\ BurstsLeft(r) > 0
                         THEN refs ELSE refs - 1
            /\ UNCHANGED leaked
  /\ UNCHANGED <<io_queue, last_brq, initialized, workerVars>>

-----------------------------------------------------------------------------
(* The worker. *)

(* Reads the head of the list; with an empty list it waits on brq_event, which
   it joins before it gives up the lock. *)
Look ==
  /\ worker = "look"
  /\ current' = io_queue
  /\ worker' = IF io_queue = NULL THEN "blocked" ELSE "use"
  /\ UNCHANGED <<listVars, initialized, callVars, present, stale>>

(* Mutant of Use: the request of a process that is gone is tried again. *)
use_retries ==
  /\ worker = "use"
  /\ worker' = IF present[current] THEN "driver" ELSE "look"
  /\ UNCHANGED <<listVars, initialized, callVars, current, present, stale>>

(* task_pruse on the requester's process: if it is gone the request is done.
   What task_pruse and task_prrelease do to the process is in Process. *)
Use ==
  /\ worker = "use"
  /\ IF present[current]
       THEN /\ worker' = "driver"
            /\ UNCHANGED brq
       ELSE /\ worker' = "dropped"
            /\ brq' = [brq EXCEPT ![current].error = TRUE,
                                  ![current].done = TRUE]
  /\ UNCHANGED <<io_queue, last_brq, initialized, callVars, current, present,
                 stale>>

(* A failed request is taken off the list, after its requester was told. *)
DropFailed ==
  /\ worker = "dropped"
  /\ io_queue' = brq[current].next
  /\ worker' = "look"
  /\ current' = NULL
  /\ UNCHANGED <<last_brq, brq, initialized, callVars, present, stale>>

(* Whether the driver is asked at all: requests that have nothing to do by now
   are answered with an error. *)
Applicable(type) ==
  \/ type = "read"
  \/ type = "init" /\ ~initialized
  \/ type = "release" /\ initialized

(* The driver's operation for the request; it may fail. *)
CallDriver ==
  /\ worker = "driver"
  /\ LET type == brq[current].type
     IN  \E ok \in BOOLEAN :
           /\ ok => Applicable(type)
           /\ ~ok /\ type = "read" => leaked < MaxLeaks
           /\ brq' = [brq EXCEPT ![current].error = ~ok]
           /\ initialized' = IF ok THEN type # "release" /\ (initialized \/ type = "init")
                             ELSE initialized
  /\ worker' = "finish"
  /\ UNCHANGED <<io_queue, last_brq, callVars, current, present, stale>>

(* The last step for a request, under the lock. *)
Finish ==
  /\ worker = "finish"
  /\ brq' = [brq EXCEPT ![current].done = TRUE]
  /\ io_queue' = brq[current].next
  /\ worker' = "look"
  /\ current' = NULL
  /\ UNCHANGED <<last_brq, initialized, callVars, present, stale>>

(* task_prkill takes the process out of the table; its thread stays in the
   kernel until it leaves by itself. *)
KillProcess(r) ==
  /\ r \in Mortal
  /\ present[r]
  /\ present' = [present EXCEPT ![r] = FALSE]
  /\ UNCHANGED <<listVars, initialized, callVars, worker, current, stale>>

-----------------------------------------------------------------------------
WorkerStep == Look \/ Use \/ DropFailed \/ CallDriver \/ Finish

CallStep(r) == dev_block_init(r) \/ Send(r) \/ Trigger(r) \/ Return(r)

Next ==
  \/ WorkerStep
  \/ \E r \in Requesters :
       \/ CallStep(r)
       \/ \E n \in 1 .. MaxBursts : dev_block_read(r, n)
       \/ dev_block_release(r)
       \/ KillProcess(r)

Spec == Init /\ [][Next]_vars

(* Every thread that can run gets the CPU again and again. *)
FairSpec ==
  /\ Spec
  /\ WF_vars(WorkerStep)
  /\ \A r \in Requesters : WF_vars(CallStep(r))

-----------------------------------------------------------------------------
(* The requests of the list in order: chain[i] is the one i links behind the
   head. *)
Count == Cardinality(Requesters)

chain[i \in 0 .. Count] ==
  IF i = 0 THEN io_queue
  ELSE IF chain[i - 1] = NULL THEN NULL ELSE brq[chain[i - 1]].next

Length == Cardinality({i \in 0 .. Count : chain[i] # NULL})

Queue == [i \in 1 .. Length |-> chain[i - 1]]

(* The requests that were sent and not taken off the list. *)
Outstanding ==
  {r \in Requesters : at[r] \in {"trigger", "poll"} /\ ~brq[r].done}
    \cup IF worker = "dropped" THEN {current} ELSE {}

(* As long as nobody left a frame the worker still reads (a process killed at
   the wrong moment, block.c:50-56), the list holds exactly the requests that
   wait, ends, and ends at last_brq: no request is cut off or linked into a
   circle.  The worker sleeps on a list that is not empty only when somebody
   is about to wake it. *)
ListIntact ==
  ~stale =>
    /\ chain[Count] = NULL
    /\ {Queue[i] : i \in 1 .. Length} = Outstanding
    /\ Length > 0 => Queue[Length] = last_brq
    /\ worker = "blocked" /\ Length > 0 => \E r \in Requesters : at[r] = "trigger"

(* Requests enter the list at its end and leave it at its head: the driver
   serves them in the order they were sent in. *)
FirstComeFirstServed ==
  [][ ~stale' => \/ Queue' = Queue
                 \/ \E r \in Requesters : Queue' = Append(Queue, r)
                 \/ Queue' = Tail(Queue) ]_vars

(* Every call ends: a request that was sent is answered, whatever the others do
   and however often the worker falls asleep, as long as nobody left a frame
   the worker still reads. *)
CallsEnd ==
  [](~stale) => \A r \in Requesters : at[r] # "idle" ~> at[r] = "idle"

=============================================================================
