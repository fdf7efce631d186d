----------------------------- MODULE MCProcess -----------------------------
(***************************************************************************)
(* Processes for TLC: the life of a process, the memory managers under it, *)
(* and the search loop that gives its threads the CPU.  The heap takes its *)
(* pools from the kernel map once and does not touch the map or the frames *)
(* again until it grows, which stops it.  The parts share no state and a   *)
(* behaviour exercises one of them.  The process has two threads, each of  *)
(* which has the kernel work for it; others wait for it or look at it.     *)
(* The layout of a new pool is evaluated for a range of sizes, the search  *)
(* loop for every table of three threads.                                  *)
(***************************************************************************)
EXTENDS Process, Paging, Heap, ShedLoop

CONSTANT PoolSizes   \* the sizes, in pieces, the heap is asked to grow for

VARIABLES part,
          asked       \* the pieces of the allocation a new pool is made for
processRunVars == <<part, asked, vars, pagingVars, heapVars, loopVars>>

MCRegions == <<[addr |-> 1, len |-> 2, available |-> TRUE],
               [addr |-> 16, len |-> 11, available |-> TRUE],
               [addr |-> 30, len |-> 2, available |-> FALSE],
               [addr |-> 40, len |-> 3, available |-> TRUE]>>

MCPieces == PiecesOfMap
MCBootNodes == {<<1, 0>>, <<2, 0>>, <<2, 1>>}
MCPoolSizes == {1} \cup 65530 .. 66700

OneTable ==
  /\ task_init([t \in Slots |-> "RUNNABLE"])
  /\ thread_count = MaxTid

ProcessRunInit ==
  /\ part \in {"process", "paging", "heap", "pool", "loop"}
  /\ IF part = "pool" THEN asked \in PoolSizes ELSE asked = 1
  /\ Init
  /\ PagingInit
  /\ HeapInit
  /\ IF part = "loop" THEN LoopInit ELSE OneTable

ProcessRunNext ==
  /\ UNCHANGED <<part, asked>>
  /\ \/ part = "process" /\ Next /\ UNCHANGED <<pagingVars, heapVars, loopVars>>
     \/ part = "paging" /\ PagingNext /\ UNCHANGED <<vars, heapVars, loopVars>>
     \/ part = "heap" /\ HeapNext /\ UNCHANGED <<vars, pagingVars, loopVars>>
     \/ part = "loop" /\ ChooseByLoop /\ UNCHANGED <<vars, pagingVars, heapVars>>

(* The fairness of Process!FairSpec, for its part. *)
ProcessRunSpec ==
  /\ ProcessRunInit /\ [][ProcessRunNext]_processRunVars
  /\ SF_vars(part = "process" /\ KillStep)
  /\ \A c \in Callers : WF_vars(part = "process" /\ CallerStep(c))
  /\ \A t \in Threads : /\ WF_vars(part = "process" /\ UserStep(t))
                         /\ WF_vars(part = "process" /\ AbortHeard(t))

(* Every pool the heap makes fits in its pages, whatever the allocation it
   is made for (kmpool_create, _kmalloc). *)
PoolsFit == PoolFits(asked * POOL_PIECE_SIZE)

=============================================================================
