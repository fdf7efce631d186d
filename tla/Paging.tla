------------------------------- MODULE Paging -------------------------------
(***************************************************************************)
(* Virtual memory: arch/x64/page.c over the frames of module Frames, with  *)
(* its users: drivers that allocate and map kernel pages, the program      *)
(* loader (elf_load, arch/x64/exec_elf.c), syscall_pgfree, and the end of  *)
(* a process (task.c).  Every operation holds the map's spinlock and       *)
(* sptr_aim_spinlock from its first access to its last, so it is one step; *)
(* the loader and the others interleave between operations.                *)
(*                                                                         *)
(* A pagemap has `Depth' levels of directories below its root (PDP, PD and *)
(* PT in the code), each of `Fan' entries (512).  `dirs' gives the address *)
(* of every directory that is present, `pages' the entries that are set.   *)
(* Virtual addresses are page numbers, relative to the start of the map's  *)
(* half of the address space.                                              *)
(***************************************************************************)
EXTENDS Frames, FiniteSets, TLC

CONSTANTS Fan, Depth,
          KVStart,           \* vstart of kernel_pmap (that of a process is 0)
          BootNodes,         \* the kernel's directories in the boot image
          VEnd,              \* the pages below vend; bounds the maps
          DevicePhys,        \* where device memory is mapped from
          MaxAlloc           \* bound on the pages of one allocation

Maps == {"k", "u"}
VStart(m) == IF m = "k" THEN KVStart ELSE 0

ASSUME PagingAssumption ==
  /\ Fan \in Nat \ {0, 1}
  /\ Depth \in Nat \ {0}
  /\ VEnd \in Nat
  /\ MaxAlloc \in Nat \ {0}

VARIABLES
  frames,    \* the frame allocator
  pmap,      \* the two pagemaps: kernel_pmap and that of the process
  stopped,   \* "no", "panic", or "locked": the spinlocks are held for ever
  ld         \* elf_load's position: pc, the pages still to fill, the kernel
             \* pages of the current kpmap, and whether it is the entry code

pagingVars == <<frames, pmap, stopped, ld>>

-----------------------------------------------------------------------------
(* Directories.  Nodes(v): the directories on the way to the entry of v. *)
Nodes(v) == [k \in 1 .. Depth |-> <<k, v \div Fan ^ (Depth + 1 - k)>>]

Absent(M, v) == {k \in 1 .. Depth : Nodes(v)[k] \notin DOMAIN M.dirs}

HasTable(M, v) == Absent(M, v) = {}

(* How far _mempg_find_table skips: the span of the first absent directory. *)
Skip(M, v) == Fan ^ (Depth + 1 - Min(Absent(M, v)))

(* A directory in the frame that kfcalloc gave. *)
NewDir(M, nd, c) ==
  [F |-> c.F,
   M |-> [M EXCEPT !.dirs = @ @@ (nd :> kfpaddrof(c.id)), !.dir_frames_used = @ + 1]]

EnsureNode(S, nd) ==
  IF nd \in DOMAIN S.M.dirs THEN S ELSE NewDir(S.M, nd, kfcalloc(S.F, 1))

mempg_find_table_ensure(S, v) == FoldLeft(EnsureNode, S, Nodes(v))

mempg_assign(S, v, phys, nophys) ==
  [mempg_find_table_ensure(S, v) EXCEPT
     !.M.pages = (v :> [phys |-> phys, nophys |-> nophys]) @@ @]

-----------------------------------------------------------------------------
(* mempg_find_contiguous: the scan for `amount' unset entries, page by page *)
(* inside a table that is present, a table at a time where there is none.  *)
(* Mutant of find_contiguous: the run is not reset at an entry that is set. *)
run_not_reset(M, amount, vstart) ==
  LET scan[v \in Nat, start \in Nat, combo \in Nat] ==
        IF v # vstart /\ v % Fan = 0 /\ ~ HasTable(M, v)
        THEN IF combo + Fan >= amount THEN start ELSE scan[v + Fan, start, combo + Fan]
        ELSE IF v \in DOMAIN M.pages THEN scan[v + 1, v + 1, combo]
        ELSE IF combo + 1 >= amount THEN start ELSE scan[v + 1, start, combo + 1]
  IN  scan[vstart, vstart, 0]

find_contiguous(M, amount, vstart) ==
  LET scan[v \in Nat, start \in Nat, combo \in Nat] ==
        IF v # vstart /\ v % Fan = 0 /\ ~ HasTable(M, v)
        THEN IF combo + Fan >= amount THEN start ELSE scan[v + Fan, start, combo + Fan]
        ELSE IF v \in DOMAIN M.pages THEN scan[v + 1, v + 1, 0]
        ELSE IF combo + 1 >= amount THEN start ELSE scan[v + 1, start, combo + 1]
  IN  scan[vstart, vstart, 0]

(* What it promises: the first run of unset entries from vstart on. *)
FirstFit(M, amount, vstart) ==
  Min({s \in vstart .. VEnd + Fan : \A i \in 0 .. amount - 1 : s + i \notin DOMAIN M.pages})

(* Its set-up: the table of vstart is made if it is absent. *)
ReadyToScan(S, m) == mempg_find_table_ensure(S, VStart(m))

(* `amount' entries from v on, for the frames from address phys on. *)
AssignRange(S, v, phys, amount, nophys) ==
  FoldLeft(LAMBDA T, i : mempg_assign(T, v + i, phys + i, nophys), S,
           [i \in 1 .. amount |-> i - 1])

(* The entries at the first place that has room; `at' is that place. *)
AssignAt(R, at, phys, amount, nophys) ==
  [at |-> at] @@ AssignRange(R, at, phys, amount, nophys)

AssignFirstFit(R, m, phys, amount, nophys) ==
  AssignAt(R, find_contiguous(R.M, amount, VStart(m)), phys, amount, nophys)

-----------------------------------------------------------------------------
(* The operations, on S = [F: frames, M: pagemap]; `at' is what they return. *)
AllocFrames(M, m, amount, c) ==
  [AssignFirstFit(ReadyToScan([F |-> c.F, M |-> M], m), m, kfpaddrof(c.id), amount, FALSE)
     EXCEPT !.M.frames_used = @ + amount]

kpcalloc(S, m, amount) == AllocFrames(S.M, m, amount, kfcalloc(S.F, amount))

(* One page of kpvalloc: a frame, then its entry. *)
AssignFrame(M, v, c) == mempg_assign([F |-> c.F, M |-> M], v, kfpaddrof(c.id), FALSE)

ValloPage(S, v) == AssignFrame(S.M, v, kfcalloc(S.F, 1))

kpvalloc(S, amount, v) ==
  [FoldLeft(ValloPage, S, [i \in 1 .. amount |-> v + i - 1])
     EXCEPT !.M.frames_used = @ + amount]

(* An address inside a page takes one page more. *)
kpmap(S, m, amount, phys, unaligned) ==
  LET n == IF unaligned THEN amount + 1 ELSE amount
  IN  [AssignFirstFit(ReadyToScan(S, m), m, phys, n, TRUE) EXCEPT !.M.map_frames_used = @ + n]

_kppaddrof(M, v) == IF v \in DOMAIN M.pages THEN M.pages[v].phys ELSE 0

(* mempg_remove of an entry whose table is there. *)
mempg_remove(M, v) == [M EXCEPT !.pages = [w \in DOMAIN @ \ {v} |-> @[w]]]

(* Mutant of FreeEntry: the frame of a NOPHYS entry is given back too. *)
free_mapped_frame(E, v, e) ==
  IF e.nophys
  THEN [F |-> IF Known(e.phys) THEN FreeAt(E.F, e.phys) ELSE E.F,
        M |-> [mempg_remove(E.M, v) EXCEPT !.map_frames_used = @ - 1]]
  ELSE [F |-> FreeAt(E.F, e.phys), M |-> [mempg_remove(E.M, v) EXCEPT !.frames_used = @ - 1]]

(* One page of kpfree: mempg_remove, then the frame unless it is NOPHYS. *)
FreeEntry(E, v, e) ==
  IF e.nophys
  THEN [F |-> E.F, M |-> [mempg_remove(E.M, v) EXCEPT !.map_frames_used = @ - 1]]
  ELSE [F |-> FreeAt(E.F, e.phys), M |-> [mempg_remove(E.M, v) EXCEPT !.frames_used = @ - 1]]

FreeFound(E, v) == FreeEntry(E, v, E.M.pages[v])

FreePage(S, v) == FreeFound(mempg_find_table_ensure(S, v), v)

kpfree(S, v, amount) == FoldLeft(FreePage, S, [i \in 1 .. amount |-> v + i - 1])

-----------------------------------------------------------------------------
NoMap == [root |-> 0, dirs |-> <<>>, pages |-> <<>>,
          frames_used |-> 0, dir_frames_used |-> 0, map_frames_used |-> 0]

(* kp_create_map: a zeroed pagemap_t with a cleared root directory. *)
MapWithRoot(c) == [F |-> c.F, M |-> [NoMap EXCEPT !.root = kfpaddrof(c.id)]]

kp_create_map(F) == MapWithRoot(kfcalloc(F, 1))

(* _kpforeach_advance until it returns false.  In a table that is found    *)
(* anew the scan for the first set entry j leaves *virt where it was, and  *)
(* the way on from j moves it by Fan - j; a table with no entry is found   *)
(* again and again.                                                        *)
kpforeach(M, vstart) ==
  LET Set(v, lo) == {i \in lo .. Fan - 1 : (v \div Fan) * Fan + i \in DOMAIN M.pages}
      walk[v \in Nat, first \in BOOLEAN] ==
        IF v >= VEnd THEN [visited |-> {}, ends |-> TRUE]
        ELSE IF ~ HasTable(M, v) THEN walk[v + Skip(M, v), first]
        ELSE LET lo == IF first THEN v % Fan ELSE 0
             IN  IF Set(v, lo) # {}
                 THEN LET j == Min(Set(v, lo))
                          rest == walk[v + (Fan - j), FALSE]
                      IN  [rest EXCEPT !.visited =
                             @ \cup {(v \div Fan) * Fan + i : i \in Set(v, lo)}]
                 ELSE IF lo > 0 THEN walk[v, FALSE]
                 ELSE [visited |-> {}, ends |-> FALSE]
  IN  walk[vstart, TRUE]

(* _mempg_dispose_dir: every directory of the process half, then the root. *)
dispose_dir(F, M) ==
  FoldLeft(FreeAt, F, SetToSeq({M.dirs[nd] : nd \in DOMAIN M.dirs}) \o <<M.root>>)

(* The frames given back by the loop of the prkill worker. *)
FreeVisited(F, M, visited) ==
  FoldLeft(FreeAt, F, SetToSeq({M.pages[v].phys : v \in {w \in visited : ~ M.pages[w].nophys}}))

-----------------------------------------------------------------------------
(* The kernel map after mem_init_multiboot: the window page and the page   *)
(* of its table (mempg_init2), then the bitmaps of the pieces.             *)
kptopg(bytes) == (bytes + (CPU_PAGE_SIZE - 1)) \div CPU_PAGE_SIZE

BootMappings ==
  <<1, 1>> \o [i \in 1 .. Len(Pieces) - 1 |->
                 kptopg((Pieces[i].usable \div 8 + (CPU_PAGE_SIZE - 1)) + 1)]

Booted ==
  FoldLeft(LAMBDA S, n : kpmap(S, "k", n, DevicePhys, FALSE),
           [F |-> BootFrames,
            M |-> [NoMap EXCEPT !.dirs = [nd \in BootNodes |-> 0], !.dir_frames_used = 8]],
           BootMappings)

(* The pages of those mappings, which are never freed. *)
BootPages == KVStart .. KVStart + FoldLeft(+, 0, BootMappings) - 1

NotLoading == [pc |-> "none", todo |-> <<>>, tmp |-> {}, entry |-> FALSE]

PagingInit ==
  /\ \E S \in {Booted} :
       /\ frames = S.F
       /\ pmap = [m \in Maps |-> IF m = "k" THEN S.M ELSE NoMap]
  /\ stopped = "no"
  /\ ld = NotLoading

-----------------------------------------------------------------------------
State(m) == [F |-> frames, M |-> pmap[m]]

InBounds(S) == \A v \in DOMAIN S.M.pages : v < VEnd

(* An operation on map m that ends in S. *)
Becomes(m, S) ==
  /\ stopped = "no"
  /\ InBounds(S)
  /\ frames' = S.F
  /\ pmap' = [pmap EXCEPT ![m] = S.M]
  /\ stopped' = IF S.F.ok THEN "no" ELSE "panic"

(* kpalloc takes the two spinlocks and ends there. *)
kpalloc ==
  /\ stopped = "no"
  /\ stopped' = "locked"
  /\ UNCHANGED <<frames, pmap, ld>>

(* Drivers: ahci_port_rebase, acpi, pci. *)
KernelAlloc(n) == Becomes("k", kpcalloc(State("k"), "k", n)) /\ UNCHANGED ld

KernelMap(n, unaligned) ==
  Becomes("k", kpmap(State("k"), "k", n, DevicePhys, unaligned)) /\ UNCHANGED ld

KernelFree(v) ==
  /\ v \in DOMAIN pmap["k"].pages \ (BootPages \cup ld.tmp)
  /\ Becomes("k", kpfree(State("k"), v, 1))
  /\ UNCHANGED ld

(* elf_load, from the creation of the map on. *)
LoadCreate ==
  /\ ld.pc = "none"
  /\ Becomes("u", kp_create_map(frames))
  /\ ld' = [NotLoading EXCEPT !.pc = "created"]

(* elf_is_safe refused the program headers. *)
LoadRefused ==
  /\ ld.pc = "created"
  /\ Becomes("u", [F |-> dispose_dir(frames, pmap["u"]), M |-> NoMap])
  /\ ld' = NotLoading

(* exec->phys_addr = kppaddrof(0x00, *map): makes the table of page 0. *)
LoadFirstTable ==
  /\ ld.pc = "created"
  /\ Becomes("u", mempg_find_table_ensure(State("u"), 0))
  /\ ld' = [ld EXCEPT !.pc = "sections"]

(* A section of the program; sections do not share pages. *)
LoadSection(v, n) ==
  /\ ld.pc = "sections"
  /\ \A i \in 0 .. n - 1 : v + i \notin DOMAIN pmap["u"].pages
  /\ Becomes("u", kpvalloc(State("u"), n, v))
  /\ ld' = [ld EXCEPT !.pc = "fill", !.todo = [i \in 1 .. n |-> v + i - 1]]

(* The entry code and the arguments, after the last section. *)
LoadEntry(n) ==
  /\ ld.pc = "sections"
  /\ \E S \in {kpcalloc(State("u"), "u", n)} :
       /\ Becomes("u", S)
       /\ ld' = [ld EXCEPT !.pc = "fill", !.entry = TRUE,
                           !.todo = [i \in 1 .. n |-> S.at + i - 1]]

(* The pages are filled through a kernel mapping: a section's page by page, *)
(* the entry code's all at once.                                           *)
LoadMap ==
  /\ ld.pc = "fill" /\ ld.tmp = {}
  /\ LET n == IF ld.entry THEN Len(ld.todo) ELSE 1
     IN  \E S \in {kpmap(State("k"), "k", n, _kppaddrof(pmap["u"], Head(ld.todo)), FALSE)} :
           /\ Becomes("k", S)
           /\ ld' = [ld EXCEPT !.tmp = S.at .. S.at + n - 1]

LoadUnmap ==
  /\ ld.pc = "fill" /\ ld.tmp # {}
  /\ LET n == Cardinality(ld.tmp)
         left == SubSeq(ld.todo, n + 1, Len(ld.todo))
     IN  /\ Becomes("k", kpfree(State("k"), Min(ld.tmp), n))
         /\ ld' = [ld EXCEPT !.tmp = {}, !.todo = left,
                             !.pc = IF ld.entry THEN "run"
                                    ELSE IF left = <<>> THEN "sections" ELSE "fill"]

(* syscall_pgfree of a page the process has. *)
syscall_pgfree(v) ==
  /\ ld.pc = "run"
  /\ v \in DOMAIN pmap["u"].pages
  /\ Becomes("u", kpfree(State("u"), v, 1))
  /\ UNCHANGED ld

(* The end of the process: kpforeach gives the frames back, then           *)
(* kp_dispose_map.  kpforeach holds the locks while it runs.               *)
ProcessEnd ==
  /\ ld.pc = "run"
  /\ LET w == kpforeach(pmap["u"], 0)
         F == FreeVisited(frames, pmap["u"], w.visited)
     IN  IF w.ends
         THEN Becomes("u", [F |-> dispose_dir(F, pmap["u"]), M |-> NoMap]) /\ ld' = NotLoading
         ELSE /\ stopped = "no"
              /\ stopped' = "locked"
              /\ UNCHANGED <<frames, pmap, ld>>

PagingNext ==
  \/ kpalloc
  \/ \E n \in 1 .. MaxAlloc : KernelAlloc(n) \/ LoadEntry(n)
  \/ \E n \in 1 .. MaxAlloc, unaligned \in BOOLEAN : KernelMap(n, unaligned)
  \/ \E v \in 0 .. VEnd - 1 : KernelFree(v) \/ syscall_pgfree(v)
  \/ LoadCreate \/ LoadRefused \/ LoadFirstTable
  \/ \E n \in 1 .. MaxAlloc, v \in 0 .. VEnd - 1 : LoadSection(v, n)
  \/ LoadMap \/ LoadUnmap
  \/ ProcessEnd

PagingSpec == PagingInit /\ [][PagingNext]_pagingVars

-----------------------------------------------------------------------------
(* Only frames of the root piece have been handed out.  For a frame of a   *)
(* later piece kfindexof does not undo kfpaddrof, so giving it back clears *)
(* the bit of another frame and its own stays set for ever.                *)
RootPieceOnly == frames.used \subseteq 0 .. Pieces[1].usable - 1

OwnPages(m) == {v \in DOMAIN pmap[m].pages : ~ pmap[m].pages[v].nophys}
OwnDirs(m)  == IF m = "k" THEN DOMAIN pmap[m].dirs \ BootNodes ELSE DOMAIN pmap[m].dirs
OwnRoot     == IF pmap["u"].root = 0 THEN {} ELSE {pmap["u"].root}

Owned ==
  OwnRoot \cup UNION {{pmap[m].pages[v].phys : v \in OwnPages(m)}
                      \cup {pmap[m].dirs[nd] : nd \in OwnDirs(m)} : m \in Maps}

(* Every frame that is set belongs to the boot image, is a directory of    *)
(* one map or is mapped by one page of one map, and every such frame is    *)
(* set; the counters of the allocator and of the maps agree with that.  So *)
(* no frame has two owners, none is lost and none is freed in use          *)
(* (kfcalloc, kffree, kpcalloc, kpvalloc, kpfree, kp_dispose_map).         *)
FramesAccounted ==
  stopped = "no" /\ RootPieceOnly =>
    /\ frames.used = BootFrames.used \cup {kfindexof(a) : a \in Owned}
    /\ frames.count = Cardinality(frames.used)
    /\ frames.count = BootFrames.count + Cardinality(OwnRoot)
         + MapThenSumSet(LAMBDA m : Cardinality(OwnPages(m)) + Cardinality(OwnDirs(m)), Maps)
    /\ \A m \in Maps :
         /\ pmap[m].frames_used = Cardinality(OwnPages(m))
         /\ pmap[m].map_frames_used = Cardinality(DOMAIN pmap[m].pages) - Cardinality(OwnPages(m))
         /\ pmap[m].dir_frames_used = Cardinality(OwnDirs(m)) + (IF m = "k" THEN 8 ELSE 0)

(* mempg_find_contiguous, which skips absent tables a table at a time,     *)
(* finds the first run of unset entries of any map the system gets into,   *)
(* so that an allocation covers no page that is mapped.                    *)
SearchIsFirstFit ==
  stopped = "no" => \A m \in Maps, n \in 1 .. MaxAlloc + 1 :
    HasTable(pmap[m], VStart(m)) =>
      find_contiguous(pmap[m], n, VStart(m)) = FirstFit(pmap[m], n, VStart(m))

=============================================================================
