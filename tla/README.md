# AEX kernel: TLA+ models and proofs

AEX is a small preemptive x86-64 kernel in C. This directory holds TLA+ models
of its core, from the scheduler to the file system and the drivers, the TLC
configurations that check them on small instances, and TLAPS proofs of what
matters most for every instance.

`PROJECT.json` is the index: for each definition the source lines it models,
for each run what it checks, for each property a mutation of the model that
breaks it, and the list of hazards the properties answer.

## 1. The system

### How the kernel executes

The kernel starts one CPU (`CURRENT_CPU` is 0). Timer interrupt 0 enters
`task_reshed_irq` (arch/x64/task.asm), which saves the current thread, counts
time, lets `task_shed_choose` pick the next thread and enters it. A spinlock
(kernel/spinlock.c) raises `reshed_block`, so that the timer interrupt cannot
switch threads, and then takes the lock word; it does not disable interrupts.
On one CPU a section under a spinlock is therefore atomic for other threads, as
long as `reshed_block` is right. `Sched` and `EventWait` model this mechanism
in the small steps the timer can fall between; the other modules take a section
under a spinlock as one step. `EventWait` also shows the one place where the
count goes wrong (a waiter that is killed, section 4).

### Parts, their state and how they interact

| part | state | operations | interacts with |
|---|---|---|---|
| scheduler (proc/task.c, task.asm, sys/time.c) | thread table, status, running, last_tid, reshed_block, should_reshed | tcreate, tstart, tset_status, tsleep, tyield, shed_choose, the timer | everything |
| spinlock, tqueue, event | lock word, queue of waiting threads | acquire, release, event_wait, trigger, trigger_all, defunct | scheduler; used by cbuf, cbufm, block, process |
| end of threads (proc/task.c) | abort, busy, the mailbox thkill_data | tkill, cleaner, tuse, trelease, call_async | scheduler, processes |
| processes (proc/task.c, rcptable.h) | table entry (refs, present), busy, ecode, signal_event | prcreate, prstart, prkill, prwait, pruse, prrelease | end of threads, events, block devices, files, paging |
| rcparray (include/aex/rcparray.h) | slots with refs and present | add, get, find, unref, remove, foreach, dispose | descriptors, handles, devices |
| ring buffer cbuf | buffer, two pointers, event | read, write, available | events |
| broadcast ring cbufm | buffer, write pointer, readers' positions | read, write, available, wait | events, keyboard, serial port |
| interrupt queue (sys/irq.c) | ring of interrupt numbers, irq_last, workers | enqueue, worker | drivers |
| block devices (dev/block.c) | request list, initialized | init, read, release, worker | events, processes, disk driver |
| disk (dev/class/disk.c, drv/ata) | command slots, DMA buffers | packet, identify, read | block devices |
| physical frames (mem/frame.c, mem/mem.c) | pieces with bitmaps | alloc, calloc, free, index and address | paging |
| paging (arch/x64/page.c), program loading | page maps of the kernel and a process | calloc, valloc, map, free, walk, dispose, elf_load | frames, processes |
| kernel heap (mem/pool.c) | pool bitmaps, block headers | kmalloc, krealloc, kfree, new pools | everything |
| files (fs/) | descriptors, fds, handles, local handles | open, close, dup, read, write, seek, readdir, ioctl, mount | rcparray, processes, devfs, iso9660 |
| console (arch/x64/tty.c, ps2.c, dev/input.c, drv/ttyk) | terminals, screen, key events, open terminals | write, escape sequences, switch, keys, read | cbufm, interrupts |

What is hard about this code is not in any one function: preemption between
two steps that look like one (`thkill_data` read and the cleaner blocking; a
busy count read and the victim declared dead; an event's queue joined and the
yield), references that travel down four tables while another thread closes the
descriptor, pointers into one thread's stack that another reads (block and kill
requests), interrupts that fill rings between a reader's test and its sleep,
loops that wait for a count somebody else must bring down, and searches and
layouts at their edges. The main hazards are listed at their lines in
`PROJECT.json`; section 6 names the others.

## 2. Modules

| module | models | checked by |
|---|---|---|
| `RcpArray`, `RcpArrayProofs` | rcparray.h with the clients of fs/fd.c | run files, theorems |
| `Files` | descriptors, fds, handles and local handles, from system calls to iso9660 and devfs | run files |
| `Paths` | absolute paths, mounts, directories of iso9660 | runs files, path_canonical |
| `Task` | the thread table and task_shed_choose, in closed form | through its users |
| `ShedLoop` | the search loop of task_shed_choose, statement by statement | run process |
| `Sched`, `SchedProofs` | preemption, critical sections, sleeping | run sched, theorems |
| `EventWait`, `EventWaitProofs` | spinlock, tqueue and event under preemption | runs event, event_abort, theorems |
| `ThreadKill`, `ThreadKillProofs` | tkill, cleaner, tuse/trelease, call_async | runs kill, kill_busy, kill_hang, kill_async, theorems |
| `BoundedFifo` | what a pipe promises (abstract) | refined by Cbuf |
| `Cbuf` | kernel/cbuf.c | run cbuf, theorems of `RingProofs` |
| `Cbufm` | the ring of kernel/cbufm.c as functions | through Serial and Keyboard |
| `Irq` | the queue of interrupts and its workers | run cbuf, theorems of `RingProofs` |
| `Serial` | the serial port: handler and readers | run cbuf, theorems of `RingProofs` |
| `Keyboard` | scancodes, key events, repetition, readers of terminals | run cbuf, theorems of `RingProofs` |
| `Block` | the request list of a block device and its worker | run block, theorems of `BlockProofs` |
| `Disk` | a read in bursts over the AHCI driver, and the drive's set-up | run block, theorems of `BlockProofs` |
| `Terminal` | terminals, the screen, escape sequences, switching | run block |
| `Process`, `ProcessProofs` | the end of a process and its table entry | run process, theorems |
| `Frames`, `Paging` | frames, page maps, the program loader | run process |
| `Heap`, `HeapProofs` | the heap and the layout of its pools | run process, theorems |

`MC*` modules give TLC the constants; each `.cfg` belongs to one run. `Task` is
extended by `Sched`, `EventWait` and `ThreadKill`, so the same scheduler decides
who runs in all three; `Cbufm` is extended by `Serial` and `Keyboard`, `Frames`
by `Paging`, and `RcpArray`'s macros appear in `Files` on four tables at once.

Some runs check several modules that share no state (`MCFiles`, `MCCbuf`,
`MCBlock`, `MCProcess`). Their variable `part`, chosen at the start, says which
one a behaviour exercises; the others stay in a fixed initial state. The state
space is the sum of the parts', not their product, and nothing is lost, because
no action of one part reads a variable of another.

### RcpArray
State: the slots of the array (an entry is refs, present, value, or NULL) and
its size; per client the slot it holds a pointer into (`hold`) or is closing
(`closing`), and the lock of `fd_close`. Each macro takes the array's lock first
and releases it last, so each is one action: `rcparray_add`, `rcparray_get`,
`rcparray_find`, `rcparray_unref`, `rcparray_remove`. `fd_close` is two:
`CloseGet` and `CloseUnref`, followed by `rcparray_remove`, under `fd_lock`.
Its steps interleave with those of other clients more freely than one CPU does:
that is what the array's own lock is for. `rcparray_foreach` and
`rcparray_dispose` are in `Files`, as their users call them.

### Task, ShedLoop, Sched
`Task` has the thread table (status, running, ticks left to sleep, current,
last_tid) and states `task_shed_choose` in closed form: the ready thread nearest
behind `last_tid`. `ShedLoop` executes the loop of the C code, with its bound,
its skipping of empty slots, its wrap at `thread_count` and its order of
assignments, on every table of three slots, and compares the two.
`Sched` adds the timer and the functions that change the status of threads. The
milliseconds of `task_tsleep` are ticks; `time_tick` counts them down. `passed`
is a history variable: how often a ready thread was passed over.

### EventWait
Program counters stand in the functions of spinlock.c, tqueue.c and event.c.
`spinlock_acquire` is `DisableReshed` and `TakeLock`; the body of each function
is one step, because `reshed_block` is up; `spinlock_release` is `ReleaseLock`,
`task_reshed_enable` and `CheckRequest`. `_task_prepare_tkill` aborts a waiter
at any moment. `event_defunct` behaves as `event_trigger_all`: the counter it
sets is read nowhere. `kpanic` sets `panic` and stops the machine, which is why
that run does not report deadlock.

### ThreadKill
Program counters stand in `task_tkill`, `_task_cleaner`, the system calls of a
victim and `_call_async`. `saved` is the context a thread would be resumed
from, `abandoned` says that `current_context` points at `task_tkill`'s static
`a_context`, after which a switch no longer saves the thread's own. Thread ids
are not reused. Two killers of one victim are not modelled.

A killer is `_task_prkill_async` for a process of one thread: it takes the
process out of the table (`RemoveProcess`), tells the thread to abort
(`_task_prepare_tkill`) and calls `task_tkill`. `task_tkill` looks the process up
to take the thread off its list (`Unlist`, task.c:279); for this caller it never
finds it, so the victim stays listed in a process nobody finds. Only a thread
that kills itself is taken off. `Found` are the threads that are listed in a
process of the table. (The reference task.c:279 takes is not given back; the
process table is not part of this module.)

A victim's system call may wait in three ways. `event_wait`, for a call that
returns when it says -1, hears of the abort before and after it blocks
(`AbortCheck`, with its second release of the lock). `cbufm_wait` calls
`event_wait` again whatever it says (`WaitForBytes`, `BytesCame`).
`syscall_sleep` with a negative delay blocks without a look at the abort
(`SleepForGood`, `SleepReturns`). The last two can make a victim `Deaf`: nothing
obliges it to leave the kernel. A wakeup may come late, for an entry an aborted
wait left in an event's queue (`event_trigger_all`).

### BoundedFifo, Cbuf
`BoundedFifo` is a bounded queue of bytes with `Put` and `Get` of any number of
bytes that fit. `Cbuf` has the ring, its two pointers, and what each thread has
still to transfer (`len`). One pass of the loop of `cbuf_read` or `cbuf_write`
is one step, as it holds the lock. `cbuf_available` reads the pointers without
the lock and is two steps. The refinement mapping reads the ring from
`read_ptr` to `write_ptr`.

### Process
One process: its entry in the table (refs, present), busy, the wait queue of
`signal_event`, the threads that are alive and those inside a system call.
`task_pruse` and `task_prrelease` are three steps each (get, count, unref), as is
`task_prwait` (get, join the queue, return). `_task_prkill_async` is one step per
wait and per change: get, remove, kill each thread once it is outside the kernel,
wait for busy, set the exit code, wake the waiters, wait for the references,
dispose, unref. What `ThreadKill` and `Paging` find about those steps is in the
model: a thread may fall deaf to the abort (`FallDeaf`), may enter the kernel again
between the look at its busy count and its death (`FindQuiet`, then `KillThread`),
the cleaner may sleep over the request (`CleanerMisses`) until another one makes it
look (`CleanerLooks`), and the walk over the pagemap may not end (`WalkForGood`). A
caller of `task_prwait` may be aborted (`PrwaitAbort`, which leaves its queue entry
behind and still reads the exit code) or be killed itself with the reference in its
hands (`CallerKilled`). A user of the process works for one of its threads, which
stays in its system call for as long, the way a requester of a block device does.
There is one killer; the caller of `task_prkill`, who polls a record the callback
frees, is not modelled.

### Block
A request is named by the thread whose stack frame holds it. `Send` is the
section under `access` that links it; the worker's `Look`, `Use`, `CallDriver`,
`Finish` and `DropFailed` are the stretches of `blk_worker` between which other
threads can run. `KillProcess` takes a requester's process out of the table,
after which `task_pruse` fails. When the worker has set `done` on such a request
and the requester returns before the worker has read `next`, the frame is gone:
`LeaveFrame` sets the history variable `stale` and the pointer becomes any
pointer. Nothing is claimed after that, and TLC does not go on from there.

### Files
Six tables, all rcparrays: the descriptors of two processes, the file descriptors of
fd.c, the handles of fs.c, and the local handles of an iso9660 and a devfs mount. A
call walks down them (`syscall_*`, `fd_*`, `fs_*`, then the filesystem's operation),
taking a reference at each level, and gives them back on the way up (`Up`,
`Return`); each macro is a step, so another thread can close, open or duplicate at
every level in between, and ids are reused. `iso9660_read` and `iso9660_readdir` are
two steps, before and after the disk is read. `fs_proc_cleanup` and `task_prkill`
take an ended process apart with `rcparray_foreach` as it is written, which stays on
the index of an empty slot; `crashed` records where that leads to a null pointer.
`orphaned` records a `devfs_dup` or `fs_dup` that was given a handle which was
closed meanwhile; TLC does not go on from there. `fs_proc_cleanup` gives each
reference it took on a descriptor back to the array of threads instead (fs.c:59).
The descriptors are disposed of with the process right after; what the stray unref
does to the list of threads, which is disposed of too, is not modelled.

### Paths
`fs_to_absolute_path` is a fold of `Walk` over the segments of a path, with the
place of `ptr` in the buffer, on a slash or at the end. `fs_get_mount` compares
characters, as the code does. `EntryAt`, `iso9660_find` and `NextDentry` read
directories of blocks of entries of any length that fill a block or end with a
length of 0. The run evaluates them on every path of up to four segments, every
order of up to three mounts and every directory of up to two small blocks.

### Irq, Cbufm, Serial, Keyboard
`Irq` has the ring of interrupt numbers, the shared `irq_last`, and two workers
whose every access to shared state is a step, because a simplock does not hold
the scheduler off. `Cbufm` states the arithmetic of the broadcast ring; `Serial`
and `Keyboard` execute it in the steps of their readers, with the handler
falling in between. In `Serial` the test outside the lock, the wait, the lock,
each chunk of the copy and the release are steps. `event_wait` in `cbufm_wait`
takes the reader off the CPU; in `cbufm_read`, which finds the ring empty under
the lock when another reader was faster (`ReadNothing`), it only marks the reader
BLOCKED, because the lock forbids the yield. Marked, it goes on reading what comes,
and loses the CPU (`SwitchOff`) when it has released the lock, unless a byte that
came after the mark has made it RUNNABLE again. Nobody else runs in between:
`run` is "on", "marked" or "off".

`Keyboard` goes from the scancodes (a release is the prefix 0xF0 and the scancode,
two interrupts) through the table of ps2.c (`Key`), `pressed`, modifiers and system
request to the ring, with `input_loop` repeating keys, and to the readers of
terminals, of which only the current file of the shown terminal reads. The driver
drops the prefix 0xE0, so the right and the left control send one scancode; the
table gives one key to several scancodes (F2 and keypad 1) and key 0 to those it
does not know; and it knows two shifts and, in input.c, three keys that mean
control. Releasing one of two buttons that share something clears it for both.
A key event 0 is written to the ring, consumed by the reader and dropped. Any
button held down may repeat its scancode, where a keyboard repeats the last one.
In each, ghosts keep what was enqueued and not yet read,
whether a full turn of the ring overwrote something (`overrun`, `lapped`,
`kb_lapped`), and whether a reader got anything but the oldest.

### Disk
`StartRead`, `BurstCount` and `CopyBurst` are `dev_block_read` for one call,
`ahci_rw_scsi`, `Issue`, `Answered` and `Received` the driver's packet, `Identify`,
`AskCapacity`, `Capacity` and `AddDrive` the set-up of a drive. `Controller`, which
is external, answers a command or reports a task-file error. The queue between
`dev_block_read` and the driver is `Block`, whose worker serves one request at a
time; therefore one read at a time is enough here. After an error the command stays
in `ci`, and the next one takes the next slot, until `ahci_start_cmd` clears them. A
controller with a single slot then has none: `ahci_find_cmdslot` returns -1, which
`ahci_scsi_packet` uses all the same, and so does `Issue` (`NoSlot`). `ahci_rw` and
`ahci_flush` have no caller.

### Terminal
Terminals with their buffers and cursors, the screen, the parser of escape
sequences that all terminals share, and `tty_switch_to` in its two halves. A colour
is the number the escape sequence gave. Writes
are one step: they hold a spinlock from beginning to end. `tty_write` copies to
the screen only as many cells as it wrote, from where it began, as the code does;
`stale` and `astray` record the cases in which that is not all that changed.

### Frames, Paging
`Frames` builds the pieces from a memory map the way `mem_init_multiboot` does
(the root piece is full at the size of its bitmap, the frame that opens a later
piece is not counted) and states each operation as a function of the allocator's
state. `Paging` has the kernel's map and that of a process as trees of small
width; drivers allocate, map and free kernel pages while `elf_load` goes through
its allocations, its mappings page by page and its refusals, the program gives a
page back with `syscall_pgfree`, and the end of the process walks its map and
disposes of it. `kpforeach` is modelled with its way of moving on; where it does
not get past a table without entries it keeps its locks for ever, and so does
`kpalloc` (arch/x64/page.c:331), which in this version takes two locks and ends
without allocating, returning or releasing. `stopped` becomes "locked" then.
Its callers (pool.c:47, task.c:141 and 143, syscalls_mem.c:7) are modelled
elsewhere as if it allocated the way `kpcalloc` does.

### Heap
A pool is a row of pieces with a bitmap. The bitmap changes in one step, under
the lock; the check that the pieces are blank and the header come in a later
step, and `krealloc` is an allocation, a copy and a free. `kmpool_create` and
`GrowSize` compute the layout of a pool in bytes, with the code's roundings.
`kmpool_create` clears the bitmap in whole bytes (pool.c:62), so up to seven bits at
its end keep what was in memory: `Leftover` are the ones that were set, which no
block ever takes or frees. The root pool has 65276 pieces, so four of its bits are
affected. When
the root pool has no room the behaviour stops (`heap_stop` is "grow"): the code
then takes the lock of a pool that need not exist (pool.c:231).

## 3. Runs

| run | instance | shows |
|---|---|---|
| files | array: 3 clients, 2 values, 3 slots; tables: 2 threads, a killer, 2 processes, 2 entries per table, 2 opens; names: paths of 4 segments, 3 mounts, 2 blocks | nothing freed or reused under a holder; every descriptor leads to what it was opened for and is closed once; handles counted exactly; names, mounts and listings right |
| path_canonical | the same | *violated*: a path with two ".." in a row is not canonical |
| sched | 3 threads, nesting 2 | yields never panic, bounded overtaking, every ready thread runs |
| event | 2 waiters, 1 triggerer that also kills | lock keeps the CPU, no lost wakeup, exact effect of the second release, waiters return |
| event_abort | the same | *violated*: a waiter killed in event_wait releases a lock it does not hold and the kernel panics later |
| kill | killer, victim, self-killing async thread, cleaner; the mailbox and the victim's waits in two parts | the mailbox loses nothing, a dead thread stays off the CPU, is freed only once dead and not to be found, and before the killer returns; busy waits end unless the victim is deaf |
| kill_busy | killer, victim, cleaner | *violated*: a busy thread is killed |
| kill_hang | the same, fair | *violated*: the cleaner sleeps over a request, the killer never returns |
| kill_async | as kill | *violated*: the async function is called twice |
| cbuf | pipe: 1 reader that polls, 2 writers, 3 bytes; interrupts: 2 workers, 2 lines, ring of 3; serial: 2 readers, ring of 3; keyboard: 8 buttons, 4 strokes, 2 open files, 2 terminals | the pipe implements BoundedFifo and its calls end; the other rings lose, repeat and reorder nothing unless lapped; who sleeps over data missed it in a window the code leaves; no key or modifier is stuck |
| block | queue: 2 requesters, 1 mortal, 2 bursts; disk: 4 sectors of 2 bytes, 6 slots, 4 tables; screen: 2 terminals of 2 by 2, 4 calls | the list is intact and served in order, calls end, reads deliver the bytes asked for, commands have a slot, the screen shows its terminal |
| process | process: 2 threads, 2 callers; memory: 2 pieces, maps of 6 pages; heap: 2 threads, 7 pieces, a leftover bit; pools of 1,172 sizes; loop: every table of 3 | nothing disposed of under a holder, the kill ends but for the cases named below, every frame and piece has one owner, pools fit, searches are first fit, the C loop equals its closed form |

The properties and what each says:

- **files**: `NoDanglingPointer` (a held slot is not freed), `HeldValueStable` (a
  holder's value never changes), `DescriptorsResolve` (each descriptor leads to an
  open handle of its thing, each fd and handle has one owner), `HandleRefs` (a local
  handle counts what leads to it, a device its opens), `UsesOwnFile` (a call reaches
  its own file, at a position inside it), `PlainPathsCanonical`, `MountResolves`
  (the longest mount wins), `ListingComplete`. **path_canonical**: `PathsCanonical`.
- **sched**: `NoYieldPanic`, `BoundedOvertaking`, `ReadyThreadsRun`.
- **event**: `LockKeepsCPU` (no switch inside the lock; `reshed_block` accounted
  for), `BlockedIsQueued`, `WaitersReturn`; **event_abort**: `NoPanic`.
- **kill**: `DeadStaysOff`, `ReturnMeansFreed`, `FreedOnlyWhenDead` (dead, taken and
  not in `Found`), `BusyWaitEnds` (left or `Deaf`); the violations are `BusyNotKilled`
  (kill_busy), `KillCompletes` (kill_hang), `CalledOnce` (kill_async).
- **cbuf**: `ImplementsFifo`, `TransferEnds`; `InterruptsInOrder`,
  `SleepsOnlyInWindow`; `SerialInOrder`, `SerialSleepsForBytes`; `KeysInOrder`,
  `KeysFollowKeyboard` (what the drivers believe held down is held down by some
  button, and what one button alone can hold is believed held while it is down).
- **block**: `ListIntact`, `FirstComeFirstServed`, `CallsEnd`; `SlotHasTable`,
  `ReadsDeliver`; `ScreenShowsTerminal`.
- **process**: `RefsExact`, `UsedNotDisposed`, `PrkillEnds`; `SearchIsFirstFit`,
  `FramesAccounted`; `HeapSound`, `PoolsFit`; `LoopIsClosedForm`.

**Bounds.** Three threads are the least with a middle one between the current
and the waiting one, so overtaking and wrap happen; nesting 2 has an inner
`task_reshed_enable` that must not switch. A sleep of 0 already waits for the
next tick. Two waiters make the order of a queue visible; the queue bound
`MaxQueue` limits entries left behind by killed waiters. The mailbox needs two
requests at a time: the killer's and the async thread's. A ring of three is full
at two, so transfers wrap at every offset and a burst of interrupts laps it;
calls on the pipe are longer than what fits. Two entries per table make reuse of
an id the normal case, and two opens are enough for a close and an open to fall
inside another call. A directory needs two blocks for the step between them. Two
block requests make the list longer than its head; `MaxLeaks` bounds the reads
that fail. A disk of four sectors has reads that begin and end inside a sector and
take up to two bursts. Two rows and two columns wrap and scroll with four writes.
Maps of two levels with two entries each have absent tables to skip; the memory
map of `MCProcess` has unusable regions and a second piece; `Pieces` is the constant
that stands for `PiecesOfMap` (`PiecesAssumption`), so that TLC computes it once. A
pool of seven pieces has bits behind its last whole byte, one of them set. Two threads
and two callers of a process are enough for one to be worked for, or to wait, while
another is killed or falls deaf. The victim's waits and the contest for the mailbox
are explored in two parts of run kill: in "mailbox" the victim's system calls do not
wait, in "waits" the asynchronous function does not return. In `MCFiles` one thread
reads and spawns and the other makes the other calls (`MCCalls`), the killer closes
and disposes: two reads or two opens at once do not occur.
The eight buttons of `MCCbuf` have every kind of sharing: two that send one scancode,
two scancodes of one key, three buttons of one modifier, one the table does not know,
the system request key and keys that switch terminals; the modifier key 0x18 has no
scancode in the table. Three parts keep this small: all buttons with no reader, two
files that read one terminal, and a file that reads on either of two terminals while a
key repeats and the keys switch (alt goes down before ctrl there). Escape sequences of
four characters (`ANSI_MAX`; 22 in the code) reach every command, cursor positions
included, and are abandoned when they are longer. `MaxCalls`,
`MaxStrokes`, `MaxWrites` and `MaxOpens` end behaviours that could go on for ever.
`PoolSizes` are the 1,171 sizes around the smallest pool, where the roundings of a
larger pool set in; the theorem covers every size.

**Fairness.** The timer keeps firing (weak fairness). A thread that gets the
CPU again and again gets some code executed in its time slices (strong
fairness per thread in the modules with a scheduler). `SchedProofs` and the run
sched justify the weak fairness per thread used where the scheduler is left out
(`Cbuf`, `Block`, `Process`). No thread is obliged to make a call. `Process` has
strong fairness for the killer: its loops look at a thread's busy count each
time they run, and a thread that was told to abort blocks when it leaves the
kernel. Critical sections end: they are bounded pieces of kernel code. No
fairness is assumed of interrupts or of the drive.

**Deadlock** is checked except where the system really stops: after a `kpanic`
(event), after a crash or when the opens and mounts are used up (files), when
the process is gone, the search has ended, the machine is locked or the heap must
grow (process).

**Conditions in properties.** Each is something the code does not prevent.

- `LockKeepsCPU`, `BlockedIsQueued` and `WaitersReturn` hold until a waiter notices
  its abort after waking up (the finding of event_abort).
- The properties of `Block` hold until a frame is left that the worker still reads.
- `FreedOnlyWhenDead` does not say that a victim leaves its process's list: killed
  by `_task_prkill_async` it stays there, and the process is out of the table.
- `BusyWaitEnds` excludes a victim that is `Deaf`: one that goes to sleep for good
  after the abort, or goes round in `cbufm_wait`.
- `PrkillEnds` excludes a `task_prrelease` after the process left the table, which
  does not count down (`CountLost`); a `task_prwait` that joins the queue after
  `event_defunct` (`LateWaiter`); and (`Stranded`) a thread that is deaf to the abort,
  a cleaner that sleeps over the request, a walk over the pagemap that does not end,
  and a caller that is killed with a reference. It shows that this list is complete.
- `SerialSleepsForBytes` and `SleepsOnlyInWindow` describe the windows between a test
  and a sleep, which the code has, and exclude any other way to sleep over data.
- `SlotHasTable` is for controllers with two command slots or more; the run has six.
- `Files` is followed until a dup is given a handle that was just closed
  (`NotOrphaned`). `UsesOwnFile` leaves out calls whose descriptor is closed under
  them and positions moved by two calls at once. A walk of `fs_proc_cleanup` that ends
  in a null pointer (`crashed`) is a state like others, from which nothing goes on.
- `MountResolves` supposes that no mount point is the beginning of a longer name;
  `PlainPathsCanonical` has no two ".." in a row.
- The rings of interrupts, bytes and key events: until a full turn overwrites what was
  not read.
- `KeysFollowKeyboard`: a scancode, key or modifier that two buttons share may be
  cleared while one of them is still held.
- `ReadsDeliver` holds until the port reports an error (`ahci_rw_scsi` returns 0 all
  the same) and for bursts the DMA buffer holds: the run has `BurstMax` =
  `DmaSectors`, where the kernel has bursts of 16 sectors of 2048 bytes over a buffer
  of 0x4000, which holds 8. In the kernel as configured the property is therefore
  about reads of up to 8 sectors, which take one burst. Behind the bytes asked for, a
  read of several bursts that ends inside a sector may write the rest of that sector.
- `FramesAccounted` holds as long as only frames of the root piece are handed out
  (`RootPieceOnly`): `kfindexof` does not undo `kfpaddrof` in a later piece. A walk
  that does not end stops the part, and nothing is said of what it would have freed.
- `ScreenShowsTerminal` names its exceptions in its comment.

## 4. Findings

Each is a run that violates what a comment or an assertion of the code says.

- **event_abort**: `event_wait` calls `spinlock_release` twice when it notices
  the abort after waking up (kernel/event.c:23). `reshed_block` stays one too
  low, a later lock holder is preempted, and the next thread that wants the
  lock spins into `kpanic`.
- **kill_busy**: `task_tkill` checks `busy` and declares the thread dead in two
  steps.
- **kill_hang**: `_task_cleaner` blocks on the strength of a mailbox it read
  earlier.
- **kill_async**: after `current_context` is set to `a_context`, a thread that
  is scheduled again is resumed from an old context.
- **path_canonical**: `fs_to_absolute_path`, which fs.h says gets rid of "..",
  stays on a slash after stepping back, where a second ".." stops at once.

The conditions of section 3 are the other places where the code falls short of
what one would state of it.

## 5. Proofs

All theorems hold for every value of the constants, under the assumptions named
in the modules (finite sets of threads, distinct special values, sizes that are
natural numbers), which TLC evaluates on each run.

- **RcpArrayProofs**: `ArraySafe` and `ValueStable`. The inductive invariant
  joins `TypeOK`, the exact count of each entry's references (one for being
  present, one per holder), and the facts about `fd_close`: who is closing holds
  the close lock and its slot is present. The count needs lemmas on how the set
  of holders of a slot, and its cardinality, change when one client gets or
  drops it. From exact counts follows that an entry is freed only when nobody
  holds it, and that `rcparray_add`, which takes NULL slots only, never reuses
  one somebody reads.
- **SchedProofs**: `SchedSafe`, `OvertakingBounded` and `EntersReady`. Besides
  types and `OnlyCurrentRunning` the invariant says which program counters are
  possible at which `reshed_block` (a thread off the CPU is at a point where the
  count was 0), from which `NoYieldPanic` follows. Overtaking is bounded because
  the distance of a passed-over thread from `last_tid` shrinks with each switch:
  `passed` plus that distance never exceeds the number of threads.
- **EventWaitProofs**: `EventLock` and `EventQueue`. The invariant says, besides
  types and where a thread can be for what it called (`OpsFit`): until a late
  abort, only the current thread is inside the lock, `reshed_block` is 1 exactly
  then, and the lock word is set exactly between taking and releasing it
  (`LockHeld`); the queue has no duplicates and whoever is in it is on the way
  through `event_wait` and blocked or aborted (`QueueSound`), which is why
  `tqueue_add` never adds a second entry; whoever is blocked is in the queue
  (`BlockedHasEntry`). The count of `reshed_block` (`CountExact`) is kept by every
  step, late aborts or not, from how two finite sets change by one element.
- **ThreadKillProofs**: `DeadNeverRun`, `KillReturnsAfterFree` and
  `FreesOnlyTheDead`, for any number of killers, victims and threads that kill
  themselves, with roles apart and no two killers of one victim (`RolesAssumption`).
  None of the three is inductive. The invariant adds where each role can be and be
  resumed (`TypeOK`, `ContextsKept`), that only those somebody kills ever die
  (`OnlyKilledDie`), and for each kill how far it has come in all the places that show
  it: the killer's program counter, the victim's status and `running`, the mailbox and
  the cleaner (`KillsProgress`, `CleanerWorks`). `Progress` has the fact that matters
  for `FreesOnlyTheDead`: once the killer is past `RemoveProcess` nobody finds its
  victim; for those that kill themselves `AsyncsUnlisted` has it, also for the old
  context they may be resumed from.
- **ProcessProofs**: `ProcessRefsExact` and `ProcessUsedNotDisposed`, for any finite
  sets of callers and threads. The invariant is the exact counts, what is gone at each
  stage of `_task_prkill_async` (`KillOrder`), and that only a thread that lives, is in
  a system call and was not found outside the kernel is worked for (`CallsAlive`). The
  killer's one reference is its own because the counts are exact; no thread is worked
  for by then because `task_pruse` fails once the entry has left the table and the
  calls have ended. The counts are cardinalities of sets that change by one element.
- **BlockProofs**, the queue: `BlockListIntact` and `BlockServesInOrder`. The
  invariant, until a frame is left too early, says that *some* sequence of requests is
  what the links spell out, without repetition, from `io_queue` to `last_brq`, that it
  is the outstanding ones, and that the worker is at its head (`Queued`). That the
  recursive function `chain`, which follows the links, spells the same sequence is
  shown without induction: a least place where they differ would have a predecessor
  (`FollowsLinks`). Each step leaves the sequence, appends to it, or drops its head.
- **BlockProofs**, the disk: `CommandsHaveTables`, for two command slots or more and
  two tables or more, because at most one command is left behind in `ci` when the next
  is issued (`PortOK`; with a single slot the theorem is false). `ReadsDelivered`, for
  all sizes of sectors, bursts and buffers: until a port error, the buffer holds the
  bytes from `pos` on, as many as the sectors read so far give, and what is left is
  what those sectors do not cover (`ReadOK`); a burst that fits the DMA buffer extends
  that by the bytes it copies (`BurstAdds`, `CopiesInOrder`).
- **HeapProofs**, the heap: `HeapAlwaysSound`, for any pool, any number of callers and
  any leftover bits. `Sound` states `HeapSound` block by block: headers are intact,
  blocks of clients and of calls in progress are pairwise apart, a piece is taken
  exactly when one of them covers it, and uncovered pieces are blank. `Take` finds room
  by first fit, which picks the least place with enough blank pieces behind it
  (`FirstFit`, by the well-ordering of the naturals).
- **HeapProofs**, the pools: `PoolsAlwaysFit`. A pool's size is a multiple of 32 and
  at least that of the smallest pool; the pages it gets leave room for the bitmap
  behind the header, which is 4 bytes shorter than the structure that ends in it. For
  some smaller sizes (446560 bytes is the last) the bitmap would run into the pieces,
  so the size of the smallest pool is what makes the theorem true.
- **RingProofs**, the pipe: `CbufSafe`, `CbufIsFifo` and `CbufAvailable`. The
  invariant is `TypeOK` and `BlockedForReason`. The abstract queue is the run of bytes
  from `read_ptr`; lemmas show that a run can be split where a transfer stops and
  extended where one is written, that a chunk never wraps because it is cut at the end
  of the ring, and that one byte is always left free so that full and empty differ.
  `CbufAvailable` adds that what `cbuf_available` has computed, or computes from a
  pointer it read earlier, is at most what the ring holds, as long as one thread
  reads: writers only add to it.
- **RingProofs**, the interrupts: `InterruptsReadInOrder` and `IrqSleepsOnlyInWindow`,
  for any number of workers and any ring. Until an overrun the cells from `irq_last` to
  the write pointer are the pending interrupts in order (`RingHoldsPending`), one
  worker at a time is between lock and read (`LockHeld`), and what is pending while
  worker 1 sleeps came in its window (`FirstWaits`).
- **RingProofs**, the serial port: `SerialReadsInOrder` and `SerialSleepsOnlyInWindow`,
  for any number of readers, sizes and requests. Until the ring is lapped the cells
  from the reader's place on are the unread bytes (`UnreadInRing`), one reader at a time
  copies (`CopiesAlone`), and a reader that is marked or off has missed each unread byte
  in one of the two windows (`WaitsForBytes`). The mark outlives reads, so the invariant
  follows a marked reader through the copy, the release and the next call.
- **RingProofs**, the keyboard: `KeysReadInOrder`, for any even size of the ring,
  because an event is two bytes and a place in the ring is twice the place of an event
  (`KeyRingAt`); and `KeysAlwaysFollow`, for any buttons, scancodes and table of keys.
  The latter needs that the driver's `release` is set exactly between the two scancodes
  of a release (`PressedIInv`).

The assumptions on the constants are in the modules that declare them:
`ConstantsAssumption`, `SchedBounds`, `RolesAssumption`, `CbufAssumption`,
`IrqAssumption`, `SerialAssumption`, `KeyboardAssumption` (`KB_SIZE` is even and the
table has bytes), `ProcessAssumption`, `BlockAssumption`, `DiskAssumption`,
`HeapAssumption` (leftover bits lie behind the last whole byte of the bitmap).

Model-checked only, and why:

- liveness (`ReadyThreadsRun`, `WaitersReturn`, `BusyWaitEnds`, `TransferEnds`,
  `CallsEnd`, `PrkillEnds`): the prover does not reason about fairness;
- `PlainPathsCanonical`, `MountResolves`, `ListingComplete`: `Paths` is written with
  recursive operators;
- `LoopIsClosedForm`, `SearchIsFirstFit`, `FramesAccounted`, `ScreenShowsTerminal`:
  the search loop, the walks over page maps and the writes to a terminal are folds
  and recursive functions over data, about which the prover has no induction;
- `DescriptorsResolve`, `HandleRefs`, `UsesOwnFile`: not proved; their invariant spans
  six tables and every call in progress.

Proved and not part of a run: `CbufAvailable`, `EntersReady`; `PoolsAlwaysFit` covers
all sizes where the run's `PoolsFit` covers 1,172.

## 6. Not modelled, and why

- **Several killers**: two `task_tkill` of one thread, two `task_prkill` of one
  process, and the caller of `task_prkill` that polls a record the callback frees.
  Nothing in the code keeps them apart, so there is no property to state beyond
  that; the hazard is listed.
- **The hash segments of rcptable**: one process is followed, so the segment it is
  in does not matter.
- **Threads killed inside cbuf_read, cbuf_write and cbufm_read**: their loops ignore
  the -1 of `event_wait`, as `cbufm_wait` does, which `ThreadKill` has; `irqq_read` and
  `irqq_wait` (irq.c:85, 146) block without a look at the abort, but only in threads of
  the kernel's own process.
- **A second heap pool**, see `Heap`; **kpalloc**, see `Paging`.
- **Interrupt handlers that take a spinlock a thread holds** (pcuart.c:73): in
  `Serial` the handler runs between the sections under a lock.
- **Boot**: installing handlers, registering devices, mounting, the device tree,
  PCI and ACPI enumeration, descriptor tables. They run once, on one thread.
- **Proxies of block devices (partitions), `ahci_rw`, `ahci_flush`,
  `mempg_mapvto`**: no caller.
- **Formats and text**: ELF and ISO 9660 beyond what the loader and the listing
  decide, printf, strings, port I/O, drawing. No property is about them. In
  particular the length of strings is not modelled: fs.c:67 allocates an absolute
  path without its terminating zero.

Further hazards seen and not covered: `dev_block_read` returns from a failed burst
with the device reference it took (block.c:271); the worker of a block device goes
on with the page directory of a process it has released (block.c:60); `burst_count`
has 16 bits (block.c:264); `task_tkill` does not give the process entry back
(task.c:279), which a process that is being killed does not feel and the
kernel's does; `ttyk_read` goes on reading without looking at what is left of the
buffer (ttyk.c:131) and, with the last file gone, takes the current one from before
the list (ttyk.c:77); `irq_install` links a node before its function is set
(irq.c:210).
