------------------------------- MODULE Files -------------------------------
(***************************************************************************)
(* Open files, from the system call down: a process's descriptors          *)
(* (fs/syscalls_fs.c) name entries of the table of file descriptors        *)
(* (fs/fd.c), which name handles of the filesystem switch (fs/fs.c), which *)
(* name local handles of a mounted filesystem: iso9660 and devfs (over     *)
(* dev/char.c).  All four are rcparrays.  An operation walks down them,    *)
(* taking a reference at each, and walks back up; each macro is a step,    *)
(* and what a lock of the caller covers is one step.  Ids are reused, so a *)
(* call that runs while its descriptor is closed may reach another file.   *)
(***************************************************************************)
EXTENDS Integers, FiniteSets, FiniteSetsExt

CONSTANTS
  FileThreads,   \* the threads of process "p"
  Killer,        \* the thread that takes an ended process apart
  IsoFiles, IsoDirs, CharDevs, OtherDevs, DevRoot,  \* what can be opened
  Device0,       \* the device whose id is 0
  FileSize,      \* the bytes of a file, the entries of a directory
  TableSize,     \* bound on every table
  MaxOpens,      \* bound on the calls that open something
  Calls,         \* the calls each thread makes
  Nil

ASSUME FilesAssumption ==
  /\ Killer \notin FileThreads
  /\ FileSize \in Nat /\ TableSize \in Nat

VARIABLES
  tables,    \* the descriptors of processes "p" and "c", "fds", "handles",
             \* and the lhandles of the mounts "iso" and "dev"
  running,   \* the processes that have not ended
  th,        \* where each thread is
  opens,     \* how often each character device was opened, less its closes
  opened,    \* how many calls opened something
  orphaned,  \* a dup was given a local handle that was closed meanwhile
  crashed    \* the kernel called or read through a null pointer

filesVars == <<tables, running, th, opens, opened, orphaned, crashed>>

Actors  == FileThreads \cup {Killer}
Ids     == 0 .. TableSize - 1
Things  == IsoFiles \cup IsoDirs \cup CharDevs \cup OtherDevs \cup {DevRoot}
MountOf(x) == IF x \in IsoFiles \cup IsoDirs THEN "iso" ELSE "dev"
Dirs    == IsoDirs \cup {DevRoot}

AtRest == [pc |-> "idle", op |-> "none", p |-> "p", lid |-> Nil, fd |-> Nil,
           hid |-> Nil, m |-> Nil, ifd |-> Nil, len |-> 0,
           newh |-> Nil, newfd |-> Nil,  \* what an open or a dup has made
           want |-> Nil,                  \* what the descriptor stands for
           stale |-> FALSE]                \* it was closed during the call

FilesInit ==
  /\ tables = [n \in {"p", "c", "fds", "handles", "iso", "dev"} |-> [i \in Ids |-> Nil]]
  /\ running = {"p"}
  /\ th = [t \in Actors |-> AtRest]
  /\ opens = [d \in CharDevs |-> 0]
  /\ opened = 0
  /\ orphaned = FALSE
  /\ crashed = FALSE

-----------------------------------------------------------------------------
(* The macros of include/aex/rcparray.h on table n. *)
InTable(n, i) == i \in Ids /\ tables[n][i] # Nil /\ tables[n][i].present

Val(n, i) == tables[n][i].val

Ref(n, i) == [tables EXCEPT ![n][i].refs = @ + 1]

Less(e) == IF e.refs = 1 THEN Nil ELSE [e EXCEPT !.refs = @ - 1]

Unref(n, i) == IF tables[n][i] = Nil THEN tables ELSE [tables EXCEPT ![n][i] = Less(@)]

Removed(n, i) == IF tables[n][i] = Nil THEN tables
                 ELSE [tables EXCEPT ![n][i] = Less([@ EXCEPT !.present = FALSE])]

Empty(n) == {i \in Ids : tables[n][i] = Nil}

Add(n, v) == [tables EXCEPT ![n][Min(Empty(n))] = [refs |-> 1, present |-> TRUE, val |-> v]]

-----------------------------------------------------------------------------
At(t, pc)      == th[t].pc = pc
Move(t, r)     == th' = [th EXCEPT ![t] = r]
Goto(t, pc)    == Move(t, [th[t] EXCEPT !.pc = pc])
Crash          == crashed' = TRUE /\ UNCHANGED <<tables, th>>
devices        == <<running, opens, opened, orphaned>>

(* The killer goes on with the next descriptor after a close. *)
Return(t)      == Move(t, IF t = Killer THEN [th[t] EXCEPT !.pc = "cleanup", !.lid = @ + 1]
                                     ELSE AtRest)

(* One level down: a reference to entry i of table n, or the way back up   *)
(* from `fail'.                                                            *)
Descend(t, n, i, r, fail) ==
  /\ IF InTable(n, i)
     THEN tables' = Ref(n, i) /\ Move(t, r)
     ELSE Goto(t, fail) /\ UNCHANGED tables
  /\ UNCHANGED <<devices, crashed>>

(* System calls on a descriptor. *)
Enter(t, lfd, op) ==
  /\ At(t, "idle") /\ "p" \in running /\ op \in Calls[t]
  /\ InTable("p", lfd)
  /\ Descend(t, "p", lfd, [AtRest EXCEPT !.pc = "fd", !.op = op, !.lid = lfd,
                             !.fd = Val("p", lfd).fd, !.want = Val("p", lfd).what], "idle")

syscall_fread(t, lfd)   == Enter(t, lfd, "read")
syscall_fwrite(t, lfd)  == Enter(t, lfd, "write")
syscall_fseek(t, lfd)   == Enter(t, lfd, "seek")
syscall_ioctl(t, lfd)   == Enter(t, lfd, "ioctl")
syscall_readdir(t, lfd) == Enter(t, lfd, "readdir")

(* A descriptor of a directory has no write and no dup. *)
FdUse(t, op) ==
  /\ At(t, "fd") /\ th[t].op = op
  /\ IF InTable("fds", th[t].fd) /\ Val("fds", th[t].fd).dir /\ op \in {"write", "dup"}
     THEN Crash /\ UNCHANGED devices
     ELSE LET fd == th[t].fd
          IN  Descend(t, "fds", fd, [th[t] EXCEPT !.pc = "handle",
                         !.hid = IF InTable("fds", fd) THEN Val("fds", fd).hid ELSE Nil],
                      IF op = "dup" THEN "spawn" ELSE "up_lid")

fd_read(t)    == FdUse(t, "read")
fd_write(t)   == FdUse(t, "write")
fd_seek(t)    == FdUse(t, "seek")
fd_ioctl(t)   == FdUse(t, "ioctl")
fd_readdir(t) == FdUse(t, "readdir")

HandleUse(t, op) ==
  /\ At(t, "handle") /\ th[t].op = op
  /\ LET hid == th[t].hid
     IN  Descend(t, "handles", hid,
                 IF InTable("handles", hid)
                 THEN [th[t] EXCEPT !.pc = "fs", !.m = Val("handles", hid).m,
                                    !.ifd = Val("handles", hid).ifd]
                 ELSE th[t], "up_fd")

fs_read(t)    == HandleUse(t, "read")
fs_write(t)   == HandleUse(t, "write")
fs_seek(t)    == HandleUse(t, "seek")
fs_ioctl(t)   == HandleUse(t, "ioctl")
fs_readdir(t) == HandleUse(t, "readdir")

-----------------------------------------------------------------------------
(* The filesystems.  iso9660_write and devfs_seek only return an error. *)
NoHandle(t) == <<th[t].m, th[t].op>> \in {<<"iso", "write">>, <<"dev", "seek">>}

(* Mutant of FsGet: the handle's number is taken for the local handle's. *)
fs_get_by_handle(t) ==
  /\ At(t, "fs") /\ th[t].op # "dup"
  /\ IF NoHandle(t) THEN Goto(t, "up_hid") /\ UNCHANGED <<tables, devices, crashed>>
     ELSE Descend(t, th[t].m, th[t].hid,
                  [th[t] EXCEPT !.pc = "use", !.ifd = th[t].hid], "up_hid")

FsGet(t) ==
  /\ At(t, "fs") /\ th[t].op # "dup"
  /\ IF NoHandle(t) THEN Goto(t, "up_hid") /\ UNCHANGED <<tables, devices, crashed>>
     ELSE Descend(t, th[t].m, th[t].ifd, [th[t] EXCEPT !.pc = "use"], "up_hid")

Using(t, m, op) == At(t, "use") /\ th[t].m = m /\ th[t].op = op
Here(t)         == Val(th[t].m, th[t].ifd)
SetPos(t, pos)  == tables' = [tables EXCEPT ![th[t].m][th[t].ifd].val.pos = pos]

(* Threads that wait for the disk in iso9660_read or iso9660_readdir of the
   same local handle. *)
Midway(t) == {u \in Actors : At(u, "midway") /\ th[u].m = th[t].m /\ th[u].ifd = th[t].ifd}

Raced(t, T) == IF Midway(t) \ {t} = {} THEN T
               ELSE [T EXCEPT ![th[t].m][th[t].ifd].val.raced = TRUE]

(* The bytes left, size - pos, are unsigned: past the end, more than any len. *)
Left(h) == IF h.pos > FileSize THEN 2 ^ 16 ELSE FileSize - h.pos

iso9660_read(t, len) ==
  /\ Using(t, "iso", "read")
  /\ IF Here(t).what \in IsoDirs
     THEN Goto(t, "up_ifd") /\ UNCHANGED tables
     ELSE /\ Here(t).pos <= FileSize + 1   \* bounds what reads past the end add up to
          /\ Move(t, [th[t] EXCEPT !.pc = "midway", !.len = Min({Left(Here(t)), len})])
          /\ tables' = Raced(t, tables)
  /\ UNCHANGED <<devices, crashed>>

(* After the block device has answered. *)
iso9660_read_done(t) ==
  /\ At(t, "midway") /\ th[t].op = "read"
  /\ SetPos(t, Here(t).pos + th[t].len)
  /\ Move(t, [th[t] EXCEPT !.pc = "up_ifd", !.len = 0])
  /\ UNCHANGED <<devices, crashed>>

Clamp(n) == Min({Max({n, 0}), FileSize})

SeekBase(h, mode) == CASE mode = 0 -> 0 [] mode = 1 -> h.pos [] mode = 2 -> FileSize

iso9660_seek(t, offset, mode) ==
  /\ Using(t, "iso", "seek")
  /\ IF Here(t).what \in IsoDirs
     THEN UNCHANGED tables
     ELSE tables' = Raced(t, [tables EXCEPT ![th[t].m][th[t].ifd].val.pos =
                                Clamp(SeekBase(Here(t), mode) + offset)])
  /\ Goto(t, "up_ifd")
  /\ UNCHANGED <<devices, crashed>>

(* -1 at the end; the block of the next entry may have to be read first. *)
iso9660_readdir(t) ==
  /\ Using(t, "iso", "readdir")
  /\ IF Here(t).what \in IsoDirs /\ Here(t).pos < FileSize
     THEN Goto(t, "midway") /\ tables' = Raced(t, tables)
     ELSE Goto(t, "up_ifd") /\ UNCHANGED tables
  /\ UNCHANGED <<devices, crashed>>

(* One entry on from where the handle is now. *)
iso9660_readdir_done(t) ==
  /\ At(t, "midway") /\ th[t].op = "readdir"
  /\ SetPos(t, Here(t).pos + 1)
  /\ Goto(t, "up_ifd")
  /\ UNCHANGED <<devices, crashed>>

(* One entry on, -1 at the end.  The position of a directory is in
   handle->data, which a device has not. *)
devfs_readdir(t) ==
  /\ Using(t, "dev", "readdir")
  /\ IF Here(t).what # DevRoot THEN Crash
     ELSE SetPos(t, Min({Here(t).pos + 1, FileSize})) /\ Goto(t, "up_ifd") /\ UNCHANGED crashed
  /\ UNCHANGED devices

Passes(t, m, op) ==
  /\ Using(t, m, op)
  /\ Goto(t, "up_ifd")
  /\ UNCHANGED <<tables, devices, crashed>>

iso9660_ioctl(t) == Passes(t, "iso", "ioctl")
devfs_read(t)    == Passes(t, "dev", "read")
devfs_write(t)   == Passes(t, "dev", "write")
devfs_ioctl(t)   == Passes(t, "dev", "ioctl")

(* The way back up: one unref after the other. *)
Up(t) ==
  /\ \/ At(t, "up_ifd") /\ tables' = Unref(th[t].m, th[t].ifd) /\ Goto(t, "up_hid")
     \/ At(t, "up_hid") /\ tables' = Unref("handles", th[t].hid)
          /\ Goto(t, IF th[t].newh # Nil THEN "dup_fd" ELSE "up_fd")
     \/ At(t, "up_fd") /\ tables' = Unref("fds", th[t].fd)
          /\ Goto(t, IF th[t].op = "dup" THEN "spawn" ELSE "up_lid")
     \/ At(t, "up_lid") /\ tables' = Unref("p", th[t].lid) /\ Return(t)
  /\ UNCHANGED <<devices, crashed>>

-----------------------------------------------------------------------------
(* Closing.  The descriptor goes under fiddie_lock, the file descriptor    *)
(* under fd_close's lock; _fs_close has none.                              *)
syscall_fclose(t, lfd) ==
  /\ At(t, "idle") /\ "p" \in running /\ "close" \in Calls[t]
  /\ InTable("p", lfd)
  /\ tables' = Removed("p", lfd)
  /\ th' = [u \in Actors |->
              IF u = t THEN [AtRest EXCEPT !.pc = "fd_close", !.fd = Val("p", lfd).fd]
              ELSE IF u # Killer /\ th[u].lid = lfd THEN [th[u] EXCEPT !.stale = TRUE]
              ELSE th[u]]
  /\ UNCHANGED <<devices, crashed>>

fd_close(t) ==
  /\ At(t, "fd_close")
  /\ IF InTable("fds", th[t].fd)
     THEN /\ tables' = Removed("fds", th[t].fd)
          /\ Move(t, [th[t] EXCEPT !.pc = "fs_close", !.hid = Val("fds", th[t].fd).hid])
     ELSE Return(t) /\ UNCHANGED tables
  /\ UNCHANGED <<devices, crashed>>

(* Mutant of fs_close: the handle is not removed. *)
fs_close_keeps_handle(t) ==
  /\ \/ /\ At(t, "fs_close")
        /\ IF InTable("handles", th[t].hid)
           THEN LET h == Val("handles", th[t].hid)
                IN  /\ tables' = Ref("handles", th[t].hid)
                    /\ Move(t, [th[t] EXCEPT !.pc = "fs_close_unref", !.m = h.m, !.ifd = h.ifd])
           ELSE Return(t) /\ UNCHANGED tables
     \/ At(t, "fs_close_unref") /\ tables' = Unref("handles", th[t].hid) /\ Goto(t, "close")
  /\ UNCHANGED <<devices, crashed>>

fs_close(t) ==
  /\ \/ /\ At(t, "fs_close")
        /\ IF InTable("handles", th[t].hid)
           THEN LET h == Val("handles", th[t].hid)
                IN  /\ tables' = Ref("handles", th[t].hid)
                    /\ Move(t, [th[t] EXCEPT !.pc = "fs_close_unref", !.m = h.m, !.ifd = h.ifd])
           ELSE Return(t) /\ UNCHANGED tables
     \/ At(t, "fs_close_unref") /\ tables' = Unref("handles", th[t].hid)
          /\ Goto(t, "fs_close_remove")
     \/ At(t, "fs_close_remove") /\ tables' = Removed("handles", th[t].hid) /\ Goto(t, "close")
  /\ UNCHANGED <<devices, crashed>>

(* Table T with the local handle's own count changed by k. *)
Count(T, t, k) == [T EXCEPT ![th[t].m][th[t].ifd].val.refs = @ + k]

(* One reference of table T's entry is dropped; `gone' marks it removed. *)
DropIn(T, t, gone) ==
  [T EXCEPT ![th[t].m][th[t].ifd] = Less(IF gone THEN [@ EXCEPT !.present = FALSE] ELSE @)]

(* The count is taken down, and the entry removed at zero, under a lock. *)
iso9660_close(t) ==
  /\ th[t].m = "iso"
  /\ \/ At(t, "close") /\ InTable("iso", th[t].ifd) /\ tables' = Ref("iso", th[t].ifd)
          /\ Goto(t, "iso_close")
     \/ At(t, "close") /\ ~ InTable("iso", th[t].ifd) /\ Return(t) /\ UNCHANGED tables
     \/ /\ At(t, "iso_close")
        /\ LET T == Count(tables, t, -1)
           IN  tables' = IF Here(t).refs = 1 THEN DropIn(DropIn(T, t, TRUE), t, FALSE)
                                             ELSE DropIn(T, t, FALSE)
        /\ Return(t)
  /\ UNCHANGED <<devices, crashed>>

(* The caller keeps its reference to a removed entry for dev_char_close. *)
devfs_close(t) ==
  /\ th[t].m = "dev" /\ At(t, "close")
  /\ IF ~ InTable("dev", th[t].ifd) THEN Return(t) /\ UNCHANGED tables
     ELSE IF Here(t).refs > 1 THEN tables' = Count(tables, t, -1) /\ Return(t)
     ELSE tables' = [Count(tables, t, -1) EXCEPT !["dev"][th[t].ifd].present = FALSE]
            /\ Goto(t, "dev_close")
  /\ UNCHANGED <<devices, crashed>>

(* The handle of devfs's directory carries the id of device 0. *)
DeviceOf(h) == IF h.what = DevRoot THEN Device0 ELSE h.what

dev_char_close(t) ==
  /\ At(t, "dev_close")
  /\ LET d == DeviceOf(Here(t))
     IN  opens' = IF d \in CharDevs THEN [opens EXCEPT ![d] = @ - 1] ELSE opens
  /\ tables' = Unref("dev", th[t].ifd)
  /\ Return(t)
  /\ UNCHANGED <<running, opened, orphaned, crashed>>

-----------------------------------------------------------------------------
(* Opening. *)
NewHandle(x, refs) == [what |-> x, pos |-> 0, refs |-> refs, raced |-> FALSE]

LocalOpen(t, x, refs, pc) ==
  /\ At(t, "idle") /\ "p" \in running /\ "open" \in Calls[t]
  /\ opened < MaxOpens /\ Empty(MountOf(x)) # {}
  /\ tables' = Add(MountOf(x), NewHandle(x, refs))
  /\ Move(t, [AtRest EXCEPT !.pc = pc, !.op = "open", !.m = MountOf(x), !.want = x,
                            !.ifd = Min(Empty(MountOf(x)))])
  /\ opened' = opened + 1
  /\ UNCHANGED <<running, opens, orphaned, crashed>>

iso9660_open(t, x)    == x \in IsoFiles /\ LocalOpen(t, x, 1, "add_handle")
iso9660_opendir(t, x) == x \in IsoDirs /\ LocalOpen(t, x, 0, "add_handle")
devfs_open(t, x)      == x \in CharDevs \cup OtherDevs /\ LocalOpen(t, x, 1, "dev_open")
devfs_opendir(t)      == LocalOpen(t, DevRoot, 1, "add_handle")

(* A device that is not a character device fails; its handle stays behind. *)
dev_char_open(t) ==
  /\ At(t, "dev_open")
  /\ IF th[t].want \in CharDevs
     THEN opens' = [opens EXCEPT ![th[t].want] = @ + 1] /\ Goto(t, "add_handle")
     ELSE Return(t) /\ UNCHANGED opens
  /\ UNCHANGED <<tables, running, opened, orphaned, crashed>>

fs_open(t) ==
  /\ At(t, "add_handle") /\ Empty("handles") # {}
  /\ tables' = Add("handles", [m |-> th[t].m, ifd |-> th[t].ifd])
  /\ Move(t, [th[t] EXCEPT !.pc = IF th[t].op = "dup" THEN "up_hid" ELSE "add_fd",
                           !.newh = Min(Empty("handles"))])
  /\ UNCHANGED <<devices, crashed>>

fd_add(t) ==
  /\ \/ At(t, "add_fd") \/ At(t, "dup_fd")
  /\ Empty("fds") # {}
  /\ tables' = Add("fds", [hid |-> th[t].newh, dir |-> th[t].op = "open" /\ th[t].want \in Dirs])
  /\ Move(t, [th[t] EXCEPT !.pc = IF @ = "add_fd" THEN "add_lfd" ELSE "up_fd",
                           !.newh = Nil, !.newfd = Min(Empty("fds"))])
  /\ UNCHANGED <<devices, crashed>>

syscall_fopen(t) ==
  /\ At(t, "add_lfd") /\ Empty("p") # {}
  /\ tables' = Add("p", [fd |-> th[t].newfd, what |-> th[t].want])
  /\ Return(t)
  /\ UNCHANGED <<devices, crashed>>

-----------------------------------------------------------------------------
(* syscall_spawn: the child gets a duplicate of descriptor 0 (of 0 to 2 in *)
(* the code), whose reference is dropped before fd_dup.                    *)
syscall_spawn(t) ==
  /\ At(t, "idle") /\ running = {"p"} /\ At(Killer, "idle")
  /\ opened < MaxOpens /\ "spawn" \in Calls[t]
  /\ IF InTable("p", 0)
     THEN /\ Move(t, [AtRest EXCEPT !.pc = "fd", !.op = "dup", !.lid = 0,
                                    !.fd = Val("p", 0).fd, !.want = Val("p", 0).what])
          /\ opened' = opened + 1
          /\ UNCHANGED crashed
     ELSE crashed' = TRUE /\ UNCHANGED <<th, opened>>
  /\ UNCHANGED <<tables, running, opens, orphaned>>

fd_dup(t) == FdUse(t, "dup")
fs_dup(t) == HandleUse(t, "dup")

(* Mutant of devfs_dup: the handle's count stays. *)
devfs_dup_uncounted(t) ==
  /\ \/ /\ At(t, "fs") /\ th[t].op = "dup"
        /\ IF th[t].m = "iso" THEN Crash /\ UNCHANGED devices
           ELSE Descend(t, "dev", th[t].ifd, [th[t] EXCEPT !.pc = "dup_use"], "up_hid")
     \/ /\ At(t, "dup_use")
        /\ tables' = DropIn(tables, t, FALSE)
        /\ Move(t, [th[t] EXCEPT !.pc = "add_handle", !.want = Here(t).what])
        /\ orphaned' = (orphaned \/ ~ InTable("dev", th[t].ifd))
        /\ UNCHANGED <<running, opens, opened, crashed>>

(* iso9660 has no dup.  The count is raised under the entry's reference. *)
devfs_dup(t) ==
  /\ \/ /\ At(t, "fs") /\ th[t].op = "dup"
        /\ IF th[t].m = "iso" THEN Crash /\ UNCHANGED devices
           ELSE Descend(t, "dev", th[t].ifd, [th[t] EXCEPT !.pc = "dup_use"], "up_hid")
     \/ /\ At(t, "dup_use")
        /\ tables' = DropIn(Count(tables, t, 1), t, FALSE)
        /\ Move(t, [th[t] EXCEPT !.pc = "add_handle", !.want = Here(t).what])
        /\ orphaned' = (orphaned \/ ~ InTable("dev", th[t].ifd))
        /\ UNCHANGED <<running, opens, opened, crashed>>

(* The child starts with the duplicate; without it the duplicate is closed. *)
task_pricreate(t) ==
  /\ At(t, "spawn")
  /\ \/ /\ running = {"p"} /\ At(Killer, "idle")
        /\ running' = {"p", "c"}
        /\ tables' = Add("c", [fd |-> th[t].newfd, what |-> th[t].want])
        /\ Return(t)
     \/ /\ Move(t, [AtRest EXCEPT !.pc = "fd_close", !.fd = th[t].newfd])
        /\ UNCHANGED <<tables, running>>
  /\ UNCHANGED <<opens, opened, orphaned, crashed>>

(* The end of a process whose threads have left the kernel.                *)
task_prkill(p) ==
  /\ At(Killer, "idle") /\ p \in running
  /\ p = "p" => \A t \in FileThreads : At(t, "idle")
  /\ running' = running \ {p}
  /\ Move(Killer, [AtRest EXCEPT !.pc = "cleanup", !.p = p, !.lid = 0])
  /\ UNCHANGED <<tables, opens, opened, orphaned, crashed>>

(* rcparray_foreach goes on while any later entry is present, but does not *)
(* skip the ones that are not: rcparray_get then returns NULL.  The unref  *)
(* of the loop is on the list of threads, which nobody reads any more and  *)
(* which is not followed here: the reference to the descriptor stays.      *)
fs_proc_cleanup(t) ==
  /\ At(t, "cleanup")
  /\ LET p == th[t].p
         lid == th[t].lid
     IN  IF \A i \in Ids : i >= lid => ~ InTable(p, i)
         THEN tables' = [tables EXCEPT ![p] = [i \in Ids |-> Nil]] /\ Move(t, AtRest)
                /\ UNCHANGED crashed
         ELSE IF ~ InTable(p, lid) THEN Crash
         ELSE tables' = Ref(p, lid) /\ UNCHANGED crashed
                /\ Move(t, [th[t] EXCEPT !.pc = "fd_close", !.fd = Val(p, lid).fd])
  /\ UNCHANGED devices

FilesStep(t) ==
  \/ \E lfd \in Ids : \/ syscall_fread(t, lfd) \/ syscall_fwrite(t, lfd) \/ syscall_fseek(t, lfd)
                      \/ syscall_ioctl(t, lfd) \/ syscall_readdir(t, lfd) \/ syscall_fclose(t, lfd)
  \/ fd_read(t) \/ fd_write(t) \/ fd_seek(t) \/ fd_ioctl(t) \/ fd_readdir(t)
  \/ fs_read(t) \/ fs_write(t) \/ fs_seek(t) \/ fs_ioctl(t) \/ fs_readdir(t)
  \/ FsGet(t) \/ Up(t)
  \/ \E len \in 1 .. FileSize : iso9660_read(t, len)
  \/ iso9660_read_done(t)
  \/ \E mode \in 0 .. 2, offset \in {-1, 1} : iso9660_seek(t, offset, mode)
  \/ iso9660_ioctl(t) \/ iso9660_readdir(t) \/ iso9660_readdir_done(t)
  \/ devfs_read(t) \/ devfs_write(t) \/ devfs_ioctl(t) \/ devfs_readdir(t)
  \/ \E x \in Things : iso9660_open(t, x) \/ iso9660_opendir(t, x) \/ devfs_open(t, x)
  \/ devfs_opendir(t) \/ dev_char_open(t) \/ fs_open(t) \/ fd_add(t) \/ syscall_fopen(t)
  \/ syscall_spawn(t) \/ fd_dup(t) \/ fs_dup(t) \/ devfs_dup(t) \/ task_pricreate(t)

CloseStep(t) ==
  fd_close(t) \/ fs_close(t) \/ iso9660_close(t) \/ devfs_close(t) \/ dev_char_close(t)

FilesNext ==
  /\ ~ crashed
  /\ \/ \E t \in FileThreads : FilesStep(t)
     \/ \E t \in Actors : CloseStep(t)
     \/ \E p \in {"p", "c"} : task_prkill(p)
     \/ fs_proc_cleanup(Killer)

FilesSpec == FilesInit /\ [][FilesNext]_filesVars

-----------------------------------------------------------------------------
(* The descriptors that stand for something: those of the processes that   *)
(* run, and those the killer has not come to.                              *)
Descriptors ==
  {<<p, i>> \in {"p", "c"} \X Ids : InTable(p, i) /\
     \/ p \in running
     \/ th[Killer].p = p /\ ~ At(Killer, "idle")
          /\ i >= th[Killer].lid + (IF At(Killer, "cleanup") THEN 0 ELSE 1)}

FdHolders(i) ==
  {d \in Descriptors : Val(d[1], d[2]).fd = i}
    \cup {t \in Actors : th[t].newfd = i \/ (At(t, "fd_close") /\ th[t].fd = i)}

HandleHolders(i) ==
  {fd \in Ids : InTable("fds", fd) /\ Val("fds", fd).hid = i}
    \cup {t \in Actors : \/ th[t].newh = i
                         \/ /\ th[t].pc \in {"fs_close", "fs_close_unref", "fs_close_remove"}
                            /\ th[t].hid = i}

LocalHolders(m, i) ==
  {h \in Ids : InTable("handles", h) /\ Val("handles", h) = [m |-> m, ifd |-> i]}
    \cup {t \in Actors : /\ th[t].pc \in {"close", "iso_close", "dev_open", "add_handle"}
                         /\ th[t].m = m /\ th[t].ifd = i}

(* The count of a handle that devfs_close has already taken off the table  *)
(* was raised by devfs_dup, between its get and its return: the duplicate  *)
(* leads nowhere, or to whatever is opened in that slot next.  It takes a  *)
(* thread that closes descriptor 0 while another is in syscall_spawn; what *)
(* follows is stated for all other executions.                             *)
NotOrphaned == ~ orphaned

(* Every descriptor leads down to an open local handle of the thing it was *)
(* opened for, and every file descriptor and handle belongs to exactly one *)
(* descriptor or call, so no call closes one twice and no open, close, dup *)
(* or end of a process leaves one behind (fs.c, fd.c, syscalls_fs.c).      *)
DescriptorsResolve ==
  NotOrphaned =>
  /\ \A d \in Descriptors :
       LET fd == Val(d[1], d[2]).fd
       IN  fd # Nil =>
             /\ InTable("fds", fd)
             /\ InTable("handles", Val("fds", fd).hid)
             /\ LET h == Val("handles", Val("fds", fd).hid)
                IN  InTable(h.m, h.ifd) /\ Val(h.m, h.ifd).what = Val(d[1], d[2]).what
  /\ \A i \in Ids : /\ InTable("fds", i) <=> Cardinality(FdHolders(i)) = 1
                    /\ InTable("handles", i) <=> Cardinality(HandleHolders(i)) = 1

Held(i, pc) == \E t \in Actors : At(t, pc) /\ th[t].ifd = i

(* A local handle counts the handles that lead to it, whatever calls are   *)
(* under way, and is gone with the last; a directory of iso9660 starts one *)
(* short and stays, as does the handle of an open that failed.  A device   *)
(* is open as often as it has local handles; device 0 is also closed with  *)
(* every listing of devfs (iso9660_close, devfs_close, devfs_dup).         *)
HandleRefs ==
  NotOrphaned =>
  /\ \A m \in {"iso", "dev"}, i \in Ids :
       InTable(m, i) =>
         LET h == Val(m, i)
             n == Cardinality(LocalHolders(m, i))
         IN  h.what \notin OtherDevs =>
               /\ h.refs = IF h.what \in IsoDirs THEN n - 1 ELSE n
               /\ h.what \notin IsoDirs => n > 0
  /\ \A d \in CharDevs \ {Device0} :
       opens[d] = Cardinality({i \in Ids : /\ tables["dev"][i] # Nil /\ Val("dev", i).what = d
                                           /\ InTable("dev", i) \/ Held(i, "dev_close")
                                           /\ ~ Held(i, "dev_open")})

(* A call that reaches a local handle reaches that of the thing its        *)
(* descriptor was opened for, unless the descriptor was closed meanwhile;  *)
(* and it finds the position within the file or directory, so that a read  *)
(* asks for no more than is left, unless two calls on the handle           *)
(* overlapped (iso9660_read, iso9660_seek, iso9660_readdir).               *)
UsesOwnFile ==
  /\ NotOrphaned => \A t \in FileThreads :
       th[t].pc \in {"use", "midway", "dup_use"} /\ ~ th[t].stale
         => Here(t).what = th[t].want
  /\ \A i \in Ids :
       tables["iso"][i] # Nil /\ ~ Val("iso", i).raced => Val("iso", i).pos <= FileSize

=============================================================================
