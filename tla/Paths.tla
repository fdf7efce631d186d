------------------------------- MODULE Paths -------------------------------
(***************************************************************************)
(* Names of files: fs_to_absolute_path, fs_mount and fs_get_mount of       *)
(* fs/fs.c with path_walk of include/aex/fs/fs.h, and the directories of   *)
(* iso9660.  A path is the sequence of its segments and whether it ends in *)
(* a slash; a segment is a sequence of characters where fs_get_mount       *)
(* compares characters.  A working directory always ends in a slash        *)
(* (task_prset_cwd), so base and local path are joined by segments.        *)
(***************************************************************************)
EXTENDS Integers, Sequences, SequencesExt

CONSTANTS Names,      \* segments, as sequences of characters
          MaxSegs,    \* bound on the segments of a path
          MaxMounts,  \* bound on the mounts
          BLOCK_SIZE, MaxBlocks, Files9660  \* iso9660: blocks and file names

DotDot == <<".", ".">>
Dot    == <<".">>

AllPaths ==
  [segs : UNION {[1 .. n -> Names \cup {DotDot, Dot}] : n \in 0 .. MaxSegs}, slash : BOOLEAN]

VARIABLES asked,    \* the path a program passes, joined with its directory
          mounts,   \* the segments of the mount points, in order of mounting
          dir       \* a directory of iso9660: the entries of each block

pathsVars == <<asked, mounts, dir>>

-----------------------------------------------------------------------------
(* The buffer: the segments written, how many are before ptr, and whether  *)
(* ptr stands on the slash of the next one or at the end of the string.    *)
Blank == [segs |-> <<>>, before |-> 0, on_slash |-> FALSE]

(* Mutant of Walk: a name is appended behind what ".." stepped back over. *)
walk_appends(b, s) ==
  IF s = DotDot /\ b.before > 0 /\ ~ b.on_slash
  THEN [b EXCEPT !.before = @ - 1, !.on_slash = TRUE]
  ELSE IF s \in {DotDot, Dot} THEN b
  ELSE [segs |-> Append(b.segs, s), before |-> b.before + 1, on_slash |-> FALSE]

Walk(b, s) ==
  IF s = DotDot /\ b.before > 0 /\ ~ b.on_slash
  THEN [b EXCEPT !.before = @ - 1, !.on_slash = TRUE]
  ELSE IF s \in {DotDot, Dot} THEN b
  ELSE [segs |-> Append(SubSeq(b.segs, 1, b.before), s), before |-> b.before + 1,
        on_slash |-> FALSE]

(* Only a path that ends in a slash has the string cut off at ptr. *)
fs_to_absolute_path(path) ==
  LET b == FoldLeft(Walk, Blank, path.segs)
  IN  [segs |-> IF path.slash THEN SubSeq(b.segs, 1, b.before) ELSE b.segs,
       slash |-> path.slash]

-----------------------------------------------------------------------------
(* The characters of a path without its last slash. *)
Chars(segs) == FoldLeft(LAMBDA acc, s : acc \o <<"/">> \o s, <<>>, segs)

ENOENT == [id |-> 0, rest |-> <<>>]

Mounted(path, i) == IsPrefix(Chars(mounts[i]), Chars(path))

(* Mutant of fs_get_mount: the first of the mounts is kept. *)
get_mount_first(path) ==
  LET fit == {i \in DOMAIN mounts : Mounted(path, i)}
      sel == CHOOSE i \in fit : \A j \in fit : i <= j
      rest == SubSeq(Chars(path), Len(Chars(mounts[sel])) + 1, Len(Chars(path)))
  IN  IF fit = {} THEN ENOENT
      ELSE [id |-> sel, rest |-> IF rest = <<>> \/ rest[1] # "/" THEN <<"/">> ELSE rest]

(* The longest, and of equals the last.  What does not go on with a slash  *)
(* is taken for the root of the mount.                                     *)
fs_get_mount(path) ==
  LET fit == {i \in DOMAIN mounts : Mounted(path, i)}
      sel == CHOOSE i \in fit : \A j \in fit \ {i} :
               \/ Len(Chars(mounts[i])) > Len(Chars(mounts[j]))
               \/ Len(Chars(mounts[i])) = Len(Chars(mounts[j])) /\ i > j
      rest == SubSeq(Chars(path), Len(Chars(mounts[sel])) + 1, Len(Chars(path)))
  IN  IF fit = {} THEN ENOENT
      ELSE [id |-> sel, rest |-> IF rest = <<>> \/ rest[1] # "/" THEN <<"/">> ELSE rest]

(* The root is mounted first; later mount points must be found in it. *)
fs_mount(segs) ==
  /\ Len(mounts) < MaxMounts
  /\ segs = <<>> \/ fs_get_mount(segs) # ENOENT
  /\ mounts' = Append(mounts, segs)
  /\ UNCHANGED <<asked, dir>>

-----------------------------------------------------------------------------
(* A directory of iso9660: blocks of entries of some length; a block ends  *)
(* full or with a length of 0.                                             *)
Total(b) == FoldLeft(LAMBDA n, e : n + e.len, 0, b)
Blocks9660 ==
  {b \in UNION {[1 .. n -> [name : Files9660, len : 1 .. BLOCK_SIZE]] : n \in 0 .. BLOCK_SIZE} :
     Total(b) <= BLOCK_SIZE}
Directories == UNION {[1 .. n -> Blocks9660] : n \in 1 .. MaxBlocks}

End == [name |-> "none", len |-> 0]

(* The entry at an offset of a block; a length of 0 behind the last. *)
EntryAt(b, offset) ==
  LET at == {i \in DOMAIN b : Total(SubSeq(b, 1, i - 1)) = offset}
  IN  IF at = {} THEN End ELSE b[CHOOSE i \in at : TRUE]

Size(d) == Len(d) * BLOCK_SIZE

(* iso9660_find: the position of the entry, or -1. *)
RECURSIVE iso9660_find(_, _, _, _)
iso9660_find(d, name, progress, offset) ==
  IF progress >= Size(d) THEN -1
  ELSE LET e == EntryAt(d[progress \div BLOCK_SIZE + 1], offset)
       IN  IF e.len = 0 THEN iso9660_find(d, name, progress + BLOCK_SIZE, 0)
           ELSE IF e.name = name THEN progress + offset
           ELSE IF offset + e.len >= BLOCK_SIZE
                THEN iso9660_find(d, name, progress + BLOCK_SIZE, 0)
           ELSE iso9660_find(d, name, progress, offset + e.len)

(* iso9660_readdir: the position of the next entry and the one behind it.  *)
(* Mutant of NextDentry: an empty rest of a block ends the directory. *)
next_dentry_stops(d, pos) ==
  IF pos >= Size(d) \/ EntryAt(d[pos \div BLOCK_SIZE + 1], pos % BLOCK_SIZE).len = 0
  THEN <<-1, pos>>
  ELSE <<pos, pos + EntryAt(d[pos \div BLOCK_SIZE + 1], pos % BLOCK_SIZE).len>>

RECURSIVE NextDentry(_, _)
NextDentry(d, pos) ==
  IF pos >= Size(d) THEN <<-1, pos>>
  ELSE LET e == EntryAt(d[pos \div BLOCK_SIZE + 1], pos % BLOCK_SIZE)
       IN  IF e.len = 0 THEN NextDentry(d, pos + BLOCK_SIZE - (pos % BLOCK_SIZE))
           ELSE <<pos, pos + e.len>>

RECURSIVE Listing(_, _)
Listing(d, pos) ==
  LET n == NextDentry(d, pos)
  IN  IF n[1] = -1 THEN <<>> ELSE <<n[1]>> \o Listing(d, n[2])

-----------------------------------------------------------------------------
PathsInit ==
  /\ mounts = <<>>
  /\ \/ asked \in AllPaths /\ dir = <<<<>>>>
     \/ asked = [segs |-> <<>>, slash |-> TRUE] /\ dir \in Directories

PathsNext == \E n \in Names \cup {<<>>} : fs_mount(IF n = <<>> THEN <<>> ELSE <<n>>)

PathsSpec == PathsInit /\ [][PathsNext]_pathsVars

-----------------------------------------------------------------------------
Pop(acc, s) == IF s = DotDot THEN (IF acc = <<>> THEN <<>> ELSE SubSeq(acc, 1, Len(acc) - 1))
               ELSE IF s = Dot THEN acc ELSE Append(acc, s)

(* What "." and ".." mean. *)
Canonical(path) ==
  LET segs == FoldLeft(Pop, <<>>, path.segs)
  IN  [segs |-> segs, slash |-> path.slash \/ segs = <<>>]

NoDots(segs) == SelectSeq(segs, LAMBDA s : s # Dot)

(* No ".." follows another, and the path ends in a slash or a name. *)
PlainPath(path) ==
  /\ \A i \in 1 .. Len(NoDots(path.segs)) - 1 :
       NoDots(path.segs)[i] = DotDot => NoDots(path.segs)[i + 1] # DotDot
  /\ path.slash \/ (path.segs # <<>> /\ path.segs[Len(path.segs)] \in Names)

(* fs_to_absolute_path returns the canonical form of a path in which no    *)
(* ".." follows another and that does not end in "." or "..".              *)
PlainPathsCanonical == PlainPath(asked) => fs_to_absolute_path(asked) = Canonical(asked)

(* fs.h says of fs_to_absolute_path that it canonizes a path, getting rid  *)
(* of . and ..; stated of the paths that end in a slash.                   *)
PathsCanonical == asked.slash => fs_to_absolute_path(asked) = Canonical(asked)

SegmentPrefix(m) == IsPrefix(m, asked.segs)

(* fs_get_mount finds the mount whose path is the longest run of leading   *)
(* segments and passes on the segments behind it, as long as no mount      *)
(* point is the beginning of a longer name.                                *)
MountResolves ==
  (\A i \in DOMAIN mounts : Mounted(asked.segs, i) => SegmentPrefix(mounts[i])) =>
    LET got == fs_get_mount(asked.segs)
        fit == {i \in DOMAIN mounts : SegmentPrefix(mounts[i])}
    IN  IF fit = {} THEN got = ENOENT
        ELSE /\ got.id \in fit
             /\ \A i \in fit : Len(mounts[i]) <= Len(mounts[got.id])
             /\ LET rest == SubSeq(asked.segs, Len(mounts[got.id]) + 1, Len(asked.segs))
                IN  got.rest = IF rest = <<>> THEN <<"/">> ELSE Chars(rest)

(* readdir lists every entry of a directory once, in order, across the     *)
(* ends of its blocks, and a lookup finds the first entry of its name in   *)
(* that list (iso9660_find, iso9660_readdir).                              *)
ListingComplete ==
  LET list == Listing(dir, 0)
      entry(p) == EntryAt(dir[p \div BLOCK_SIZE + 1], p % BLOCK_SIZE)
  IN  /\ [i \in DOMAIN list |-> entry(list[i])] = FlattenSeq(dir)
      /\ \A name \in Files9660 :
           LET hits == SelectSeq(list, LAMBDA p : entry(p).name = name)
           IN  iso9660_find(dir, name, 0, 0) = IF hits = <<>> THEN -1 ELSE hits[1]

=============================================================================
