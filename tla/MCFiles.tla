------------------------------ MODULE MCFiles ------------------------------
(***************************************************************************)
(* Open files for TLC: the array under the tables, the tables, and names.  *)
(* The parts share no state; a behaviour exercises one of them.  Three     *)
(* clients on an array of three slots are a reader, a closer and an opener *)
(* that reuses the slot.                                                   *)
(***************************************************************************)
EXTENDS RcpArray, Files, Paths, TLC

CONSTANTS t1, t2

VARIABLE part
filesRunVars == <<part, vars, filesVars, pathsVars>>

MCCalls == (t1 :> {"read", "spawn"})
             @@ (t2 :> {"open", "close", "seek", "write", "ioctl", "readdir"})
MCNames == {<<"d">>, <<"d", "e">>}

FirstPath == asked = [segs |-> <<>>, slash |-> TRUE] /\ mounts = <<>> /\ dir = <<<<>>>>

FilesRunInit ==
  /\ part \in {"array", "files", "paths"}
  /\ Init
  /\ FilesInit
  /\ IF part = "paths" THEN PathsInit ELSE FirstPath

FilesRunNext ==
  /\ UNCHANGED part
  /\ \/ part = "array" /\ Next /\ UNCHANGED <<filesVars, pathsVars>>
     \/ part = "files" /\ FilesNext /\ UNCHANGED <<vars, pathsVars>>
     \/ part = "paths" /\ PathsNext /\ UNCHANGED <<vars, filesVars>>

FilesRunSpec == FilesRunInit /\ [][FilesRunNext]_filesRunVars

=============================================================================
