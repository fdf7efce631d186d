------------------------------ MODULE MCBlock ------------------------------
(***************************************************************************)
(* Devices for TLC: the request queue of a block device, the disk behind   *)
(* it, and the screen.  The worker calls the disk's driver for one request *)
(* at a time, and nothing of the screen is shared with either: a behaviour *)
(* exercises one of the parts.  The queue has a thread of a process that   *)
(* stays and one of a process that may be killed in the middle of a        *)
(* request; reads of up to two bursts, one of which may fail.              *)
(***************************************************************************)
EXTENDS Block, Disk, Terminal

CONSTANTS r1, m

VARIABLE part
blockRunVars == <<part, vars, diskVars, ttyVideo>>

AllRequesters == {r1, m}
MortalRequesters == {m}
MCPrinted ==
  {<<"a">>, <<"nl">>, <<"cr", "a">>, <<"bs">>, <<"a", "a", "a">>,
   <<"esc", "[", "3", "1", "m", "a">>, <<"esc", "[", "4", "2", "m">>,
   <<"esc", "[", "2", "J">>, <<"esc", "[", "2", ";", "1", "H", "a">>,
   <<"esc", "[", "1", ";", "2", "H">>,
   <<"esc">>, <<"[", ";", "2">>}
MCStrings == {<<"a", "a">>, <<"nl", "a">>}

(* Nothing is claimed of what follows the read of a frame that was left. *)
Defined == ~stale

BlockRunInit ==
  /\ part \in {"queue", "disk", "screen"}
  /\ Init /\ DiskInit /\ TerminalInit
  /\ part # "screen" => shown = 0

(* A drive that was refused is not used again. *)
DriveRefused == drive = "refused" /\ UNCHANGED diskVars

(* The bound on what is written; a switch of terminals may follow it. *)
WritesUsedUp == writes = MaxWrites /\ UNCHANGED ttyVideo

BlockRunNext ==
  /\ UNCHANGED part
  /\ \/ part = "queue" /\ Next /\ UNCHANGED <<diskVars, ttyVideo>>
     \/ part = "disk" /\ (DiskNext \/ DriveRefused) /\ UNCHANGED <<vars, ttyVideo>>
     \/ part = "screen" /\ (TerminalNext \/ WritesUsedUp) /\ UNCHANGED <<vars, diskVars>>

(* Every thread that can run gets the CPU again and again. *)
BlockRunSpec ==
  /\ BlockRunInit /\ [][BlockRunNext]_blockRunVars
  /\ WF_vars(part = "queue" /\ WorkerStep)
  /\ \A r \in Requesters : WF_vars(part = "queue" /\ CallStep(r))
=============================================================================
