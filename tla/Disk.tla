-------------------------------- MODULE Disk --------------------------------
(***************************************************************************)
(* One optical disk: dev_block_read cuts a read into bursts (dev/block.c), *)
(* the disk class passes each burst to the driver (dev/class/disk.c), and  *)
(* the driver makes a SCSI packet of it, polls the port and copies what    *)
(* the controller left in the slot's DMA buffer (drv/ata/ahci/sr.c).  The  *)
(* queue between the first two is in Block: its worker serves one request  *)
(* at a time, so one read at a time is followed here.  The controller is   *)
(* the other actor; it works on a command while ST is set and may answer   *)
(* with a task-file error, which nothing ever clears.  Byte i of the disk  *)
(* is the number i; STALE stands for what a buffer held before.            *)
(***************************************************************************)
EXTENDS Integers, Sequences

CONSTANTS SectorSize,    \* sector_size, 2048
          SectorCount,
          BurstMax,      \* class_disk.burst_max, 16 sectors
          RequestMax,    \* MAX_BYTES_PER_RQ in sectors, 32
          DmaSectors,    \* the sectors a DMA buffer holds, 8
          MaxCommands,   \* ahci_device.max_commands
          Tables,        \* the slots ahci_port_rebase gives a table, 4
          STALE

ASSUME DiskAssumption ==
  /\ SectorSize \in Nat \ {0} /\ SectorCount \in Nat /\ DmaSectors \in Nat
  /\ BurstMax \in Nat \ {0} /\ RequestMax \in Nat \ {0}
  /\ MaxCommands \in Nat \ {0} /\ Tables \in Nat /\ Tables > 1

VARIABLES
  port,     \* the registers: ci, bit 30 of is, and ST of cmd
  slots,    \* each slot's command, prdbc and DMA buffer
  packet,   \* the slot of the command in flight, or NoCommand
  drive,    \* how far ahci_enumerate is with the drive
  call      \* the dev_block_read in progress, or the last one
diskVars == <<port, slots, packet, drive, call>>

NoSlot == -1       \* ahci_find_cmdslot found no slot free
NoCommand == -2
Shorter(a, b) == IF a < b THEN a ELSE b
Old(n) == [b \in 1 .. n |-> STALE]
DmaSize == DmaSectors * SectorSize

(* ahci_port_rebase *)
DiskInit ==
  /\ port = [ci |-> {}, is |-> FALSE, ST |-> FALSE]
  /\ slots = [s \in 0 .. Tables - 1 |->
       [type |-> "none", sector |-> 0, count |-> 0, prdbc |-> 0, dma |-> Old(DmaSize)]]
  /\ packet = NoCommand
  /\ drive = "found"
  /\ call = [pc |-> "done", ret |-> 0, pos |-> 0, len |-> 0, read_offset |-> 0,
             current_sector |-> 0, sector_count |-> 0, burst_count |-> 0,
             bursts |-> 0, buffer |-> <<>>, spilt |-> FALSE]

-----------------------------------------------------------------------------
(* The port. *)

ahci_find_cmdslot ==
  LET free == (0 .. MaxCommands - 1) \ port.ci
  IN  IF free = {} THEN NoSlot ELSE CHOOSE s \in free : \A t \in free : s <= t

start_cmd_running == [port EXCEPT !.ST = TRUE]

(* The controller empties ci when ST falls. *)
ahci_start_cmd == [port EXCEPT !.ST = TRUE, !.ci = IF port.ST THEN {} ELSE @]

ahci_stop_cmd == [port EXCEPT !.ST = FALSE, !.ci = IF port.ST THEN {} ELSE @]

(* A command is put in a free slot, the port started and the slot issued.  The
   caller does not look whether a slot was found: with NoSlot it uses the header
   and the table before the first.  What a slot without a table holds is not
   followed. *)
Issue(type, sector, count) ==
  LET slot == ahci_find_cmdslot
  IN  /\ packet = NoCommand
      /\ packet' = slot
      /\ port' = [ahci_start_cmd EXCEPT !.ci = @ \cup {slot}]
      /\ slots' = [s \in DOMAIN slots |-> IF s # slot THEN slots[s] ELSE
                     [type |-> type, sector |-> sector, count |-> count,
                      prdbc |-> 0, dma |-> slots[s].dma]]

(* The loop on ci and the test behind it end; after a task-file error the port
   is left as it is. *)
Answered ==
  /\ packet # NoCommand
  /\ packet \notin port.ci \/ port.is
  /\ packet' = NoCommand
  /\ port' = IF port.is THEN port ELSE ahci_stop_cmd
  /\ UNCHANGED slots

(* What ahci_scsi_packet returns. *)
Amount == IF port.is THEN -1 ELSE slots[packet].prdbc

(* What it copies into the caller's buffer of n bytes: bytes behind the slot's
   own buffer are whatever lies there. *)
Received(n) ==
  IF port.is THEN Old(n)
  ELSE [b \in 1 .. n |-> IF b <= DmaSize THEN slots[packet].dma[b] ELSE STALE]

(* External: the controller carries out a command, answers it without data, or
   stops with a task-file error. *)
Controller(outcome) ==
  /\ port.ST /\ ~port.is
  /\ \E s \in port.ci \cap DOMAIN slots :
       IF outcome = "error"
         THEN port' = [port EXCEPT !.is = TRUE] /\ UNCHANGED slots
         ELSE /\ port' = [port EXCEPT !.ci = @ \ {s}]
              /\ slots' = [slots EXCEPT ![s].prdbc = IF outcome = "data" THEN slots[s].count ELSE 0,
                   ![s].dma = [b \in 1 .. DmaSize |->
                     IF outcome = "data" /\ b <= slots[s].count * SectorSize
                       THEN slots[s].sector * SectorSize + b - 1 ELSE @[b]]]
  /\ UNCHANGED <<packet, drive, call>>

-----------------------------------------------------------------------------
(* ahci_init_dev: the identify command, then for an optical drive the capacity
   packet.  An error of the packet is seen by the sector size it left zero. *)
Identify ==
  /\ drive = "found" /\ Issue("identify", 0, 1)
  /\ UNCHANGED call /\ drive' = "identify"

AskCapacity ==
  /\ drive = "identify" /\ Answered
  /\ drive' = IF port.is THEN "refused" ELSE "identified"
  /\ UNCHANGED call

Capacity ==
  /\ drive = "identified" /\ Issue("capacity", 0, 1)
  /\ UNCHANGED call /\ drive' = "capacity"

(* dev_add, ahci_srdrv_bind and class_disk_bind make it a block device. *)
AddDrive ==
  /\ drive = "capacity" /\ Answered
  /\ drive' = IF Amount <= 0 THEN "refused" ELSE "added"
  /\ UNCHANGED call

-----------------------------------------------------------------------------
(* dev_block_read up to its loop. *)
StartRead(pos, len) ==
  /\ drive = "added" /\ call.pc = "done" /\ packet = NoCommand
  /\ call' = [pc |-> "burst", ret |-> 0, pos |-> pos, len |-> len,
              read_offset |-> pos % SectorSize, current_sector |-> pos \div SectorSize,
              sector_count |-> ((pos % SectorSize) + len + SectorSize - 1) \div SectorSize,
              burst_count |-> 0, bursts |-> 0, buffer |-> <<>>, spilt |-> FALSE]
  /\ UNCHANGED <<port, slots, packet, drive>>

BurstCount(left) == Shorter(Shorter(left, BurstMax), RequestMax)

(* One turn of the loop up to the packet: queue_io_wait, class_disk_devread,
   ahci_sr_read, ahci_rw_scsi. *)
ahci_rw_scsi ==
  LET n == BurstCount(call.sector_count)
  IN  /\ call.pc = "burst"
      /\ Issue("read", call.current_sector, n)
      /\ call' = [call EXCEPT !.pc = "packet", !.burst_count = n, !.bursts = @ + 1,
                              !.spilt = @ \/ n > DmaSectors]
      /\ UNCHANGED drive

(* The caller's call after a burst that left bouncer behind. *)
copy_keeps_offset(bouncer) ==
  LET copy_len == Shorter(call.burst_count * SectorSize - call.read_offset, call.len)
  IN  [call EXCEPT
        !.buffer = @ \o SubSeq(bouncer, call.read_offset + 1, call.read_offset + copy_len),
        !.current_sector = @ + call.burst_count,
        !.sector_count = @ - call.burst_count,
        !.pc = IF call.sector_count = call.burst_count THEN "done" ELSE "burst"]

CopyBurst(bouncer) ==
  LET copy_len == Shorter(call.burst_count * SectorSize - call.read_offset, call.len)
  IN  [call EXCEPT
        !.buffer = @ \o SubSeq(bouncer, call.read_offset + 1, call.read_offset + copy_len),
        !.read_offset = 0,
        !.current_sector = @ + call.burst_count,
        !.sector_count = @ - call.burst_count,
        !.pc = IF call.sector_count = call.burst_count THEN "done" ELSE "burst"]

(* The packet returns: ahci_rw_scsi takes everything but 0 for success, the -1
   of an error too. *)
ReadReturns ==
  /\ call.pc = "packet" /\ Answered
  /\ call' = IF Amount = 0 THEN [call EXCEPT !.ret = -1, !.pc = "done"]
             ELSE CopyBurst(Received(call.burst_count * SectorSize))
  /\ UNCHANGED drive

DiskNext ==
  \/ \E outcome \in {"data", "empty", "error"} : Controller(outcome)
  \/ Identify \/ AskCapacity \/ Capacity \/ AddDrive
  \/ \E pos \in 0 .. SectorCount * SectorSize - 1 :
       \E len \in 1 .. SectorCount * SectorSize - pos : StartRead(pos, len)
  \/ ahci_rw_scsi \/ ReadReturns

DiskSpec == DiskInit /\ [][DiskNext]_diskVars

-----------------------------------------------------------------------------
(* A command never goes to a slot ahci_port_rebase gave no table and no buffer
   (it fills four, the controller may have 32), not even when errors have left
   commands behind in ci: ahci_start_cmd clears them.  A controller of one slot
   has none left after an error, and ahci_find_cmdslot's -1 is used. *)
SlotHasTable == packet # NoCommand => packet \in 0 .. Tables - 1

(* A read that returns 0 has put the bytes it was asked for into the caller's
   buffer, in order and across bursts, as long as the port never reported an
   error and no burst is larger than the DMA buffer; it has put nothing behind
   them if it took one burst or ends with a sector (copy_len is limited by
   the whole length, not by what is left). *)
ReadsDeliver ==
  call.pc = "done" /\ call.ret = 0 /\ call.bursts > 0 /\ ~port.is /\ ~call.spilt =>
    /\ SubSeq(call.buffer, 1, call.len) = [b \in 1 .. call.len |-> call.pos + b - 1]
    /\ call.bursts = 1 \/ (call.pos + call.len) % SectorSize = 0
         => Len(call.buffer) = call.len

=============================================================================
