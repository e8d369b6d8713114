------------------------------- MODULE Disks -------------------------------
(***************************************************************************)
(* The disks of an ATA channel (devices/ide.c), the block layer            *)
(* (devices/block.c) and the partitions on them (devices/partition.c): the *)
(* kernel identifies the disks and scans their partition tables at boot,   *)
(* then threads read and write sectors of the partitions.                  *)
(*                                                                         *)
(* The disk is assumed to finish a command, or to report an error, within  *)
(* the time-outs of wait_until_idle and wait_while_busy.                   *)
(***************************************************************************)
EXTENDS Integers, SequencesExt

CONSTANTS
  IoThread,          (* threads that use disks                              *)
  BootThread,        (* the thread that runs ide_init                       *)
  Machines,          (* machines: for each device what it is, its sectors,  *)
                     (* and its partition tables by sector                  *)
  LargeDisk,         (* sectors of a disk that is too large to be used      *)
  MaxCalls,          (* calls of read_partition_table that fit on a stack   *)
  MaxRequests,       (* bound on the requests                               *)
  MaxSpurious,       (* bound on interrupts without a command               *)
  MaxFailures,       (* bound on commands that the disk cannot carry out    *)
  NoThread

ASSUME DisksAssumption == BootThread \notin IoThread /\ LargeDisk \in Nat

VARIABLES
  machine,           (* the machine                                         *)
  is_ata,            (* devices found to be disks                           *)
  all_blocks,        (* block devices in probe order                        *)
  scan,              (* calls of read_partition_table, innermost first      *)
  part_nr,           (* partitions encountered                              *)
  dpc, req,          (* where a thread is in its request                    *)
  fetched,           (* what it has read                                    *)
  channel_lock, expecting_interrupt, completion_wait,
  ata,               (* the controller: state, command, device, sector      *)
  intrq,             (* it requests an interrupt                            *)
  surface,           (* contents of the sectors                             *)
  requests, spurious, failures,
  dfail              (* why the kernel stopped                              *)

hwVars == <<ata, intrq, surface>>
bootVars == <<machine, is_ata, all_blocks, scan, part_nr>>
diskVars == <<machine, is_ata, all_blocks, scan, part_nr, dpc, req, fetched, channel_lock,
              expecting_interrupt, completion_wait, ata, intrq, surface, requests, spurious,
              failures, dfail>>

Device == 0..1
IdleController == [st |-> "idle", cmd |-> "none", dev |-> 0, sector |-> 0, data |-> NoThread]
NoRequest == [op |-> "none", dev |-> 0, sector |-> 0, block |-> 0]

DisksInit ==
  /\ machine \in Machines
  /\ is_ata = {} /\ all_blocks = <<>> /\ scan = <<>> /\ part_nr = 0
  /\ dpc = [t \in IoThread \cup {BootThread} |-> IF t = BootThread THEN "check" ELSE "idle"]
  /\ req = [t \in IoThread \cup {BootThread} |-> NoRequest]
  /\ fetched = [t \in IoThread \cup {BootThread} |-> NoThread]
  /\ channel_lock = NoThread /\ expecting_interrupt = FALSE /\ completion_wait = 0
  /\ ata = IdleController /\ intrq = FALSE
  /\ surface = [d \in Device |-> [s \in 0..(machine[d].size - 1) |-> 10 * d + s]]
  /\ requests = 0 /\ spurious = 0 /\ failures = 0 /\ dfail = "none"

Step(t, l) == dpc' = [dpc EXCEPT ![t] = l]

-----------------------------------------------------------------------------
(* Boot *)

(* ide_init for the channel: reset_channel and check_device_type.  Device  *)
(* 1 is not looked at when device 0 says that there is none.               *)
check_device_type ==
  /\ dpc[BootThread] = "check"
  /\ is_ata' = {d \in Device : machine[d].kind = "ata" /\ (d = 1 => machine[0].kind # "alone")}
  /\ req' = [req EXCEPT ![BootThread] = [NoRequest EXCEPT !.op = "identify"]]
  /\ Step(BootThread, "next")
  /\ UNCHANGED <<machine, all_blocks, scan, part_nr, fetched, channel_lock, expecting_interrupt,
                 completion_wait, hwVars, requests, spurious, failures, dfail>>

(* The loop over the disks of the channel. *)
next_device ==
  /\ dpc[BootThread] = "next"
  /\ \E d \in {req[BootThread].dev} :
       CASE d \notin Device -> Step(BootThread, "gone") /\ UNCHANGED req
         [] d \in is_ata -> Step(BootThread, "select") /\ UNCHANGED req
         [] OTHER -> req' = [req EXCEPT ![BootThread].dev = d + 1] /\ UNCHANGED dpc
  /\ UNCHANGED <<bootVars, fetched, channel_lock, expecting_interrupt, completion_wait, hwVars, requests,
                 spurious, failures, dfail>>

Block(d, type, start, size) == [dev |-> d, type |-> type, start |-> start, size |-> size]

(* The end of identify_ata_device: a large disk is ignored, another is     *)
(* registered and its partitions are looked for.                           *)
block_register ==
  /\ dpc[BootThread] = "release"
  /\ \E d \in {req[BootThread].dev} :
       IF machine[d].size >= LargeDisk
       THEN /\ is_ata' = is_ata \ {d}
            /\ req' = [req EXCEPT ![BootThread].dev = d + 1]
            /\ Step(BootThread, "next")
            /\ UNCHANGED <<all_blocks, scan, part_nr>>
       ELSE /\ all_blocks' = Append(all_blocks, Block(d, "raw", 0, machine[d].size))
            /\ scan' = << [sector |-> 0, primary |-> 0, i |-> 1] >> /\ part_nr' = 0
            /\ Step(BootThread, "scan")
            /\ UNCHANGED <<is_ata, req>>
  /\ UNCHANGED <<machine, fetched, channel_lock, expecting_interrupt, completion_wait, hwVars, requests,
                 spurious, failures, dfail>>

(* Faulty variant: the end of the partition is not looked at. *)
Fits_start(d, start, size) == start < machine[d].size

Fits(d, start, size) == start < machine[d].size /\ start + size <= machine[d].size

(* found_partition: a partition that does not fit is not registered. *)
found_partition(d, e, start) ==
  IF Fits(d, start, e.size) THEN Append(all_blocks, Block(d, e.type, start, e.size)) ELSE all_blocks

(* The sector that is read for the table of a call: it is sector 0, also   *)
(* in the calls for extended partitions.                                   *)
TableRead(d) == machine[d].tables[0]

Pop == Tail(scan)
Bump == [scan EXCEPT ![1].i = @ + 1]

(* read_partition_table: one entry of the innermost call. *)
read_partition_table ==
  /\ dpc[BootThread] = "scan" /\ scan # <<>>
  /\ \E d \in {req[BootThread].dev}, c \in {Head(scan)} :
       IF c.sector >= machine[d].size \/ c.i > Len(TableRead(d))
       THEN scan' = Pop /\ UNCHANGED <<all_blocks, part_nr, dfail>>
       ELSE \E e \in {TableRead(d)[c.i]} :
         CASE e.size = 0 -> scan' = Bump /\ UNCHANGED <<all_blocks, part_nr, dfail>>
           [] e.size # 0 /\ e.type = "extended" /\ Len(scan) = MaxCalls ->
                dfail' = "stack overflow" /\ UNCHANGED <<scan, all_blocks, part_nr>>
           [] e.size # 0 /\ e.type = "extended" /\ Len(scan) < MaxCalls ->
                /\ scan' = <<IF c.sector = 0 THEN [sector |-> e.offset, primary |-> e.offset, i |-> 1]
                             ELSE [sector |-> e.offset + c.primary, primary |-> c.primary, i |-> 1]>>
                           \o Bump
                /\ UNCHANGED <<all_blocks, part_nr, dfail>>
           [] OTHER ->
                /\ part_nr' = part_nr + 1
                /\ all_blocks' = found_partition(d, e, e.offset + c.sector)
                /\ scan' = Bump
                /\ UNCHANGED dfail
  /\ UNCHANGED <<machine, is_ata, dpc, req, fetched, channel_lock, expecting_interrupt, completion_wait,
                 hwVars, requests, spurious, failures>>

partition_scan_returns ==
  /\ dpc[BootThread] = "scan" /\ scan = <<>>
  /\ req' = [req EXCEPT ![BootThread].dev = @ + 1]
  /\ Step(BootThread, "next")
  /\ UNCHANGED <<bootVars, fetched, channel_lock, expecting_interrupt, completion_wait, hwVars, requests,
                 spurious, failures, dfail>>

-----------------------------------------------------------------------------
(* Requests *)

check_sector(b, sector) == sector < b.size

(* block_read and block_write of a partition: check_sector, and again for  *)
(* the disk in partition_read and partition_write.  Foreign partitions are *)
(* not written.                                                            *)
block_request(t, op, i, sector) ==
  /\ dpc[t] = "idle" /\ dpc[BootThread] = "gone" /\ requests < MaxRequests
  /\ requests' = requests + 1
  /\ \E b \in {all_blocks[i]} : \E abs \in {b.start + sector} :
       IF check_sector(b, sector) /\ abs < machine[b.dev].size /\ (op = "write" => b.type # "foreign")
       THEN /\ req' = [req EXCEPT ![t] = [op |-> op, dev |-> b.dev, sector |-> abs, block |-> i]]
            /\ Step(t, "lock")
            /\ UNCHANGED dfail
       ELSE dfail' = "past end" /\ UNCHANGED <<req, dpc>>
  /\ UNCHANGED <<bootVars, fetched, channel_lock, expecting_interrupt, completion_wait, hwVars, spurious, failures>>

(* ide_read, ide_write *)
acquire_channel(t) ==
  /\ dpc[t] = "lock" /\ channel_lock = NoThread
  /\ channel_lock' = t
  /\ Step(t, "select")
  /\ UNCHANGED <<bootVars, req, fetched, expecting_interrupt, completion_wait, hwVars, requests,
                 spurious, failures, dfail>>

(* Faulty variant: the controller is not waited for. *)
wait_until_idle_not == TRUE

wait_until_idle == ata.st = "idle"

(* select_sector and select_device_wait; reading the status register       *)
(* clears a pending interrupt.                                             *)
select_sector(t) ==
  /\ dpc[t] = "select" /\ wait_until_idle
  /\ ata' = [ata EXCEPT !.dev = req[t].dev, !.sector = req[t].sector]
  /\ intrq' = FALSE
  /\ Step(t, "issue")
  /\ UNCHANGED <<bootVars, req, fetched, channel_lock, expecting_interrupt, completion_wait, surface,
                 requests, spurious, failures, dfail>>

(* issue_pio_command; a command is lost on a controller that is busy. *)
issue_pio_command(t) ==
  /\ dpc[t] = "issue"
  /\ expecting_interrupt' = TRUE
  /\ ata' = [ata EXCEPT !.st = IF req[t].op = "write" THEN "want" ELSE "busy", !.cmd = req[t].op]
  /\ Step(t, IF req[t].op = "write" THEN "ready" ELSE "down")
  /\ UNCHANGED <<bootVars, req, fetched, channel_lock, completion_wait, intrq, surface, requests,
                 spurious, failures, dfail>>

(* sema_down (&c->completion_wait) *)
sema_down(t) ==
  /\ dpc[t] = "down" /\ completion_wait > 0
  /\ completion_wait' = completion_wait - 1
  /\ Step(t, IF req[t].op = "write" THEN "release" ELSE "ready")
  /\ UNCHANGED <<bootVars, req, fetched, channel_lock, expecting_interrupt, hwVars, requests,
                 spurious, failures, dfail>>

(* wait_while_busy has seen BSY clear: without DRQ there was an error,     *)
(* after which ide_init ignores the disk and a request panics.  Then       *)
(* input_sector or output_sector.                                          *)
transfer(t) ==
  /\ dpc[t] = "ready" /\ ata.st # "busy"
  /\ CASE ata.st = "data" ->
            /\ fetched' = [fetched EXCEPT ![t] = ata.data]
            /\ ata' = [ata EXCEPT !.st = "idle", !.cmd = "none", !.data = NoThread]
            /\ Step(t, "release")
            /\ UNCHANGED <<is_ata, req, dfail>>
       [] ata.st = "want" ->
            /\ ata' = [ata EXCEPT !.st = "busy", !.data = t]
            /\ Step(t, "down")
            /\ UNCHANGED <<is_ata, req, fetched, dfail>>
       [] ata.st = "idle" /\ t = BootThread ->
            /\ is_ata' = is_ata \ {req[t].dev}
            /\ req' = [req EXCEPT ![t].dev = @ + 1]
            /\ Step(t, "next")
            /\ UNCHANGED <<fetched, ata, dfail>>
       [] OTHER -> dfail' = "disk error" /\ UNCHANGED <<is_ata, req, fetched, ata, dpc>>
  /\ UNCHANGED <<machine, all_blocks, scan, part_nr, channel_lock, expecting_interrupt, completion_wait,
                 intrq, surface, requests, spurious, failures>>

Unlocked(t) == NoThread

release_channel(t) ==
  /\ t \in IoThread /\ dpc[t] = "release"
  /\ channel_lock' = Unlocked(t)
  /\ req' = [req EXCEPT ![t] = NoRequest] /\ fetched' = [fetched EXCEPT ![t] = NoThread]
  /\ Step(t, "idle")
  /\ UNCHANGED <<bootVars, expecting_interrupt, completion_wait, hwVars, requests, spurious, failures, dfail>>

-----------------------------------------------------------------------------
(* The controller and its interrupts *)

(* A command is done: data can be fetched, or have been written. *)
complete ==
  /\ ata.st = "busy"
  /\ IF ata.cmd = "write"
     THEN /\ surface' = [surface EXCEPT ![ata.dev][ata.sector] = ata.data]
          /\ ata' = [ata EXCEPT !.st = "idle", !.cmd = "none", !.data = NoThread]
     ELSE /\ ata' = [ata EXCEPT !.st = "data", !.data = surface[ata.dev][ata.sector]]
          /\ UNCHANGED surface
  /\ intrq' = TRUE
  /\ UNCHANGED <<bootVars, dpc, req, fetched, channel_lock, expecting_interrupt, completion_wait, requests,
                 spurious, failures, dfail>>

(* A command cannot be carried out: there is an interrupt, and no data. *)
fail_command ==
  /\ ata.st = "busy" /\ failures < MaxFailures
  /\ failures' = failures + 1
  /\ ata' = [ata EXCEPT !.st = "idle", !.cmd = "none", !.data = NoThread]
  /\ intrq' = TRUE
  /\ UNCHANGED <<bootVars, dpc, req, fetched, channel_lock, expecting_interrupt, completion_wait, surface,
                 requests, spurious, dfail>>

(* interrupt_handler for an interrupt of the channel. *)
Handled ==
  completion_wait' = IF expecting_interrupt THEN completion_wait + 1 ELSE completion_wait

interrupt_handler ==
  /\ intrq
  /\ intrq' = FALSE
  /\ Handled
  /\ UNCHANGED <<bootVars, dpc, req, fetched, channel_lock, expecting_interrupt, ata, surface, requests,
                 spurious, failures, dfail>>

(* An interrupt that no command caused. *)
spurious_interrupt ==
  /\ spurious < MaxSpurious
  /\ spurious' = spurious + 1
  /\ Handled
  /\ UNCHANGED <<bootVars, dpc, req, fetched, channel_lock, expecting_interrupt, hwVars, requests, failures,
                 dfail>>

-----------------------------------------------------------------------------
DriverStep(t) ==
  /\ dfail = "none"
  /\ \/ select_sector(t) \/ issue_pio_command(t) \/ sema_down(t) \/ transfer(t) \/ release_channel(t)
     \/ t \in IoThread /\ acquire_channel(t)

BootStep ==
  /\ dfail = "none"
  /\ \/ check_device_type \/ next_device \/ block_register \/ read_partition_table
     \/ partition_scan_returns

Controller == dfail = "none" /\ (complete \/ interrupt_handler)

DisksNext ==
  \/ \E t \in IoThread \cup {BootThread} : DriverStep(t)
  \/ BootStep \/ Controller
  \/ /\ dfail = "none"
     /\ \/ \E t \in IoThread, op \in {"read", "write"}, i \in DOMAIN all_blocks :
             \E s \in 0..all_blocks[i].size : all_blocks[i].type # "raw" /\ block_request(t, op, i, s)
        \/ spurious_interrupt \/ fail_command

-----------------------------------------------------------------------------
(* Properties *)

(* A partition lies within its disk, so that check_sector of the partition *)
(* is enough for check_sector of the disk.                                 *)
PartitionsInside ==
  \A i \in DOMAIN all_blocks : all_blocks[i].start + all_blocks[i].size <= machine[all_blocks[i].dev].size

(* Whatever interrupts come and commands fail, a read fetches what is in   *)
(* its sector, and the controller gets a command only when it is idle; a   *)
(* write that returns has been acknowledged, unless an interrupt came that *)
(* no command caused or the write failed, which ide_write does not see.    *)
RequestsRight ==
  \A t \in IoThread :
    /\ dpc[t] = "release" /\ req[t].op = "read" => fetched[t] = surface[req[t].dev][req[t].sector]
    /\ dpc[t] = "release" /\ req[t].op = "write" /\ spurious + failures = 0 =>
         surface[req[t].dev][req[t].sector] = t
    /\ dpc[t] = "issue" => ata.st = "idle"

(* A request through a partition touches no sector of another, when the    *)
(* table of the disk has no extended partitions.                           *)
PartitionsApart ==
  (\A e \in UNION {Range(machine[d].tables[0]) : d \in is_ata} : e.type # "extended") =>
    \A t \in IoThread, i \in DOMAIN all_blocks :
      dpc[t] # "idle" /\ i # req[t].block /\ all_blocks[i].type # "raw" /\ req[t].block \in DOMAIN all_blocks =>
        ~(all_blocks[i].dev = req[t].dev /\ req[t].sector \in all_blocks[i].start..(all_blocks[i].start + all_blocks[i].size - 1))

(* A request, once begun, is answered, unless the disk fails. *)
RequestsAnswered == \A t \in IoThread : dpc[t] = "lock" ~> dpc[t] = "idle" \/ dfail # "none"

(* A partition is a part of its disk, and the only one its users reach. *)
PartitionsRight == PartitionsInside /\ PartitionsApart
=============================================================================
