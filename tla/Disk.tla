--------------------------------- MODULE Disk ---------------------------------
(***************************************************************************)
(* The two disk drivers: IDE (kernel/src/drivers/block/ide) and AHCI       *)
(* (kernel/src/drivers/block/sata/sata.c).  Both poll: the driver and the  *)
(* drive are two processes that meet in the status registers.              *)
(*                                                                         *)
(* A drive keeps what is written in a cache until it is told to flush or   *)
(* does so by itself; power may fail at any time.  It may fail a command   *)
(* with ERR or with DF.  A machine has one of the two controllers.         *)
(* LBA28 and LBA24 stand for 2^28 and 2^24.                                *)
(***************************************************************************)
EXTENDS Integers, Sequences, FiniteSets, FiniteSetsExt

CONSTANTS
  LBA28, LBA24,
  SECTORS,         \* a drive has sectors 0 .. SECTORS - 1
  Values,          \* what is written to sectors
  Configurations,  \* bound: [controller, present]; present: the numbers of the IDE drives
  Slots,           \* command slots of an AHCI port, 0 .. n
  COUNT_LIMIT,     \* bound: sectors moved by a call
  CALL_LIMIT,      \* bound: calls in a behaviour
  None

ASSUME DiskAssumption ==
  /\ SECTORS \in Nat /\ LBA24 \in Nat \ {0} /\ LBA28 \in Nat
  /\ COUNT_LIMIT \in Nat /\ CALL_LIMIT \in Nat
  /\ Slots \subseteq Nat /\ None \notin Values
  /\ \A k \in Configurations : k.controller \in {"ide", "ahci"} /\ k.present \subseteq 0..3

VARIABLES
  machine,         \* the configuration, with the IDE drives found: [controller, present, ide_devices]
  data, stable,    \* drive -> sector -> value: what a read finds; what is on the medium
  drive,           \* the drive at work: [state, op, at, lba, left, word]
  port,            \* the AHCI port: [st, cr, fre, fr, ci, tfes, halted]
  pc, call, moved, slot, bounce, \* the driver: where it is, its parameters, the sectors moved,
                   \* the slot and the bounce buffer it uses
  result,          \* what the last call returned
  calls,           \* calls made so far
  promised,        \* history: drive -> sector -> the last value a call reported as written
  faulted          \* history: a drive has failed a command

deviceVars == <<data, stable, drive, port>>
driverVars == <<pc, call, moved, slot, bounce, result>>
historyVars == <<promised, faulted>>
vars == <<machine, deviceVars, driverVars, calls, historyVars>>

Sectors == 0..(SECTORS - 1)
Idle == [state |-> "ready", op |-> "none", at |-> 0, lba |-> 0, left |-> 0, word |-> None]
Stopped == [st |-> FALSE, cr |-> FALSE, fre |-> FALSE, fr |-> FALSE, ci |-> {}, tfes |-> FALSE,
            halted |-> FALSE]
NoCall == [op |-> "none", drive |-> 0, lba |-> 0, buf |-> <<>>, n |-> 0]

Drives == machine.present
Ide == machine.controller = "ide"
Ahci == machine.controller = "ahci"

\* Every sector of every drive holds something else.  Firmware may have left the AHCI port
\* running.
Init ==
  /\ \E k \in Configurations :
       machine = [controller |-> k.controller, present |-> k.present,
                  ide_devices |-> [i \in 0..3 |-> None]]
  /\ data = [d \in Drives |-> [s \in Sectors |-> <<d, s>>]]
  /\ stable = data
  /\ drive = Idle
  /\ \E on \in BOOLEAN : port = [Stopped EXCEPT !.st = on, !.cr = on, !.fre = on, !.fr = on]
  /\ pc = IF Ide THEN "probe0" ELSE "stop_cmd"
  /\ call = NoCall /\ moved = <<>> /\ slot = None /\ bounce = None /\ result = None
  /\ calls = 0
  /\ promised = [d \in Drives |-> [s \in Sectors |-> None]]
  /\ faulted = FALSE

------------------------------------------------------------------------------
(* The drives (external).                                                  *)

Finishes(d) == drive' = d /\ UNCHANGED <<machine, driverVars, calls, promised>>

\* A command written to the command register; a busy drive ignores it.
Commanded(op, at, lba, n) ==
  IF drive.state = "busy" THEN drive
  ELSE [state |-> "busy", op |-> op, at |-> at, lba |-> lba, left |-> n, word |-> None]

OnDrive == drive.lba \in Sectors

\* The drive ends what it is busy with (PIO): a sector is ready to be read; it waits for
\* a sector, or has stored one; the cache is flushed.
drive_ends ==
  /\ Ide /\ drive.state = "busy"
  /\ drive.op = "flush" \/ OnDrive
  /\ CASE drive.op = "read" ->
            /\ Finishes([drive EXCEPT !.state = "drq", !.word = data[drive.at][drive.lba]])
            /\ UNCHANGED <<data, stable>>
       [] drive.op = "write" ->
            /\ IF drive.word = None
                 THEN Finishes([drive EXCEPT !.state = "drq"]) /\ UNCHANGED data
                 ELSE /\ data' = [data EXCEPT ![drive.at][drive.lba] = drive.word]
                      /\ Finishes([drive EXCEPT !.state = IF drive.left = 1 THEN "ready" ELSE "drq",
                                                !.lba = @ + 1, !.left = @ - 1, !.word = None])
            /\ UNCHANGED stable
       [] drive.op = "flush" ->
            /\ stable' = [stable EXCEPT ![drive.at] = data[drive.at]]
            /\ Finishes(Idle) /\ UNCHANGED data
  /\ UNCHANGED <<port, faulted>>

\* The command fails.
drive_fails ==
  /\ drive.state = "busy"
  /\ \E s \in {"err", "df"} : Finishes([drive EXCEPT !.state = s, !.left = 0])
  /\ port' = IF Ahci THEN [port EXCEPT !.tfes = TRUE, !.halted = TRUE] ELSE port
  /\ faulted' = TRUE
  /\ UNCHANGED <<data, stable>>

\* The AHCI controller takes a command while it runs and no error has halted it.
controller_takes ==
  /\ Ahci /\ port.cr /\ ~port.halted /\ port.ci # {} /\ drive.state # "busy"
  /\ drive' = [drive EXCEPT !.state = "busy"]
  /\ UNCHANGED <<machine, data, stable, port, driverVars, calls, historyVars>>

Span(lba, n) == lba..(lba + n - 1)

\* It ends one: by DMA from or to the bounce buffer, and the bit of the slot is cleared.
controller_ends ==
  /\ Ahci /\ drive.state = "busy"
  /\ drive.op \in {"read", "write"} => Span(drive.lba, drive.left) \subseteq Sectors
  /\ drive' = Idle
  /\ port' = [port EXCEPT !.ci = {}]
  /\ bounce' = IF drive.op = "read"
                 THEN [k \in 1..drive.left |-> data[drive.at][drive.lba + k - 1]]
                 ELSE bounce
  /\ data' = IF drive.op = "write"
               THEN [data EXCEPT ![drive.at] = [s \in Sectors |->
                       IF s \in Span(drive.lba, drive.left) THEN bounce[s - drive.lba + 1]
                       ELSE @[s]]]
               ELSE data
  /\ stable' = IF drive.op = "flush" THEN [stable EXCEPT ![drive.at] = data[drive.at]] ELSE stable
  /\ UNCHANGED <<machine, pc, call, moved, slot, result, calls, historyVars>>

\* The engines of the port follow the bits that start and stop them.
port_follows ==
  /\ port.cr # port.st \/ port.fr # port.fre
  /\ port' = [port EXCEPT !.cr = port.st, !.fr = port.fre]
  /\ UNCHANGED <<machine, data, stable, drive, driverVars, calls, historyVars>>

\* The power fails: of the cache any part may have reached the medium.
power_fails ==
  /\ pc # "probe0" /\ pc # "stop_cmd"
  /\ \E kept \in SUBSET {p \in Drives \X Sectors : data[p[1]][p[2]] # stable[p[1]][p[2]]} :
       data' = [d \in Drives |-> [s \in Sectors |->
                  IF <<d, s>> \in kept THEN data[d][s] ELSE stable[d][s]]]
  /\ stable' = data'
  /\ drive' = Idle /\ port' = Stopped
  /\ machine' = [machine EXCEPT !.ide_devices = [i \in 0..3 |-> None]]
  /\ pc' = IF Ide THEN "probe0" ELSE "stop_cmd"
  /\ call' = NoCall /\ moved' = <<>> /\ slot' = None /\ bounce' = None /\ result' = None
  /\ promised' = IF Ide THEN [d \in Drives |-> [s \in Sectors |-> None]] ELSE promised
  /\ UNCHANGED <<calls, faulted>>

------------------------------------------------------------------------------
(* The calls, common to both drivers.                                      *)

Begins(c, where) ==
  /\ pc = "idle" /\ calls < CALL_LIMIT
  /\ calls' = calls + 1
  /\ call' = c /\ moved' = <<>> /\ result' = None
  /\ pc' = where
  \* what was promised of sectors that are now written over is void
  /\ promised' = IF c.op = "write" /\ c.drive \in Drives
                   THEN [promised EXCEPT ![c.drive] = [s \in Sectors |->
                           IF s \in Span(c.lba, c.n) THEN None ELSE @[s]]]
                   ELSE promised

Returns(r) ==
  /\ pc' = "idle" /\ result' = r
  /\ slot' = None /\ bounce' = None
  /\ promised' = IF r = 0 /\ call.op = "write"
                   THEN [promised EXCEPT ![call.drive] = [s \in Sectors |->
                           IF s \in Span(call.lba, call.n) THEN call.buf[s - call.lba + 1] ELSE @[s]]]
                   ELSE promised

Counts == 1..COUNT_LIMIT
Buffers(n) == [1..n -> Values]

------------------------------------------------------------------------------
(* IDE.                                                                    *)

Probing == {"probe0", "probe1", "probe2", "probe3"}
ProbeOf == [p \in Probing |-> CASE p = "probe0" -> 0 [] p = "probe1" -> 1
                                [] p = "probe2" -> 2 [] OTHER -> 3]
After(i) == CASE i = 0 -> "probe1" [] i = 1 -> "probe2" [] i = 2 -> "probe3" [] OTHER -> "idle"

\* One turn of the loop of ide_initialize.  ide_identify files what it finds under the number
\* of the drive on its channel, so that the secondary channel replaces the primary.  A drive
\* that answers IDENTIFY with ERR is left out; one that answers with neither ERR nor data
\* keeps the loop waiting.
ide_initialize ==
  /\ Ide /\ pc \in Probing
  /\ LET i == ProbeOf[pc]
     IN  \/ /\ machine' = IF i \in Drives THEN [machine EXCEPT !.ide_devices[i % 2] = i] ELSE machine
            /\ pc' = After(i)
            /\ UNCHANGED faulted
         \/ /\ i \in Drives
            /\ pc' \in {After(i), "ide_identify"}
            /\ faulted' = TRUE
            /\ UNCHANGED machine
  /\ UNCHANGED <<deviceVars, call, moved, slot, bounce, result, calls, promised>>

\* What head and LBA registers say for lba: above 28 bits, the low 24.
ide_address(lba) == IF lba >= LBA28 THEN lba % LBA24 ELSE lba

Found(d) == machine.ide_devices[d] # None

ide_read_sectors ==
  /\ Ide
  /\ \E d \in 0..1, n \in Counts, lba \in Sectors :
       /\ Found(d)
       /\ Begins([op |-> "read", drive |-> machine.ide_devices[d], lba |-> lba, n |-> n,
                  buf |-> <<>>], "ide_read")
       /\ drive' = Commanded("read", machine.ide_devices[d], ide_address(lba), n)
  /\ UNCHANGED <<machine, data, stable, port, slot, bounce, faulted>>

unchecked == drive.state # "busy"

ide_polling_nothing == 0
\* ide_polling with check: BSY is clear, and then what the status says.
ide_polling_code ==
  CASE drive.state = "err" -> 2
    [] drive.state = "df" -> 1
    [] drive.state = "drq" -> 0
    [] OTHER -> 3

\* A sector is taken from the data register, or the loop is left with an error.
ide_read_sector ==
  /\ pc = "ide_read" /\ drive.state # "busy"
  /\ IF ide_polling_code # 0
       THEN Returns(ide_polling_code) /\ UNCHANGED <<moved, drive>>
       ELSE /\ moved' = Append(moved, drive.word)
            /\ drive' = IF drive.left <= 1 THEN Idle
                        ELSE [drive EXCEPT !.state = "busy", !.lba = @ + 1, !.left = @ - 1, !.word = None]
            /\ IF Len(moved') = call.n THEN Returns(0)
               ELSE UNCHANGED <<pc, slot, bounce, result, promised>>
  /\ UNCHANGED <<machine, data, stable, port, call, calls, faulted>>

\* From 2^28 on refused.
ide_write_sectors ==
  /\ Ide
  /\ \E d \in 0..1, n \in Counts, lba \in Sectors : \E buf \in Buffers(n) :
       /\ Found(d) /\ lba < LBA28
       /\ Begins([op |-> "write", drive |-> machine.ide_devices[d], lba |-> lba, n |-> n,
                  buf |-> buf], "ide_write")
       /\ drive' = Commanded("write", machine.ide_devices[d], lba, n)
  /\ UNCHANGED <<machine, data, stable, port, slot, bounce, faulted>>

\* ide_polling without check: whatever the status says, the sector goes to the data register.
ide_write_sector ==
  /\ pc = "ide_write" /\ unchecked
  /\ drive' = IF drive.state = "drq"
                THEN [drive EXCEPT !.state = "busy", !.word = call.buf[Len(moved) + 1]]
                ELSE drive
  /\ moved' = Append(moved, call.buf[Len(moved) + 1])
  /\ pc' = IF Len(moved') = call.n THEN "ide_flush" ELSE pc
  /\ UNCHANGED <<machine, data, stable, port, call, slot, bounce, result, calls, historyVars>>

\* The flush is sent at once, while the drive may still store the last sector.
ide_flush ==
  /\ pc = "ide_flush"
  /\ drive' = Commanded("flush", call.drive, 0, 0)
  /\ pc' = "ide_flushing"
  /\ UNCHANGED <<machine, data, stable, port, call, moved, slot, bounce, result, calls, historyVars>>

ide_flushed ==
  /\ pc = "ide_flushing" /\ unchecked
  /\ Returns(0)
  /\ UNCHANGED <<machine, deviceVars, call, moved, calls, faulted>>

------------------------------------------------------------------------------
(* AHCI.                                                                   *)

\* stop_cmd: ST off, wait for CR, FRE off, wait for FR; the lists; start_cmd.
configure_port ==
  /\ \/ /\ pc = "stop_cmd"
        /\ port' = [port EXCEPT !.st = FALSE] /\ pc' = "wait_cr"
     \/ /\ pc = "wait_cr" /\ ~port.cr
        /\ port' = [port EXCEPT !.fre = FALSE] /\ pc' = "wait_fr"
     \/ /\ pc = "wait_fr" /\ ~port.fr
        /\ port' = [port EXCEPT !.fre = TRUE, !.st = TRUE] /\ pc' = "idle"
  /\ UNCHANGED <<machine, data, stable, drive, call, moved, slot, bounce, result, calls, historyVars>>

Free == Slots \ port.ci

\* The bounce buffer, filled for a write; the interrupt status cleared; the first free slot.
\* Without memory or a slot the call fails at once.
Prepares(op, lba, n, buf) ==
  /\ Ahci
  /\ \E d \in Drives :
       Begins([op |-> op, drive |-> d, lba |-> lba, n |-> n, buf |-> buf], "ahci_ready")
  /\ bounce' = IF op = "write" THEN buf ELSE None
  /\ Free # {}
  /\ slot' = Min(Free)
  /\ port' = [port EXCEPT !.tfes = FALSE]
  /\ UNCHANGED <<machine, data, stable, drive, faulted>>

\* The three calls: how each begins; ahci_issue, ahci_flush and ahci_wait go on with it.
ahci_read == \E n \in Counts, lba \in Sectors : Prepares("read", lba, n, <<>>)
ahci_write ==
  \E n \in Counts, lba \in Sectors : \E buf \in Buffers(n) : Prepares("write", lba, n, buf)
ahci_identify == Prepares("identify", 0, 1, <<>>)

\* tfd shows neither BSY nor DRQ: the command is issued.
Issued(op, where) ==
  /\ drive.state \notin {"busy", "drq"}
  /\ port' = [port EXCEPT !.ci = @ \cup {slot}]
  /\ drive' = [drive EXCEPT !.op = op, !.at = call.drive, !.lba = call.lba, !.left = call.n]
  /\ pc' = where
  /\ UNCHANGED <<machine, data, stable, call, moved, slot, bounce, result, calls, historyVars>>

ahci_issue == pc = "ahci_ready" /\ Issued(call.op, "ahci_wait")

command_left_as_it_was == call.op
\* A write is followed by a flush in the same slot.
flush_command == "flush"

ahci_flush == pc = "ahci_flush" /\ Issued(flush_command, "ahci_flushing")

never_sees_error == FALSE
sees_error == port.tfes

\* The loop looks at the slot's bit first, then at the error bit.
ended == slot \notin port.ci
errs == ~ended /\ sees_error

ahci_wait ==
  /\ pc \in {"ahci_wait", "ahci_flushing"}
  /\ \/ /\ errs
        /\ Returns(1)
        /\ UNCHANGED moved
     \/ /\ ended
        /\ IF pc = "ahci_wait" /\ call.op = "write"
             THEN /\ pc' = "ahci_flush"
                  /\ UNCHANGED <<moved, slot, bounce, result, promised>>
             ELSE /\ moved' = IF call.op = "read" THEN bounce ELSE moved
                  /\ Returns(0)
  /\ UNCHANGED <<machine, deviceVars, call, calls, faulted>>

------------------------------------------------------------------------------

device == drive_ends \/ controller_takes \/ controller_ends \/ port_follows
driver ==
  \/ ide_initialize \/ ide_read_sector \/ ide_write_sector \/ ide_flush \/ ide_flushed
  \/ configure_port \/ ahci_issue \/ ahci_flush \/ ahci_wait
caller == ide_read_sectors \/ ide_write_sectors \/ ahci_read \/ ahci_write \/ ahci_identify

Next == device \/ drive_fails \/ power_fails \/ driver \/ caller

\* The driver polls on, and a drive that is busy ends or fails its command.
Spec == Init /\ [][Next]_vars /\ WF_vars(driver) /\ WF_vars(device \/ drive_fails)

------------------------------------------------------------------------------
(* Properties.                                                             *)

InCall == pc \in {"ide_read", "ide_write", "ide_flush", "ide_flushing",
                  "ahci_ready", "ahci_wait", "ahci_flush", "ahci_flushing"}

\* A read that reports success has delivered the sectors asked for, in order and from the
\* drive the number stands for, whatever failed before or on the way - by IDE only below
\* 2^28, where the driver no longer tells the drive the whole number (ide_rw.c:23).
ReadsReturnSectors ==
  pc = "idle" /\ result = 0 /\ call.op = "read" /\ (Ide => call.lba < LBA28) =>
    moved = [k \in 1..call.n |-> data[call.drive][call.lba + k - 1]]

\* What AHCI reports as written is on the medium and survives a power failure at any later
\* time; what IDE reports as written can be read back as long as the power stays on and no
\* drive has failed: it sends the flush without waiting for the drive (ide_rw.c:109), and
\* does not look at errors.
WritesLast ==
  \A d \in Drives, s \in Sectors : promised[d][s] # None =>
    /\ Ahci => stable[d][s] = promised[d][s]
    /\ Ahci \/ ~faulted => data[d][s] = promised[d][s]

\* Every IDE call comes back, and so does an AHCI call that finds the port as no error has
\* left it, also when its own command fails; after an error the port is halted and never
\* started again, and the next call waits for ever (sata.c:168).
CallsReturn == (InCall /\ (Ide \/ ~faulted)) ~> ~InCall
==============================================================================
