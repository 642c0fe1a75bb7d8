------------------------------ MODULE DiskProofs -------------------------------
(***************************************************************************)
(* For every number of drives, sectors and slots, every size of a call and *)
(* every interleaving of a driver with its drive, with failing commands    *)
(* and failing power: a read that reports success delivered the sectors it *)
(* was asked for, and what was reported as written lasts.                  *)
(*                                                                         *)
(* The invariant ties the drive to the driver: which part of the call the  *)
(* drive has done, at every point of the driver's loop.  For AHCI this     *)
(* needs that a halted port never takes a command again, so that an old    *)
(* command cannot run into a later call; for IDE that no driver loop is    *)
(* left while the drive is busy.                                           *)
(***************************************************************************)
EXTENDS Disk, SequenceTheorems, WellFoundedInduction, TLAPS

------------------------------------------------------------------------------
(* Numbers and sequences.                                                  *)

\* A search upwards that can succeed stops at a first success.
LEMMA LeastNat ==
  ASSUME NEW S, S \subseteq Nat, S # {}
  PROVE  \E x \in S : \A y \in S : x <= y
  <1>1. PICK x \in S : \A y \in S : ~ (<<y, x>> \in OpToRel(<, Nat))
    BY NatLessThanWellFounded, WFMin, Zenon
  <1>2. \A y \in S : ~ (y < x)
    BY <1>1 DEF OpToRel
  <1> QED
    BY <1>2

\* The first free entry of a table is a free entry, and none before it is free.
LEMMA MinProps ==
  ASSUME NEW S, S \subseteq Nat, S # {}
  PROVE  Min(S) \in S /\ \A y \in S : Min(S) <= y
  BY LeastNat, Zenon DEF Min

\* A remainder is less than its modulus.
LEMMA ModRange ==
  ASSUME NEW x \in Int, NEW m \in Nat \ {0}
  PROVE  x % m \in 0..(m - 1)
  OBVIOUS

\* A text of n characters is a sequence.
LEMMA FunctionIsSeq ==
  ASSUME NEW S, NEW n \in Nat, NEW f \in [1..n -> S]
  PROVE  f \in Seq(S) /\ Len(f) = n
  <1>1. f \in Seq(S)
    BY SeqDef
  <1>2. 1..Len(f) = 1..n /\ Len(f) \in Nat
    BY <1>1, LenProperties
  <1> QED
    BY <1>1, <1>2

------------------------------------------------------------------------------
(* The inductive invariant.                                                *)

Content == Values \cup {None} \cup ((0..3) \X Sectors)
Contents == [Drives -> [Sectors -> Content]]

Booting == Probing \cup {"ide_identify", "stop_cmd", "wait_cr", "wait_fr"}
IdeWriting == {"ide_write", "ide_flush", "ide_flushing"}
AhciWaiting == {"ahci_wait", "ahci_flushing"}
AhciCalls == {"ahci_ready", "ahci_flush"} \cup AhciWaiting

MachineType ==
  /\ machine \in [controller : {"ide", "ahci"}, present : SUBSET (0..3),
                  ide_devices : [0..3 -> (0..3) \cup {None}]]
  /\ \A i \in 0..3 : Found(i) => machine.ide_devices[i] \in Drives

DriveType ==
  drive \in [state : {"ready", "busy", "drq", "err", "df"},
             op : {"none", "read", "write", "identify", "flush"},
             at : Nat, lba : Nat, left : Int, word : Content]

PortType ==
  port \in [st : BOOLEAN, cr : BOOLEAN, fre : BOOLEAN, fr : BOOLEAN, ci : SUBSET (Slots \cup {None}),
            tfes : BOOLEAN, halted : BOOLEAN]

CallType ==
  call \in [op : {"none", "read", "write", "identify"}, drive : Nat, lba : Nat, buf : Seq(Values),
            n : Nat]

Types ==
  /\ MachineType /\ DriveType /\ PortType /\ CallType
  /\ data \in Contents /\ stable \in Contents /\ promised \in Contents
  /\ moved \in Seq(Content) /\ slot \in Slots \cup {None}
  /\ calls \in Nat /\ faulted \in BOOLEAN
  /\ pc \in Booting \cup {"idle", "ide_read"} \cup IdeWriting \cup AhciCalls

\* The sectors of the call hold what it writes.
Holds(disk, first, last) ==
  \A k \in first..last : call.lba + k - 1 \in Sectors =>
    disk[call.drive][call.lba + k - 1] = call.buf[k]

\* Where the driver is says which controller there is and what the call is.
CallInv ==
  /\ pc \in Booting => call = NoCall
  /\ pc \in {"ide_read"} \cup IdeWriting => Ide
  /\ pc \in AhciCalls => Ahci
  /\ pc = "ide_read" => call.op = "read"
  /\ pc \in IdeWriting \cup {"ahci_flush", "ahci_flushing"} => call.op = "write"
  /\ InCall => call.drive \in Drives /\ call.n >= 1
  /\ InCall /\ call.op = "write" =>
       /\ call.buf \in [1..call.n -> Values]
       /\ \A s \in Sectors \cap Span(call.lba, call.n) : promised[call.drive][s] = None

\* An IDE drive is only busy while the driver loops for it, with the driver's command.
IdeInv ==
  /\ Ide /\ drive.state = "busy" => pc \in {"ide_read"} \cup IdeWriting
  /\ pc \in IdeWriting /\ drive.state \in {"busy", "drq"} =>
       drive.at = call.drive /\ drive.op \in {"write", "flush"}
  /\ pc \in {"ide_read", "ide_write"} => Len(moved) < call.n

\* The sectors read so far, and the one the drive is at.
IdeReadInv ==
  pc = "ide_read" =>
    /\ call.lba < LBA28 => \A k \in 1..Len(moved) : moved[k] = data[call.drive][call.lba + k - 1]
    /\ drive.state \in {"busy", "drq"} =>
         /\ drive.op = "read" /\ drive.at = call.drive
         /\ drive.left = call.n - Len(moved)
         /\ call.lba < LBA28 => drive.lba = call.lba + Len(moved)
         /\ drive.state = "drq" => drive.word = data[drive.at][drive.lba]

\* The sectors written so far, and the one the drive stores or waits for.
Storing ==
  /\ drive.state = "busy" /\ drive.op = "write" /\ drive.word # None
  /\ Len(moved) >= 1 /\ drive.word = call.buf[Len(moved)]
  /\ drive.lba = call.lba + Len(moved) - 1 /\ drive.left = call.n - Len(moved) + 1
  /\ Holds(data, 1, Len(moved) - 1)

IdeWriteInv ==
  /\ pc = "ide_write" /\ ~faulted =>
       \/ Storing
       \/ /\ drive.state \in {"busy", "drq"} /\ drive.op = "write" /\ drive.word = None
          /\ drive.state = "busy" => Len(moved) = 0
          /\ drive.at = call.drive
          /\ drive.lba = call.lba + Len(moved) /\ drive.left = call.n - Len(moved)
          /\ Holds(data, 1, Len(moved))
  /\ pc \in {"ide_flush", "ide_flushing"} /\ ~faulted =>
       /\ Len(moved) = call.n
       /\ \/ Storing
          \/ /\ drive.state # "busy" \/ (drive.op = "flush" /\ pc = "ide_flushing")
             /\ Holds(data, 1, call.n)

\* An AHCI command that is still to run is the one the driver waits for.
AhciInv ==
  Ahci =>
    /\ port.tfes => port.halted
    /\ drive.state = "busy" => port.ci # {} /\ ~port.halted
    /\ port.ci # {} /\ ~port.halted =>
         /\ pc \in AhciWaiting
         /\ drive.at = call.drive /\ drive.lba = call.lba /\ drive.left = call.n
         /\ drive.op = IF pc = "ahci_wait" THEN call.op ELSE "flush"
    /\ pc \in AhciWaiting /\ port.ci # {} => slot \in port.ci

\* What has been done of an AHCI call, where the driver is.
AhciCallInv ==
  /\ pc \in {"ahci_ready", "ahci_wait"} /\ call.op = "write" => bounce = call.buf
  /\ pc = "ahci_wait" /\ ended /\ call.op = "read" =>
       /\ Span(call.lba, call.n) \subseteq Sectors
       /\ bounce = [k \in 1..call.n |-> data[call.drive][call.lba + k - 1]]
  /\ (pc = "ahci_wait" /\ ended /\ call.op = "write") \/ pc \in {"ahci_flush", "ahci_flushing"} =>
       Holds(data, 1, call.n)
  /\ pc = "ahci_flushing" /\ ended => Holds(stable, 1, call.n)

\* The inductive invariant.
DiskInv ==
  /\ Types /\ CallInv /\ IdeInv /\ IdeReadInv /\ IdeWriteInv /\ AhciInv /\ AhciCallInv
  /\ ReadsReturnSectors /\ WritesLast

\* The constants and the sectors as numbers.
LEMMA Numbers ==
  /\ SECTORS \in Nat /\ LBA24 \in Nat \ {0} /\ LBA28 \in Nat
  /\ Slots \subseteq Nat /\ None \notin Values
  /\ \A s : s \in Sectors <=> s \in Nat /\ s < SECTORS
  BY DiskAssumption DEF Sectors

\* With one controller the invariants of the other are about nothing.
LEMMA OnlyIde ==
  ASSUME Ide', CallInv'
  PROVE  AhciInv' /\ AhciCallInv'
  BY DEF Ide, Ahci, CallInv, AhciInv, AhciCallInv, AhciCalls, AhciWaiting

\* And the other way round.
LEMMA OnlyAhci ==
  ASSUME Ahci', CallInv'
  PROVE  IdeInv' /\ IdeReadInv' /\ IdeWriteInv'
  BY DEF Ide, Ahci, CallInv, IdeInv, IdeReadInv, IdeWriteInv, IdeWriting

\* A step of the device alone leaves the call as it is.
LEMMA DeviceKeepsCall ==
  ASSUME DiskInv, UNCHANGED <<machine, pc, call, promised>>
  PROVE  CallInv' /\ (Ide' <=> Ide) /\ (Ahci' <=> Ahci) /\ MachineType' /\ CallType'
  BY DEF DiskInv, CallInv, Ide, Ahci, InCall, Drives, Types, MachineType, CallType, Found

------------------------------------------------------------------------------
(* The drive of an IDE channel.                                            *)

\* The sector is in the data register.
LEMMA DriveReads ==
  ASSUME DiskInv, Ide, drive.state = "busy", drive.op = "read", OnDrive,
         drive' = [drive EXCEPT !.state = "drq", !.word = data[drive.at][drive.lba]],
         UNCHANGED <<machine, data, stable, port, driverVars, calls, historyVars>>
  PROVE  DiskInv'
  <1>1. UNCHANGED <<machine, data, stable, port, pc, call, moved, slot, bounce, result, calls,
                    promised, faulted>>
    BY DEF driverVars, historyVars
  <1>2. pc = "ide_read"
    BY DEF DiskInv, IdeInv
  <1>3. drive.at = call.drive /\ call.drive \in Drives /\ drive.lba \in Sectors
    BY <1>2 DEF DiskInv, IdeReadInv, CallInv, InCall, OnDrive
  <1>4. data[drive.at][drive.lba] \in Content
    BY <1>3 DEF DiskInv, Types, Contents
  <1>5. /\ drive'.state = "drq" /\ drive'.word = data[drive.at][drive.lba] /\ drive'.op = drive.op
        /\ drive'.at = drive.at /\ drive'.lba = drive.lba /\ drive'.left = drive.left
    BY DEF DiskInv, Types, DriveType
  <1>6. CallInv' /\ Ide' /\ MachineType' /\ CallType'
    BY <1>1, DeviceKeepsCall
  <1>7. Types'
    BY <1>1, <1>4, <1>6 DEF DiskInv, Types, DriveType, PortType, Contents, Content, Drives
  <1>8. IdeInv' /\ IdeReadInv' /\ IdeWriteInv'
    BY <1>1, <1>2, <1>5 DEF DiskInv, IdeInv, IdeReadInv, IdeWriteInv, IdeWriting, Ide
  <1>9. ReadsReturnSectors' /\ WritesLast'
    BY <1>1 DEF DiskInv, ReadsReturnSectors, WritesLast, Ide, Ahci, Drives
  <1> QED
    BY <1>6, <1>7, <1>8, <1>9, OnlyIde DEF DiskInv

\* The drive is ready for the first sector.
LEMMA DriveAsks ==
  ASSUME DiskInv, Ide, drive.state = "busy", drive.op = "write", drive.word = None,
         drive' = [drive EXCEPT !.state = "drq"],
         UNCHANGED <<machine, data, stable, port, driverVars, calls, historyVars>>
  PROVE  DiskInv'
  <1>1. UNCHANGED <<machine, data, stable, port, pc, call, moved, slot, bounce, result, calls,
                    promised, faulted>>
    BY DEF driverVars, historyVars
  <1>2. pc \in IdeWriting
    BY DEF DiskInv, IdeInv, IdeReadInv
  <1>5. /\ drive'.state = "drq" /\ drive'.word = drive.word /\ drive'.op = drive.op
        /\ drive'.at = drive.at /\ drive'.lba = drive.lba /\ drive'.left = drive.left
    BY DEF DiskInv, Types, DriveType
  <1>6. CallInv' /\ Ide' /\ MachineType' /\ CallType'
    BY <1>1, DeviceKeepsCall
  <1>7. Types'
    BY <1>1, <1>6 DEF DiskInv, Types, DriveType, PortType, Contents, Content, Drives
  <1>8. IdeInv' /\ IdeReadInv'
    BY <1>1, <1>2, <1>5 DEF DiskInv, IdeInv, IdeReadInv, IdeWriting, Ide
  <1>9. IdeWriteInv'
    BY <1>1, <1>2, <1>5 DEF DiskInv, IdeWriteInv, Storing, IdeWriting, Holds
  <1>10. ReadsReturnSectors' /\ WritesLast'
    BY <1>1 DEF DiskInv, ReadsReturnSectors, WritesLast, Ide, Ahci, Drives
  <1> QED
    BY <1>6, <1>7, <1>8, <1>9, <1>10, OnlyIde DEF DiskInv

\* The drive stores a sector.
LEMMA DriveStores ==
  ASSUME DiskInv, Ide, drive.state = "busy", drive.op = "write", drive.word # None, OnDrive,
         data' = [data EXCEPT ![drive.at][drive.lba] = drive.word],
         drive' = [drive EXCEPT !.state = IF drive.left = 1 THEN "ready" ELSE "drq",
                                !.lba = @ + 1, !.left = @ - 1, !.word = None],
         UNCHANGED <<machine, stable, port, driverVars, calls, historyVars>>
  PROVE  DiskInv'
  <1>1. UNCHANGED <<machine, stable, port, pc, call, moved, slot, bounce, result, calls,
                    promised, faulted>>
    BY DEF driverVars, historyVars
  <1>2. pc \in IdeWriting
    BY DEF DiskInv, IdeInv, IdeReadInv
  <1>3. drive.at = call.drive /\ call.drive \in Drives /\ drive.lba \in Sectors
    BY <1>2 DEF DiskInv, IdeInv, CallInv, InCall, OnDrive, IdeWriting
  <1>4. /\ data' \in Contents
        /\ \A d \in Drives, s \in Sectors :
             data'[d][s] = IF d = call.drive /\ s = drive.lba THEN drive.word ELSE data[d][s]
    BY <1>3 DEF DiskInv, Types, Contents, DriveType
  <1>5. /\ drive'.state = (IF drive.left = 1 THEN "ready" ELSE "drq")
        /\ drive'.word = None /\ drive'.op = drive.op
        /\ drive'.at = drive.at /\ drive'.lba = drive.lba + 1 /\ drive'.left = drive.left - 1
    BY DEF DiskInv, Types, DriveType
  <1>6. CallInv' /\ Ide' /\ MachineType' /\ CallType'
    BY <1>1, DeviceKeepsCall
  <1>7. Types'
    <2>1. Contents' = Contents
      BY <1>1 DEF Contents, Drives
    <2>2. DriveType'
      <3>1. None \in Content
        BY DEF Content
      <3>2. (IF drive.left = 1 THEN "ready" ELSE "drq") \in {"ready", "busy", "drq", "err", "df"}
        OBVIOUS
      <3>3. drive.lba + 1 \in Nat /\ drive.left - 1 \in Int
        BY DEF DiskInv, Types, DriveType
      <3> QED
        BY <3>1, <3>2, <3>3 DEF DiskInv, Types, DriveType
    <2> QED
      BY <1>1, <1>4, <1>6, <2>1, <2>2 DEF DiskInv, Types, PortType
  <1>8. IdeInv' /\ IdeReadInv'
    BY <1>1, <1>2, <1>5 DEF DiskInv, IdeInv, IdeReadInv, IdeWriting, Ide
  <1>9. ~faulted => Storing /\ Len(moved) <= call.n
    BY <1>2 DEF DiskInv, IdeInv, IdeWriteInv, Storing, IdeWriting, Types, CallType
  <1>10. ~faulted => Holds(data, 1, Len(moved))'
    <2> SUFFICES ASSUME ~faulted, NEW k \in 1..Len(moved), call.lba + k - 1 \in Sectors
                 PROVE  data'[call.drive][call.lba + k - 1] = call.buf[k]
      BY <1>1 DEF Holds
    <2>1. Len(moved) \in Nat /\ call.lba \in Nat
      BY DEF DiskInv, Types, CallType
    <2>2. CASE k = Len(moved)
      BY <1>3, <1>4, <1>9, <2>1, <2>2 DEF Storing
    <2>3. CASE k < Len(moved)
      <3>1. k \in 1..(Len(moved) - 1) /\ call.lba + k - 1 # drive.lba
        BY <1>9, <2>1, <2>3 DEF Storing
      <3>2. data[call.drive][call.lba + k - 1] = call.buf[k]
        BY <1>9, <3>1 DEF Storing, Holds
      <3> QED
        BY <1>3, <1>4, <3>1, <3>2
    <2> QED
      BY <2>1, <2>2, <2>3
  <1>11. IdeWriteInv'
    <2>1. Len(moved) \in Nat /\ call.lba \in Nat /\ call.n \in Nat
      BY DEF DiskInv, Types, CallType
    <2>2. ASSUME pc = "ide_write", ~faulted PROVE IdeWriteInv'
      <3>1. Len(moved) < call.n
        BY <2>2 DEF DiskInv, IdeInv
      <3>2. drive.left # 1
        BY <1>9, <2>1, <2>2, <3>1 DEF Storing
      <3> QED
        BY <1>1, <1>3, <1>5, <1>9, <1>10, <2>1, <2>2, <3>2 DEF IdeWriteInv, Storing
    <2>3. ASSUME pc \in {"ide_flush", "ide_flushing"}, ~faulted PROVE IdeWriteInv'
      <3>1. Len(moved) = call.n
        BY <2>3 DEF DiskInv, IdeWriteInv
      <3>2. Holds(data, 1, call.n)'
        BY <1>1, <1>10, <2>3, <3>1 DEF Holds
      <3> QED
        BY <1>1, <1>5, <2>3, <3>1, <3>2 DEF IdeWriteInv
    <2> QED
      BY <1>1, <2>2, <2>3 DEF IdeWriteInv
  <1>12. ReadsReturnSectors'
    BY <1>1, <1>2 DEF ReadsReturnSectors, IdeWriting
  <1>13. WritesLast'
    <2>1. ASSUME ~faulted PROVE promised[call.drive][drive.lba] = None
      <3>1. Len(moved) \in Nat /\ call.lba \in Nat /\ call.n \in Nat
        BY DEF DiskInv, Types, CallType
      <3>2. drive.lba \in Span(call.lba, call.n)
        BY <1>9, <2>1, <3>1 DEF Storing, Span
      <3> QED
        BY <1>2, <1>3, <3>2 DEF DiskInv, CallInv, InCall, IdeWriting
    <2> QED
      BY <1>1, <1>4, <2>1 DEF DiskInv, WritesLast, Ide, Ahci, Drives
  <1> QED
    BY <1>6, <1>7, <1>8, <1>11, <1>12, <1>13, OnlyIde DEF DiskInv

\* The cache is on the medium.
LEMMA DriveFlushes ==
  ASSUME DiskInv, Ide, drive.state = "busy", drive.op = "flush",
         stable' = [stable EXCEPT ![drive.at] = data[drive.at]], drive' = Idle,
         UNCHANGED <<machine, data, port, driverVars, calls, historyVars>>
  PROVE  DiskInv'
  <1>1. UNCHANGED <<machine, data, port, pc, call, moved, slot, bounce, result, calls,
                    promised, faulted>>
    BY DEF driverVars, historyVars
  <1>2. pc \in IdeWriting
    BY DEF DiskInv, IdeInv, IdeReadInv
  <1>3. drive.at = call.drive /\ call.drive \in Drives
    BY <1>2 DEF DiskInv, IdeInv, CallInv, InCall, IdeWriting
  <1>4. stable' \in Contents
    BY <1>3 DEF DiskInv, Types, Contents
  <1>5. drive'.state = "ready"
    BY DEF Idle
  <1>6. CallInv' /\ Ide' /\ MachineType' /\ CallType'
    BY <1>1, DeviceKeepsCall
  <1>7. Types'
    <2>1. Contents' = Contents
      BY <1>1 DEF Contents, Drives
    <2>2. DriveType'
      BY DEF DriveType, Content, Idle
    <2> QED
      BY <1>1, <1>4, <1>6, <2>1, <2>2 DEF DiskInv, Types, PortType
  <1>8. IdeInv' /\ IdeReadInv'
    BY <1>1, <1>2, <1>5 DEF DiskInv, IdeInv, IdeReadInv, IdeWriting, Ide
  <1>9. IdeWriteInv'
    BY <1>1, <1>2, <1>5 DEF DiskInv, IdeWriteInv, Storing, IdeWriting, Holds
  <1>10. ReadsReturnSectors' /\ WritesLast'
    BY <1>1 DEF DiskInv, ReadsReturnSectors, WritesLast, Ide, Ahci, Drives
  <1> QED
    BY <1>6, <1>7, <1>8, <1>9, <1>10, OnlyIde DEF DiskInv

LEMMA DriveEndsKeeps ==
  ASSUME DiskInv, drive_ends
  PROVE  DiskInv'
  <1>1. /\ Ide /\ drive.state = "busy" /\ (drive.op = "flush" \/ OnDrive)
        /\ UNCHANGED <<port, faulted>>
    BY DEF drive_ends
  <1>2. drive.op \in {"read", "write", "flush"}
    BY <1>1 DEF DiskInv, IdeInv, IdeReadInv
  <1>3. CASE drive.op = "read"
    BY <1>1, <1>3, DriveReads DEF drive_ends, Finishes, driverVars, historyVars
  <1>4. CASE drive.op = "write" /\ drive.word = None
    BY <1>1, <1>4, DriveAsks DEF drive_ends, Finishes, driverVars, historyVars
  <1>5. CASE drive.op = "write" /\ drive.word # None
    BY <1>1, <1>5, DriveStores DEF drive_ends, Finishes, driverVars, historyVars
  <1>6. CASE drive.op = "flush"
    BY <1>1, <1>6, DriveFlushes DEF drive_ends, Finishes, driverVars, historyVars
  <1> QED
    BY <1>2, <1>3, <1>4, <1>5, <1>6

------------------------------------------------------------------------------
(* Failures.                                                               *)

LEMMA DriveFailsKeeps ==
  ASSUME DiskInv, drive_fails
  PROVE  DiskInv'
  <1>1. /\ drive.state = "busy" /\ faulted' = TRUE
        /\ port' = (IF Ahci THEN [port EXCEPT !.tfes = TRUE, !.halted = TRUE] ELSE port)
        /\ UNCHANGED <<machine, data, stable, pc, call, moved, slot, bounce, result, calls, promised>>
    BY DEF drive_fails, Finishes, driverVars
  <1>2. PICK s \in {"err", "df"} : drive' = [drive EXCEPT !.state = s, !.left = 0]
    BY DEF drive_fails, Finishes
  <1>3. drive'.state \in {"err", "df"} /\ DriveType'
    <2>1. drive \in [state : {"ready", "busy", "drq", "err", "df"},
                       op : {"none", "read", "write", "identify", "flush"},
                       at : Nat, lba : Nat, left : Int, word : Content]
      BY DEF DiskInv, Types, DriveType
    <2>2. s \in {"ready", "busy", "drq", "err", "df"} /\ 0 \in Int
      OBVIOUS
    <2>3. drive' = [state |-> s, op |-> drive.op, at |-> drive.at, lba |-> drive.lba, left |-> 0,
                    word |-> drive.word]
      BY <1>2, <2>1
    <2> QED
      BY <2>1, <2>2, <2>3 DEF DriveType
  <1>4. CallInv' /\ MachineType' /\ CallType' /\ (Ide' <=> Ide) /\ (Ahci' <=> Ahci)
    BY <1>1, DeviceKeepsCall
  <1>5. PortType'
    BY <1>1 DEF DiskInv, Types, PortType
  <1>6. Types'
    BY <1>1, <1>3, <1>4, <1>5 DEF DiskInv, Types, Contents, Drives
  <1>7. IdeInv' /\ IdeReadInv' /\ IdeWriteInv'
    BY <1>1, <1>3, <1>4 DEF DiskInv, IdeInv, IdeReadInv, IdeWriteInv
  <1>8. AhciInv' /\ AhciCallInv'
    <2>1. CASE Ahci
      <3>1. port'.halted = TRUE /\ port'.ci = port.ci
        BY <1>1, <2>1 DEF DiskInv, Types, PortType
      <3> QED
        BY <1>1, <1>3, <1>4, <2>1, <3>1 DEF DiskInv, AhciInv, AhciCallInv, ended, Holds
    <2>2. CASE ~Ahci
      BY <1>4, <2>2, OnlyIde DEF Ide, Ahci, DiskInv, Types, MachineType
    <2> QED
      BY <2>1, <2>2
  <1>9. ReadsReturnSectors' /\ WritesLast'
    BY <1>1, <1>4 DEF DiskInv, ReadsReturnSectors, WritesLast, Drives
  <1> QED
    BY <1>4, <1>6, <1>7, <1>8, <1>9 DEF DiskInv

\* What is on the medium and in the cache alike survives.
LEMMA PowerFailsKeeps ==
  ASSUME DiskInv, power_fails
  PROVE  DiskInv'
  <1>1. PICK kept : data' = [d \in Drives |-> [s \in Sectors |->
                               IF <<d, s>> \in kept THEN data[d][s] ELSE stable[d][s]]]
    BY DEF power_fails
  <1>2. /\ stable' = data' /\ drive' = Idle /\ port' = Stopped /\ call' = NoCall /\ moved' = <<>>
        /\ machine' = [machine EXCEPT !.ide_devices = [i \in 0..3 |-> None]]
        /\ pc' = (IF Ide THEN "probe0" ELSE "stop_cmd") /\ slot' = None
        /\ promised' = (IF Ide THEN [d \in Drives |-> [s \in Sectors |-> None]] ELSE promised)
        /\ UNCHANGED <<calls, faulted>>
    BY DEF power_fails
  <1>3. MachineType' /\ Drives' = Drives /\ (Ide' <=> Ide) /\ (Ahci' <=> Ahci)
    BY <1>2 DEF DiskInv, Types, MachineType, Drives, Ide, Ahci, Found
  <1>4. data' \in Contents /\ promised' \in Contents
    BY <1>1, <1>2 DEF DiskInv, Types, Contents, Content
  <1>5. DriveType' /\ PortType' /\ CallType'
    BY <1>2 DEF DriveType, PortType, CallType, Idle, Stopped, NoCall, Content
  <1>6. pc' \in Booting /\ pc' \notin IdeWriting \cup AhciCalls \cup {"idle", "ide_read"}
    BY <1>2 DEF Booting, Probing, IdeWriting, AhciCalls, AhciWaiting
  <1>7. Types'
    <2>1. Contents' = Contents
      BY <1>3 DEF Contents
    <2>2. moved' \in Seq(Content)
      BY <1>2
    <2> QED
      BY <1>2, <1>3, <1>4, <1>5, <1>6, <2>1, <2>2 DEF DiskInv, Types
  <1>8. CallInv' /\ IdeInv' /\ IdeReadInv' /\ IdeWriteInv'
    BY <1>2, <1>6 DEF CallInv, IdeInv, IdeReadInv, IdeWriteInv, InCall, IdeWriting, AhciCalls,
       AhciWaiting, Idle
  <1>9. AhciInv' /\ AhciCallInv'
    BY <1>2, <1>6 DEF AhciInv, AhciCallInv, AhciCalls, AhciWaiting, Idle, Stopped
  <1>10. ReadsReturnSectors'
    BY <1>6 DEF ReadsReturnSectors
  <1>11. WritesLast'
    <2> SUFFICES ASSUME NEW d \in Drives, NEW s \in Sectors, promised'[d][s] # None
                 PROVE  /\ Ahci => stable'[d][s] = promised'[d][s]
                        /\ Ahci \/ ~faulted => data'[d][s] = promised'[d][s]
      BY <1>2, <1>3 DEF WritesLast
    <2>1. CASE Ide
      BY <1>2, <2>1
    <2>2. CASE ~Ide
      <3>1. Ahci /\ promised'[d][s] = promised[d][s]
        BY <1>2, <2>2 DEF Ide, Ahci, DiskInv, Types, MachineType
      <3>2. stable[d][s] = promised[d][s] /\ data[d][s] = promised[d][s]
        BY <3>1 DEF DiskInv, WritesLast
      <3>3. data'[d][s] = data[d][s]
        BY <1>1, <3>2
      <3> QED
        BY <1>2, <3>1, <3>2, <3>3
    <2> QED
      BY <2>1, <2>2
  <1> QED
    BY <1>7, <1>8, <1>9, <1>10, <1>11 DEF DiskInv

------------------------------------------------------------------------------
(* The AHCI controller.                                                    *)

LEMMA TakesKeeps ==
  ASSUME DiskInv, controller_takes
  PROVE  DiskInv'
  <1>1. /\ Ahci /\ ~port.halted /\ port.ci # {} /\ drive' = [drive EXCEPT !.state = "busy"]
        /\ UNCHANGED <<machine, data, stable, port, pc, call, moved, slot, bounce, result, calls,
                       promised, faulted>>
    BY DEF controller_takes, driverVars, historyVars
  <1>2. CallInv' /\ MachineType' /\ CallType' /\ Ahci'
    BY <1>1, DeviceKeepsCall
  <1>3. /\ DriveType' /\ drive'.state = "busy" /\ drive'.op = drive.op /\ drive'.at = drive.at
        /\ drive'.lba = drive.lba /\ drive'.left = drive.left
    BY <1>1 DEF DiskInv, Types, DriveType
  <1>4. Types'
    BY <1>1, <1>2, <1>3 DEF DiskInv, Types, Contents, Drives, PortType
  <1>5. AhciInv' /\ AhciCallInv'
    BY <1>1, <1>3 DEF DiskInv, AhciInv, AhciCallInv, ended, Holds, Ahci
  <1>6. ReadsReturnSectors' /\ WritesLast'
    BY <1>1 DEF DiskInv, ReadsReturnSectors, WritesLast, Ide, Ahci, Drives
  <1> QED
    BY <1>2, <1>4, <1>5, <1>6, OnlyAhci DEF DiskInv

LEMMA PortFollowsKeeps ==
  ASSUME DiskInv, port_follows
  PROVE  DiskInv'
  <1>1. /\ port' = [port EXCEPT !.cr = port.st, !.fr = port.fre]
        /\ UNCHANGED <<machine, data, stable, drive, pc, call, moved, slot, bounce, result, calls,
                       promised, faulted>>
    BY DEF port_follows, driverVars, historyVars
  <1>2. CallInv' /\ MachineType' /\ CallType' /\ (Ide' <=> Ide) /\ (Ahci' <=> Ahci)
    BY <1>1, DeviceKeepsCall
  <1>3. PortType' /\ port'.ci = port.ci /\ port'.tfes = port.tfes /\ port'.halted = port.halted
    BY <1>1 DEF DiskInv, Types, PortType
  <1>4. Types'
    BY <1>1, <1>2, <1>3 DEF DiskInv, Types, Contents, Drives, DriveType
  <1>5. AhciInv' /\ AhciCallInv'
    BY <1>1, <1>2, <1>3 DEF DiskInv, AhciInv, AhciCallInv, ended, Holds
  <1>6. IdeInv' /\ IdeReadInv'
    BY <1>1, <1>2 DEF DiskInv, IdeInv, IdeReadInv
  <1>7. IdeWriteInv'
    BY <1>1 DEF DiskInv, IdeWriteInv, Storing, Holds
  <1>8. ReadsReturnSectors' /\ WritesLast'
    BY <1>1, <1>2 DEF DiskInv, ReadsReturnSectors, WritesLast, Drives
  <1> QED
    BY <1>2, <1>4, <1>5, <1>6, <1>7, <1>8 DEF DiskInv

\* The command that ends is the one the driver waits for.
LEMMA EndsKeeps ==
  ASSUME DiskInv, controller_ends
  PROVE  DiskInv'
  <1>1. /\ Ahci /\ drive.state = "busy" /\ drive' = Idle /\ port' = [port EXCEPT !.ci = {}]
        /\ bounce' = (IF drive.op = "read"
                       THEN [k \in 1..drive.left |-> data[drive.at][drive.lba + k - 1]] ELSE bounce)
        /\ data' = (IF drive.op = "write"
                     THEN [data EXCEPT ![drive.at] = [s \in Sectors |->
                             IF s \in Span(drive.lba, drive.left) THEN bounce[s - drive.lba + 1]
                             ELSE @[s]]]
                     ELSE data)
        /\ stable' = (IF drive.op = "flush" THEN [stable EXCEPT ![drive.at] = data[drive.at]]
                      ELSE stable)
        /\ UNCHANGED <<machine, pc, call, moved, slot, result, calls, promised, faulted>>
    BY DEF controller_ends, historyVars
  <1>2. /\ pc \in AhciWaiting /\ call.drive \in Drives /\ drive.at = call.drive
        /\ drive.lba = call.lba /\ drive.left = call.n
        /\ drive.op = (IF pc = "ahci_wait" THEN call.op ELSE "flush")
        /\ call.lba \in Nat /\ call.n \in Nat
    <2>1. pc \in AhciWaiting /\ drive.at = call.drive /\ drive.lba = call.lba /\ drive.left = call.n
          /\ drive.op = (IF pc = "ahci_wait" THEN call.op ELSE "flush")
      BY <1>1 DEF DiskInv, AhciInv
    <2> QED
      BY <2>1 DEF DiskInv, CallInv, InCall, AhciWaiting, Types, CallType
  <1>3. CallInv' /\ MachineType' /\ CallType' /\ Ahci' /\ Drives' = Drives /\ Contents' = Contents
    BY <1>1, DeviceKeepsCall DEF Drives, Contents
  <1>4. DriveType' /\ drive'.state # "busy"
    BY <1>1 DEF DriveType, Idle, Content
  <1>5. PortType' /\ port'.ci = {} /\ port'.tfes = port.tfes /\ port'.halted = port.halted
    BY <1>1 DEF DiskInv, Types, PortType
  <1>6. ended'
    BY <1>5 DEF ended
  \* Only a write changes what a read finds, and only in its sectors.
  <1>7. ASSUME drive.op = "write"
        PROVE  /\ pc = "ahci_wait" /\ call.op = "write" /\ bounce = call.buf
               /\ call.buf \in [1..call.n -> Values]
               /\ data' \in Contents
               /\ \A d \in Drives, s \in Sectors :
                    data'[d][s] = IF d = call.drive /\ s \in Span(call.lba, call.n)
                                  THEN call.buf[s - call.lba + 1] ELSE data[d][s]
               /\ Holds(data', 1, call.n)
    <2>1. pc = "ahci_wait" /\ call.op = "write"
      BY <1>2, <1>7
    <2>2. bounce = call.buf /\ call.buf \in [1..call.n -> Values]
      BY <2>1 DEF DiskInv, AhciCallInv, CallInv, InCall
    <2>3. \A s \in Sectors : s \in Span(call.lba, call.n) => s - call.lba + 1 \in 1..call.n
      BY <1>2, Numbers DEF Span
    <2>4. \A s \in Sectors : s \in Span(call.lba, call.n) => call.buf[s - call.lba + 1] \in Content
      BY <2>2, <2>3 DEF Content
    <2>5. data' = [data EXCEPT ![call.drive] = [s \in Sectors |->
                     IF s \in Span(call.lba, call.n) THEN call.buf[s - call.lba + 1]
                     ELSE data[call.drive][s]]]
      BY <1>1, <1>2, <1>7, <2>2
    <2>6. data \in [Drives -> [Sectors -> Content]]
      BY DEF DiskInv, Types, Contents
    <2>7. data' \in [Drives -> [Sectors -> Content]]
      BY <1>2, <2>4, <2>5, <2>6
    <2>8. \A d \in Drives, s \in Sectors :
            data'[d][s] = IF d = call.drive /\ s \in Span(call.lba, call.n)
                          THEN call.buf[s - call.lba + 1] ELSE data[d][s]
      BY <1>2, <2>5, <2>6
    <2>9. \A k \in 1..call.n : /\ call.lba + k - 1 \in Span(call.lba, call.n)
                               /\ (call.lba + k - 1) - call.lba + 1 = k
      BY <1>2 DEF Span
    <2>10. Holds(data', 1, call.n)
      BY <1>2, <2>8, <2>9 DEF Holds
    <2> QED
      BY <2>1, <2>2, <2>7, <2>8, <2>10 DEF Contents
  <1>8. data' \in Contents /\ stable' \in Contents
    <2>1. data' \in Contents
      BY <1>1, <1>7 DEF DiskInv, Types
    <2>2. stable' \in Contents
      BY <1>1, <1>2 DEF DiskInv, Types, Contents
    <2> QED
      BY <2>1, <2>2
  <1>9. Types'
    BY <1>1, <1>3, <1>4, <1>5, <1>8 DEF DiskInv, Types
  <1>10. AhciInv'
    BY <1>1, <1>4, <1>5 DEF DiskInv, AhciInv
  <1>11. AhciCallInv'
    <2>1. pc = "ahci_wait" /\ call.op = "write" => bounce' = call.buf
      BY <1>1, <1>2 DEF DiskInv, AhciCallInv
    <2>2. pc = "ahci_wait" /\ call.op = "read" =>
            /\ Span(call.lba, call.n) \subseteq Sectors
            /\ bounce' = [k \in 1..call.n |-> data'[call.drive][call.lba + k - 1]]
      BY <1>1, <1>2 DEF controller_ends
    <2>3. pc = "ahci_wait" /\ call.op = "write" => Holds(data', 1, call.n)
      BY <1>2, <1>7
    <2>4. pc = "ahci_flushing" => data' = data /\ Holds(data, 1, call.n)
      BY <1>1, <1>2 DEF DiskInv, AhciCallInv
    <2>5. pc = "ahci_flushing" => Holds(stable', 1, call.n)
      <3>1. ASSUME pc = "ahci_flushing" PROVE stable'[call.drive] = data[call.drive]
        BY <1>1, <1>2, <3>1 DEF DiskInv, Types, Contents
      <3> QED
        BY <2>4, <3>1 DEF Holds
    <2> QED
      BY <1>1, <1>2, <2>1, <2>2, <2>3, <2>4, <2>5 DEF AhciCallInv, AhciWaiting, Holds
  <1>12. ReadsReturnSectors'
    BY <1>1, <1>2 DEF ReadsReturnSectors, AhciWaiting
  <1>13. WritesLast'
    <2> SUFFICES ASSUME NEW d \in Drives, NEW s \in Sectors, promised[d][s] # None
                 PROVE  stable'[d][s] = promised[d][s] /\ data'[d][s] = promised[d][s]
      BY <1>1, <1>3 DEF WritesLast
    <2>1. stable[d][s] = promised[d][s] /\ data[d][s] = promised[d][s]
      BY <1>1 DEF DiskInv, WritesLast
    <2>2. data'[d][s] = data[d][s]
      <3>1. CASE drive.op # "write"
        BY <1>1, <3>1
      <3>2. CASE drive.op = "write"
        <4>1. ~(d = call.drive /\ s \in Span(call.lba, call.n))
          BY <1>7, <3>2 DEF DiskInv, CallInv, InCall
        <4> QED
          BY <1>7, <3>2, <4>1
      <3> QED
        BY <3>1, <3>2
    <2>3. stable'[d][s] = stable[d][s] \/ stable'[d][s] = data[d][s]
      BY <1>1, <1>2 DEF DiskInv, Types, Contents
    <2> QED
      BY <2>1, <2>2, <2>3
  <1> QED
    BY <1>3, <1>9, <1>10, <1>11, <1>12, <1>13, OnlyAhci DEF DiskInv

------------------------------------------------------------------------------
(* The IDE driver.                                                         *)

LEMMA IdeInitializeKeeps ==
  ASSUME DiskInv, ide_initialize
  PROVE  DiskInv'
  <1>1. PICK i \in 0..3 :
          \/ /\ machine' = (IF i \in Drives THEN [machine EXCEPT !.ide_devices[i % 2] = i] ELSE machine)
             /\ pc' = After(i) /\ UNCHANGED faulted
          \/ /\ i \in Drives /\ pc' \in {After(i), "ide_identify"} /\ faulted' = TRUE
             /\ UNCHANGED machine
    <2>1. ProbeOf[pc] \in 0..3
      BY DEF ide_initialize, ProbeOf, Probing
    <2> QED
      BY <2>1 DEF ide_initialize
  <1>2. Ide /\ pc \in Probing
        /\ UNCHANGED <<data, stable, drive, port, call, moved, slot, bounce, result, calls, promised>>
    BY DEF ide_initialize, deviceVars
  <1>3. /\ MachineType' /\ Drives' = Drives /\ Ide' /\ ~Ahci'
    <2>1. i % 2 \in 0..3 /\ i \in 0..3
      <3>1. i \in Int /\ 2 \in Nat \ {0}
        OBVIOUS
      <3> QED
        BY <3>1, ModRange
    <2>2. CASE UNCHANGED machine
      BY <1>2, <2>2 DEF DiskInv, Types, MachineType, Drives, Ide, Ahci, Found
    <2>3. CASE i \in Drives /\ machine' = [machine EXCEPT !.ide_devices[i % 2] = i]
      BY <1>2, <2>1, <2>3 DEF DiskInv, Types, MachineType, Drives, Ide, Ahci, Found
    <2> QED
      BY <1>1, <2>2, <2>3
  <1>4. pc' \in Booting \cup {"idle"} /\ pc' \notin IdeWriting \cup AhciCalls \cup {"ide_read"}
    BY <1>1 DEF After, Booting, Probing, IdeWriting, AhciCalls, AhciWaiting
  <1>5. call = NoCall /\ drive.state # "busy"
    BY <1>2 DEF DiskInv, CallInv, Booting, IdeInv, Probing, IdeWriting
  <1>6. Types'
    <2>1. faulted' \in BOOLEAN
      BY <1>1, Zenon DEF DiskInv, Types
    <2>2. Contents' = Contents
      BY <1>3 DEF Contents
    <2>3. DriveType' /\ PortType' /\ CallType'
      BY <1>2 DEF DiskInv, Types, DriveType, PortType, CallType
    <2> QED
      BY <1>2, <1>3, <1>4, <2>1, <2>2, <2>3 DEF DiskInv, Types
  <1>7. CallInv' /\ IdeInv' /\ IdeReadInv' /\ IdeWriteInv'
    BY <1>2, <1>3, <1>4, <1>5 DEF CallInv, IdeInv, IdeReadInv, IdeWriteInv, InCall, IdeWriting,
       AhciCalls, AhciWaiting
  <1>8. ReadsReturnSectors'
    BY <1>2, <1>5 DEF ReadsReturnSectors, NoCall
  <1>9. WritesLast'
    BY <1>1, <1>2, <1>3 DEF DiskInv, WritesLast, Types
  <1> QED
    BY <1>3, <1>6, <1>7, <1>8, <1>9, OnlyIde DEF DiskInv

\* A call that begins.
LEMMA BeginsProps ==
  ASSUME DiskInv, NEW c, NEW where, Begins(c, where), c.op # "none",
         c \in [op : {"read", "write", "identify"}, drive : Nat, lba : Nat, buf : Seq(Values), n : Nat],
         c.drive \in Drives, c.n >= 1, c.op = "write" => c.buf \in [1..c.n -> Values],
         UNCHANGED <<machine, data, stable, faulted>>,
         where \in {"ide_read"} \cup IdeWriting => Ide, where \in AhciCalls => Ahci,
         where = "ide_read" => c.op = "read", where = "ide_write" => c.op = "write",
         where \in {"ide_read", "ide_write", "ahci_ready"}
  PROVE  /\ pc = "idle" /\ pc' = where /\ call' = c /\ moved' = <<>>
         /\ MachineType' /\ CallType' /\ CallInv' /\ promised' \in Contents /\ calls' \in Nat
         /\ (Ide' <=> Ide) /\ (Ahci' <=> Ahci) /\ Drives' = Drives /\ Contents' = Contents
         /\ ReadsReturnSectors' /\ WritesLast'
  <1>1. /\ pc = "idle" /\ pc' = where /\ call' = c /\ moved' = <<>> /\ calls' = calls + 1
        /\ promised' = IF c.op = "write"
                         THEN [promised EXCEPT ![c.drive] = [s \in Sectors |->
                                 IF s \in Span(c.lba, c.n) THEN None ELSE @[s]]]
                         ELSE promised
    BY DEF Begins
  <1>2. /\ promised' \in Contents
        /\ \A d \in Drives, s \in Sectors :
             promised'[d][s] = IF c.op = "write" /\ d = c.drive /\ s \in Span(c.lba, c.n) THEN None
                               ELSE promised[d][s]
    <2>1. promised \in [Drives -> [Sectors -> Content]] /\ None \in Content
      BY DEF DiskInv, Types, Contents, Content
    <2>2. CASE c.op = "write"
      <3>1. promised' = [promised EXCEPT ![c.drive] = [s \in Sectors |->
                          IF s \in Span(c.lba, c.n) THEN None ELSE promised[c.drive][s]]]
        BY <1>1, <2>2
      <3> QED
        BY <2>1, <2>2, <3>1 DEF Contents
    <2>3. CASE c.op # "write"
      BY <1>1, <2>1, <2>3 DEF Contents
    <2> QED
      BY <2>2, <2>3
  <1>3. /\ MachineType' /\ CallType' /\ (Ide' <=> Ide) /\ (Ahci' <=> Ahci)
        /\ Drives' = Drives /\ Contents' = Contents
    BY <1>1 DEF DiskInv, Types, MachineType, CallType, Ide, Ahci, Drives, Contents, Found
  <1>4. CallInv'
    BY <1>1, <1>2, <1>3 DEF CallInv, InCall, Booting, Probing, IdeWriting, AhciCalls, AhciWaiting
  <1>5. ReadsReturnSectors'
    BY <1>1 DEF ReadsReturnSectors
  <1>6. WritesLast'
    BY <1>2, <1>3 DEF DiskInv, WritesLast
  <1>7. calls' \in Nat
    BY <1>1 DEF DiskInv, Types
  <1> QED
    BY <1>1, <1>2, <1>3, <1>4, <1>5, <1>6, <1>7

\* The command register of an idle IDE channel takes the command.
LEMMA CommandedProps ==
  ASSUME DiskInv, drive.state # "busy", NEW op \in {"read", "write", "flush"}, NEW at \in Nat,
         NEW lba \in Nat, NEW n \in Nat, drive' = Commanded(op, at, lba, n)
  PROVE  /\ DriveType' /\ drive'.state = "busy" /\ drive'.op = op /\ drive'.at = at
         /\ drive'.lba = lba /\ drive'.left = n /\ drive'.word = None
  BY DEF Commanded, DriveType, Content

LEMMA IdeReadKeeps ==
  ASSUME DiskInv, ide_read_sectors
  PROVE  DiskInv'
  <1>1. PICK d \in 0..1, n \in Counts, lba \in Sectors :
          /\ Found(d)
          /\ Begins([op |-> "read", drive |-> machine.ide_devices[d], lba |-> lba, n |-> n,
                     buf |-> <<>>], "ide_read")
          /\ drive' = Commanded("read", machine.ide_devices[d], ide_address(lba), n)
    BY DEF ide_read_sectors
  <1>2. Ide /\ UNCHANGED <<machine, data, stable, port, slot, bounce, faulted>>
    BY DEF ide_read_sectors
  <1>3. PICK a \in Nat : a = machine.ide_devices[d] /\ a \in Drives
    BY <1>1 DEF DiskInv, Types, MachineType, Found
  <1>4. n \in Nat /\ n >= 1 /\ lba \in Nat
    BY Numbers DEF Counts
  <1>5. PICK c : c = [op |-> "read", drive |-> a, lba |-> lba, n |-> n, buf |-> <<>>]
    OBVIOUS
  <1>6. /\ c \in [op : {"read", "write", "identify"}, drive : Nat, lba : Nat, buf : Seq(Values), n : Nat]
        /\ c.op = "read" /\ c.drive = a /\ c.lba = lba /\ c.n = n
    BY <1>3, <1>4, <1>5
  <1>7. /\ pc = "idle" /\ pc' = "ide_read" /\ call' = c /\ moved' = <<>>
        /\ MachineType' /\ CallType' /\ CallInv' /\ promised' \in Contents /\ calls' \in Nat
        /\ (Ide' <=> Ide) /\ Contents' = Contents
        /\ ReadsReturnSectors' /\ WritesLast'
    <2>1. Begins(c, "ide_read")
      BY <1>1, <1>3, <1>5
    <2> QED
      BY <1>2, <1>3, <1>4, <1>6, <2>1, BeginsProps DEF AhciCalls, AhciWaiting, IdeWriting
  <1>8. /\ DriveType' /\ drive'.state = "busy" /\ drive'.op = "read" /\ drive'.at = a
        /\ drive'.lba = ide_address(lba) /\ drive'.left = n
    <2>1. drive.state # "busy"
      BY <1>2, <1>7 DEF DiskInv, IdeInv, IdeWriting
    <2>2. ide_address(lba) \in Nat
      <3>1. lba \in Int /\ LBA24 \in Nat \ {0}
        BY <1>4, Numbers
      <3>2. lba % LBA24 \in Nat
        BY <3>1, ModRange
      <3> QED
        BY <1>4, <3>2 DEF ide_address
    <2> QED
      BY <1>1, <1>3, <1>4, <2>1, <2>2, CommandedProps
  <1>9. Types'
    BY <1>2, <1>7, <1>8 DEF DiskInv, Types, PortType
  <1>10. IdeInv' /\ IdeReadInv' /\ IdeWriteInv'
    <2>1. lba < LBA28 => ide_address(lba) = lba
      BY <1>4, Numbers DEF ide_address
    <2> QED
      BY <1>4, <1>6, <1>7, <1>8, <2>1 DEF IdeInv, IdeReadInv, IdeWriteInv, IdeWriting
  <1> QED
    BY <1>2, <1>7, <1>9, <1>10, OnlyIde DEF DiskInv

LEMMA IdeWriteKeeps ==
  ASSUME DiskInv, ide_write_sectors
  PROVE  DiskInv'
  <1>1. PICK d \in 0..1, n \in Counts, lba \in Sectors : \E buf \in Buffers(n) :
          /\ Found(d)
          /\ Begins([op |-> "write", drive |-> machine.ide_devices[d], lba |-> lba, n |-> n,
                     buf |-> buf], "ide_write")
          /\ drive' = Commanded("write", machine.ide_devices[d], lba, n)
    BY DEF ide_write_sectors
  <1>0. PICK buf \in Buffers(n) :
          /\ Found(d)
          /\ Begins([op |-> "write", drive |-> machine.ide_devices[d], lba |-> lba, n |-> n,
                     buf |-> buf], "ide_write")
          /\ drive' = Commanded("write", machine.ide_devices[d], lba, n)
    BY <1>1
  <1>2. Ide /\ UNCHANGED <<machine, data, stable, port, slot, bounce, faulted>>
    BY DEF ide_write_sectors
  <1>3. PICK a \in Nat : a = machine.ide_devices[d] /\ a \in Drives
    BY <1>0 DEF DiskInv, Types, MachineType, Found
  <1>4. n \in Nat /\ n >= 1 /\ lba \in Nat /\ buf \in [1..n -> Values] /\ buf \in Seq(Values)
    <2>1. n \in Nat /\ n >= 1 /\ lba \in Nat /\ buf \in [1..n -> Values]
      BY Numbers DEF Counts, Buffers
    <2> QED
      BY <2>1, FunctionIsSeq
  <1>5. PICK c : c = [op |-> "write", drive |-> a, lba |-> lba, n |-> n, buf |-> buf]
    OBVIOUS
  <1>6. /\ c \in [op : {"read", "write", "identify"}, drive : Nat, lba : Nat, buf : Seq(Values), n : Nat]
        /\ c.op = "write" /\ c.drive = a /\ c.lba = lba /\ c.n = n /\ c.buf = buf
    BY <1>3, <1>4, <1>5
  <1>7. /\ pc = "idle" /\ pc' = "ide_write" /\ call' = c /\ moved' = <<>>
        /\ MachineType' /\ CallType' /\ CallInv' /\ promised' \in Contents /\ calls' \in Nat
        /\ (Ide' <=> Ide) /\ Contents' = Contents
        /\ ReadsReturnSectors' /\ WritesLast'
    <2>1. Begins(c, "ide_write")
      BY <1>0, <1>3, <1>5
    <2> QED
      BY <1>2, <1>3, <1>4, <1>6, <2>1, BeginsProps DEF AhciCalls, AhciWaiting, IdeWriting
  <1>8. /\ DriveType' /\ drive'.state = "busy" /\ drive'.op = "write" /\ drive'.at = a
        /\ drive'.lba = lba /\ drive'.left = n /\ drive'.word = None
    <2>1. drive.state # "busy"
      BY <1>2, <1>7 DEF DiskInv, IdeInv, IdeWriting
    <2> QED
      BY <1>0, <1>3, <1>4, <2>1, CommandedProps
  <1>9. Types'
    <2>1. moved' \in Seq(Content)
      BY <1>7
    <2>2. PortType'
      BY <1>2 DEF DiskInv, Types, PortType
    <2> QED
      BY <1>2, <1>7, <1>8, <2>1, <2>2 DEF DiskInv, Types, IdeWriting
  <1>10. IdeInv' /\ IdeReadInv' /\ IdeWriteInv'
    <2>1. Len(moved') = 0
      BY <1>7
    <2> QED
      BY <1>4, <1>6, <1>7, <1>8, <2>1 DEF IdeInv, IdeReadInv, IdeWriteInv, IdeWriting, Holds
  <1> QED
    BY <1>2, <1>7, <1>9, <1>10, OnlyIde DEF DiskInv

\* A call that returns: what it promises if it wrote, and delivers if it read.
LEMMA ReturnsProps ==
  ASSUME DiskInv, InCall, NEW r \in Nat, Returns(r), UNCHANGED <<machine, data, stable, call, faulted>>,
         r = 0 /\ call.op = "write" =>
           /\ Ahci => Holds(stable, 1, call.n)
           /\ Ahci \/ ~faulted => Holds(data, 1, call.n),
         r = 0 /\ call.op = "read" /\ (Ide => call.lba < LBA28) =>
           moved' = [k \in 1..call.n |-> data[call.drive][call.lba + k - 1]]
  PROVE  /\ pc' = "idle" /\ slot' = None
         /\ MachineType' /\ CallType' /\ CallInv' /\ promised' \in Contents /\ Contents' = Contents
         /\ (Ide' <=> Ide) /\ (Ahci' <=> Ahci) /\ Drives' = Drives
         /\ ReadsReturnSectors' /\ WritesLast'
  <1>1. /\ pc' = "idle" /\ slot' = None /\ result' = r
        /\ promised' = (IF r = 0 /\ call.op = "write"
                         THEN [promised EXCEPT ![call.drive] = [s \in Sectors |->
                                IF s \in Span(call.lba, call.n) THEN call.buf[s - call.lba + 1]
                                ELSE @[s]]]
                         ELSE promised)
    BY DEF Returns
  <1>2. call.drive \in Drives /\ call.n \in Nat /\ call.lba \in Nat
    BY DEF DiskInv, CallInv, Types, CallType
  <1>3. /\ promised' \in Contents
        /\ \A d \in Drives, s \in Sectors :
             promised'[d][s] = IF r = 0 /\ call.op = "write" /\ d = call.drive /\ s \in Span(call.lba, call.n)
                               THEN call.buf[s - call.lba + 1] ELSE promised[d][s]
    <2>1. promised \in [Drives -> [Sectors -> Content]]
      BY DEF DiskInv, Types, Contents
    <2>2. CASE r = 0 /\ call.op = "write"
      <3>1. call.buf \in [1..call.n -> Values]
        BY <2>2 DEF DiskInv, CallInv
      <3>2. \A s \in Sectors : s \in Span(call.lba, call.n) => s - call.lba + 1 \in 1..call.n
        BY <1>2, Numbers DEF Span
      <3>3. \A s \in Sectors : s \in Span(call.lba, call.n) => call.buf[s - call.lba + 1] \in Content
        BY <3>1, <3>2 DEF Content
      <3>4. promised' = [promised EXCEPT ![call.drive] = [s \in Sectors |->
                          IF s \in Span(call.lba, call.n) THEN call.buf[s - call.lba + 1]
                          ELSE promised[call.drive][s]]]
        BY <1>1, <2>2
      <3>5. promised' \in [Drives -> [Sectors -> Content]]
        BY <1>2, <2>1, <3>3, <3>4
      <3> QED
        BY <1>2, <2>1, <2>2, <3>4, <3>5 DEF Contents
    <2>3. CASE ~(r = 0 /\ call.op = "write")
      BY <1>1, <2>1, <2>3 DEF Contents
    <2> QED
      BY <2>2, <2>3
  <1>4. /\ MachineType' /\ CallType' /\ (Ide' <=> Ide) /\ (Ahci' <=> Ahci)
        /\ Drives' = Drives /\ Contents' = Contents
    BY DEF DiskInv, Types, MachineType, CallType, Ide, Ahci, Drives, Contents, Found
  <1>5. CallInv'
    BY <1>1 DEF CallInv, InCall, Booting, Probing, IdeWriting, AhciCalls, AhciWaiting
  <1>6. ReadsReturnSectors'
    BY <1>1, <1>4 DEF ReadsReturnSectors
  <1>7. WritesLast'
    <2> SUFFICES ASSUME NEW d \in Drives, NEW s \in Sectors, promised'[d][s] # None
                 PROVE  /\ Ahci => stable[d][s] = promised'[d][s]
                        /\ Ahci \/ ~faulted => data[d][s] = promised'[d][s]
      BY <1>4 DEF WritesLast
    <2>1. CASE r = 0 /\ call.op = "write" /\ d = call.drive /\ s \in Span(call.lba, call.n)
      <3>1. promised'[d][s] = call.buf[s - call.lba + 1]
        BY <1>3, <2>1
      <3>2. PICK k \in 1..call.n : k = s - call.lba + 1 /\ call.lba + k - 1 = s
        BY <1>2, <2>1, Numbers DEF Span
      <3> QED
        BY <2>1, <3>1, <3>2 DEF Holds
    <2>2. CASE ~(r = 0 /\ call.op = "write" /\ d = call.drive /\ s \in Span(call.lba, call.n))
      BY <1>3, <2>2 DEF DiskInv, WritesLast
    <2> QED
      BY <2>1, <2>2
  <1> QED
    BY <1>1, <1>3, <1>4, <1>5, <1>6, <1>7

\* A call that returns leaves nothing for the driver to do.
LEMMA ReturnedIde ==
  ASSUME Ide', drive'.state # "busy", pc' = "idle"
  PROVE  IdeInv' /\ IdeReadInv' /\ IdeWriteInv'
  BY DEF IdeInv, IdeReadInv, IdeWriteInv, IdeWriting

LEMMA IdeReadSectorKeeps ==
  ASSUME DiskInv, ide_read_sector
  PROVE  DiskInv'
  <1>1. /\ pc = "ide_read" /\ drive.state # "busy"
        /\ UNCHANGED <<machine, data, stable, port, call, calls, faulted>>
    BY DEF ide_read_sector
  <1>2. /\ Ide /\ InCall /\ call.op = "read" /\ call.drive \in Drives /\ call.n \in Nat /\ call.n >= 1
        /\ call.lba \in Nat /\ moved \in Seq(Content) /\ Len(moved) \in Nat /\ Len(moved) < call.n
    BY <1>1 DEF DiskInv, CallInv, InCall, IdeInv, Types, CallType
  <1>3. ide_polling_code \in 0..3
    BY DEF ide_polling_code
  <1>4. CASE ide_polling_code # 0
    <2>1. Returns(ide_polling_code) /\ UNCHANGED <<moved, drive>>
      BY <1>4 DEF ide_read_sector
    <2>2. PICK r \in Nat : r = ide_polling_code /\ r # 0
      BY <1>3, <1>4
    <2>3. /\ pc' = "idle" /\ slot' = None
          /\ MachineType' /\ CallType' /\ CallInv' /\ promised' \in Contents /\ Contents' = Contents
          /\ (Ide' <=> Ide) /\ ReadsReturnSectors' /\ WritesLast'
      BY <1>1, <1>2, <2>1, <2>2, ReturnsProps
    <2>4. Types'
      BY <1>1, <2>1, <2>3 DEF DiskInv, Types, DriveType, PortType
    <2>5. IdeInv' /\ IdeReadInv' /\ IdeWriteInv'
      BY <1>1, <1>2, <2>1, <2>3, ReturnedIde
    <2> QED
      BY <1>2, <2>3, <2>4, <2>5, OnlyIde DEF DiskInv
  <1>5. CASE ide_polling_code = 0
    <2>1. drive.state = "drq"
      BY <1>5 DEF ide_polling_code
    <2>2. /\ moved' = Append(moved, drive.word)
          /\ drive' = (IF drive.left <= 1 THEN Idle
                       ELSE [drive EXCEPT !.state = "busy", !.lba = @ + 1, !.left = @ - 1, !.word = None])
          /\ IF Len(moved') = call.n THEN Returns(0)
             ELSE UNCHANGED <<pc, slot, bounce, result, promised>>
      BY <1>5 DEF ide_read_sector
    <2>3. /\ drive.op = "read" /\ drive.at = call.drive /\ drive.left = call.n - Len(moved)
          /\ drive.word = data[call.drive][drive.lba] /\ drive.word \in Content
          /\ call.lba < LBA28 => drive.lba = call.lba + Len(moved)
          /\ call.lba < LBA28 => \A k \in 1..Len(moved) : moved[k] = data[call.drive][call.lba + k - 1]
      BY <1>1, <2>1 DEF DiskInv, IdeReadInv, Types, DriveType
    <2>4. PICK w \in Content : w = drive.word
      BY <2>3
    <2>5. /\ moved' \in Seq(Content) /\ Len(moved') = Len(moved) + 1
          /\ \A k \in 1..Len(moved) : moved'[k] = moved[k]
          /\ moved'[Len(moved) + 1] = w
      BY <1>2, <2>2, <2>4, AppendProperties
    <2>6. ASSUME call.lba < LBA28, NEW k \in 1..Len(moved')
          PROVE  moved'[k] = data[call.drive][call.lba + k - 1]
      <3>1. CASE k = Len(moved) + 1
        <4>1. call.lba + k - 1 = drive.lba
          BY <1>2, <2>3, <2>6, <3>1
        <4> QED
          BY <2>3, <2>4, <2>5, <3>1, <4>1
      <3>2. CASE k # Len(moved) + 1
        BY <1>2, <2>3, <2>5, <2>6, <3>2
      <3> QED
        BY <3>1, <3>2
    <2>7. CASE Len(moved') = call.n
      <3>1. Returns(0) /\ drive' = Idle
        BY <1>2, <2>2, <2>3, <2>5, <2>7
      <3>2. call.lba < LBA28 => moved' = [k \in 1..call.n |-> data[call.drive][call.lba + k - 1]]
        <4>1. moved' = [k \in 1..Len(moved') |-> moved'[k]]
          BY <2>5, LenProperties
        <4> QED
          BY <2>6, <2>7, <4>1
      <3>3. /\ pc' = "idle" /\ slot' = None
            /\ MachineType' /\ CallType' /\ CallInv' /\ promised' \in Contents /\ Contents' = Contents
            /\ (Ide' <=> Ide) /\ ReadsReturnSectors' /\ WritesLast'
        BY <1>1, <1>2, <3>1, <3>2, ReturnsProps
      <3>4. DriveType' /\ drive'.state # "busy"
        BY <3>1 DEF DriveType, Idle, Content
      <3>5. Types'
        BY <1>1, <2>5, <3>3, <3>4 DEF DiskInv, Types, PortType
      <3>6. IdeInv' /\ IdeReadInv' /\ IdeWriteInv'
        BY <1>2, <3>3, <3>4, ReturnedIde
      <3> QED
        BY <1>2, <3>3, <3>5, <3>6, OnlyIde DEF DiskInv
    <2>8. CASE Len(moved') # call.n
      <3>1. /\ UNCHANGED <<pc, slot, bounce, result, promised>>
            /\ drive' = [drive EXCEPT !.state = "busy", !.lba = @ + 1, !.left = @ - 1, !.word = None]
        BY <1>2, <2>2, <2>3, <2>5, <2>8
      <3>2. /\ drive'.state = "busy" /\ drive'.op = "read" /\ drive'.at = call.drive
            /\ drive'.lba = drive.lba + 1 /\ drive'.left = drive.left - 1
        BY <2>3, <3>1 DEF DiskInv, Types, DriveType
      <3>3. DriveType'
        <4>1. None \in Content
          BY DEF Content
        <4>2. drive.lba + 1 \in Nat /\ drive.left - 1 \in Int
          BY DEF DiskInv, Types, DriveType
        <4> QED
          BY <3>1, <4>1, <4>2 DEF DiskInv, Types, DriveType
      <3>4. CallInv' /\ MachineType' /\ CallType' /\ Ide'
        BY <1>1, <1>2, <3>1, DeviceKeepsCall
      <3>5. Types'
        BY <1>1, <2>5, <3>1, <3>3, <3>4 DEF DiskInv, Types, PortType, Contents, Drives
      <3>6. IdeReadInv'
        <4>1. call.lba < LBA28 =>
                \A k \in 1..Len(moved') : moved'[k] = data[call.drive][call.lba + k - 1]
          BY <2>6
        <4>2. drive'.left = call.n - Len(moved')
          BY <1>2, <2>3, <2>5, <3>2
        <4>3. call.lba < LBA28 => drive'.lba = call.lba + Len(moved')
          BY <1>2, <2>3, <2>5, <3>2
        <4> QED
          BY <1>1, <3>2, <4>1, <4>2, <4>3 DEF IdeReadInv
      <3>7. IdeInv' /\ IdeWriteInv'
        BY <1>1, <1>2, <2>5, <2>8, <3>1 DEF IdeInv, IdeWriteInv, IdeWriting
      <3>8. ReadsReturnSectors' /\ WritesLast'
        BY <1>1, <3>1 DEF DiskInv, ReadsReturnSectors, WritesLast, Ide, Ahci, Drives
      <3> QED
        BY <3>4, <3>5, <3>6, <3>7, <3>8, OnlyIde DEF DiskInv
    <2> QED
      BY <2>7, <2>8
  <1> QED
    BY <1>4, <1>5

LEMMA IdeWriteSectorKeeps ==
  ASSUME DiskInv, ide_write_sector
  PROVE  DiskInv'
  <1> DEFINE m == Len(moved)
             w == call.buf[m + 1]
  <1>1. /\ pc = "ide_write" /\ drive.state # "busy"
        /\ drive' = (IF drive.state = "drq" THEN [drive EXCEPT !.state = "busy", !.word = w] ELSE drive)
        /\ moved' = Append(moved, w)
        /\ pc' = (IF Len(moved') = call.n THEN "ide_flush" ELSE pc)
        /\ UNCHANGED <<machine, data, stable, port, call, slot, bounce, result, calls, promised, faulted>>
    BY DEF ide_write_sector, unchecked, historyVars
  <1>2. /\ Ide /\ InCall /\ call.op = "write" /\ call.drive \in Drives /\ call.n \in Nat
        /\ call.lba \in Nat /\ moved \in Seq(Content) /\ m \in Nat /\ m < call.n
        /\ call.buf \in [1..call.n -> Values]
    BY <1>1 DEF DiskInv, CallInv, InCall, IdeInv, IdeWriting, Types, CallType
  <1>3. m + 1 \in 1..call.n
    BY <1>2
  <1>4. w \in Values /\ w \in Content /\ w # None
    BY <1>2, <1>3, Numbers DEF Content
  <1>5. moved' \in Seq(Content) /\ Len(moved') = m + 1
    BY <1>1, <1>2, <1>4, AppendProperties
  <1>6. pc' = "ide_write" \/ (pc' = "ide_flush" /\ m + 1 = call.n)
    BY <1>1, <1>5
  <1>7. /\ DriveType' /\ drive'.op = drive.op /\ drive'.at = drive.at /\ drive'.lba = drive.lba
        /\ drive'.left = drive.left
        /\ drive.state = "drq" => drive'.state = "busy" /\ drive'.word = w
        /\ drive.state # "drq" => drive' = drive
    BY <1>1, <1>4 DEF DiskInv, Types, DriveType
  <1> HIDE DEF w
  <1>8. CallInv' /\ MachineType' /\ CallType' /\ Ide'
    BY <1>1, <1>2, <1>6 DEF DiskInv, CallInv, Ide, Ahci, InCall, Drives, Types, MachineType, CallType,
       Found, IdeWriting, AhciCalls, AhciWaiting, Booting, Probing
  <1>9. Types'
    <2>1. pc' \in IdeWriting
      BY <1>6 DEF IdeWriting
    <2> QED
      BY <1>1, <1>5, <1>7, <1>8, <2>1 DEF DiskInv, Types, PortType, Contents, Drives
  <1>10. IdeInv' /\ IdeReadInv'
    BY <1>1, <1>2, <1>5, <1>6, <1>7 DEF DiskInv, IdeInv, IdeReadInv, IdeWriting
  <1>11. IdeWriteInv'
    <2>1. ASSUME ~faulted PROVE Storing'
      <3>1. /\ drive.state = "drq" /\ drive.op = "write" /\ drive.lba = call.lba + m
            /\ drive.left = call.n - m /\ Holds(data, 1, m)
        BY <1>1, <2>1 DEF DiskInv, IdeWriteInv, Storing
      <3>2. drive'.state = "busy" /\ drive'.op = "write" /\ drive'.word = w
        BY <1>7, <3>1
      <3>3. /\ drive'.lba = call.lba + Len(moved') - 1 /\ drive'.left = call.n - Len(moved') + 1
            /\ Len(moved') >= 1 /\ Len(moved') - 1 = m
        BY <1>2, <1>5, <1>7, <3>1
      <3>4. Holds(data, 1, Len(moved) - 1)'
        BY <1>1, <3>1, <3>3 DEF Holds
      <3>5. w = call.buf[Len(moved')]
        BY <1>5 DEF w
      <3> QED
        BY <1>1, <1>4, <3>2, <3>3, <3>4, <3>5 DEF Storing
    <2> QED
      BY <1>1, <1>5, <1>6, <2>1 DEF IdeWriteInv
  <1>12. ReadsReturnSectors' /\ WritesLast'
    BY <1>1, <1>6 DEF DiskInv, ReadsReturnSectors, WritesLast, Ide, Ahci, Drives
  <1> QED
    BY <1>8, <1>9, <1>10, <1>11, <1>12, OnlyIde DEF DiskInv

\* The flush may be lost on a busy drive, which then still ends the write.
LEMMA IdeFlushKeeps ==
  ASSUME DiskInv, ide_flush
  PROVE  DiskInv'
  <1>1. /\ pc = "ide_flush" /\ pc' = "ide_flushing" /\ drive' = Commanded("flush", call.drive, 0, 0)
        /\ UNCHANGED <<machine, data, stable, port, call, moved, slot, bounce, result, calls, promised,
                       faulted>>
    BY DEF ide_flush, historyVars
  <1>2. Ide /\ call.op = "write" /\ call.drive \in Drives /\ call.drive \in Nat
    BY <1>1 DEF DiskInv, CallInv, InCall, IdeWriting, Types, CallType
  <1>3. CASE drive.state = "busy"
    <2>1. drive' = drive
      BY <1>1, <1>3 DEF Commanded
    <2>2. CallInv' /\ MachineType' /\ CallType' /\ Ide'
      BY <1>1, <1>2 DEF DiskInv, CallInv, Ide, Ahci, InCall, Drives, Types, MachineType, CallType,
         Found, IdeWriting, AhciCalls, AhciWaiting, Booting, Probing
    <2>3. Types'
      BY <1>1, <2>1, <2>2 DEF DiskInv, Types, PortType, Contents, Drives, DriveType, IdeWriting
    <2>4. IdeInv' /\ IdeReadInv'
      BY <1>1, <2>1 DEF DiskInv, IdeInv, IdeReadInv, IdeWriting
    <2>5. IdeWriteInv'
      BY <1>1, <2>1 DEF DiskInv, IdeWriteInv, Storing, Holds
    <2>6. ReadsReturnSectors' /\ WritesLast'
      BY <1>1 DEF DiskInv, ReadsReturnSectors, WritesLast, Ide, Ahci, Drives
    <2> QED
      BY <2>2, <2>3, <2>4, <2>5, <2>6, OnlyIde DEF DiskInv
  <1>4. CASE drive.state # "busy"
    <2>1. DriveType' /\ drive'.state = "busy" /\ drive'.op = "flush" /\ drive'.at = call.drive
      BY <1>1, <1>2, <1>4, CommandedProps
    <2>2. CallInv' /\ MachineType' /\ CallType' /\ Ide'
      BY <1>1, <1>2 DEF DiskInv, CallInv, Ide, Ahci, InCall, Drives, Types, MachineType, CallType,
         Found, IdeWriting, AhciCalls, AhciWaiting, Booting, Probing
    <2>3. Types'
      BY <1>1, <2>1, <2>2 DEF DiskInv, Types, PortType, Contents, Drives, IdeWriting
    <2>4. IdeInv' /\ IdeReadInv'
      BY <1>1, <2>1 DEF DiskInv, IdeInv, IdeReadInv, IdeWriting
    <2>5. IdeWriteInv'
      BY <1>1, <1>4, <2>1 DEF DiskInv, IdeWriteInv, Storing, Holds
    <2>6. ReadsReturnSectors' /\ WritesLast'
      BY <1>1 DEF DiskInv, ReadsReturnSectors, WritesLast, Ide, Ahci, Drives
    <2> QED
      BY <2>2, <2>3, <2>4, <2>5, <2>6, OnlyIde DEF DiskInv
  <1> QED
    BY <1>3, <1>4

LEMMA IdeFlushedKeeps ==
  ASSUME DiskInv, ide_flushed
  PROVE  DiskInv'
  <1>1. /\ pc = "ide_flushing" /\ drive.state # "busy" /\ Returns(0)
        /\ UNCHANGED <<machine, data, stable, drive, port, call, moved, calls, faulted>>
    BY DEF ide_flushed, unchecked, deviceVars
  <1>2. Ide /\ ~Ahci /\ InCall /\ call.op = "write"
    BY <1>1 DEF DiskInv, CallInv, InCall, IdeWriting, Ide, Ahci
  <1>3. ~faulted => Holds(data, 1, call.n)
    BY <1>1 DEF DiskInv, IdeWriteInv, Storing
  <1>4. /\ pc' = "idle" /\ slot' = None
        /\ MachineType' /\ CallType' /\ CallInv' /\ promised' \in Contents /\ Contents' = Contents
        /\ (Ide' <=> Ide) /\ ReadsReturnSectors' /\ WritesLast'
    BY <1>1, <1>2, <1>3, ReturnsProps
  <1>5. Types'
    BY <1>1, <1>4 DEF DiskInv, Types, DriveType, PortType
  <1>6. IdeInv' /\ IdeReadInv' /\ IdeWriteInv'
    BY <1>1, <1>2, <1>4, ReturnedIde
  <1> QED
    BY <1>2, <1>4, <1>5, <1>6, OnlyIde DEF DiskInv

------------------------------------------------------------------------------
(* The AHCI driver.                                                        *)

\* configure_port sets a port up and leaves the drives alone.
LEMMA ConfigureKeeps ==
  ASSUME DiskInv, configure_port
  PROVE  DiskInv'
  <1>1. UNCHANGED <<machine, data, stable, drive, call, moved, slot, bounce, result, calls, promised,
                    faulted>>
    BY DEF configure_port, historyVars
  <1>2. /\ pc \in {"stop_cmd", "wait_cr", "wait_fr"} /\ pc' \in {"wait_cr", "wait_fr", "idle"}
        /\ port' \in {[port EXCEPT !.st = FALSE], [port EXCEPT !.fre = FALSE],
                      [port EXCEPT !.fre = TRUE, !.st = TRUE]}
    BY DEF configure_port
  <1>3. PortType' /\ port'.ci = port.ci /\ port'.tfes = port.tfes /\ port'.halted = port.halted
    BY <1>2 DEF DiskInv, Types, PortType
  <1>4. call = NoCall
    BY <1>2 DEF DiskInv, CallInv, Booting
  <1>5. (Ide' <=> Ide) /\ (Ahci' <=> Ahci) /\ MachineType' /\ CallType' /\ Contents' = Contents
    BY <1>1 DEF DiskInv, Types, MachineType, CallType, Ide, Ahci, Drives, Contents, Found
  <1>6. CallInv'
    BY <1>1, <1>2, <1>4 DEF CallInv, InCall, Booting, Probing, IdeWriting, AhciCalls, AhciWaiting
  <1>7. Types'
    BY <1>1, <1>2, <1>3, <1>5 DEF DiskInv, Types, DriveType, Booting
  <1>8. IdeInv' /\ IdeReadInv' /\ IdeWriteInv'
    BY <1>1, <1>2, <1>5 DEF DiskInv, IdeInv, IdeReadInv, IdeWriteInv, IdeWriting
  <1>9. AhciInv' /\ AhciCallInv'
    BY <1>1, <1>2, <1>3, <1>5 DEF DiskInv, AhciInv, AhciCallInv, AhciWaiting
  <1>10. ReadsReturnSectors' /\ WritesLast'
    BY <1>1, <1>4, <1>5 DEF DiskInv, ReadsReturnSectors, WritesLast, NoCall, Drives
  <1> QED
    BY <1>6, <1>7, <1>8, <1>9, <1>10 DEF DiskInv

LEMMA PreparesKeeps ==
  ASSUME DiskInv, NEW op \in {"read", "write", "identify"}, NEW lba \in Nat, NEW n \in Nat, n >= 1,
         NEW buf \in Seq(Values), op = "write" => buf \in [1..n -> Values], Prepares(op, lba, n, buf)
  PROVE  DiskInv'
  <1>1. /\ Ahci /\ bounce' = (IF op = "write" THEN buf ELSE None) /\ Free # {} /\ slot' = Min(Free)
        /\ port' = [port EXCEPT !.tfes = FALSE]
        /\ UNCHANGED <<machine, data, stable, drive, faulted>>
    BY DEF Prepares
  <1>2. PICK d \in Drives : Begins([op |-> op, drive |-> d, lba |-> lba, n |-> n, buf |-> buf],
                                   "ahci_ready")
    BY DEF Prepares
  <1>3. d \in Nat
    BY DEF DiskInv, Types, MachineType, Drives
  <1>4. PICK c : c = [op |-> op, drive |-> d, lba |-> lba, n |-> n, buf |-> buf]
    OBVIOUS
  <1>5. /\ c \in [op : {"read", "write", "identify"}, drive : Nat, lba : Nat, buf : Seq(Values), n : Nat]
        /\ c.op = op /\ c.drive = d /\ c.lba = lba /\ c.n = n /\ c.buf = buf
    BY <1>3, <1>4
  <1>6. /\ pc = "idle" /\ pc' = "ahci_ready" /\ call' = c /\ moved' = <<>>
        /\ MachineType' /\ CallType' /\ CallInv' /\ promised' \in Contents /\ calls' \in Nat
        /\ (Ahci' <=> Ahci) /\ Contents' = Contents
        /\ ReadsReturnSectors' /\ WritesLast'
    <2>1. Begins(c, "ahci_ready")
      BY <1>2, <1>4
    <2> QED
      BY <1>1, <1>5, <2>1, BeginsProps DEF AhciCalls, AhciWaiting, IdeWriting
  <1>7. PortType' /\ port'.ci = port.ci /\ ~port'.tfes /\ port'.halted = port.halted
    BY <1>1 DEF DiskInv, Types, PortType
  <1>8. slot' \in Slots
    <2>1. Free \subseteq Nat /\ Free # {} /\ Free \subseteq Slots
      BY <1>1, Numbers DEF Free
    <2> QED
      BY <1>1, <2>1, MinProps
  <1>9. Types'
    <2>1. moved' \in Seq(Content)
      BY <1>6
    <2> QED
      BY <1>1, <1>6, <1>7, <1>8, <2>1 DEF DiskInv, Types, DriveType, AhciCalls
  <1>10. AhciInv'
    BY <1>1, <1>6, <1>7 DEF DiskInv, AhciInv, AhciWaiting
  <1>11. AhciCallInv'
    BY <1>1, <1>5, <1>6 DEF AhciCallInv
  <1> QED
    BY <1>1, <1>6, <1>9, <1>10, <1>11, OnlyAhci DEF DiskInv

LEMMA AhciBeginsKeeps ==
  ASSUME DiskInv, ahci_read \/ ahci_write \/ ahci_identify
  PROVE  DiskInv'
  <1>1. ASSUME ahci_read PROVE DiskInv'
    <2>1. PICK n \in Counts, lba \in Sectors : Prepares("read", lba, n, <<>>)
      BY <1>1 DEF ahci_read
    <2>2. n \in Nat /\ n >= 1 /\ lba \in Nat /\ <<>> \in Seq(Values)
      BY Numbers DEF Counts
    <2> QED
      BY <2>1, <2>2, PreparesKeeps
  <1>2. ASSUME ahci_write PROVE DiskInv'
    <2>1. PICK n \in Counts, lba \in Sectors :
            \E buf \in Buffers(n) : Prepares("write", lba, n, buf)
      BY <1>2 DEF ahci_write
    <2>2. PICK buf \in Buffers(n) : Prepares("write", lba, n, buf)
      BY <2>1
    <2>3. n \in Nat /\ n >= 1 /\ lba \in Nat /\ buf \in [1..n -> Values]
      BY Numbers DEF Counts, Buffers
    <2>4. buf \in Seq(Values)
      BY <2>3, FunctionIsSeq
    <2> QED
      BY <2>2, <2>3, <2>4, PreparesKeeps
  <1>3. ASSUME ahci_identify PROVE DiskInv'
    <2>1. <<>> \in Seq(Values) /\ 1 \in Nat /\ 1 >= 1 /\ 0 \in Nat
      OBVIOUS
    <2> QED
      BY <1>3, <2>1, PreparesKeeps DEF ahci_identify
  <1> QED
    BY <1>1, <1>2, <1>3

\* The command goes to a slot of its own, and if the port is halted it stays there.
LEMMA IssuedKeeps ==
  ASSUME DiskInv, ahci_issue \/ ahci_flush
  PROVE  DiskInv'
  <1>1. PICK op \in {"read", "write", "identify", "flush", "none"},
             where \in {"ahci_wait", "ahci_flushing"} :
          /\ drive.state \notin {"busy", "drq"} /\ pc' = where
          /\ port' = [port EXCEPT !.ci = @ \cup {slot}]
          /\ drive' = [drive EXCEPT !.op = op, !.at = call.drive, !.lba = call.lba, !.left = call.n]
          /\ \/ pc = "ahci_ready" /\ where = "ahci_wait" /\ op = call.op
             \/ pc = "ahci_flush" /\ where = "ahci_flushing" /\ op = "flush"
    BY DEF DiskInv, Types, CallType, ahci_issue, ahci_flush, flush_command, Issued
  <1>2. UNCHANGED <<machine, data, stable, call, moved, slot, bounce, result, calls, promised, faulted>>
    BY DEF ahci_issue, ahci_flush, Issued, historyVars
  <1>3. call.drive \in Nat /\ call.lba \in Nat /\ call.n \in Nat /\ slot \in Slots \cup {None}
    BY DEF DiskInv, Types, CallType
  <1>4. /\ DriveType' /\ drive'.state = drive.state /\ drive'.op = op /\ drive'.at = call.drive
        /\ drive'.lba = call.lba /\ drive'.left = call.n
    <2>1. call.n \in Int
      BY <1>3
    <2> QED
      BY <1>1, <1>3, <2>1 DEF DiskInv, Types, DriveType
  <1>5. /\ PortType' /\ port'.ci = port.ci \cup {slot} /\ port'.tfes = port.tfes
        /\ port'.halted = port.halted
    BY <1>1, <1>3 DEF DiskInv, Types, PortType
  <1>6. Ahci /\ Ahci' /\ MachineType' /\ CallType' /\ Contents' = Contents
    BY <1>1, <1>2 DEF DiskInv, CallInv, AhciCalls, Types, MachineType, CallType, Ahci, Drives, Contents,
       Found
  <1>7. CallInv'
    BY <1>1, <1>2, <1>6 DEF DiskInv, CallInv, InCall, Booting, Probing, IdeWriting, AhciCalls,
       AhciWaiting, Drives
  <1>8. Types'
    BY <1>1, <1>2, <1>4, <1>5, <1>6 DEF DiskInv, Types, AhciCalls, AhciWaiting
  <1>9. AhciInv'
    BY <1>1, <1>2, <1>4, <1>5, <1>6 DEF DiskInv, AhciInv, AhciWaiting
  <1>10. AhciCallInv'
    <2>1. ~ended'
      BY <1>2, <1>5 DEF ended
    <2> QED
      BY <1>1, <1>2, <2>1 DEF DiskInv, AhciCallInv, Holds
  <1>11. ReadsReturnSectors' /\ WritesLast'
    BY <1>1, <1>2 DEF DiskInv, ReadsReturnSectors, WritesLast, Ide, Ahci, Drives
  <1> QED
    BY <1>6, <1>7, <1>8, <1>9, <1>10, <1>11, OnlyAhci DEF DiskInv

\* The driver leaves with an error only a halted port, and with success only an empty one.
LEMMA AhciWaitKeeps ==
  ASSUME DiskInv, ahci_wait
  PROVE  DiskInv'
  <1>1. pc \in AhciWaiting
        /\ UNCHANGED <<machine, data, stable, drive, port, call, calls, faulted>>
    BY DEF ahci_wait, deviceVars, AhciWaiting
  <1>2. /\ Ahci /\ ~Ide /\ InCall /\ call.drive \in Drives /\ call.n \in Nat /\ call.lba \in Nat
        /\ moved \in Seq(Content)
    BY <1>1 DEF DiskInv, CallInv, InCall, AhciCalls, AhciWaiting, Ide, Ahci, Types, CallType
  <1>3. ended => port.ci = {}
    BY <1>1, <1>2 DEF DiskInv, AhciInv, ended
  <1>4. errs => port.halted
    BY <1>2 DEF DiskInv, AhciInv, errs, sees_error
  <1>5. drive.state = "busy" => port.ci # {} /\ ~port.halted
    BY <1>2 DEF DiskInv, AhciInv
  <1>6. ASSUME NEW r \in {0, 1}, Returns(r), moved' \in Seq(Content), errs \/ ended,
               r = 0 /\ call.op = "write" => Holds(stable, 1, call.n) /\ Holds(data, 1, call.n),
               r = 0 /\ call.op = "read" =>
                 moved' = [k \in 1..call.n |-> data[call.drive][call.lba + k - 1]]
        PROVE  DiskInv'
    <2>1. /\ pc' = "idle" /\ slot' = None
          /\ MachineType' /\ CallType' /\ CallInv' /\ promised' \in Contents /\ Contents' = Contents
          /\ (Ahci' <=> Ahci) /\ ReadsReturnSectors' /\ WritesLast'
      BY <1>1, <1>2, <1>6, ReturnsProps
    <2>2. Types'
      BY <1>1, <1>6, <2>1 DEF DiskInv, Types, DriveType, PortType
    <2>3. AhciInv'
      BY <1>1, <1>2, <1>3, <1>4, <1>5, <1>6, <2>1 DEF DiskInv, AhciInv, AhciWaiting
    <2>4. AhciCallInv'
      BY <2>1 DEF AhciCallInv
    <2> QED
      BY <1>2, <2>1, <2>2, <2>3, <2>4, OnlyAhci DEF DiskInv
  <1>7. CASE errs /\ Returns(1) /\ UNCHANGED moved
    BY <1>2, <1>6, <1>7
  <1>8. CASE ended /\ pc = "ahci_wait" /\ call.op = "write"
    <2>1. pc' = "ahci_flush" /\ UNCHANGED <<moved, slot, bounce, result, promised>>
      BY <1>8 DEF ahci_wait, errs
    <2>2. (Ahci' <=> Ahci) /\ MachineType' /\ CallType' /\ Contents' = Contents
      BY <1>1 DEF DiskInv, Types, MachineType, CallType, Ahci, Drives, Contents, Found
    <2>3. CallInv'
      BY <1>1, <1>2, <1>8, <2>1, <2>2 DEF DiskInv, CallInv, InCall, Booting, Probing, IdeWriting,
         AhciCalls, AhciWaiting, Drives
    <2>4. Types'
      BY <1>1, <2>1, <2>2 DEF DiskInv, Types, DriveType, PortType, AhciCalls
    <2>5. AhciInv'
      BY <1>1, <1>2, <1>3, <1>5, <1>8, <2>1, <2>2 DEF DiskInv, AhciInv, AhciWaiting
    <2>6. AhciCallInv'
      BY <1>1, <1>8, <2>1 DEF DiskInv, AhciCallInv, Holds
    <2>7. ReadsReturnSectors' /\ WritesLast'
      BY <1>1, <2>1 DEF DiskInv, ReadsReturnSectors, WritesLast, Ide, Ahci, Drives
    <2> QED
      BY <1>2, <2>2, <2>3, <2>4, <2>5, <2>6, <2>7, OnlyAhci DEF DiskInv
  <1>9. CASE ended /\ ~(pc = "ahci_wait" /\ call.op = "write")
    <2>1. Returns(0) /\ moved' = (IF call.op = "read" THEN bounce ELSE moved)
      BY <1>9 DEF ahci_wait, errs
    <2>2. ASSUME call.op = "write" PROVE Holds(stable, 1, call.n) /\ Holds(data, 1, call.n)
      BY <1>1, <1>9, <2>2 DEF DiskInv, AhciCallInv, AhciWaiting
    <2>3. ASSUME call.op = "read"
          PROVE  /\ moved' \in Seq(Content)
                 /\ moved' = [k \in 1..call.n |-> data[call.drive][call.lba + k - 1]]
      <3>1. pc = "ahci_wait"
        BY <1>1, <2>3 DEF DiskInv, CallInv, AhciWaiting
      <3>2. /\ Span(call.lba, call.n) \subseteq Sectors
            /\ moved' = [k \in 1..call.n |-> data[call.drive][call.lba + k - 1]]
        BY <1>9, <2>1, <2>3, <3>1 DEF DiskInv, AhciCallInv
      <3>3. \A k \in 1..call.n : call.lba + k - 1 \in Sectors
        BY <1>2, <3>2 DEF Span
      <3>4. data \in [Drives -> [Sectors -> Content]]
        BY DEF DiskInv, Types, Contents
      <3>5. [k \in 1..call.n |-> data[call.drive][call.lba + k - 1]] \in [1..call.n -> Content]
        BY <1>2, <3>3, <3>4
      <3> QED
        BY <1>2, <3>2, <3>5, FunctionIsSeq
    <2> QED
      BY <1>2, <1>6, <1>9, <2>1, <2>2, <2>3
  <1> QED
    BY <1>7, <1>8, <1>9 DEF ahci_wait

------------------------------------------------------------------------------
(* The theorems.                                                           *)

LEMMA InitDisk == Init => DiskInv
  <1> SUFFICES ASSUME Init PROVE DiskInv
    OBVIOUS
  <1>1. PICK k \in Configurations :
          machine = [controller |-> k.controller, present |-> k.present,
                     ide_devices |-> [i \in 0..3 |-> None]]
    BY DEF Init
  <1>2. PICK on \in BOOLEAN : port = [Stopped EXCEPT !.st = on, !.cr = on, !.fre = on, !.fr = on]
    BY DEF Init
  <1>3. /\ data = [d \in Drives |-> [s \in Sectors |-> <<d, s>>]] /\ stable = data /\ drive = Idle
        /\ pc = (IF Ide THEN "probe0" ELSE "stop_cmd")
        /\ call = NoCall /\ moved = <<>> /\ slot = None /\ calls = 0
        /\ promised = [d \in Drives |-> [s \in Sectors |-> None]] /\ faulted = FALSE
    BY DEF Init
  <1>4. MachineType
    BY <1>1, DiskAssumption DEF MachineType, Found, Drives
  <1>5. PortType /\ port.ci = {} /\ ~port.tfes
    BY <1>2 DEF PortType, Stopped
  <1>6. DriveType /\ drive.state = "ready" /\ CallType
    BY <1>3 DEF DriveType, CallType, Idle, NoCall, Content
  <1>7. data \in Contents /\ promised \in Contents
    <2>1. \A d \in Drives, s \in Sectors : <<d, s>> \in Content /\ None \in Content
      BY <1>4 DEF MachineType, Drives, Content
    <2> QED
      BY <1>3, <2>1 DEF Contents
  <1>8. pc \in Booting /\ pc \notin IdeWriting \cup AhciCalls \cup {"idle", "ide_read"}
    BY <1>3 DEF Booting, Probing, IdeWriting, AhciCalls, AhciWaiting
  <1>9. Types
    <2>1. moved \in Seq(Content)
      BY <1>3
    <2> QED
      BY <1>3, <1>4, <1>5, <1>6, <1>7, <1>8, <2>1 DEF Types
  <1>10. CallInv /\ IdeInv /\ IdeReadInv /\ IdeWriteInv
    BY <1>3, <1>6, <1>8 DEF CallInv, IdeInv, IdeReadInv, IdeWriteInv, InCall, IdeWriting, AhciCalls,
       AhciWaiting
  <1>11. AhciInv /\ AhciCallInv
    BY <1>5, <1>6, <1>8 DEF AhciInv, AhciCallInv, AhciCalls, AhciWaiting
  <1>12. ReadsReturnSectors /\ WritesLast
    BY <1>3, <1>8 DEF ReadsReturnSectors, WritesLast
  <1> QED
    BY <1>9, <1>10, <1>11, <1>12 DEF DiskInv

LEMMA DiskStutters ==
  ASSUME DiskInv, UNCHANGED vars
  PROVE  DiskInv'
  <1>1. UNCHANGED <<machine, data, stable, drive, port, pc, call, moved, slot, bounce, result, calls,
                    promised, faulted>>
    BY DEF vars, deviceVars, driverVars, historyVars
  <1>2. CallInv' /\ MachineType' /\ CallType' /\ (Ide' <=> Ide) /\ (Ahci' <=> Ahci)
    BY <1>1, DeviceKeepsCall
  <1>3. Types'
    BY <1>1, <1>2 DEF DiskInv, Types, Contents, Drives, DriveType, PortType
  <1>4. AhciInv' /\ AhciCallInv'
    BY <1>1, <1>2 DEF DiskInv, AhciInv, AhciCallInv, ended, Holds
  <1>5. IdeInv' /\ IdeReadInv'
    BY <1>1, <1>2 DEF DiskInv, IdeInv, IdeReadInv
  <1>6. IdeWriteInv'
    BY <1>1 DEF DiskInv, IdeWriteInv, Storing, Holds
  <1>7. ReadsReturnSectors' /\ WritesLast'
    BY <1>1, <1>2 DEF DiskInv, ReadsReturnSectors, WritesLast, Drives
  <1> QED
    BY <1>2, <1>3, <1>4, <1>5, <1>6, <1>7 DEF DiskInv

\* Every step of a driver, a drive, a caller or the power keeps the invariant.
LEMMA DiskStep ==
  ASSUME DiskInv, [Next]_vars
  PROVE  DiskInv'
  <1>1. CASE device
    BY <1>1, DriveEndsKeeps, TakesKeeps, EndsKeeps, PortFollowsKeeps DEF device
  <1>2. CASE drive_fails
    BY <1>2, DriveFailsKeeps
  <1>3. CASE power_fails
    BY <1>3, PowerFailsKeeps
  <1>4. CASE driver
    BY <1>4, IdeInitializeKeeps, IdeReadSectorKeeps, IdeWriteSectorKeeps, IdeFlushKeeps,
       IdeFlushedKeeps, ConfigureKeeps, IssuedKeeps, AhciWaitKeeps DEF driver
  <1>5. CASE caller
    BY <1>5, IdeReadKeeps, IdeWriteKeeps, AhciBeginsKeeps DEF caller
  <1>6. CASE UNCHANGED vars
    BY <1>6, DiskStutters
  <1> QED
    BY <1>1, <1>2, <1>3, <1>4, <1>5, <1>6 DEF Next

\* The inductive invariant, along every behaviour.
LEMMA DiskInvHolds == Spec => []DiskInv
  BY InitDisk, DiskStep, PTL DEF Spec

\* A read that reports success has delivered the sectors asked for: ide_read_sectors below
\* 2^28, and ahci_read, after any history of failed commands and power failures.
THEOREM ReadsReturnSectorsHolds == Spec => []ReadsReturnSectors
  <1>1. DiskInv => ReadsReturnSectors
    BY DEF DiskInv
  <1> QED
    BY <1>1, DiskInvHolds, PTL

\* What ahci_write reports as written is on the medium whenever the power fails afterwards;
\* what ide_write_sectors reports can be read back until a drive fails or the power does.
THEOREM WritesLastHolds == Spec => []WritesLast
  <1>1. DiskInv => WritesLast
    BY DEF DiskInv
  <1> QED
    BY <1>1, DiskInvHolds, PTL
==============================================================================
