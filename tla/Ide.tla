--------------------------------- MODULE Ide ---------------------------------
(***************************************************************************)
(* The IDE controller with one ATA drive (io/ide/ide.cc), its bus-master   *)
(* DMA, and the device behind it with its lock and its deblocking buffer   *)
(* (idedevice.cc, ata.cc).  All of it runs in the thread of the CPU; a DMA *)
(* transfer is a loop inside one register access, and is modelled by one   *)
(* step for each turn of that loop.                                        *)
(*                                                                         *)
(* A sector has SectorSize units; unit u of sector s is the number         *)
(* s * SectorSize + u.  The address registers hold a logical address of    *)
(* Heads * HeadSize sectors, its top digit in the head register.           *)
(*                                                                         *)
(* The guest is a driver that issues a command only when the one before is *)
(* finished or given up; the order of the start bit and the DMA command,   *)
(* the table of physical regions and the masking of interrupts are free.   *)
(***************************************************************************)
EXTENDS Integers, Sequences

CONSTANTS
    SectorSize,     \* units of a sector: 512 bytes
    HeadSize,       \* sectors addressed by cylinder and sector number: 2^24
    Heads,          \* values of the head register: 16
    CountMod,       \* the sector count is kept modulo this: 2^8
    RegionMod,      \* the size of a region is kept modulo this: 2^16
    Addresses,      \* the logical addresses the guest uses
    Counts,         \* the sector counts it writes
    Tables          \* its tables of regions: sequences of sizes

ASSUME IdeAssumption ==
    /\ {SectorSize, HeadSize, Heads, CountMod, RegionMod} \subseteq Nat \ {0}
    /\ Addresses \subseteq 0 .. (Heads * HeadSize - 1)
    /\ Counts \subseteq 0 .. (CountMod - 1)
    /\ Tables \subseteq Seq(0 .. RegionMod - 1)
    /\ <<>> \notin Tables

VARIABLES
    head, addr,     \* state.head; state.cyl and state.sector_no
    driveHead,      \* drive_head
    count,          \* state.sector_count
    command,        \* state.current_command
    mode,           \* state.mode
    sectorpos,      \* state.sectorpos
    sector,         \* state.sector: the sector read last, or the units written
    drq,            \* state.status & IDE_STATUS_DRQ
    start, toMem,   \* BMIDECR0: START and WRITE
    bmInt,          \* BMIDESR0 & INTERRUPT
    blocked, intr,  \* MRDMODE: BLK_CH0 and INTR_CH0
    nIEN,           \* state.outreg & IDE_OUTPUT_INT
    irq,            \* the level interrupt in the PIC
    acquired,       \* device->mAcquired
    exited,         \* acquire has ended the process
    filepos,        \* the device's file position, in sectors
    first, mSector, \* device->mSectorFirst, device->mSector
    dma,            \* bm_ide_dotransfer: [table, left, transfer], or NoDma
    issued, first_lba, wanted, moved, written, failed, leaked, muted   \* history, see below

(***************************************************************************)
(* History: whether a command was issued since the task file was written,  *)
(* its address and number of sectors, the units moved to or from the       *)
(* guest, the blocks that reached the disk, whether the last transfer      *)
(* failed, whether one has failed at its first region, and whether nIEN    *)
(* suppressed the last interrupt.                                          *)
(***************************************************************************)
history == <<issued, first_lba, wanted, moved, written, failed, leaked, muted>>
taskfile == <<head, addr, driveHead, count, command, mode, sectorpos, sector, drq>>
busmaster == <<start, toMem, bmInt, dma>>
lines == <<blocked, intr, nIEN, irq>>
device == <<acquired, exited, filepos, first, mSector>>
vars == <<taskfile, busmaster, lines, device, history>>

NoDma == [table |-> <<>>, left |-> 0, transfer |-> 0]
Units == 0 .. (SectorSize * (Heads * HeadSize + CountMod))

IdeTypeOK ==
    /\ head \in 0 .. Heads - 1 /\ driveHead \in 0 .. Heads - 1
    /\ addr \in 0 .. HeadSize - 1
    /\ count \in 0 .. CountMod - 1
    /\ command \in {"none", "read", "write", "readDMA", "writeDMA", "flush"}
    /\ mode \in {"none", "read", "write", "dma"}
    /\ sectorpos \in 0 .. SectorSize - 1
    /\ sector \in Seq(Units) /\ mSector \in Seq(Units)
    /\ {drq, start, toMem, bmInt, blocked, intr, nIEN, irq, acquired, exited, issued,
        failed, leaked, muted}
         \subseteq BOOLEAN
    /\ filepos \in Nat
    /\ first \in 0 .. SectorSize
    /\ dma \in [table : Seq(0 .. RegionMod - 1), left : Nat, transfer : Nat]
    /\ first_lba \in Nat /\ wanted \in 0 .. CountMod
    /\ moved \in Seq(Units)
    /\ written \in Seq([at : Nat, units : Seq(Units)])

-----------------------------------------------------------------------------
makeLogical(h, a) == h * HeadSize + a

Block(s) == [u \in 1 .. SectorSize |-> s * SectorSize + u - 1]
Region(size) == IF size = 0 THEN RegionMod ELSE size
lesser(a, b) == IF a < b THEN a ELSE b

\* incAddress, in LBA mode
incAddress ==
    LET cur == makeLogical(head, addr) + 1 IN
      /\ count' = (count - 1) % CountMod
      /\ head' = (cur \div HeadSize) % Heads
      /\ addr' = cur % HeadSize

raiseInterrupt ==
    /\ irq' = (irq \/ (~nIEN /\ ~blocked))
    /\ intr' = TRUE
    /\ muted' = nIEN

cancelInterrupt ==
    /\ irq' = FALSE
    /\ intr' = FALSE

\* the device is free; if it is not, reacquire is what happens
acquire ==
    /\ ~acquired
    /\ acquired' = TRUE
    /\ first' = 0
    /\ UNCHANGED exited

\* acquire, seek, readBlock or writeBlock, release: the device is free again
useDevice(s) ==
    /\ ~acquired
    /\ first' = 0
    /\ filepos' = s + 1
    /\ UNCHANGED <<acquired, exited, mSector>>

-----------------------------------------------------------------------------
\* bm_ide_dotransfer is running: the CPU is inside it
Running == dma # NoDma

\* the CPU runs the guest
Idle == ~exited /\ ~Running

\* the guest writes the task file, once it is done with the last command
Select(a, n) ==
    /\ Idle /\ mode = "none" /\ ~start
    /\ head' = a \div HeadSize /\ driveHead' = a \div HeadSize /\ addr' = a % HeadSize
    /\ count' = n
    /\ issued' = FALSE
    /\ first_lba' = a
    /\ wanted' = IF n = 0 THEN CountMod ELSE n
    /\ moved' = <<>> /\ written' = <<>> /\ failed' = FALSE
    /\ UNCHANGED <<command, mode, sectorpos, sector, drq, busmaster, lines, device, leaked, muted>>

\* the guest may issue the command the task file was written for
Fresh == Idle /\ ~issued

readSector ==
    /\ Fresh /\ mode = "none"
    /\ issued' = TRUE
    /\ command' = "read"
    /\ mode' = "read"
    /\ sectorpos' = 0
    /\ drq' = TRUE
    /\ sector' = Block(makeLogical(head, addr))
    /\ useDevice(makeLogical(head, addr))
    /\ raiseInterrupt
    /\ UNCHANGED <<head, addr, driveHead, count, busmaster, blocked, nIEN, first_lba, wanted,
                   moved, written, failed, leaked>>

writeSector ==
    /\ Fresh /\ mode = "none"
    /\ issued' = TRUE
    /\ command' = "write"
    /\ mode' = "write"
    /\ sectorpos' = 0
    /\ drq' = TRUE
    /\ sector' = <<>>
    /\ UNCHANGED <<head, addr, driveHead, count, busmaster, lines, device, first_lba, wanted,
                   moved, written, failed, leaked, muted>>

\* a read of the data register
readData ==
    /\ Idle /\ command = "read" /\ drq
    /\ moved' = Append(moved, sector[sectorpos + 1])
    /\ sectorpos' = (sectorpos + 1) % SectorSize
    /\ IF sectorpos + 1 < SectorSize
       THEN UNCHANGED <<head, addr, count, mode, drq, sector, command, lines, device, muted>>
       ELSE /\ incAddress
            /\ IF count' # 0
               THEN LET pos == makeLogical(driveHead, addr') IN
                      /\ sector' = Block(pos)
                      /\ useDevice(pos)
                      /\ raiseInterrupt
                      /\ UNCHANGED <<mode, drq, command, blocked, nIEN>>
               ELSE /\ mode' = "none" /\ drq' = FALSE
                    /\ UNCHANGED <<sector, command, lines, device, muted>>
    /\ UNCHANGED <<driveHead, busmaster, issued, first_lba, wanted, written, failed, leaked>>

\* a write to the data register: the guest writes the units of the sectors in turn
writeData ==
    /\ Idle /\ command = "write" /\ mode = "write"
    /\ LET unit == first_lba * SectorSize + Len(written) * SectorSize + sectorpos
           pos == makeLogical(head, addr) IN
         IF sectorpos + 1 < SectorSize
         THEN /\ sector' = Append(sector, unit)
              /\ UNCHANGED <<head, addr, count, mode, drq, lines, device, written, muted>>
         ELSE /\ incAddress
              /\ useDevice(pos)
              /\ written' = Append(written, [at |-> pos, units |-> Append(sector, unit)])
              /\ sector' = <<>>
              /\ mode' = IF count' # 0 THEN "write" ELSE "none"
              /\ drq' = (count' # 0)
              /\ raiseInterrupt
              /\ UNCHANGED <<blocked, nIEN>>
    /\ sectorpos' = (sectorpos + 1) % SectorSize
    /\ UNCHANGED <<driveHead, command, busmaster, issued, first_lba, wanted, moved, failed,
                   leaked>>

-----------------------------------------------------------------------------
\* bmide_start_dma: the transfer needs both, the start bit and the command.
\* If the first region cannot be read, bm_ide_dotransfer returns at once, and
\* does not release the device.
bmide_start_dma(table) ==
    IF mode = "none"
    THEN mode' = "dma" /\ UNCHANGED <<dma, failed, leaked>>
    ELSE /\ mode' = "none"
         /\ \/ /\ dma' = [table |-> table, left |-> Region(Head(table)), transfer |-> SectorSize]
               /\ UNCHANGED <<failed, leaked>>
            \/ /\ failed' = TRUE /\ leaked' = TRUE
               /\ UNCHANGED dma

\* a DMA command; the device stays acquired until the transfer is over
commandDMA(read, table) ==
    /\ Fresh /\ (start => toMem = read)
    /\ issued' = TRUE
    /\ command' = IF read THEN "readDMA" ELSE "writeDMA"
    /\ drq' = FALSE
    /\ acquire
    /\ filepos' = makeLogical(head, addr)
    /\ bmide_start_dma(table)
    /\ UNCHANGED <<head, addr, driveHead, count, sectorpos, sector, start, toMem, bmInt, lines,
                   mSector, first_lba, wanted, moved, written, muted>>

\* the start bit, before the command or after it
startDMA(read, table) ==
    /\ Idle /\ ~start
    /\ IF issued THEN mode = "dma" /\ command = (IF read THEN "readDMA" ELSE "writeDMA")
                 ELSE wanted # 0 /\ mode = "none"
    /\ start' = TRUE
    /\ toMem' = read
    /\ bmide_start_dma(table)
    /\ UNCHANGED <<head, addr, driveHead, count, command, sectorpos, sector, drq, bmInt, lines,
                   device, issued, first_lba, wanted, moved, written, muted>>

stopDMA ==
    /\ Idle /\ start /\ issued /\ mode = "none"
    /\ start' = FALSE
    /\ cancelInterrupt
    /\ UNCHANGED <<taskfile, toMem, bmInt, dma, blocked, nIEN, device, history>>

-----------------------------------------------------------------------------
\* what the deblocking buffer still holds, or still has room for
part(n) == IF first # 0 /\ first < SectorSize THEN lesser(SectorSize - first, n) ELSE 0

\* faulty variant: the rest of the last sector is not used up
MutDeviceRead(n) ==
    LET p == part(n)
        rest == n - p IN
      /\ moved' = moved \o SubSeq(mSector, first + 1, first + p) \o SubSeq(Block(filepos), 1, rest)
      /\ filepos' = IF rest > 0 THEN filepos + 1 ELSE filepos
      /\ mSector' = IF rest > 0 /\ rest < SectorSize THEN Block(filepos) ELSE mSector
      /\ first' = IF rest > 0 /\ rest < SectorSize THEN rest ELSE first
      /\ UNCHANGED written

\* IDEDevice::read of n units, at most a sector
deviceRead(n) ==
    LET p == part(n)
        rest == n - p IN
      /\ moved' = moved \o SubSeq(mSector, first + 1, first + p) \o SubSeq(Block(filepos), 1, rest)
      /\ filepos' = IF rest > 0 THEN filepos + 1 ELSE filepos
      /\ mSector' = IF rest > 0 /\ rest < SectorSize THEN Block(filepos) ELSE mSector
      /\ first' = IF rest > 0 /\ rest < SectorSize THEN rest ELSE first + p
      /\ UNCHANGED written

\* faulty variant: a sector is written without the part that was kept
MutDeviceWrite(n) ==
    LET units == [i \in 1 .. n |-> first_lba * SectorSize + Len(moved) + i - 1] IN
      /\ moved' = moved \o units
      /\ written' = written \o <<[at |-> filepos, units |-> units]>>
      /\ filepos' = filepos + 1
      /\ UNCHANGED <<mSector, first>>

\* IDEDevice::write of n units, at most a sector
deviceWrite(n) ==
    LET p == part(n)
        rest == n - p
        units == [i \in 1 .. n |-> first_lba * SectorSize + Len(moved) + i - 1]
        kept == SubSeq(mSector, 1, first) \o SubSeq(units, 1, p)
        tail == SubSeq(units, p + 1, n)
        block == CASE p > 0 /\ first + p >= SectorSize -> <<[at |-> filepos, units |-> kept]>>
                   [] rest = SectorSize -> <<[at |-> filepos, units |-> tail]>>
                   [] OTHER -> <<>> IN
      /\ moved' = moved \o units
      /\ written' = written \o block
      /\ filepos' = filepos + Len(block)
      /\ mSector' = IF rest > 0 /\ rest < SectorSize THEN tail ELSE IF p > 0 THEN kept ELSE mSector
      /\ first' = IF rest > 0 /\ rest < SectorSize THEN rest ELSE first + p

\* faulty variant: only a transfer that succeeds releases the device
MutFinish(ok) ==
    /\ dma' = NoDma
    /\ acquired' = (acquired /\ ~ok)
    /\ failed' = ~ok
    /\ IF ok THEN bmInt' = TRUE /\ raiseInterrupt
             ELSE UNCHANGED <<bmInt, irq, intr, muted>>

\* the transfer ends, and the device is released
Finish(ok) ==
    /\ dma' = NoDma
    /\ acquired' = FALSE
    /\ failed' = ~ok
    /\ IF ok THEN bmInt' = TRUE /\ raiseInterrupt
             ELSE UNCHANGED <<bmInt, irq, intr, muted>>

\* faulty variant: at the end of the table the loop only looks at the sector
MutTransfer ==
    /\ Running
    /\ LET n == lesser(dma.transfer, dma.left)
           left == dma.left - n
           transfer == dma.transfer - n IN
         /\ IF toMem THEN deviceRead(n) ELSE deviceWrite(n)
         /\ dma' = IF left = 0 /\ Len(dma.table) = 1 /\ transfer = 0 THEN NoDma
                   ELSE [dma EXCEPT !.left = left, !.transfer = transfer]
    /\ UNCHANGED <<taskfile, start, toMem, bmInt, lines, acquired, exited, issued, first_lba,
                   wanted, failed, leaked, muted>>

\* one turn of the loop of bm_ide_dotransfer
Transfer ==
    /\ Running
    /\ LET n == lesser(dma.transfer, dma.left)
           left == dma.left - n
           transfer == dma.transfer - n
           over == left = 0 /\ Len(dma.table) = 1 IN
         /\ IF toMem THEN deviceRead(n) ELSE deviceWrite(n)
         /\ \/ /\ \/ over /\ (transfer # 0 \/ count > 1)
                  \/ left = 0 /\ ~over          \* the next region cannot be read
               /\ Finish(FALSE)
               /\ UNCHANGED <<head, addr, count>>
            \/ /\ ~(over /\ (transfer # 0 \/ count > 1))
               /\ IF transfer = 0 THEN incAddress ELSE UNCHANGED <<head, addr, count>>
               /\ IF transfer = 0 /\ count' = 0
                  THEN Finish(TRUE)
                  ELSE LET table == IF left = 0 /\ ~over THEN Tail(dma.table) ELSE dma.table IN
                         /\ dma' = [table |-> table,
                                    left |-> IF left = 0 /\ ~over THEN Region(Head(table)) ELSE left,
                                    transfer |-> IF transfer = 0 THEN SectorSize ELSE transfer]
                         /\ UNCHANGED <<bmInt, irq, intr, muted, acquired, failed>>
    /\ UNCHANGED <<driveHead, command, mode, sectorpos, sector, drq, start, toMem, blocked, nIEN,
                   exited, issued, first_lba, wanted, leaked>>

-----------------------------------------------------------------------------
flush ==
    /\ Fresh /\ mode = "none" /\ ~start
    /\ issued' = TRUE
    /\ wanted' = 0
    /\ command' = "flush"
    /\ ~acquired
    /\ first' = 0
    /\ raiseInterrupt
    /\ UNCHANGED <<head, addr, driveHead, count, mode, sectorpos, sector, drq, busmaster, blocked,
                   nIEN, acquired, exited, filepos, mSector, first_lba, moved, written, failed,
                   leaked>>

\* acquire finds the device acquired and ends the process: in a command, or at
\* the end of a sector that was written
reacquire ==
    /\ Idle /\ acquired
    /\ issued => mode = "write" /\ sectorpos + 1 = SectorSize
    /\ exited' = TRUE
    /\ UNCHANGED <<taskfile, busmaster, lines, acquired, filepos, first, mSector, history>>

\* nothing runs any more
ended == exited /\ UNCHANGED vars

readStatus ==
    /\ Idle /\ intr
    /\ cancelInterrupt
    /\ UNCHANGED <<taskfile, busmaster, blocked, nIEN, device, history>>

writeBMStatus ==
    /\ Idle /\ bmInt
    /\ bmInt' = FALSE
    /\ cancelInterrupt
    /\ UNCHANGED <<taskfile, start, toMem, dma, blocked, nIEN, device, history>>

\* faulty variant: an interrupt that was blocked is forgotten
MutWriteMRDMODE(b) ==
    /\ Idle /\ blocked # b
    /\ blocked' = b
    /\ UNCHANGED <<taskfile, busmaster, irq, intr, nIEN, device, history>>

\* MRDMODE: an interrupt that is no longer blocked is signalled
writeMRDMODE(b) ==
    /\ Idle /\ blocked # b
    /\ blocked' = b
    /\ IF ~b /\ intr
       THEN irq' = (irq \/ ~nIEN) /\ muted' = nIEN
       ELSE UNCHANGED <<irq, muted>>
    /\ UNCHANGED <<taskfile, busmaster, intr, nIEN, device, issued, first_lba, wanted, moved,
                   written, failed, leaked>>

writeOutput(b) ==
    /\ Idle /\ nIEN # b
    /\ nIEN' = b
    /\ UNCHANGED <<taskfile, busmaster, blocked, intr, irq, device, history>>

Init ==
    /\ head = 0 /\ addr = 0 /\ driveHead = 0 /\ count = 0
    /\ command = "none" /\ mode = "none" /\ sectorpos = 0 /\ sector = <<>> /\ drq = FALSE
    /\ start = FALSE /\ toMem = FALSE /\ bmInt = FALSE /\ dma = NoDma
    /\ blocked = FALSE /\ intr = FALSE /\ nIEN = FALSE /\ irq = FALSE
    /\ acquired = FALSE /\ exited = FALSE
    /\ filepos = 0 /\ first = 0 /\ mSector = <<>>
    /\ issued = TRUE /\ first_lba = 0 /\ wanted = 0
    /\ moved = <<>> /\ written = <<>> /\ failed = FALSE /\ leaked = FALSE /\ muted = FALSE

Next ==
    \/ \E a \in Addresses, n \in Counts : Select(a, n)
    \/ readSector \/ writeSector \/ readData \/ writeData \/ flush
    \/ \E read \in BOOLEAN, t \in Tables : commandDMA(read, t)
    \/ \E read \in BOOLEAN, t \in Tables : startDMA(read, t)
    \/ stopDMA \/ Transfer \/ reacquire \/ ended
    \/ readStatus \/ writeBMStatus
    \/ \E b \in BOOLEAN : writeMRDMODE(b)
    \/ \E b \in BOOLEAN : writeOutput(b)

\* The loop of bm_ide_dotransfer is code the CPU's thread runs to its end.
Spec == Init /\ [][Next]_vars /\ WF_vars(Transfer)

-----------------------------------------------------------------------------
(***************************************************************************)
(* A driver that finishes its commands meets the exit of                   *)
(* IDEDevice::acquire in one case only: after a transfer whose first       *)
(* region could not be read.  No other failure, and neither order of the   *)
(* start bit and the DMA command, leads there.                             *)
(***************************************************************************)
NeverReacquired == exited => leaked

(***************************************************************************)
(* The device is held exactly while a DMA command waits for its start bit  *)
(* or its transfer is running, and for ever once the first region of a     *)
(* transfer could not be read, which bm_ide_dotransfer leaves without a    *)
(* release.                                                                *)
(***************************************************************************)
HeldWhilePending ==
    acquired <=> Running \/ (mode = "dma" /\ issued) \/ leaked

\* the number of sectors a command has carried to the end
Complete == issued /\ wanted # 0 /\ mode = "none" /\ ~Running /\ ~failed

(***************************************************************************)
(* A read delivers the sectors asked for, each once and in order, by DMA   *)
(* however the regions cut the sectors, and by the data register as long   *)
(* as the address does not carry into the head, which the continuation of  *)
(* a read takes from the drive/head register as it was written.            *)
(***************************************************************************)
ReadsRightSectors ==
    command \in {"read", "readDMA"} /\ issued /\ (command = "read" => head = driveHead) =>
      /\ \A i \in 1 .. Len(moved) : moved[i] = first_lba * SectorSize + i - 1
      /\ Complete => Len(moved) = wanted * SectorSize

(***************************************************************************)
(* A write puts every sector at its place, whole and once; a transfer that *)
(* fails leaves no sector half written.                                    *)
(***************************************************************************)
WritesRightSectors ==
    /\ IdeTypeOK
    /\ command \in {"write", "writeDMA"} /\ issued =>
         /\ \A i \in 1 .. Len(written) :
              written[i] = [at |-> first_lba + i - 1, units |-> Block(first_lba + i - 1)]
         /\ Complete => Len(written) = wanted

(***************************************************************************)
(* An interrupt of the drive that is neither acknowledged nor blocked is   *)
(* pending in the PIC, unless nIEN was set when it came: lowering nIEN     *)
(* does not signal it later.                                               *)
(***************************************************************************)
InterruptKept == intr /\ ~blocked => irq \/ muted

(***************************************************************************)
(* A DMA transfer ends for every table of regions: the CPU's thread does   *)
(* not hang in the loop.                                                   *)
(***************************************************************************)
TransferEnds == Running ~> ~Running
=============================================================================
