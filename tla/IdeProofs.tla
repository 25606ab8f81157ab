------------------------------ MODULE IdeProofs ------------------------------
(***************************************************************************)
(* The lock of the device, the interrupt line and the sectors of the IDE   *)
(* controller, for every sector size, region table and number of sectors.  *)
(***************************************************************************)
EXTENDS Ide, TLAPS

(***************************************************************************)
(* HeldWhilePending is not inductive: that a register access finds the     *)
(* device free rests on what the mode and the command say of a DMA under   *)
(* way, and that a transfer releases what it holds on that nothing leaked. *)
(***************************************************************************)
DeviceInv ==
    /\ exited => leaked
    /\ acquired <=> Running \/ (mode = "dma" /\ issued) \/ leaked
    /\ leaked => ~Running /\ ~(mode = "dma" /\ issued)
    /\ {acquired, exited, leaked} \subseteq BOOLEAN
    /\ Running => mode = "none" /\ issued
    /\ command = "read" /\ drq => mode = "read"

\* a transfer that still has units to move is one that is running
LEMMA StillRunning ==
    ASSUME NEW d, d.transfer # 0
    PROVE  d # NoDma
  BY DEF NoDma

\* bmide_start_dma starts the transfer if the other half was there, or waits
LEMMA StartOrWait ==
    ASSUME NEW table, bmide_start_dma(table)
    PROVE  \/ mode = "none" /\ mode' = "dma" /\ UNCHANGED <<dma, failed, leaked>>
           \/ mode # "none" /\ mode' = "none" /\ Running' /\ UNCHANGED <<failed, leaked>>
           \/ mode # "none" /\ mode' = "none" /\ failed' = TRUE /\ leaked' = TRUE /\ dma' = dma
  <1>wait. CASE mode = "none"
    BY <1>wait DEF bmide_start_dma
  <1>not. CASE mode # "none" /\ failed' = TRUE /\ leaked' = TRUE /\ dma' = dma
    BY <1>not DEF bmide_start_dma
  <1>go. CASE mode # "none" /\ ~(failed' = TRUE /\ leaked' = TRUE /\ dma' = dma)
    <2>a. dma' = [table |-> table, left |-> Region(Head(table)), transfer |-> SectorSize]
          /\ mode' = "none" /\ UNCHANGED <<failed, leaked>>
      BY <1>go DEF bmide_start_dma
    <2>b. dma'.transfer # 0
      BY <2>a, IdeAssumption
    <2> QED
      BY <2>a, <2>b, <1>go, StillRunning DEF Running
  <1> QED
    BY <1>wait, <1>not, <1>go

LEMMA DeviceStart == Init => DeviceInv
  BY DEF Init, DeviceInv, Running

LEMMA CommandKeeps ==
    ASSUME DeviceInv, NEW read \in BOOLEAN, NEW table, commandDMA(read, table)
    PROVE  DeviceInv'
  <1>free. ~acquired /\ ~Running /\ ~exited
    BY DEF commandDMA, acquire, Fresh, Idle
  <1>now. issued' = TRUE /\ acquired' = TRUE /\ exited' = exited /\ drq' = FALSE
    BY DEF commandDMA, acquire
  <1>dma. bmide_start_dma(table)
    BY DEF commandDMA
  <1> QED
    BY <1>free, <1>now, <1>dma, StartOrWait DEF DeviceInv, Running

LEMMA StartBitKeeps ==
    ASSUME DeviceInv, NEW read \in BOOLEAN, NEW table, startDMA(read, table)
    PROVE  DeviceInv'
  <1>same. ~Running /\ ~exited /\ UNCHANGED <<acquired, exited, issued, command, drq>>
    BY DEF startDMA, Idle, device
  <1>dma. bmide_start_dma(table)
    BY DEF startDMA
  <1>both. CASE issued
    <2>a. mode = "dma"
      BY <1>both DEF startDMA
    <2> QED
      BY <1>both, <1>same, <1>dma, <2>a, StartOrWait DEF DeviceInv, Running
  <1>first. CASE ~issued
    <2>a. mode = "none"
      BY <1>first DEF startDMA
    <2> QED
      BY <1>first, <1>same, <1>dma, <2>a, StartOrWait DEF DeviceInv, Running
  <1> QED
    BY <1>both, <1>first

LEMMA TransferKeeps ==
    ASSUME DeviceInv, Transfer
    PROVE  DeviceInv'
  <1>same. Running /\ UNCHANGED <<exited, leaked, issued, command, drq, mode>>
    BY DEF Transfer
  <1>on. \/ dma' = NoDma /\ acquired' = FALSE
         \/ dma'.transfer # 0 /\ acquired' = acquired
    BY IdeAssumption DEF Transfer, Finish
  <1> QED
    BY <1>same, <1>on, StillRunning DEF DeviceInv, Running

LEMMA DeviceStep == DeviceInv /\ [Next]_vars => DeviceInv'
  <1> SUFFICES ASSUME DeviceInv, [Next]_vars PROVE DeviceInv'
    OBVIOUS
  <1>select. ASSUME NEW a \in Addresses, NEW n \in Counts, Select(a, n) PROVE DeviceInv'
    BY <1>select DEF Select, Idle, DeviceInv, Running, busmaster, device
  <1>pioIn. CASE readSector
    BY <1>pioIn DEF readSector, Fresh, Idle, useDevice, DeviceInv, Running, busmaster
  <1>pioOut. CASE writeSector
    BY <1>pioOut DEF writeSector, Fresh, Idle, DeviceInv, Running, busmaster, device
  <1>in. CASE readData
    <2>a. mode = "read" /\ ~Running
      BY <1>in DEF readData, Idle, DeviceInv
    <2>b. UNCHANGED <<exited, acquired, leaked, dma, issued, command>>
      BY <1>in, <2>a DEF readData, useDevice, device, busmaster
    <2>c. (mode' = mode /\ drq' = drq) \/ (mode' = "none" /\ drq' = FALSE)
      BY <1>in DEF readData
    <2> QED
      BY <2>a, <2>b, <2>c DEF DeviceInv, Running
  <1>out. CASE writeData
    <2>a. mode = "write" /\ command' = "write" /\ ~Running
      BY <1>out DEF writeData, Idle, DeviceInv
    <2>b. UNCHANGED <<exited, acquired, leaked, dma, issued>>
      BY <1>out, <2>a DEF writeData, useDevice, device, busmaster
    <2>c. mode' \in {"write", "none"}
      BY <1>out DEF writeData
    <2> QED
      BY <2>a, <2>b, <2>c DEF DeviceInv, Running
  <1>flush. CASE flush
    BY <1>flush DEF flush, Fresh, Idle, DeviceInv, Running, busmaster
  <1>cmd. ASSUME NEW read \in BOOLEAN, NEW t \in Tables, commandDMA(read, t) PROVE DeviceInv'
    BY <1>cmd, CommandKeeps
  <1>bit. ASSUME NEW read \in BOOLEAN, NEW t \in Tables, startDMA(read, t) PROVE DeviceInv'
    BY <1>bit, StartBitKeeps
  <1>move. CASE Transfer
    BY <1>move, TransferKeeps
  <1>stop. CASE stopDMA
    BY <1>stop DEF stopDMA, Idle, taskfile, device, history, DeviceInv, Running
  <1>exit. CASE reacquire
    <2>a. leaked
      BY <1>exit DEF reacquire, Idle, DeviceInv
    <2> QED
      BY <1>exit, <2>a DEF reacquire, taskfile, busmaster, history, DeviceInv, Running
  <1>stat. CASE readStatus
    BY <1>stat DEF readStatus, taskfile, busmaster, device, history, DeviceInv, Running
  <1>bm. CASE writeBMStatus
    BY <1>bm DEF writeBMStatus, taskfile, device, history, DeviceInv, Running
  <1>blk. ASSUME NEW b \in BOOLEAN, writeMRDMODE(b) PROVE DeviceInv'
    BY <1>blk DEF writeMRDMODE, taskfile, busmaster, device, DeviceInv, Running
  <1>mask. ASSUME NEW b \in BOOLEAN, writeOutput(b) PROVE DeviceInv'
    BY <1>mask DEF writeOutput, taskfile, busmaster, device, history, DeviceInv, Running
  <1>idle. CASE UNCHANGED vars
    BY <1>idle DEF vars, taskfile, busmaster, device, history, DeviceInv, Running
  <1> QED
    BY <1>select, <1>pioIn, <1>pioOut, <1>in, <1>out, <1>flush, <1>cmd, <1>bit, <1>move,
       <1>stop, <1>exit, <1>stat, <1>bm, <1>blk, <1>mask, <1>idle
    DEF Next, ended

LEMMA DeviceAlways == Spec => []DeviceInv
  <1>end. QED
    BY DeviceStart, DeviceStep, PTL DEF Spec

(***************************************************************************)
(* IDEDevice::acquire ends the process only after a transfer whose first   *)
(* region could not be read, for every order of start bit and command,     *)
(* every table and every other failure.                                    *)
(***************************************************************************)
THEOREM AcquiredOnce == Spec => []NeverReacquired
  <1>imp. DeviceInv => NeverReacquired
    BY DEF DeviceInv, NeverReacquired
  <1>end. QED
    BY <1>imp, DeviceAlways, PTL

(***************************************************************************)
(* The device is held from the DMA command to the end of its transfer, and *)
(* at no other time, until a transfer cannot read its first region: then   *)
(* it is held for ever.                                                    *)
(***************************************************************************)
THEOREM HeldForDma == Spec => []HeldWhilePending
  <1>imp. DeviceInv => HeldWhilePending
    BY DEF DeviceInv, HeldWhilePending
  <1>end. QED
    BY <1>imp, DeviceAlways, PTL

-----------------------------------------------------------------------------
LEMMA RaisedIsKept ==
    ASSUME raiseInterrupt, blocked' = blocked
    PROVE  InterruptKept'
  BY DEF raiseInterrupt, InterruptKept

LEMMA InterruptStep == InterruptKept /\ [Next]_vars => InterruptKept'
  <1> SUFFICES ASSUME InterruptKept, [Next]_vars PROVE InterruptKept'
    OBVIOUS
  <1>same. ASSUME UNCHANGED <<irq, intr, blocked, muted>> PROVE InterruptKept'
    BY <1>same DEF InterruptKept
  <1>select. ASSUME NEW a \in Addresses, NEW n \in Counts, Select(a, n) PROVE InterruptKept'
    BY <1>select, <1>same DEF Select, lines
  <1>pioIn. CASE readSector
    BY <1>pioIn, RaisedIsKept DEF readSector
  <1>pioOut. CASE writeSector
    BY <1>pioOut, <1>same DEF writeSector, lines
  <1>in. CASE readData
    <2>a. UNCHANGED <<irq, intr, blocked, muted>> \/ (raiseInterrupt /\ blocked' = blocked)
      BY <1>in DEF readData, lines
    <2> QED
      BY <2>a, <1>same, RaisedIsKept
  <1>out. CASE writeData
    <2>a. UNCHANGED <<irq, intr, blocked, muted>> \/ (raiseInterrupt /\ blocked' = blocked)
      BY <1>out DEF writeData, lines
    <2> QED
      BY <2>a, <1>same, RaisedIsKept
  <1>flush. CASE flush
    BY <1>flush, RaisedIsKept DEF flush
  <1>cmd. ASSUME NEW read \in BOOLEAN, NEW t \in Tables, commandDMA(read, t) PROVE InterruptKept'
    BY <1>cmd, <1>same DEF commandDMA, lines
  <1>bit. ASSUME NEW read \in BOOLEAN, NEW t \in Tables, startDMA(read, t) PROVE InterruptKept'
    BY <1>bit, <1>same DEF startDMA, lines, history
  <1>move. CASE Transfer
    <2>a. UNCHANGED <<irq, intr, blocked, muted>> \/ (raiseInterrupt /\ blocked' = blocked)
      BY <1>move DEF Transfer, Finish
    <2> QED
      BY <2>a, <1>same, RaisedIsKept
  <1>stop. CASE stopDMA
    BY <1>stop DEF stopDMA, cancelInterrupt, InterruptKept
  <1>exit. CASE reacquire
    BY <1>exit, <1>same DEF reacquire, lines, history
  <1>stat. CASE readStatus
    BY <1>stat DEF readStatus, cancelInterrupt, InterruptKept
  <1>bm. CASE writeBMStatus
    BY <1>bm DEF writeBMStatus, cancelInterrupt, InterruptKept
  <1>blk. ASSUME NEW b \in BOOLEAN, writeMRDMODE(b) PROVE InterruptKept'
    <2>a. blocked' = b /\ intr' = intr
      BY <1>blk DEF writeMRDMODE
    <2>b. ASSUME ~b, intr PROVE irq' \/ muted'
      <3>a. irq' = (irq \/ ~nIEN) /\ muted' = nIEN
        BY <1>blk, <2>b DEF writeMRDMODE
      <3> QED
        BY <3>a, Zenon
    <2> QED
      BY <2>a, <2>b DEF InterruptKept
  <1>mask. ASSUME NEW b \in BOOLEAN, writeOutput(b) PROVE InterruptKept'
    BY <1>mask, <1>same DEF writeOutput, history
  <1>idle. CASE UNCHANGED vars
    BY <1>idle, <1>same DEF vars, lines, history
  <1> QED
    BY <1>select, <1>pioIn, <1>pioOut, <1>in, <1>out, <1>flush, <1>cmd, <1>bit, <1>move,
       <1>stop, <1>exit, <1>stat, <1>bm, <1>blk, <1>mask, <1>idle
    DEF Next, ended

(***************************************************************************)
(* Through blocking and unblocking in MRDMODE, acknowledgement and stop no *)
(* interrupt of the drive gets lost on its way to the PIC, except under    *)
(* nIEN.                                                                   *)
(***************************************************************************)
THEOREM InterruptsKept == Spec => []InterruptKept
  <1>init. Init => InterruptKept
    BY DEF Init, InterruptKept
  <1>end. QED
    BY <1>init, InterruptStep, PTL DEF Spec
-----------------------------------------------------------------------------
(***************************************************************************)
(* What the guest has of its sectors follows only from where the command   *)
(* is: how many sectors the address registers are past the first, which is *)
(* also what the count register says; where the device's file is, and      *)
(* which part of the sector under way its deblocking buffer holds; and     *)
(* that a transfer goes in the direction of its command.  SectorInv joins  *)
(* these with the content of what has been moved and written.              *)
(***************************************************************************)

\* the number of sectors the present command is past
done == makeLogical(head, addr) - first_lba

\* the sectors a driver asks for exist, and are fewer than a head has (2^8 and 2^24)
InRange ==
    /\ CountMod <= HeadSize
    /\ \A a \in Addresses, n \in Counts :
         a + (IF n = 0 THEN CountMod ELSE n) <= Heads * HeadSize

MovedRight == \A i \in 1 .. Len(moved) : moved[i] = first_lba * SectorSize + i - 1

WrittenRight ==
    \A i \in 1 .. Len(written) :
      written[i] = [at |-> first_lba + i - 1, units |-> Block(first_lba + i - 1)]

\* the units of s are the first ones of sector b
StartOf(s, b) == \A i \in 1 .. Len(s) : s[i] = b * SectorSize + i - 1

\* a command that may be issued or has sectors to go
Active == ~issued \/ mode # "none" \/ Running

Position ==
    /\ wanted \in 1 .. CountMod /\ first_lba + wanted <= Heads * HeadSize
    /\ done \in 0 .. wanted - 1
    /\ count = (wanted - done) % CountMod

ReadyInv ==
    ~issued =>
      /\ done = 0 /\ head = driveHead /\ moved = <<>> /\ written = <<>>
      /\ ~Running /\ mode \in {"none", "dma"}
      /\ mode = "dma" <=> start

PendingInv ==
    issued /\ mode = "dma" =>
      /\ command \in {"readDMA", "writeDMA"}
      /\ done = 0 /\ moved = <<>> /\ written = <<>>
      /\ filepos = first_lba /\ first = 0

\* the units of the sector under way that have been moved by DMA
gone == SectorSize - dma.transfer

Buffered ==
    IF gone = 0
    THEN first \in {0, SectorSize} /\ filepos = first_lba + done
    ELSE /\ first = gone
         /\ StartOf(mSector, first_lba + done)
         /\ IF toMem THEN filepos = first_lba + done + 1 /\ Len(mSector) = SectorSize
                     ELSE filepos = first_lba + done /\ Len(mSector) = first

RunningInv ==
    Running =>
      /\ command = IF toMem THEN "readDMA" ELSE "writeDMA"
      /\ dma.transfer \in 1 .. SectorSize
      /\ dma.table # <<>>
      /\ Len(moved) = done * SectorSize + gone
      /\ ~toMem => Len(written) = done
      /\ Buffered

PioReadInv ==
    mode = "read" =>
      /\ issued /\ command = "read" /\ ~Running
      /\ Len(sector) = SectorSize
      /\ Len(moved) = done * SectorSize + sectorpos
      /\ head = driveHead => StartOf(sector, first_lba + done)

PioWriteInv ==
    mode = "write" =>
      /\ issued /\ command = "write" /\ ~Running
      /\ Len(written) = done
      /\ Len(sector) = sectorpos
      /\ StartOf(sector, first_lba + done)

ContentInv ==
    /\ driveHead * HeadSize <= first_lba /\ first_lba < driveHead * HeadSize + HeadSize
    /\ issued /\ command = "readDMA" => MovedRight
    /\ issued /\ command = "read" /\ head = driveHead => MovedRight
    /\ issued /\ command \in {"write", "writeDMA"} => WrittenRight
    /\ Complete /\ command \in {"read", "readDMA"} => Len(moved) = wanted * SectorSize
    /\ Complete /\ command \in {"write", "writeDMA"} => Len(written) = wanted

ProgressInv ==
    /\ Active => Position
    /\ ReadyInv /\ PendingInv /\ RunningInv /\ PioReadInv /\ PioWriteInv
    /\ ContentInv

-----------------------------------------------------------------------------
BitsOK ==
    /\ drq \in BOOLEAN /\ start \in BOOLEAN /\ toMem \in BOOLEAN /\ bmInt \in BOOLEAN
    /\ blocked \in BOOLEAN /\ intr \in BOOLEAN /\ nIEN \in BOOLEAN /\ irq \in BOOLEAN
    /\ acquired \in BOOLEAN /\ exited \in BOOLEAN /\ issued \in BOOLEAN
    /\ failed \in BOOLEAN /\ leaked \in BOOLEAN /\ muted \in BOOLEAN

NumbersOK ==
    /\ head \in 0 .. Heads - 1 /\ driveHead \in 0 .. Heads - 1
    /\ addr \in 0 .. HeadSize - 1
    /\ count \in 0 .. CountMod - 1
    /\ command \in {"none", "read", "write", "readDMA", "writeDMA", "flush"}
    /\ mode \in {"none", "read", "write", "dma"}
    /\ sectorpos \in 0 .. SectorSize - 1
    /\ filepos \in Nat
    /\ first \in 0 .. SectorSize
    /\ first_lba \in Nat /\ wanted \in 0 .. CountMod

DmaOK == dma \in [table : Seq(0 .. RegionMod - 1), left : Nat, transfer : Nat]

UnitsOK ==
    /\ sector \in Seq(Units) /\ mSector \in Seq(Units) /\ moved \in Seq(Units)
    /\ written \in Seq([at : Nat, units : Seq(Units)])

DataOK == NumbersOK /\ DmaOK /\ UnitsOK

SectorInv == DeviceInv /\ DataOK /\ ProgressInv

LEMMA TypeParts == IdeTypeOK <=> BitsOK /\ DataOK
  BY DEF IdeTypeOK, DataOK, BitsOK, NumbersOK, DmaOK, UnitsOK

LEMMA RaisedBits ==
    ASSUME BitsOK, raiseInterrupt
    PROVE  irq' \in BOOLEAN /\ intr' \in BOOLEAN /\ muted' \in BOOLEAN
  BY DEF raiseInterrupt, BitsOK

LEMMA BitsStep == BitsOK /\ [Next]_vars => BitsOK'
  <1> SUFFICES ASSUME BitsOK, [Next]_vars PROVE BitsOK'
    OBVIOUS
  <1>lines. \/ UNCHANGED <<irq, intr, muted>>
            \/ raiseInterrupt
            \/ cancelInterrupt /\ muted' = muted
            \/ \E b \in BOOLEAN : writeMRDMODE(b)
    BY DEF Next, ended, reacquire, Select, readSector, writeSector, readData, writeData, flush, commandDMA,
           startDMA, stopDMA, Transfer, Finish, readStatus, writeBMStatus, writeOutput,
           vars, lines, history
  <1>irq. irq' \in BOOLEAN /\ intr' \in BOOLEAN /\ muted' \in BOOLEAN
    <2>a. ASSUME NEW b \in BOOLEAN, writeMRDMODE(b)
          PROVE  irq' \in BOOLEAN /\ intr' \in BOOLEAN /\ muted' \in BOOLEAN
      BY <2>a DEF writeMRDMODE, BitsOK
    <2> QED
      BY <1>lines, <2>a, RaisedBits DEF cancelInterrupt, BitsOK
  <1>bus. drq' \in BOOLEAN /\ start' \in BOOLEAN /\ toMem' \in BOOLEAN /\ bmInt' \in BOOLEAN
    BY DEF Next, ended, reacquire, Select, readSector, writeSector, readData, writeData, flush, commandDMA,
           startDMA, stopDMA, Transfer, Finish, readStatus, writeBMStatus, writeMRDMODE,
           writeOutput, vars, taskfile, busmaster, BitsOK
  <1>mask. blocked' \in BOOLEAN /\ nIEN' \in BOOLEAN
    BY DEF Next, ended, reacquire, Select, readSector, writeSector, readData, writeData, flush, commandDMA,
           startDMA, stopDMA, Transfer, Finish, readStatus, writeBMStatus, writeMRDMODE,
           writeOutput, vars, lines, BitsOK
  <1>dev. acquired' \in BOOLEAN /\ exited' \in BOOLEAN
    BY DEF Next, ended, reacquire, Select, readSector, writeSector, readData, writeData, flush, commandDMA,
           startDMA, stopDMA, Transfer, Finish, readStatus, writeBMStatus, writeMRDMODE,
           writeOutput, vars, device, useDevice, acquire, BitsOK
  <1>hist. issued' \in BOOLEAN /\ failed' \in BOOLEAN /\ leaked' \in BOOLEAN
    BY DEF Next, ended, reacquire, Select, readSector, writeSector, readData, writeData, flush, commandDMA,
           startDMA, stopDMA, Transfer, Finish, readStatus, writeBMStatus, writeMRDMODE,
           writeOutput, bmide_start_dma, vars, history, BitsOK
  <1> QED
    BY <1>irq, <1>bus, <1>mask, <1>dev, <1>hist DEF BitsOK

-----------------------------------------------------------------------------
LEMMA ProductOrder ==
    ASSUME NEW x \in Int, NEW y \in Int, NEW s \in Nat, x <= y
    PROVE  x * s <= y * s
  OBVIOUS

\* the top digits of two numbers are in the order of the numbers
LEMMA DigitOrder ==
    ASSUME NEW s \in Nat, NEW x \in Int, NEW y \in Int, NEW i \in Int, NEW j \in Int,
           x * s + i <= y * s + j, 0 <= i, j < s
    PROVE  x <= y
  <1> SUFFICES ASSUME y + 1 <= x PROVE FALSE
    OBVIOUS
  <1>a. (y + 1) * s <= x * s
    BY ProductOrder
  <1>b. (y + 1) * s = y * s + s
    OBVIOUS
  <1> QED
    BY <1>a, <1>b

LEMMA Division ==
    ASSUME NEW x \in Nat, NEW s \in Nat \ {0}
    PROVE  /\ x \div s \in Nat
           /\ x % s \in 0 .. s - 1
           /\ (x \div s) * s + (x % s) = x
  OBVIOUS

\* a sector of the disk fits the address registers
LEMMA Digits ==
    ASSUME NEW x \in 0 .. Heads * HeadSize - 1
    PROVE  /\ x \div HeadSize \in 0 .. Heads - 1
           /\ x % HeadSize \in 0 .. HeadSize - 1
           /\ makeLogical(x \div HeadSize, x % HeadSize) = x
  <1>size. HeadSize \in Nat \ {0} /\ Heads \in Nat \ {0} /\ Heads * HeadSize \in Nat
    BY IdeAssumption
  <1>x. x \in Nat /\ x <= Heads * HeadSize - 1
    BY <1>size
  <1>div. /\ x \div HeadSize \in Nat /\ x % HeadSize \in 0 .. HeadSize - 1
          /\ (x \div HeadSize) * HeadSize + (x % HeadSize) = x
    BY <1>size, <1>x, Division
  <1>top. x \div HeadSize <= Heads - 1
    <2> DEFINE q == x \div HeadSize
               r == x % HeadSize
    <2>a. q \in Nat /\ r \in 0 .. HeadSize - 1 /\ q * HeadSize + r = x
      BY <1>div
    <2> HIDE DEF q, r
    <2>b. (Heads - 1) * HeadSize = Heads * HeadSize - HeadSize
      BY <1>size
    <2>c. q * HeadSize + r <= (Heads - 1) * HeadSize + (HeadSize - 1)
      BY <2>a, <2>b, <1>x, <1>size
    <2>d. q <= Heads - 1
      BY <2>a, <2>c, <1>size, DigitOrder
    <2> QED
      BY <2>d DEF q
  <1> QED
    BY <1>size, <1>div, <1>top DEF makeLogical

\* the count register, kept modulo CountMod, gets to 0 with the last sector
LEMMA CountDown ==
    ASSUME NEW r \in 1 .. CountMod
    PROVE  /\ ((r % CountMod) - 1) % CountMod = (r - 1) % CountMod
           /\ (r - 1) % CountMod = r - 1
           /\ r % CountMod > 1 => r - 1 # 0
  <1>c. CountMod \in Nat \ {0}
    BY IdeAssumption
  <1>last. (r - 1) % CountMod = r - 1
    BY <1>c
  <1>full. CASE r = CountMod
    <2>a. r % CountMod = 0
      BY <1>full, <1>c
    <2>b. (0 - 1) % CountMod = CountMod - 1
      BY <1>c
    <2> QED
      BY <2>a, <2>b, <1>last, <1>full
  <1>less. CASE r # CountMod
    <2>a. r % CountMod = r
      BY <1>less, <1>c
    <2> QED
      BY <2>a, <1>last
  <1> QED
    BY <1>full, <1>less

\* what incAddress does to the position
LEMMA OnePast ==
    ASSUME NumbersOK, Position, incAddress, UNCHANGED <<first_lba, wanted>>
    PROVE  /\ head' \in 0 .. Heads - 1 /\ addr' \in 0 .. HeadSize - 1
           /\ count' \in 0 .. CountMod - 1
           /\ count' = 0 <=> done + 1 = wanted
           /\ done + 1 < wanted => Position' /\ done' = done + 1
  <1>c. CountMod \in Nat \ {0} /\ HeadSize \in Nat \ {0} /\ Heads \in Nat \ {0}
    BY IdeAssumption
  <1>t. done \in Nat /\ wanted \in Nat /\ first_lba \in Nat /\ wanted - done \in 1 .. CountMod
    BY <1>c DEF Position, NumbersOK
  <1>logical. makeLogical(head, addr) = first_lba + done
    <2>a. head * HeadSize + addr \in Int
      BY <1>c DEF NumbersOK
    <2> QED
      BY <1>t, <2>a DEF done, makeLogical
  <1> DEFINE cur == first_lba + done + 1
  <1>inc. /\ count' = (count - 1) % CountMod
          /\ head' = (cur \div HeadSize) % Heads
          /\ addr' = cur % HeadSize
    BY <1>logical DEF incAddress
  <1>cur. cur \in Nat
    BY <1>t
  <1>count. count' = wanted - (done + 1)
    <2>a. count' = (wanted - done - 1) % CountMod
      BY <1>inc, <1>t, CountDown DEF Position
    <2>b. (wanted - done - 1) % CountMod = wanted - done - 1
      BY <1>t, CountDown
    <2> QED
      BY <2>a, <2>b, <1>t
  <1>types. /\ head' \in 0 .. Heads - 1 /\ addr' \in 0 .. HeadSize - 1
            /\ count' \in 0 .. CountMod - 1
    <2>a. cur \div HeadSize \in Nat
      BY <1>cur, <1>c, Division
    <2>b. head' \in 0 .. Heads - 1
      BY <2>a, <1>inc, <1>c, Division
    <2>d. addr' \in 0 .. HeadSize - 1
      BY <1>cur, <1>inc, <1>c, Division
    <2> QED
      BY <2>b, <2>d, <1>count, <1>t, <1>c
  <1>on. ASSUME done + 1 < wanted PROVE Position' /\ done' = done + 1
    <2>a. cur \in 0 .. Heads * HeadSize - 1
      BY <1>on, <1>t, <1>c DEF Position
    <2>b. cur \div HeadSize \in 0 .. Heads - 1 /\ makeLogical(cur \div HeadSize, cur % HeadSize) = cur
      BY <2>a, Digits
    <2>d. (cur \div HeadSize) % Heads = cur \div HeadSize
      BY <2>b, <1>c
    <2>e. makeLogical(head', addr') = cur
      BY <2>b, <2>d, <1>inc
    <2>f. done' = done + 1
      BY <2>e, <1>t DEF done, makeLogical
    <2>g. (wanted - (done + 1)) % CountMod = wanted - (done + 1)
      BY <1>t, CountDown
    <2> QED
      BY <2>f, <2>g, <1>count, <1>on, <1>t DEF Position
  <1> QED
    BY <1>types, <1>count, <1>on, <1>t

-----------------------------------------------------------------------------
LEMMA UnitOfSector ==
    ASSUME NEW b \in 0 .. Heads * HeadSize - 1, NEW r \in 0 .. SectorSize - 1
    PROVE  b * SectorSize + r \in Units
  <1>c. /\ SectorSize \in Nat \ {0} /\ CountMod \in Nat /\ Heads \in Nat /\ HeadSize \in Nat
        /\ Heads * HeadSize \in Nat
    BY IdeAssumption
  <1> DEFINE all == Heads * HeadSize
  <1>b. b \in Nat /\ b + 1 <= all + CountMod /\ all + CountMod \in Nat
    BY <1>c
  <1> HIDE DEF all
  <1>top. (b + 1) * SectorSize <= (all + CountMod) * SectorSize
    BY <1>b, <1>c, ProductOrder
  <1>same. (all + CountMod) * SectorSize = SectorSize * (all + CountMod)
    BY <1>b, <1>c
  <1>sum. (b + 1) * SectorSize = b * SectorSize + SectorSize /\ b * SectorSize \in Nat
    BY <1>b, <1>c
  <1>end. b * SectorSize + r \in 0 .. SectorSize * (all + CountMod)
    <2> DEFINE p == b * SectorSize
               q == SectorSize * (all + CountMod)
    <2>a. p \in Nat /\ q \in Int /\ p + SectorSize <= q
      BY <1>top, <1>same, <1>sum, <1>b, <1>c
    <2> HIDE DEF p, q
    <2>b. p + r \in 0 .. q
      BY <2>a, <1>c
    <2> QED
      BY <2>b DEF p, q
  <1> QED
    BY <1>end DEF Units, all

LEMMA BlockUnits ==
    ASSUME NEW b \in 0 .. Heads * HeadSize - 1
    PROVE  /\ Block(b) \in Seq(Units) /\ Len(Block(b)) = SectorSize
           /\ StartOf(Block(b), b)
  <1>c. SectorSize \in Nat \ {0} /\ b \in Int
    BY IdeAssumption
  <1>u. ASSUME NEW u \in 1 .. SectorSize PROVE b * SectorSize + u - 1 \in Units
    <2>a. b * SectorSize + (u - 1) \in Units
      BY <1>c, UnitOfSector
    <2>b. b * SectorSize \in Int
      BY <1>c
    <2>d. b * SectorSize + u - 1 = b * SectorSize + (u - 1)
      BY <2>b, <1>c
    <2> QED
      BY <2>a, <2>d
  <1>fun. Block(b) \in [1 .. SectorSize -> Units]
    BY <1>u DEF Block
  <1>seq. Block(b) \in Seq(Units) /\ Len(Block(b)) = SectorSize
    BY <1>fun, <1>c
  <1> QED
    BY <1>seq DEF StartOf, Block

LEMMA WholeSector ==
    ASSUME NEW s \in Seq(Units), NEW b \in Int, Len(s) = SectorSize, StartOf(s, b)
    PROVE  s = Block(b)
  <1>a. SectorSize \in Nat
    BY IdeAssumption
  <1>b. s = [i \in 1 .. SectorSize |-> s[i]]
    BY <1>a
  <1> QED
    BY <1>b DEF StartOf, Block

\* s counts up from x
UnitsFrom(s, x) == \A i \in 1 .. Len(s) : s[i] = x + i - 1

\* n units of s after the first m
Cut(s, m, n) == SubSeq(s, m + 1, m + n)

LEMMA PartOfSector ==
    ASSUME NEW s \in Seq(Units), NEW b \in Int, StartOf(s, b),
           NEW m \in Nat, NEW n \in Nat, m + n <= Len(s)
    PROVE  /\ Cut(s, m, n) \in Seq(Units)
           /\ Len(Cut(s, m, n)) = n
           /\ \A x \in Int : x = b * SectorSize + m => UnitsFrom(Cut(s, m, n), x)
  <1>c. SectorSize \in Nat \ {0} /\ b * SectorSize \in Int
    BY IdeAssumption
  <1>len. Len(SubSeq(s, m + 1, m + n)) = n /\ SubSeq(s, m + 1, m + n) \in Seq(Units)
    OBVIOUS
  <1>at. ASSUME NEW x \in Int, x = b * SectorSize + m, NEW i \in 1 .. n
         PROVE  SubSeq(s, m + 1, m + n)[i] = x + i - 1
    <2>a. SubSeq(s, m + 1, m + n)[i] = s[m + i]
      OBVIOUS
    <2>b. m + i \in 1 .. Len(s)
      OBVIOUS
    <2>d. s[m + i] = b * SectorSize + (m + i) - 1
      BY <2>b DEF StartOf
    <2> QED
      BY <2>a, <2>d, <1>c, <1>at
  <1> QED
    BY <1>len, <1>at DEF UnitsFrom, Cut

LEMMA Longer ==
    ASSUME NEW s \in Seq(Units), NEW t \in Seq(Units)
    PROVE  s \o t \in Seq(Units) /\ Len(s \o t) = Len(s) + Len(t)
  OBVIOUS

\* units that follow those moved keep the order
LEMMA MovesOn ==
    ASSUME UnitsOK, MovedRight, NEW new \in Seq(Units), NEW x \in Int, UnitsFrom(new, x),
           x = first_lba * SectorSize + Len(moved),
           moved' = moved \o new, first_lba' = first_lba, first_lba \in Nat
    PROVE  MovedRight'
  <1>c. SectorSize \in Nat \ {0} /\ first_lba * SectorSize \in Int
    BY IdeAssumption
  <1>m. moved \in Seq(Units) /\ Len(moved') = Len(moved) + Len(new)
    BY DEF UnitsOK
  <1> SUFFICES ASSUME NEW i \in 1 .. Len(moved')
               PROVE  moved'[i] = first_lba * SectorSize + i - 1
    BY DEF MovedRight
  <1>old. CASE i <= Len(moved)
    BY <1>old, <1>m, <1>c DEF MovedRight
  <1>new. CASE i > Len(moved)
    <2>a. moved'[i] = new[i - Len(moved)] /\ i - Len(moved) \in 1 .. Len(new)
      BY <1>new, <1>m
    <2>b. new[i - Len(moved)] = x + (i - Len(moved)) - 1
      BY <2>a DEF UnitsFrom
    <2> QED
      BY <2>a, <2>b, <1>c, <1>m
  <1> QED
    BY <1>old, <1>new, <1>m

\* one more whole sector in its place
LEMMA OneMoreWritten ==
    ASSUME UnitsOK, WrittenRight, first_lba \in Nat, first_lba' = first_lba,
           NEW b \in 0 .. Heads * HeadSize - 1, b = first_lba + Len(written),
           written' = Append(written, [at |-> b, units |-> Block(b)])
    PROVE  /\ WrittenRight'
           /\ written' \in Seq([at : Nat, units : Seq(Units)])
           /\ Len(written') = Len(written) + 1
  <1>w. written \in Seq([at : Nat, units : Seq(Units)])
    BY DEF UnitsOK
  <1>b. b \in Nat /\ Block(b) \in Seq(Units)
    BY IdeAssumption, BlockUnits
  <1>rec. [at |-> b, units |-> Block(b)] \in [at : Nat, units : Seq(Units)]
    BY <1>b
  <1>seq. written' \in Seq([at : Nat, units : Seq(Units)]) /\ Len(written') = Len(written) + 1
    BY <1>w, <1>rec
  <1>right. ASSUME NEW i \in 1 .. Len(written')
            PROVE  written'[i] = [at |-> first_lba + i - 1, units |-> Block(first_lba + i - 1)]
    <2>old. CASE i <= Len(written)
      BY <2>old, <1>w DEF WrittenRight
    <2>new. CASE i = Len(written) + 1
      <3>a. written'[i] = [at |-> b, units |-> Block(b)]
        BY <2>new, <1>w
      <3>b. b = first_lba + i - 1
        BY <2>new, <1>w
      <3> QED
        BY <3>a, <3>b
    <2> QED
      BY <2>old, <2>new, <1>seq, <1>w
  <1> QED
    BY <1>seq, <1>right DEF WrittenRight

-----------------------------------------------------------------------------
\* a step that leaves the command and the data where they are
LEMMA QuietKeeps ==
    ASSUME SectorInv,
           UNCHANGED <<taskfile, toMem, dma, filepos, first, mSector, issued, first_lba, wanted,
                       moved, written, failed>>,
           start' = start \/ issued
    PROVE  DataOK' /\ ProgressInv'
  <1>same. /\ UNCHANGED <<head, addr, driveHead, count, command, mode, sectorpos, sector, drq>>
           /\ UNCHANGED <<toMem, dma, filepos, first, mSector>>
           /\ UNCHANGED <<issued, first_lba, wanted, moved, written, failed>>
    BY DEF taskfile
  <1>data. DataOK'
    BY <1>same DEF SectorInv, DataOK, NumbersOK, DmaOK, UnitsOK
  <1>here. done' = done /\ gone' = gone /\ (Running' <=> Running)
    BY <1>same DEF done, gone, makeLogical, Running
  <1>pos. Active' => Position'
    BY <1>same, <1>here DEF SectorInv, ProgressInv, Active, Position
  <1>ready. ReadyInv'
    BY <1>same, <1>here DEF SectorInv, ProgressInv, ReadyInv
  <1>pending. PendingInv'
    BY <1>same, <1>here DEF SectorInv, ProgressInv, PendingInv
  <1>running. RunningInv'
    BY <1>same, <1>here DEF SectorInv, ProgressInv, RunningInv, Buffered, StartOf
  <1>pio. PioReadInv' /\ PioWriteInv'
    BY <1>same, <1>here DEF SectorInv, ProgressInv, PioReadInv, PioWriteInv, StartOf
  <1>content. ContentInv'
    BY <1>same, <1>here
    DEF SectorInv, ProgressInv, ContentInv, MovedRight, WrittenRight, Complete, Block
  <1> QED
    BY <1>data, <1>pos, <1>ready, <1>pending, <1>running, <1>pio, <1>content DEF ProgressInv

LEMMA SelectMoves ==
    ASSUME SectorInv, InRange, NEW a \in Addresses, NEW n \in Counts, Select(a, n)
    PROVE  DataOK' /\ ProgressInv'
  <1>c. /\ CountMod \in Nat \ {0} /\ HeadSize \in Nat \ {0}
        /\ a \in 0 .. Heads * HeadSize - 1 /\ n \in 0 .. CountMod - 1
    BY IdeAssumption
  <1>a. a \in Nat
    BY <1>c, IdeAssumption
  <1>sel. /\ mode = "none" /\ ~start /\ ~Running
          /\ head' = a \div HeadSize /\ driveHead' = a \div HeadSize /\ addr' = a % HeadSize
          /\ count' = n /\ issued' = FALSE /\ first_lba' = a
          /\ wanted' = IF n = 0 THEN CountMod ELSE n
          /\ moved' = <<>> /\ written' = <<>> /\ failed' = FALSE
          /\ UNCHANGED <<command, mode, sectorpos, sector, drq, start, dma, filepos, first, mSector>>
    BY DEF Select, Idle, busmaster, device
  <1>digits. /\ a \div HeadSize \in 0 .. Heads - 1 /\ a % HeadSize \in 0 .. HeadSize - 1
             /\ makeLogical(a \div HeadSize, a % HeadSize) = a
    BY <1>c, Digits
  <1>data. DataOK'
    <2>a. NumbersOK'
      BY <1>sel, <1>digits, <1>c, <1>a DEF SectorInv, DataOK, NumbersOK
    <2>b. DmaOK' /\ UnitsOK'
      BY <1>sel DEF SectorInv, DataOK, DmaOK, UnitsOK
    <2> QED
      BY <2>a, <2>b DEF DataOK
  <1>here. done' = 0 /\ ~Running'
    BY <1>sel, <1>digits, <1>a DEF done, makeLogical, Running
  <1>pos. Position'
    <2>a. wanted' \in 1 .. CountMod /\ first_lba' + wanted' <= Heads * HeadSize
      BY <1>sel, <1>c DEF InRange
    <2>b. n = wanted' % CountMod
      <3>a. CASE n = 0
        <4>a. CountMod % CountMod = 0
          BY <1>c
        <4> QED
          BY <4>a, <3>a, <1>sel
      <3>b. CASE n # 0
        <4>a. n % CountMod = n
          BY <1>c
        <4> QED
          BY <4>a, <3>b, <1>sel
      <3> QED
        BY <3>a, <3>b
    <2>d. wanted' - done' = wanted' /\ done' \in 0 .. wanted' - 1
      <3>a. wanted' \in 1 .. CountMod /\ done' = 0
        BY <2>a, <1>here
      <3> DEFINE w == wanted'
                 d == done'
      <3>b. w \in 1 .. CountMod /\ d = 0
        BY <3>a
      <3> HIDE DEF w, d
      <3>e. w - d = w /\ d \in 0 .. w - 1
        BY <3>b, <1>c
      <3> QED
        BY <3>e DEF w, d
    <2> QED
      BY <2>a, <2>b, <2>d, <1>sel DEF Position
  <1>ready. ReadyInv'
    BY <1>sel, <1>here DEF ReadyInv
  <1>idle. PendingInv' /\ RunningInv' /\ PioReadInv' /\ PioWriteInv'
    BY <1>sel, <1>here DEF PendingInv, RunningInv, PioReadInv, PioWriteInv
  <1>content. ContentInv'
    <2>a. /\ (a \div HeadSize) * HeadSize <= a
          /\ a < (a \div HeadSize) * HeadSize + HeadSize
      <3>a. /\ (a \div HeadSize) * HeadSize + (a % HeadSize) = a
            /\ a \div HeadSize \in Nat /\ a % HeadSize \in 0 .. HeadSize - 1
        BY <1>a, <1>c, Division
      <3> QED
        BY <3>a, <1>c
    <2> QED
      BY <2>a, <1>sel DEF ContentInv, Complete
  <1> QED
    BY <1>data, <1>pos, <1>ready, <1>idle, <1>content DEF ProgressInv

\* the command that is issued to a fresh task file starts from its first sector
LEMMA FreshStart ==
    ASSUME SectorInv, Fresh
    PROVE  /\ Position /\ done = 0 /\ head = driveHead /\ ~Running /\ ~issued
           /\ moved = <<>> /\ written = <<>>
           /\ makeLogical(head, addr) = first_lba
           /\ first_lba \in 0 .. Heads * HeadSize - 1
  <1>a. ~issued /\ ~Running
    BY DEF Fresh, Idle
  <1>b. /\ Position /\ done = 0 /\ head = driveHead /\ moved = <<>> /\ written = <<>>
    BY <1>a DEF SectorInv, ProgressInv, ReadyInv, Active
  <1>c. head * HeadSize + addr \in Int /\ first_lba \in Nat
    BY IdeAssumption DEF SectorInv, DataOK, NumbersOK
  <1>d. makeLogical(head, addr) = first_lba
    BY <1>b, <1>c DEF done, makeLogical
  <1>e. first_lba \in 0 .. Heads * HeadSize - 1
    BY <1>b, <1>c, IdeAssumption DEF Position
  <1> QED
    BY <1>a, <1>b, <1>d, <1>e

LEMMA ReadSectorMoves ==
    ASSUME SectorInv, readSector
    PROVE  DataOK' /\ ProgressInv'
  <1>c. SectorSize \in Nat \ {0}
    BY IdeAssumption
  <1>fresh. /\ Position /\ done = 0 /\ head = driveHead /\ ~Running /\ ~issued
            /\ moved = <<>> /\ written = <<>> /\ makeLogical(head, addr) = first_lba
            /\ first_lba \in 0 .. Heads * HeadSize - 1
    BY FreshStart DEF readSector
  <1>now. /\ issued' = TRUE /\ command' = "read" /\ mode' = "read" /\ sectorpos' = 0
          /\ sector' = Block(first_lba) /\ first' = 0 /\ filepos' = first_lba + 1
          /\ UNCHANGED <<head, addr, driveHead, count, toMem, dma, mSector, first_lba, wanted,
                         moved, written, failed>>
    BY <1>fresh DEF readSector, useDevice, busmaster
  <1>block. /\ sector' \in Seq(Units) /\ Len(sector') = SectorSize
            /\ StartOf(sector', first_lba)
    BY <1>now, <1>fresh, BlockUnits
  <1>data. DataOK'
    <2>a. NumbersOK'
      BY <1>now, <1>fresh, <1>c DEF SectorInv, DataOK, NumbersOK
    <2>b. DmaOK' /\ UnitsOK'
      BY <1>now, <1>block DEF SectorInv, DataOK, DmaOK, UnitsOK
    <2> QED
      BY <2>a, <2>b DEF DataOK
  <1>here. done' = 0 /\ ~Running'
    BY <1>now, <1>fresh DEF done, makeLogical, Running
  <1>pos. Position'
    BY <1>now, <1>here, <1>fresh DEF Position
  <1>read. PioReadInv'
    <2>a. Len(moved') = done' * SectorSize + sectorpos'
      BY <1>now, <1>here, <1>fresh, <1>c
    <2>b. first_lba' + done' = first_lba
      BY <1>now, <1>here, <1>fresh, IdeAssumption
    <2>d. StartOf(sector', first_lba' + done')
      BY <1>block, <2>b
    <2> QED
      BY <2>a, <2>d, <1>now, <1>here, <1>block DEF PioReadInv, StartOf
  <1>other. ReadyInv' /\ PendingInv' /\ RunningInv' /\ PioWriteInv'
    BY <1>now, <1>here DEF ReadyInv, PendingInv, RunningInv, PioWriteInv
  <1>content. ContentInv'
    BY <1>now, <1>fresh DEF SectorInv, ProgressInv, ContentInv, Complete, MovedRight
  <1> QED
    BY <1>data, <1>pos, <1>read, <1>other, <1>content DEF ProgressInv

LEMMA WriteSectorMoves ==
    ASSUME SectorInv, writeSector
    PROVE  DataOK' /\ ProgressInv'
  <1>c. SectorSize \in Nat \ {0}
    BY IdeAssumption
  <1>fresh. /\ Position /\ done = 0 /\ ~Running /\ ~issued /\ moved = <<>> /\ written = <<>>
    BY FreshStart DEF writeSector
  <1>now. /\ issued' = TRUE /\ command' = "write" /\ mode' = "write" /\ sectorpos' = 0
          /\ sector' = <<>>
          /\ UNCHANGED <<head, addr, driveHead, count, toMem, dma, filepos, first, mSector,
                         first_lba, wanted, moved, written, failed>>
    BY DEF writeSector, busmaster, device
  <1>data. DataOK'
    <2>a. NumbersOK'
      BY <1>now, <1>c DEF SectorInv, DataOK, NumbersOK
    <2>b. DmaOK' /\ UnitsOK'
      BY <1>now DEF SectorInv, DataOK, DmaOK, UnitsOK
    <2> QED
      BY <2>a, <2>b DEF DataOK
  <1>here. done' = 0 /\ ~Running'
    BY <1>now, <1>fresh DEF done, makeLogical, Running
  <1>pos. Position'
    BY <1>now, <1>here, <1>fresh DEF Position
  <1>write. PioWriteInv'
    BY <1>now, <1>here, <1>fresh DEF PioWriteInv, StartOf
  <1>other. ReadyInv' /\ PendingInv' /\ RunningInv' /\ PioReadInv'
    BY <1>now, <1>here DEF ReadyInv, PendingInv, RunningInv, PioReadInv
  <1>content. ContentInv'
    BY <1>now, <1>fresh DEF SectorInv, ProgressInv, ContentInv, Complete, WrittenRight
  <1> QED
    BY <1>data, <1>pos, <1>write, <1>other, <1>content DEF ProgressInv

LEMMA FlushMoves ==
    ASSUME SectorInv, flush
    PROVE  DataOK' /\ ProgressInv'
  <1>now. /\ issued' = TRUE /\ wanted' = 0 /\ command' = "flush" /\ first' = 0
          /\ mode = "none" /\ ~Running
          /\ UNCHANGED <<head, addr, driveHead, count, mode, sectorpos, sector, toMem, dma,
                         filepos, mSector, first_lba, moved, written, failed>>
    BY DEF flush, Fresh, Idle, busmaster
  <1>data. DataOK'
    <2>a. NumbersOK'
      BY <1>now, IdeAssumption DEF SectorInv, DataOK, NumbersOK
    <2>b. DmaOK' /\ UnitsOK'
      BY <1>now DEF SectorInv, DataOK, DmaOK, UnitsOK
    <2> QED
      BY <2>a, <2>b DEF DataOK
  <1>here. ~Running'
    BY <1>now DEF Running
  <1>rest. /\ ~Active' /\ ReadyInv' /\ PendingInv' /\ RunningInv' /\ PioReadInv' /\ PioWriteInv'
    BY <1>now, <1>here DEF Active, ReadyInv, PendingInv, RunningInv, PioReadInv, PioWriteInv
  <1>content. ContentInv'
    BY <1>now DEF SectorInv, ProgressInv, ContentInv, Complete
  <1> QED
    BY <1>data, <1>rest, <1>content DEF ProgressInv

-----------------------------------------------------------------------------
\* the transfer is left before it moves anything, or sets out
LeftOut == dma' = dma /\ failed' = TRUE
SetOut == Running' /\ dma'.transfer = SectorSize /\ dma'.table # <<>> /\ failed' = failed

LEMMA DmaHalf ==
    ASSUME DmaOK, NEW table \in Tables, bmide_start_dma(table)
    PROVE  /\ DmaOK'
           /\ mode = "none" => mode' = "dma" /\ dma' = dma /\ failed' = failed
           /\ mode # "none" => mode' = "none" /\ (LeftOut \/ SetOut)
  <1>table. table \in Seq(0 .. RegionMod - 1) /\ table # <<>> /\ RegionMod \in Nat \ {0}
    BY IdeAssumption
  <1>head. Head(table) \in 0 .. RegionMod - 1
    BY <1>table
  <1>region. Region(Head(table)) \in Nat
    BY <1>head, <1>table DEF Region
  <1>size. SectorSize \in Nat \ {0}
    BY IdeAssumption
  <1>wait. CASE mode = "none"
    BY <1>wait DEF bmide_start_dma, DmaOK
  <1>not. CASE mode # "none" /\ LeftOut
    BY <1>not DEF bmide_start_dma, DmaOK, LeftOut
  <1>go. CASE mode # "none" /\ ~LeftOut
    <2>a. mode' = "none" /\ failed' = failed
          /\ dma' = [table |-> table, left |-> Region(Head(table)), transfer |-> SectorSize]
      BY <1>go DEF bmide_start_dma, LeftOut
    <2>b. Running'
      BY <1>go, StartOrWait DEF LeftOut
    <2> QED
      BY <2>a, <2>b, <1>go, <1>table, <1>region, <1>size DEF DmaOK, SetOut
  <1> QED
    BY <1>wait, <1>not, <1>go

\* a transfer that sets out
LEMMA SetsOut ==
    ASSUME done = 0, moved = <<>>, written = <<>>, first_lba \in Nat,
           UNCHANGED <<head, addr, first_lba, moved, written>>,
           dma'.transfer = SectorSize, dma'.table # <<>>, first' = 0, filepos' = first_lba,
           command' = (IF toMem' THEN "readDMA" ELSE "writeDMA")
    PROVE  RunningInv'
  <1>c. SectorSize \in Nat \ {0}
    BY IdeAssumption
  <1>here. done' = 0 /\ gone' = 0
    BY <1>c DEF done, gone, makeLogical
  <1>len. Len(moved') = done' * SectorSize + gone' /\ Len(written') = done'
    BY <1>here, <1>c
  <1>pos. filepos' = first_lba' + done'
    BY <1>here
  <1>buf. Buffered'
    BY <1>here, <1>pos DEF Buffered
  <1> QED
    BY <1>c, <1>len, <1>buf DEF RunningInv

LEMMA CommandMoves ==
    ASSUME SectorInv, NEW read \in BOOLEAN, NEW t \in Tables, commandDMA(read, t)
    PROVE  DataOK' /\ ProgressInv'
  <1>fresh. /\ Position /\ done = 0 /\ ~Running /\ ~issued /\ moved = <<>> /\ written = <<>>
            /\ makeLogical(head, addr) = first_lba
    BY FreshStart DEF commandDMA
  <1>nat. first_lba \in Nat
    BY DEF SectorInv, DataOK, NumbersOK
  <1>now. /\ issued' = TRUE /\ command' = (IF read THEN "readDMA" ELSE "writeDMA")
          /\ first' = 0 /\ filepos' = first_lba
          /\ UNCHANGED <<head, addr, driveHead, count, sectorpos, sector, start, toMem, mSector,
                         first_lba, wanted, moved, written>>
    BY <1>fresh DEF commandDMA, acquire
  <1>half. /\ DmaOK'
           /\ mode = "none" => mode' = "dma" /\ dma' = dma /\ failed' = failed
           /\ mode # "none" => mode' = "none" /\ (LeftOut \/ SetOut)
    BY DmaHalf DEF commandDMA, SectorInv, DataOK
  <1>mode. mode' \in {"none", "dma"}
    BY <1>half
  <1>data. DataOK'
    <2>a. NumbersOK'
      BY <1>now, <1>mode, <1>nat, IdeAssumption DEF SectorInv, DataOK, NumbersOK
    <2>b. UnitsOK'
      BY <1>now DEF SectorInv, DataOK, UnitsOK
    <2> QED
      BY <2>a, <2>b, <1>half DEF DataOK
  <1>here. done' = 0
    BY <1>now, <1>fresh DEF done, makeLogical
  <1>pos. Position'
    BY <1>now, <1>here, <1>fresh DEF Position
  <1>pending. PendingInv'
    BY <1>now, <1>here, <1>fresh DEF PendingInv
  <1>running. RunningInv'
    <2>wait. CASE mode = "none"
      BY <2>wait, <1>half, <1>fresh DEF RunningInv, Running
    <2>not. CASE mode # "none" /\ LeftOut
      BY <2>not, <1>fresh DEF RunningInv, Running, LeftOut
    <2>go. CASE mode # "none" /\ SetOut
      <3>a. start
        BY <2>go, <1>fresh DEF SectorInv, ProgressInv, ReadyInv
      <3>b. toMem' <=> read
        BY <3>a, <1>now DEF commandDMA
      <3>d. command' = (IF toMem' THEN "readDMA" ELSE "writeDMA")
        BY <3>b, <1>now
      <3> QED
        BY <2>go, <3>d, <1>now, <1>fresh, <1>nat, SetsOut DEF SetOut
    <2> QED
      BY <2>wait, <2>not, <2>go, <1>half
  <1>other. ReadyInv' /\ PioReadInv' /\ PioWriteInv'
    BY <1>now, <1>mode DEF ReadyInv, PioReadInv, PioWriteInv
  <1>content. ContentInv'
    <2>a. ~Complete'
      BY <1>half, <1>mode DEF Complete, LeftOut, SetOut
    <2> QED
      BY <2>a, <1>now, <1>fresh DEF SectorInv, ProgressInv, ContentInv, MovedRight, WrittenRight
  <1> QED
    BY <1>data, <1>pos, <1>pending, <1>running, <1>other, <1>content DEF ProgressInv

LEMMA StartBitMoves ==
    ASSUME SectorInv, NEW read \in BOOLEAN, NEW t \in Tables, startDMA(read, t)
    PROVE  DataOK' /\ ProgressInv'
  <1>now. /\ ~Running /\ start' = TRUE /\ toMem' = read
          /\ UNCHANGED <<head, addr, driveHead, count, command, sectorpos, sector, filepos, first,
                         mSector, issued, first_lba, wanted, moved, written>>
    BY DEF startDMA, Idle, device
  <1>half. /\ DmaOK'
           /\ mode = "none" => mode' = "dma" /\ dma' = dma /\ failed' = failed
           /\ mode # "none" => mode' = "none" /\ (LeftOut \/ SetOut)
    BY DmaHalf DEF startDMA, SectorInv, DataOK
  <1>mode. mode' \in {"none", "dma"}
    BY <1>half
  <1>data. DataOK'
    <2>a. NumbersOK'
      BY <1>now, <1>mode DEF SectorInv, DataOK, NumbersOK
    <2>b. UnitsOK'
      BY <1>now DEF SectorInv, DataOK, UnitsOK
    <2> QED
      BY <2>a, <2>b, <1>half DEF DataOK
  <1>nat. first_lba \in Nat
    BY DEF SectorInv, DataOK, NumbersOK
  <1>here. done' = done
    BY <1>now DEF done, makeLogical
  <1>active. ~issued \/ mode = "dma"
    BY DEF startDMA
  <1>pos. Position'
    <2>a. Position
      BY <1>active DEF SectorInv, ProgressInv, Active
    <2> QED
      BY <2>a, <1>now, <1>here DEF Position
  <1>pio. PioReadInv' /\ PioWriteInv'
    BY <1>mode DEF PioReadInv, PioWriteInv
  <1>content. ContentInv'
    <2>a. ~Complete'
      BY <1>half, <1>mode DEF Complete, LeftOut, SetOut
    <2> QED
      BY <2>a, <1>now
      DEF SectorInv, ProgressInv, ContentInv, MovedRight, WrittenRight, Block
  <1>first. CASE ~issued
    <2>a. mode = "none" /\ done = 0 /\ head = driveHead /\ moved = <<>> /\ written = <<>>
      BY <1>first DEF startDMA, SectorInv, ProgressInv, ReadyInv
    <2>b. mode' = "dma" /\ ~Running'
      BY <2>a, <1>half, <1>now DEF Running
    <2>d. ReadyInv' /\ PendingInv' /\ RunningInv'
      BY <2>a, <2>b, <1>first, <1>now, <1>here DEF ReadyInv, PendingInv, RunningInv
    <2> QED
      BY <2>d, <1>data, <1>pos, <1>pio, <1>content DEF ProgressInv
  <1>second. CASE issued
    <2>a. /\ mode = "dma" /\ command = (IF read THEN "readDMA" ELSE "writeDMA")
          /\ done = 0 /\ moved = <<>> /\ written = <<>> /\ filepos = first_lba /\ first = 0
      BY <1>second DEF startDMA, SectorInv, ProgressInv, PendingInv
    <2>b. RunningInv'
      <3>not. CASE LeftOut
        BY <3>not, <1>now DEF RunningInv, Running, LeftOut
      <3>go. CASE SetOut
        BY <3>go, <2>a, <1>now, <1>nat, SetsOut DEF SetOut
      <3> QED
        BY <3>not, <3>go, <2>a, <1>half
    <2>d. ReadyInv' /\ PendingInv'
      BY <2>a, <1>second, <1>now, <1>half DEF ReadyInv, PendingInv
    <2> QED
      BY <2>b, <2>d, <1>data, <1>pos, <1>pio, <1>content DEF ProgressInv
  <1> QED
    BY <1>first, <1>second

-----------------------------------------------------------------------------
\* within the sectors of a command, the head register never returns to where it was
LEMMA HeadStays ==
    ASSUME InRange, NumbersOK, Position, incAddress, UNCHANGED <<first_lba, wanted>>,
           driveHead * HeadSize <= first_lba, first_lba < driveHead * HeadSize + HeadSize,
           head' = driveHead
    PROVE  head = driveHead
  <1>c. /\ HeadSize \in Nat \ {0} /\ Heads \in Nat \ {0} /\ CountMod \in Nat
        /\ CountMod <= HeadSize
    BY IdeAssumption DEF InRange
  <1>t. /\ done \in Nat /\ wanted \in Nat /\ first_lba \in Nat /\ done < wanted
        /\ wanted <= CountMod /\ first_lba + wanted <= Heads * HeadSize
    BY <1>c DEF Position, NumbersOK
  <1>h. /\ head \in 0 .. Heads - 1 /\ driveHead \in 0 .. Heads - 1 /\ addr \in 0 .. HeadSize - 1
        /\ head \in Int /\ driveHead \in Int /\ addr \in Int
    BY <1>c DEF NumbersOK
  <1>logical. head * HeadSize + addr = first_lba + done
    <2>a. head * HeadSize + addr \in Int
      BY <1>h, <1>c
    <2> QED
      BY <1>t, <2>a DEF done, makeLogical
  <1> DEFINE cur == first_lba + done + 1
  <1>inc. head' = (cur \div HeadSize) % Heads
    BY <1>logical DEF incAddress, makeLogical
  <1>prod. Heads * HeadSize \in Nat /\ driveHead * HeadSize \in Nat
    BY <1>c, <1>h
  <1>cur. cur \in Nat /\ cur <= Heads * HeadSize
    BY <1>t, <1>prod
  <1>below. driveHead <= head
    <2>a. driveHead * HeadSize + 0 <= head * HeadSize + addr
      BY <1>logical, <1>t, <1>prod
    <2> QED
      BY <2>a, <1>h, <1>c, DigitOrder
  <1>inside. CASE cur < Heads * HeadSize
    <2>a. /\ cur \div HeadSize \in 0 .. Heads - 1 /\ cur % HeadSize \in 0 .. HeadSize - 1
          /\ makeLogical(cur \div HeadSize, cur % HeadSize) = cur
      BY <1>inside, <1>cur, <1>prod, Digits
    <2>b. (cur \div HeadSize) % Heads = cur \div HeadSize
      BY <2>a, <1>c
    <2>d. cur \div HeadSize = driveHead
      BY <2>b, <1>inc
    <2>e. head * HeadSize + addr <= driveHead * HeadSize + (cur % HeadSize)
      <3>a. driveHead * HeadSize + (cur % HeadSize) = cur
        BY <2>a, <2>d DEF makeLogical
      <3> QED
        BY <3>a, <1>logical, <1>t
    <2>f. head <= driveHead
      BY <2>e, <2>a, <1>h, <1>c, DigitOrder
    <2> QED
      BY <2>f, <1>below, <1>h
  <1>end. CASE cur = Heads * HeadSize
    <2>a. (Heads * HeadSize) \div HeadSize = Heads
      BY <1>c
    <2>b. Heads % Heads = 0
      BY <1>c
    <2>d. driveHead = 0
      BY <2>a, <2>b, <1>inc, <1>end
    <2>e. Heads * HeadSize < 2 * HeadSize
      <3>a. driveHead * HeadSize = 0
        BY <2>d, <1>c
      <3> QED
        BY <3>a, <1>end, <1>t, <1>c, <1>prod
    <2>f. ~(2 <= Heads)
      BY <2>e, <1>c, ProductOrder
    <2> QED
      BY <2>d, <2>f, <1>h, <1>c
  <1> QED
    BY <1>inside, <1>end, <1>cur, <1>prod

LEMMA OneMoreUnit ==
    ASSUME UnitsOK, NEW x \in Units, moved' = Append(moved, x),
           first_lba' = first_lba, first_lba \in Nat
    PROVE  /\ moved' \in Seq(Units) /\ Len(moved') = Len(moved) + 1
           /\ MovedRight /\ x = first_lba * SectorSize + Len(moved) => MovedRight'
  <1>m. moved \in Seq(Units)
    BY DEF UnitsOK
  <1>seq. moved' \in Seq(Units) /\ Len(moved') = Len(moved) + 1
    BY <1>m
  <1>right. ASSUME MovedRight, x = first_lba * SectorSize + Len(moved) PROVE MovedRight'
    <2>a. first_lba * SectorSize \in Int /\ SectorSize \in Nat
      BY IdeAssumption
    <2>b. moved' = moved \o <<x>> /\ <<x>> \in Seq(Units)
      BY <1>m
    <2>d. x \in Int
      BY <1>right, <1>m, <2>a
    <2>e. UnitsFrom(<<x>>, x)
      BY <2>d DEF UnitsFrom
    <2> QED
      BY <2>b, <2>d, <2>e, <1>right, MovesOn
  <1> QED
    BY <1>seq, <1>right

LEMMA LogicalInRange ==
    ASSUME NEW h \in 0 .. Heads - 1, NEW a \in 0 .. HeadSize - 1
    PROVE  makeLogical(h, a) \in 0 .. Heads * HeadSize - 1
  <1>c. HeadSize \in Nat \ {0} /\ Heads \in Nat \ {0}
    BY IdeAssumption
  <1>h. h \in Nat /\ h <= Heads - 1 /\ a \in Nat /\ a <= HeadSize - 1
    BY <1>c
  <1> DEFINE p == h * HeadSize
             q == Heads * HeadSize
  <1>a. p <= (Heads - 1) * HeadSize
    BY <1>h, <1>c, ProductOrder
  <1>b. (Heads - 1) * HeadSize = q - HeadSize /\ p \in Nat /\ q \in Nat
    BY <1>h, <1>c
  <1> HIDE DEF p, q
  <1>d. p + a \in 0 .. q - 1
    BY <1>a, <1>b, <1>h, <1>c
  <1> QED
    BY <1>d DEF makeLogical, p, q

LEMMA ReadDataMoves ==
    ASSUME SectorInv, InRange, readData
    PROVE  DataOK' /\ ProgressInv'
  <1>c. SectorSize \in Nat \ {0} /\ HeadSize \in Nat \ {0} /\ Heads \in Nat \ {0}
    BY IdeAssumption
  <1>mode. mode = "read" /\ command = "read"
    BY DEF readData, SectorInv, DeviceInv
  <1>pos. Position
    BY <1>mode DEF SectorInv, ProgressInv, Active
  <1>pio. /\ issued /\ ~Running /\ Len(sector) = SectorSize
          /\ Len(moved) = done * SectorSize + sectorpos
          /\ head = driveHead => StartOf(sector, first_lba + done)
    BY <1>mode DEF SectorInv, ProgressInv, PioReadInv
  <1>types. NumbersOK /\ DmaOK /\ UnitsOK
    BY DEF SectorInv, DataOK
  <1>nums. /\ sectorpos \in 0 .. SectorSize - 1 /\ first_lba \in Nat /\ done \in Nat
           /\ wanted \in Nat /\ wanted \in 0 .. CountMod /\ driveHead \in 0 .. Heads - 1
           /\ done < wanted
    BY <1>types, <1>pos, IdeAssumption DEF NumbersOK, Position
  <1>same. /\ UNCHANGED <<driveHead, toMem, dma, issued, first_lba, wanted, written, failed,
                          command, start>>
           /\ moved' = Append(moved, sector[sectorpos + 1])
           /\ sectorpos' = (sectorpos + 1) % SectorSize
    BY DEF readData, busmaster
  <1>idle. ~Running'
    BY <1>same, <1>pio DEF Running
  <1>unit. sector[sectorpos + 1] \in Units
    <2>a. sectorpos + 1 \in 1 .. Len(sector)
      BY <1>nums, <1>pio, <1>c
    <2> QED
      BY <2>a, <1>types DEF UnitsOK
  <1>value. ASSUME head = driveHead
            PROVE  sector[sectorpos + 1] = first_lba * SectorSize + Len(moved)
    <2>a. sectorpos + 1 \in 1 .. Len(sector)
      BY <1>nums, <1>pio, <1>c
    <2>b. sector[sectorpos + 1] = (first_lba + done) * SectorSize + (sectorpos + 1) - 1
      BY <2>a, <1>value, <1>pio DEF StartOf
    <2>d. (first_lba + done) * SectorSize = first_lba * SectorSize + done * SectorSize
      BY <1>nums, <1>c
    <2>e. first_lba * SectorSize \in Int /\ done * SectorSize \in Int
      BY <1>nums, <1>c
    <2> QED
      BY <2>b, <2>d, <2>e, <1>nums, <1>pio
  <1>moved. /\ moved' \in Seq(Units) /\ Len(moved') = Len(moved) + 1
            /\ head = driveHead => MovedRight'
    <2>a. head = driveHead => MovedRight
      BY <1>mode, <1>pio DEF SectorInv, ProgressInv, ContentInv
    <2> QED
      BY <2>a, <1>types, <1>unit, <1>value, <1>same, <1>nums, OneMoreUnit
  <1>place. /\ driveHead * HeadSize <= first_lba
            /\ first_lba < driveHead * HeadSize + HeadSize
    BY DEF SectorInv, ProgressInv, ContentInv
  <1>more. CASE sectorpos + 1 < SectorSize
    <2>now. UNCHANGED <<head, addr, count, mode, drq, sector, filepos, first, mSector>>
      BY <1>more DEF readData, device
    <2>sp. sectorpos' = sectorpos + 1
      BY <1>more, <1>nums, <1>same, <1>c
    <2>here. done' = done
      BY <2>now, <1>same DEF done, makeLogical
    <2>numbers. NumbersOK'
      BY <2>now, <2>sp, <1>more, <1>nums, <1>same, <1>types, <1>c DEF NumbersOK
    <2>units. DmaOK' /\ UnitsOK'
      BY <2>now, <1>same, <1>types, <1>moved DEF DmaOK, UnitsOK
    <2>pos. Position'
      BY <2>now, <2>here, <1>same, <1>pos DEF Position
    <2>len. Len(moved') = done' * SectorSize + sectorpos'
      <3>a. done * SectorSize \in Int
        BY <1>nums, <1>c
      <3> QED
        BY <3>a, <2>sp, <2>here, <1>moved, <1>pio, <1>nums
    <2>read. PioReadInv'
      BY <2>now, <2>here, <2>len, <1>same, <1>pio, <1>mode, <1>idle DEF PioReadInv, StartOf
    <2>other. ReadyInv' /\ PendingInv' /\ RunningInv' /\ PioWriteInv'
      BY <2>now, <1>same, <1>pio, <1>mode, <1>idle
      DEF ReadyInv, PendingInv, RunningInv, PioWriteInv
    <2>content. ContentInv'
      BY <2>now, <1>same, <1>mode, <1>moved, <1>place DEF ContentInv, Complete
    <2> QED
      BY <2>numbers, <2>units, <2>pos, <2>read, <2>other, <2>content DEF DataOK, ProgressInv
  <1>next. CASE ~(sectorpos + 1 < SectorSize)
    <2>sp. sectorpos + 1 = SectorSize /\ sectorpos' = 0
      <3>a. sectorpos + 1 = SectorSize
        BY <1>next, <1>nums, <1>c
      <3> QED
        BY <3>a, <1>same, <1>c
    <2>inc. incAddress
      BY <1>next DEF readData
    <2>past. /\ head' \in 0 .. Heads - 1 /\ addr' \in 0 .. HeadSize - 1
             /\ count' \in 0 .. CountMod - 1
             /\ count' = 0 <=> done + 1 = wanted
             /\ done + 1 < wanted => Position' /\ done' = done + 1
      BY <2>inc, <1>types, <1>pos, <1>same, OnePast
    <2>head. head' = driveHead' => head = driveHead
      BY <2>inc, <1>types, <1>pos, <1>same, <1>place, HeadStays
    <2>right. head' = driveHead' => MovedRight'
      BY <2>head, <1>moved
    <2>len. Len(moved') = (done + 1) * SectorSize
      <3>a. (done + 1) * SectorSize = done * SectorSize + SectorSize
            /\ done * SectorSize \in Int
        BY <1>nums, <1>c
      <3> QED
        BY <3>a, <2>sp, <1>moved, <1>pio, <1>nums, <1>c
    <2>go. CASE count' # 0
      <3> DEFINE b == makeLogical(driveHead, addr')
      <3>now. /\ sector' = Block(b) /\ first' = 0 /\ filepos' = b + 1
              /\ UNCHANGED <<mode, drq, mSector>>
        BY <1>next, <2>go DEF readData, useDevice
      <3>on. Position' /\ done' = done + 1
        BY <2>go, <2>past, <1>nums
      <3>b. b \in 0 .. Heads * HeadSize - 1
        BY <2>past, <1>nums, LogicalInRange
      <3>block. sector' \in Seq(Units) /\ Len(sector') = SectorSize /\ StartOf(sector', b)
        BY <3>now, <3>b, BlockUnits
      <3>numbers. NumbersOK'
        <4>a. filepos' \in Nat
          BY <3>now, <3>b, <1>c
        <4> QED
          BY <4>a, <3>now, <2>past, <2>sp, <1>same, <1>types, <1>c DEF NumbersOK
      <3>units. DmaOK' /\ UnitsOK'
        BY <3>now, <3>block, <1>same, <1>types, <1>moved DEF DmaOK, UnitsOK
      <3>start. head' = driveHead' => StartOf(sector', first_lba' + done')
        <4> SUFFICES ASSUME head' = driveHead' PROVE StartOf(sector', first_lba' + done')
          OBVIOUS
        <4>a. b = first_lba + done'
          <5>a. done' = b - first_lba
            BY <1>same DEF done
          <5>b. b \in Int
            BY <3>b, <1>c
          <5> QED
            BY <5>a, <5>b, <1>nums
        <4> QED
          BY <4>a, <3>block, <1>same
      <3>lenOn. Len(moved') = done' * SectorSize + sectorpos'
        <4>a. (done + 1) * SectorSize \in Int
          BY <1>nums, <1>c
        <4> QED
          BY <4>a, <3>on, <2>len, <2>sp
      <3>read. PioReadInv'
        BY <3>now, <3>start, <3>lenOn, <3>block, <1>same, <1>pio, <1>mode, <1>idle
        DEF PioReadInv, StartOf
      <3>other. ReadyInv' /\ PendingInv' /\ RunningInv' /\ PioWriteInv'
        BY <3>now, <1>same, <1>pio, <1>mode, <1>idle
        DEF ReadyInv, PendingInv, RunningInv, PioWriteInv
      <3>content. ContentInv'
        BY <3>now, <2>right, <1>same, <1>mode, <1>place DEF ContentInv, Complete
      <3> QED
        BY <3>on, <3>numbers, <3>units, <3>read, <3>other, <3>content DEF DataOK, ProgressInv
    <2>end. CASE count' = 0
      <3>now. /\ mode' = "none"
              /\ UNCHANGED <<sector, filepos, first, mSector>>
        BY <1>next, <2>end DEF readData, device
      <3>all. Len(moved') = wanted' * SectorSize
        BY <2>end, <2>past, <2>len, <1>same
      <3>numbers. NumbersOK'
        BY <3>now, <2>past, <2>sp, <1>same, <1>types, <1>c DEF NumbersOK
      <3>units. DmaOK' /\ UnitsOK'
        BY <3>now, <1>same, <1>types, <1>moved DEF DmaOK, UnitsOK
      <3>other. ~Active' /\ ReadyInv' /\ PendingInv' /\ RunningInv' /\ PioReadInv' /\ PioWriteInv'
        BY <3>now, <1>same, <1>pio, <1>idle
        DEF Active, ReadyInv, PendingInv, RunningInv, PioReadInv, PioWriteInv
      <3>content. ContentInv'
        BY <3>all, <2>right, <1>same, <1>mode, <1>place DEF ContentInv, Complete
      <3> QED
        BY <3>numbers, <3>units, <3>other, <3>content DEF DataOK, ProgressInv
    <2> QED
      BY <2>go, <2>end
  <1> QED
    BY <1>more, <1>next

-----------------------------------------------------------------------------
\* the next unit of a sector
LEMMA StartGrows ==
    ASSUME NEW s \in Seq(Units), NEW b \in 0 .. Heads * HeadSize - 1, StartOf(s, b),
           Len(s) < SectorSize
    PROVE  LET t == Append(s, b * SectorSize + Len(s)) IN
             t \in Seq(Units) /\ Len(t) = Len(s) + 1 /\ StartOf(t, b)
  <1>c. SectorSize \in Nat \ {0} /\ b \in Nat
    BY IdeAssumption
  <1> DEFINE x == b * SectorSize + Len(s)
             t == Append(s, x)
  <1>len. Len(s) \in 0 .. SectorSize - 1
    BY <1>c
  <1>x. x \in Units
    BY <1>len, UnitOfSector
  <1>prod. b * SectorSize \in Nat
    BY <1>c
  <1> HIDE DEF x
  <1>seq. t \in Seq(Units) /\ Len(t) = Len(s) + 1
    BY <1>x
  <1>at. ASSUME NEW i \in 1 .. Len(t) PROVE t[i] = b * SectorSize + i - 1
    <2>old. CASE i <= Len(s)
      BY <2>old, <1>x DEF StartOf
    <2>new. CASE i = Len(s) + 1
      <3>a. t[i] = x
        BY <2>new, <1>x
      <3>b. x = b * SectorSize + i - 1
        BY <2>new, <1>prod, <1>len, <1>c DEF x
      <3> QED
        BY <3>a, <3>b
    <2> QED
      BY <2>old, <2>new, <1>seq
  <1> QED
    BY <1>seq, <1>at DEF StartOf, x

LEMMA LogicalNow ==
    ASSUME NumbersOK, Position
    PROVE  /\ makeLogical(head, addr) = first_lba + done
           /\ first_lba + done \in 0 .. Heads * HeadSize - 1
           /\ done \in Nat /\ wanted \in Nat /\ first_lba \in Nat /\ done < wanted
  <1>c. /\ HeadSize \in Nat \ {0} /\ Heads \in Nat \ {0} /\ CountMod \in Nat
        /\ Heads * HeadSize \in Nat
    BY IdeAssumption
  <1>t. /\ done \in Nat /\ wanted \in Nat /\ first_lba \in Nat /\ done < wanted
        /\ first_lba + wanted <= Heads * HeadSize
    BY <1>c DEF Position, NumbersOK
  <1>a. head * HeadSize + addr \in Int
    BY <1>c DEF NumbersOK
  <1>b. makeLogical(head, addr) = first_lba + done
    BY <1>t, <1>a DEF done, makeLogical
  <1>d. first_lba + done \in 0 .. Heads * HeadSize - 1
    BY <1>t, <1>c
  <1> QED
    BY <1>b, <1>d, <1>t

LEMMA WriteDataMoves ==
    ASSUME SectorInv, writeData
    PROVE  DataOK' /\ ProgressInv'
  <1>c. SectorSize \in Nat \ {0}
    BY IdeAssumption
  <1>mode. mode = "write" /\ command = "write"
    BY DEF writeData
  <1>pos. Position
    BY <1>mode DEF SectorInv, ProgressInv, Active
  <1>pio. /\ issued /\ ~Running /\ Len(written) = done /\ Len(sector) = sectorpos
          /\ StartOf(sector, first_lba + done)
    BY <1>mode DEF SectorInv, ProgressInv, PioWriteInv
  <1>types. NumbersOK /\ DmaOK /\ UnitsOK
    BY DEF SectorInv, DataOK
  <1> DEFINE b == first_lba + done
             unit == first_lba * SectorSize + Len(written) * SectorSize + sectorpos
  <1>logical. /\ makeLogical(head, addr) = b /\ b \in 0 .. Heads * HeadSize - 1
              /\ done \in Nat /\ wanted \in Nat /\ first_lba \in Nat /\ done < wanted
    BY <1>types, <1>pos, LogicalNow
  <1>sp. sectorpos \in 0 .. SectorSize - 1
    BY <1>types DEF NumbersOK
  <1>same. /\ UNCHANGED <<driveHead, toMem, dma, issued, first_lba, wanted, moved, failed,
                          command, start>>
           /\ sectorpos' = (sectorpos + 1) % SectorSize
    BY DEF writeData, busmaster
  <1>idle. ~Running'
    BY <1>same, <1>pio DEF Running
  <1>unit. unit = b * SectorSize + Len(sector)
    <2>a. b * SectorSize = first_lba * SectorSize + done * SectorSize
      BY <1>logical, <1>c
    <2> QED
      BY <2>a, <1>pio
  <1>grown. /\ Append(sector, unit) \in Seq(Units)
            /\ Len(Append(sector, unit)) = sectorpos + 1
            /\ StartOf(Append(sector, unit), b)
    <2>a. sector \in Seq(Units) /\ Len(sector) < SectorSize
      BY <1>types, <1>pio, <1>sp, <1>c DEF UnitsOK
    <2>b. LET t == Append(sector, b * SectorSize + Len(sector)) IN
            t \in Seq(Units) /\ Len(t) = Len(sector) + 1 /\ StartOf(t, b)
      BY <2>a, <1>logical, <1>pio, StartGrows
    <2> QED
      BY <2>b, <1>unit, <1>pio
  <1>content. /\ driveHead * HeadSize <= first_lba
              /\ first_lba < driveHead * HeadSize + HeadSize
              /\ WrittenRight
    BY <1>mode, <1>pio DEF SectorInv, ProgressInv, ContentInv
  <1>more. CASE sectorpos + 1 < SectorSize
    <2>now. /\ sector' = Append(sector, unit)
            /\ UNCHANGED <<head, addr, count, mode, drq, filepos, first, mSector, written>>
      BY <1>more DEF writeData, device
    <2>sp. sectorpos' = sectorpos + 1
      BY <1>more, <1>sp, <1>same, <1>c
    <2>here. done' = done
      BY <2>now, <1>same DEF done, makeLogical
    <2>numbers. NumbersOK'
      BY <2>now, <2>sp, <1>more, <1>sp, <1>same, <1>types, <1>c DEF NumbersOK
    <2>units. DmaOK' /\ UnitsOK'
      BY <2>now, <1>same, <1>types, <1>grown DEF DmaOK, UnitsOK
    <2>pos. Position'
      BY <2>now, <2>here, <1>same, <1>pos DEF Position
    <2>write. PioWriteInv'
      <3>a. StartOf(sector', first_lba' + done')
        BY <2>now, <2>here, <1>same, <1>grown
      <3>b. Len(sector') = sectorpos'
        BY <2>now, <2>sp, <1>grown
      <3> QED
        BY <2>now, <2>here, <3>a, <3>b, <1>same, <1>pio, <1>mode, <1>idle
        DEF PioWriteInv, StartOf
    <2>other. ReadyInv' /\ PendingInv' /\ RunningInv' /\ PioReadInv'
      BY <2>now, <1>same, <1>pio, <1>mode, <1>idle
      DEF ReadyInv, PendingInv, RunningInv, PioReadInv
    <2>content. ContentInv'
      BY <2>now, <1>same, <1>mode, <1>content DEF ContentInv, Complete, WrittenRight, Block
    <2> QED
      BY <2>numbers, <2>units, <2>pos, <2>write, <2>other, <2>content DEF DataOK, ProgressInv
  <1>next. CASE ~(sectorpos + 1 < SectorSize)
    <2>sp. sectorpos + 1 = SectorSize /\ sectorpos' = 0
      <3>a. sectorpos + 1 = SectorSize
        BY <1>next, <1>sp, <1>c
      <3> QED
        BY <3>a, <1>same, <1>c
    <2>now. /\ incAddress /\ sector' = <<>>
            /\ first' = 0 /\ filepos' = b + 1 /\ mSector' = mSector
            /\ written' = Append(written, [at |-> b, units |-> Append(sector, unit)])
            /\ mode' = IF count' # 0 THEN "write" ELSE "none"
      BY <1>next, <1>logical DEF writeData, useDevice
    <2>past. /\ head' \in 0 .. Heads - 1 /\ addr' \in 0 .. HeadSize - 1
             /\ count' \in 0 .. CountMod - 1
             /\ count' = 0 <=> done + 1 = wanted
             /\ done + 1 < wanted => Position' /\ done' = done + 1
      BY <2>now, <1>types, <1>pos, <1>same, OnePast
    <2>whole. Append(sector, unit) = Block(b)
      <3>a. b \in Int
        BY <1>logical, IdeAssumption
      <3> QED
        BY <3>a, <2>sp, <1>grown, WholeSector
    <2>block. /\ WrittenRight' /\ Len(written') = done + 1
              /\ written' \in Seq([at : Nat, units : Seq(Units)])
      <3>a. b = first_lba + Len(written)
        BY <1>pio
      <3> QED
        BY <3>a, <2>now, <2>whole, <1>types, <1>content, <1>logical, <1>same, <1>pio,
           OneMoreWritten
    <2>numbers. NumbersOK'
      <3>a. filepos' \in Nat /\ first' \in 0 .. SectorSize
        BY <2>now, <1>logical, <1>c
      <3>b. mode' \in {"none", "read", "write", "dma"}
        BY <2>now
      <3> QED
        BY <3>a, <3>b, <2>past, <2>sp, <1>same, <1>types, <1>c DEF NumbersOK
    <2>units. DmaOK' /\ UnitsOK'
      BY <2>now, <2>block, <1>same, <1>types DEF DmaOK, UnitsOK
    <2>other. ReadyInv' /\ PendingInv' /\ RunningInv' /\ PioReadInv'
      BY <2>now, <1>same, <1>pio, <1>idle
      DEF ReadyInv, PendingInv, RunningInv, PioReadInv
    <2>go. CASE count' # 0
      <3>on. Position' /\ done' = done + 1 /\ mode' = "write"
        BY <2>go, <2>past, <2>now, <1>logical
      <3>write. PioWriteInv'
        BY <3>on, <2>now, <2>block, <2>sp, <1>same, <1>pio, <1>mode, <1>idle
        DEF PioWriteInv, StartOf
      <3>content. ContentInv'
        BY <3>on, <2>block, <1>same, <1>mode, <1>content DEF ContentInv, Complete
      <3> QED
        BY <3>on, <3>write, <3>content, <2>numbers, <2>units, <2>other DEF DataOK, ProgressInv
    <2>end. CASE count' = 0
      <3>now. mode' = "none" /\ Len(written') = wanted'
        BY <2>end, <2>past, <2>now, <2>block, <1>same
      <3>write. PioWriteInv' /\ ~Active'
        BY <3>now, <1>same, <1>pio, <1>idle DEF PioWriteInv, Active
      <3>content. ContentInv'
        BY <3>now, <2>block, <1>same, <1>mode, <1>content DEF ContentInv, Complete
      <3> QED
        BY <3>write, <3>content, <2>numbers, <2>units, <2>other DEF DataOK, ProgressInv
    <2> QED
      BY <2>go, <2>end
  <1> QED
    BY <1>more, <1>next

-----------------------------------------------------------------------------
LEMMA PartFacts ==
    ASSUME NumbersOK, NEW n \in 0 .. SectorSize
    PROVE  /\ first \in {0, SectorSize} => part(n) = 0
           /\ first \in 1 .. SectorSize - 1 /\ n <= SectorSize - first => part(n) = n
  <1>c. SectorSize \in Nat \ {0} /\ first \in 0 .. SectorSize
    BY IdeAssumption DEF NumbersOK
  <1>a. first \in {0, SectorSize} => part(n) = 0
    BY <1>c DEF part
  <1>b. first \in 1 .. SectorSize - 1 /\ n <= SectorSize - first => part(n) = n
    BY <1>c DEF part, lesser
  <1> QED
    BY <1>a, <1>b

LEMMA EmptyPart ==
    ASSUME NEW s \in Seq(Units), NEW m \in Nat
    PROVE  SubSeq(s, m + 1, m) = <<>>
  OBVIOUS

LEMMA NothingMore ==
    ASSUME NEW s \in Seq(Units)
    PROVE  s \o <<>> = s
  OBVIOUS

\* units of the disk that reach the guest's memory, from the position on
LEMMA FetchedRight ==
    ASSUME UnitsOK, MovedRight, first_lba \in Nat, done \in Nat, gone \in Nat,
           Len(moved) = done * SectorSize + gone, first_lba' = first_lba,
           NEW b \in 0 .. Heads * HeadSize - 1, b = first_lba + done,
           NEW s \in Seq(Units), StartOf(s, b), NEW n \in Nat, gone + n <= Len(s),
           moved' = moved \o SubSeq(s, gone + 1, gone + n)
    PROVE  moved' \in Seq(Units) /\ Len(moved') = Len(moved) + n /\ MovedRight'
  <1>c. SectorSize \in Nat \ {0} /\ b \in Int
    BY IdeAssumption
  <1>g. PICK g \in Nat : g = gone
    OBVIOUS
  <1>x. PICK x \in Int : x = b * SectorSize + g
    BY <1>c
  <1>fit. g + n <= Len(s)
    BY <1>g
  <1>sub. /\ Cut(s, g, n) \in Seq(Units) /\ Len(Cut(s, g, n)) = n
          /\ UnitsFrom(Cut(s, g, n), x)
    BY <1>c, <1>fit, <1>x, PartOfSector
  <1>new. PICK new \in Seq(Units) : new = Cut(s, g, n)
    BY <1>sub
  <1>values. Len(new) = n /\ UnitsFrom(new, x)
    BY <1>sub, <1>new
  <1>m. moved \in Seq(Units) /\ moved' = moved \o new
    BY <1>g, <1>new DEF UnitsOK, Cut
  <1>sum. x = first_lba * SectorSize + Len(moved)
    <2>a. b * SectorSize = first_lba * SectorSize + done * SectorSize
      BY <1>c
    <2>b. first_lba * SectorSize \in Int /\ done * SectorSize \in Int
      BY <1>c
    <2> QED
      BY <2>a, <2>b, <1>g, <1>x
  <1>right. MovedRight'
    BY <1>m, <1>values, <1>sum, MovesOn
  <1>long. moved' \in Seq(Units) /\ Len(moved') = Len(moved) + n
    BY <1>values, <1>m, Longer, Zenon
  <1> QED
    BY <1>long, <1>right

LEMMA DeviceReads ==
    ASSUME NumbersOK, UnitsOK, Position, MovedRight, Buffered, toMem,
           dma.transfer \in 1 .. SectorSize, Len(moved) = done * SectorSize + gone,
           NEW n \in 0 .. dma.transfer, deviceRead(n), first_lba' = first_lba
    PROVE  /\ moved' \in Seq(Units) /\ Len(moved') = Len(moved) + n /\ MovedRight'
           /\ mSector' \in Seq(Units) /\ written' = written
           /\ gone + n \in {0, SectorSize} =>
                /\ first' \in {0, SectorSize}
                /\ filepos' = first_lba + done + (IF n = 0 THEN 0 ELSE 1)
           /\ gone + n \notin {0, SectorSize} =>
                /\ first' = gone + n /\ filepos' = first_lba + done + 1
                /\ StartOf(mSector', first_lba + done) /\ Len(mSector') = SectorSize
  <1> DEFINE b == first_lba + done
  <1>c. SectorSize \in Nat \ {0}
    BY IdeAssumption
  <1>b. /\ b \in 0 .. Heads * HeadSize - 1 /\ b \in Nat
        /\ done \in Nat /\ first_lba \in Nat
    BY LogicalNow
  <1>g. gone \in 0 .. SectorSize - 1 /\ n \in 0 .. SectorSize - gone /\ n \in 0 .. SectorSize
        /\ gone \in Nat /\ n \in Nat
    BY <1>c DEF gone
  <1>types. mSector \in Seq(Units) /\ moved \in Seq(Units)
    BY DEF UnitsOK
  <1>block. Block(b) \in Seq(Units) /\ Len(Block(b)) = SectorSize /\ StartOf(Block(b), b)
    BY <1>b, BlockUnits
  <1>new. CASE gone = 0
    <2>a. first \in {0, SectorSize} /\ filepos = b
      BY <1>new DEF Buffered
    <2>p. part(n) = 0
      BY <2>a, <1>g, PartFacts
    <2>f. first \in Nat /\ n - 0 = n /\ first + 0 = first
      BY <2>a, <1>c, <1>g
    <2>x. /\ moved' = moved \o SubSeq(mSector, first + 1, first) \o SubSeq(Block(b), 1, n)
          /\ filepos' = (IF n > 0 THEN b + 1 ELSE b)
          /\ mSector' = (IF n > 0 /\ n < SectorSize THEN Block(b) ELSE mSector)
          /\ first' = (IF n > 0 /\ n < SectorSize THEN n ELSE first)
          /\ written' = written
      BY <2>a, <2>p, <2>f DEF deviceRead
    <2>empty. SubSeq(mSector, first + 1, first) = <<>>
      BY <2>f, <1>types, EmptyPart
    <2>cat. moved' = moved \o SubSeq(Block(b), gone + 1, gone + n)
      <3>a. gone + 1 = 1 /\ gone + n = n
        BY <1>new, <1>g
      <3>b. moved \o <<>> = moved
        BY <1>types
      <3> QED
        BY <2>x, <2>empty, <3>a, <3>b
    <2>moved. moved' \in Seq(Units) /\ Len(moved') = Len(moved) + n /\ MovedRight'
      <3>a. gone + n <= Len(Block(b))
        BY <1>g, <1>block, <1>c
      <3> QED
        BY <2>cat, <3>a, <1>b, <1>g, <1>block, FetchedRight
    <2>seq. mSector' \in Seq(Units)
      BY <2>x, <1>types, <1>block
    <2>sum. gone + n = n
      BY <1>new, <1>g
    <2>done. gone + n \in {0, SectorSize} =>
                /\ first' \in {0, SectorSize}
                /\ filepos' = first_lba + done + (IF n = 0 THEN 0 ELSE 1)
      BY <2>x, <2>a, <2>sum, <1>g, <1>b, <1>c
    <2>rest. gone + n \notin {0, SectorSize} =>
                /\ first' = gone + n /\ filepos' = first_lba + done + 1
                /\ StartOf(mSector', first_lba + done) /\ Len(mSector') = SectorSize
      <3> SUFFICES ASSUME n \notin {0, SectorSize}
                   PROVE  /\ first' = n /\ filepos' = b + 1
                          /\ StartOf(mSector', b) /\ Len(mSector') = SectorSize
        BY <2>sum
      <3>a. n > 0 /\ n < SectorSize
        BY <1>g, <1>c
      <3>b. first' = n /\ filepos' = b + 1 /\ mSector' = Block(b)
        BY <2>x, <3>a
      <3> QED
        BY <3>b, <1>block
    <2> QED
      BY <2>moved, <2>seq, <2>x, <2>done, <2>rest
  <1>kept. CASE gone # 0
    <2>a. /\ first = gone /\ StartOf(mSector, b) /\ Len(mSector) = SectorSize
          /\ filepos = b + 1
      BY <1>kept DEF Buffered
    <2>p. part(n) = n
      <3>a. first \in 1 .. SectorSize - 1 /\ n <= SectorSize - first
        BY <2>a, <1>kept, <1>g, <1>c
      <3> QED
        BY <3>a, <1>g, PartFacts
    <2>r. n - n = 0 /\ ~(0 > 0)
      BY <1>g
    <2>x. /\ moved' = moved \o SubSeq(mSector, gone + 1, gone + n) \o SubSeq(Block(b + 1), 1, 0)
          /\ filepos' = b + 1 /\ mSector' = mSector /\ first' = gone + n /\ written' = written
      BY <2>a, <2>p, <2>r DEF deviceRead
    <2>cat. moved' = moved \o SubSeq(mSector, gone + 1, gone + n)
      <3>a. SubSeq(Block(b + 1), 1, 0) = <<>>
        BY DEF Block
      <3>b. SubSeq(mSector, gone + 1, gone + n) \in Seq(Units)
        <4>a. Cut(mSector, gone, n) \in Seq(Units)
          <5>a. b \in Int /\ gone + n <= Len(mSector)
            BY <2>a, <1>g, <1>b, <1>c
          <5> QED
            BY <5>a, <2>a, <1>types, <1>g, PartOfSector
        <4> QED
          BY <4>a DEF Cut
      <3>d. moved \o SubSeq(mSector, gone + 1, gone + n) \in Seq(Units)
        BY <3>b, <1>types
      <3>e. (moved \o SubSeq(mSector, gone + 1, gone + n)) \o <<>>
              = moved \o SubSeq(mSector, gone + 1, gone + n)
        BY <3>d, NothingMore
      <3> QED
        BY <2>x, <3>a, <3>e
    <2>moved. moved' \in Seq(Units) /\ Len(moved') = Len(moved) + n /\ MovedRight'
      <3>a. gone + n <= Len(mSector)
        BY <1>g, <2>a, <1>c
      <3> QED
        BY <2>cat, <2>a, <3>a, <1>types, <1>b, <1>g, FetchedRight
    <2>done. gone + n \in {0, SectorSize} =>
                /\ first' \in {0, SectorSize}
                /\ filepos' = first_lba + done + (IF n = 0 THEN 0 ELSE 1)
      BY <2>x, <1>kept, <1>g, <1>b, <1>c
    <2> QED
      BY <2>moved, <2>x, <2>a, <2>done, <1>types
  <1> QED
    BY <1>new, <1>kept

-----------------------------------------------------------------------------
\* the n units the guest's memory supplies, from unit x of the disk on
Supplied(x, n) == [i \in 1 .. n |-> x + i - 1]

LEMMA SuppliedUnits ==
    ASSUME NEW b \in 0 .. Heads * HeadSize - 1, NEW g \in Nat, NEW n \in Nat,
           g + n <= SectorSize, NEW x \in Int, x = b * SectorSize + g
    PROVE  /\ Supplied(x, n) \in Seq(Units) /\ Len(Supplied(x, n)) = n
           /\ UnitsFrom(Supplied(x, n), x)
  <1>c. SectorSize \in Nat \ {0} /\ b * SectorSize \in Int
    BY IdeAssumption
  <1>at. ASSUME NEW i \in 1 .. n PROVE x + i - 1 \in Units
    <2>a. g + i - 1 \in 0 .. SectorSize - 1
      BY <1>c
    <2>b. b * SectorSize + (g + i - 1) \in Units
      BY <2>a, UnitOfSector
    <2>d. x + i - 1 = b * SectorSize + (g + i - 1)
      BY <1>c
    <2> QED
      BY <2>b, <2>d
  <1>fun. Supplied(x, n) \in [1 .. n -> Units]
    BY <1>at DEF Supplied
  <1>seq. Supplied(x, n) \in Seq(Units) /\ Len(Supplied(x, n)) = n
    BY <1>fun
  <1> QED
    BY <1>seq DEF UnitsFrom, Supplied

LEMMA Joined ==
    ASSUME NEW s \in Seq(Units), NEW t \in Seq(Units), NEW b \in Int, StartOf(s, b),
           NEW x \in Int, x = b * SectorSize + Len(s), UnitsFrom(t, x)
    PROVE  StartOf(s \o t, b)
  <1>c. SectorSize \in Nat \ {0} /\ b * SectorSize \in Int
    BY IdeAssumption
  <1> SUFFICES ASSUME NEW i \in 1 .. Len(s \o t)
               PROVE  (s \o t)[i] = b * SectorSize + i - 1
    BY DEF StartOf
  <1>old. CASE i <= Len(s)
    BY <1>old, <1>c DEF StartOf
  <1>new. CASE i > Len(s)
    <2>a. (s \o t)[i] = t[i - Len(s)] /\ i - Len(s) \in 1 .. Len(t)
      BY <1>new
    <2>b. t[i - Len(s)] = x + (i - Len(s)) - 1
      BY <2>a DEF UnitsFrom
    <2> QED
      BY <2>a, <2>b, <1>c
  <1> QED
    BY <1>old, <1>new

LEMMA AllOfIt ==
    ASSUME NEW s \in Seq(Units)
    PROVE  SubSeq(s, 1, Len(s)) = s
  OBVIOUS

LEMMA OneRecord ==
    ASSUME UnitsOK, NEW rec
    PROVE  written \o <<rec>> = Append(written, rec)
  BY DEF UnitsOK

LEMMA NoRecord ==
    ASSUME UnitsOK
    PROVE  written \o <<>> = written
  BY DEF UnitsOK

LEMMA DeviceWrites ==
    ASSUME NumbersOK, UnitsOK, Position, WrittenRight, Buffered, ~toMem,
           dma.transfer \in 1 .. SectorSize, Len(moved) = done * SectorSize + gone,
           Len(written) = done,
           NEW n \in 0 .. dma.transfer, deviceWrite(n), first_lba' = first_lba
    PROVE  /\ moved' \in Seq(Units) /\ Len(moved') = Len(moved) + n
           /\ mSector' \in Seq(Units) /\ written' \in Seq([at : Nat, units : Seq(Units)])
           /\ WrittenRight'
           /\ gone + n \in {0, SectorSize} =>
                /\ first' \in {0, SectorSize}
                /\ filepos' = first_lba + done + (IF n = 0 THEN 0 ELSE 1)
                /\ Len(written') = done + (IF n = 0 THEN 0 ELSE 1)
           /\ gone + n \notin {0, SectorSize} =>
                /\ first' = gone + n /\ filepos' = first_lba + done
                /\ StartOf(mSector', first_lba + done) /\ Len(mSector') = gone + n
                /\ Len(written') = done
  <1> DEFINE b == first_lba + done
             Rec(s) == [at |-> b, units |-> s]
  <1>c. SectorSize \in Nat \ {0}
    BY IdeAssumption
  <1>b. /\ b \in 0 .. Heads * HeadSize - 1 /\ b \in Nat /\ b \in Int
        /\ done \in Nat /\ first_lba \in Nat
    BY LogicalNow
  <1>g. /\ gone \in 0 .. SectorSize - 1 /\ n \in 0 .. SectorSize - gone /\ n \in 0 .. SectorSize
        /\ gone \in Nat /\ n \in Nat /\ gone + n <= SectorSize
    BY <1>c DEF gone
  <1>types. /\ mSector \in Seq(Units) /\ moved \in Seq(Units)
            /\ written \in Seq([at : Nat, units : Seq(Units)])
    BY DEF UnitsOK
  <1>x. PICK x \in Int : x = first_lba * SectorSize + Len(moved)
    <2>a. first_lba * SectorSize \in Int /\ Len(moved) \in Int
      BY <1>b, <1>c, <1>types
    <2> QED
      BY <2>a
  <1>sum. x = b * SectorSize + gone
    <2>a. b * SectorSize = first_lba * SectorSize + done * SectorSize
      BY <1>b, <1>c
    <2>b. first_lba * SectorSize \in Int /\ done * SectorSize \in Int
      BY <1>b, <1>c
    <2> QED
      BY <2>a, <2>b, <1>g, <1>x
  <1>s. PICK s : s = Supplied(x, n)
    OBVIOUS
  <1>units. s \in Seq(Units) /\ Len(s) = n /\ UnitsFrom(s, x)
    BY <1>b, <1>g, <1>sum, <1>s, SuppliedUnits
  <1>is. [i \in 1 .. n |-> first_lba * SectorSize + Len(moved) + i - 1] = s
    BY <1>x, <1>s DEF Supplied
  <1>moved. moved' \in Seq(Units) /\ Len(moved') = Len(moved) + n
    <2>a. moved' = moved \o s
      BY <1>is DEF deviceWrite
    <2> QED
      BY <2>a, <1>types, <1>units, Longer
  <1>all. SubSeq(s, 1, n) = s
    BY <1>units, AllOfIt
  <1>new. CASE gone = 0
    <2>a. first \in {0, SectorSize} /\ filepos = b
      BY <1>new DEF Buffered
    <2>p. part(n) = 0
      BY <2>a, <1>g, PartFacts
    <2>r. n - 0 = n /\ 0 + 1 = 1 /\ ~(0 > 0) /\ first + 0 = first
      BY <2>a, <1>g, <1>c
    <2>sum. gone + n = n
      BY <1>new, <1>g
    <2>start. StartOf(s, b)
      <3>a. x = b * SectorSize
        BY <1>sum, <1>new, <1>b, <1>c
      <3> QED
        BY <3>a, <1>units DEF StartOf, UnitsFrom
    <2>full. CASE n = SectorSize
      <3>x. /\ written' = written \o <<Rec(s)>> /\ filepos' = b + Len(<<Rec(s)>>)
            /\ mSector' = mSector /\ first' = first
        <4>a. ~(n > 0 /\ n < SectorSize)
          BY <2>full, <1>c
        <4>b. /\ mSector' = (IF n > 0 /\ n < SectorSize THEN s ELSE mSector)
              /\ first' = (IF n > 0 /\ n < SectorSize THEN n ELSE first)
          BY <2>a, <2>p, <2>r, <1>is, <1>all DEF deviceWrite
        <4>d. /\ written' = written \o (IF n = SectorSize THEN <<Rec(s)>> ELSE <<>>)
              /\ filepos' = b + Len(IF n = SectorSize THEN <<Rec(s)>> ELSE <<>>)
          BY <2>a, <2>p, <2>r, <1>is, <1>all DEF deviceWrite
        <4> QED
          BY <4>a, <4>b, <4>d, <2>full
      <3>one. Len(<<Rec(s)>>) = 1
        OBVIOUS
      <3>block. s = Block(b)
        BY <2>full, <2>start, <1>units, <1>b, WholeSector
      <3>written. /\ WrittenRight' /\ Len(written') = done + 1
                  /\ written' \in Seq([at : Nat, units : Seq(Units)])
        <4>a. written' = Append(written, [at |-> b, units |-> Block(b)])
          BY <3>x, <3>block, OneRecord
        <4> QED
          BY <4>a, <1>b, OneMoreWritten
      <3>end. n # 0
        BY <2>full, <1>c
      <3> QED
        BY <3>x, <3>one, <3>written, <3>end, <2>full, <2>a, <2>sum, <1>moved, <1>types
    <2>less. CASE n # SectorSize
      <3>x. /\ written' = written \o <<>> /\ filepos' = b + Len(<<>>)
            /\ mSector' = (IF n > 0 /\ n < SectorSize THEN s ELSE mSector)
            /\ first' = (IF n > 0 /\ n < SectorSize THEN n ELSE first)
        BY <2>less, <2>a, <2>p, <2>r, <1>is, <1>all, <1>c DEF deviceWrite
      <3>written. written' = written /\ filepos' = b
        <4>a. Len(<<>>) = 0 /\ b + 0 = b
          BY <1>b
        <4> QED
          BY <3>x, <4>a, NoRecord
      <3>right. WrittenRight'
        BY <3>written DEF WrittenRight, Block
      <3>none. CASE n = 0
        <4>a. mSector' = mSector /\ first' = first
          BY <3>none, <3>x
        <4>b. filepos' = first_lba + done + 0 /\ Len(written') = done + 0
          BY <3>written, <1>b
        <4> QED
          BY <3>none, <3>written, <3>right, <4>a, <4>b, <2>a, <2>sum, <1>moved, <1>types
      <3>some. CASE n # 0
        <4>a. n > 0 /\ n < SectorSize /\ n \notin {0, SectorSize}
          BY <3>some, <2>less, <1>g, <1>c
        <4>b. mSector' = s /\ first' = n
          BY <4>a, <3>x
        <4> QED
          BY <4>a, <4>b, <3>written, <3>right, <2>start, <2>sum, <1>units, <1>moved, <1>types
      <3> QED
        BY <3>none, <3>some
    <2> QED
      BY <2>full, <2>less
  <1>kept. CASE gone # 0
    <2>a. first = gone /\ StartOf(mSector, b) /\ filepos = b /\ Len(mSector) = gone
      BY <1>kept DEF Buffered
    <2>p. part(n) = n
      <3>a. first \in 1 .. SectorSize - 1 /\ n <= SectorSize - first
        BY <2>a, <1>kept, <1>g, <1>c
      <3> QED
        BY <3>a, <1>g, PartFacts
    <2>r. n - n = 0 /\ ~(0 > 0) /\ 0 # SectorSize
      BY <1>g, <1>c
    <2>old. SubSeq(mSector, 1, gone) = mSector
      BY <2>a, <1>types, AllOfIt
    <2>none. CASE n = 0
      <3>x. /\ written' = written \o <<>> /\ filepos' = b + Len(<<>>)
            /\ mSector' = mSector /\ first' = gone + 0
        BY <2>none, <2>a, <2>p, <2>r DEF deviceWrite
      <3>written. written' = written /\ filepos' = b
        <4>a. Len(<<>>) = 0 /\ b + 0 = b
          BY <1>b
        <4> QED
          BY <3>x, <4>a, NoRecord
      <3>right. WrittenRight'
        BY <3>written DEF WrittenRight, Block
      <3>sum. gone + n = gone /\ gone + 0 = gone /\ gone \notin {0, SectorSize}
        BY <2>none, <1>kept, <1>g, <1>c
      <3> QED
        BY <3>x, <3>written, <3>right, <3>sum, <2>a, <1>moved, <1>types
    <2>some. CASE n # 0
      <3> DEFINE kept == mSector \o s
      <3>n. n > 0
        BY <2>some, <1>g
      <3>kept. kept \in Seq(Units) /\ Len(kept) = gone + n /\ StartOf(kept, b)
        <4>a. x = b * SectorSize + Len(mSector)
          BY <1>sum, <2>a
        <4>b. StartOf(kept, b)
          BY <4>a, <2>a, <1>types, <1>units, <1>b, Joined
        <4> QED
          BY <4>b, <2>a, <1>types, <1>units, Longer
      <3>x. /\ written' = written \o (IF gone + n >= SectorSize THEN <<Rec(kept)>> ELSE <<>>)
            /\ filepos' = b + Len(IF gone + n >= SectorSize THEN <<Rec(kept)>> ELSE <<>>)
            /\ mSector' = kept /\ first' = gone + n
        BY <3>n, <2>a, <2>p, <2>r, <2>old, <1>is, <1>all DEF deviceWrite
      <3>full. CASE gone + n = SectorSize
        <4>x. written' = written \o <<Rec(kept)>> /\ filepos' = b + Len(<<Rec(kept)>>)
          BY <3>x, <3>full, <1>c
        <4>one. Len(<<Rec(kept)>>) = 1
          OBVIOUS
        <4>block. kept = Block(b)
          BY <3>full, <3>kept, <1>b, WholeSector
        <4>written. /\ WrittenRight' /\ Len(written') = done + 1
                    /\ written' \in Seq([at : Nat, units : Seq(Units)])
          <5>a. written' = Append(written, [at |-> b, units |-> Block(b)])
            BY <4>x, <4>block, OneRecord
          <5> QED
            BY <5>a, <1>b, OneMoreWritten
        <4> HIDE DEF kept
        <4> QED
          BY <4>x, <4>one, <4>written, <3>x, <3>full, <3>kept, <2>some, <1>moved
      <3>less. CASE gone + n # SectorSize
        <4>a. ~(gone + n >= SectorSize) /\ gone + n \notin {0, SectorSize}
          BY <3>less, <1>kept, <1>g, <1>c
        <4>x. written' = written \o <<>> /\ filepos' = b + Len(<<>>)
          BY <4>a, <3>x
        <4>written. written' = written /\ filepos' = b
          <5>a. Len(<<>>) = 0 /\ b + 0 = b
            BY <1>b
          <5> QED
            BY <4>x, <5>a, NoRecord
        <4>right. WrittenRight'
          BY <4>written DEF WrittenRight, Block
        <4> HIDE DEF kept
        <4> QED
          BY <4>a, <4>written, <4>right, <3>x, <3>kept, <1>moved, <1>types
      <3> QED
        BY <3>full, <3>less
    <2> QED
      BY <2>none, <2>some
  <1> QED
    BY <1>new, <1>kept

-----------------------------------------------------------------------------
LEMMA ShorterTable ==
    ASSUME NEW t \in Seq(0 .. RegionMod - 1), t # <<>>, Len(t) # 1
    PROVE  /\ Tail(t) \in Seq(0 .. RegionMod - 1) /\ Tail(t) # <<>>
           /\ Region(Head(Tail(t))) \in Nat
  <1>c. RegionMod \in Nat \ {0}
    BY IdeAssumption
  <1>len. Len(t) \in Nat /\ Len(t) # 0
    OBVIOUS
  <1>tail. Tail(t) \in Seq(0 .. RegionMod - 1) /\ Len(Tail(t)) = Len(t) - 1
    OBVIOUS
  <1>more. Tail(t) # <<>>
    <2>a. Len(Tail(t)) # 0
      BY <1>len, <1>tail
    <2>b. Len(<<>>) = 0
      OBVIOUS
    <2> QED
      BY <2>a, <2>b, Zenon
  <1>head. Head(Tail(t)) \in 0 .. RegionMod - 1
    <2>a. PICK u \in Seq(0 .. RegionMod - 1) : u = Tail(t)
      BY <1>tail
    <2>b. Len(u) >= 1
      BY <2>a, <1>len, <1>tail
    <2>d. u[1] \in 0 .. RegionMod - 1
      <3>a. \A S : \A v \in Seq(S) : Len(v) >= 1 => v[1] \in S
        OBVIOUS
      <3> QED
        BY <3>a, <2>b, Zenon
    <2>e. Head(u) = u[1]
      OBVIOUS
    <2> QED
      BY <2>a, <2>d, <2>e
  <1> QED
    BY <1>tail, <1>more, <1>head, <1>c DEF Region

\* the regions that are left are sound, and there is one as long as the loop goes on
LEMMA RegionsLeft ==
    ASSUME DmaOK, dma.table # <<>>, NEW n \in 0 .. dma.left, NEW more \in BOOLEAN,
           more => Len(dma.table) # 1
    PROVE  LET table == IF more THEN Tail(dma.table) ELSE dma.table
               left == IF more THEN Region(Head(table)) ELSE dma.left - n IN
             /\ table \in Seq(0 .. RegionMod - 1) /\ table # <<>>
             /\ left \in Nat
  <1>t. /\ dma.table \in Seq(0 .. RegionMod - 1) /\ dma.left \in Nat
        /\ RegionMod \in Nat \ {0}
    BY IdeAssumption DEF DmaOK
  <1>same. CASE ~more
    <2>a. dma.left - n \in Nat
      BY <1>t
    <2> QED
      BY <2>a, <1>same, <1>t
  <1>next. CASE more
    <2>a. /\ Tail(dma.table) \in Seq(0 .. RegionMod - 1) /\ Tail(dma.table) # <<>>
          /\ Region(Head(Tail(dma.table))) \in Nat
      BY <1>next, <1>t, ShorterTable
    <2> QED
      BY <2>a, <1>next
  <1> QED
    BY <1>same, <1>next

LEMMA TransferMoves ==
    ASSUME SectorInv, Transfer
    PROVE  DataOK' /\ ProgressInv'
  <1> DEFINE n == lesser(dma.transfer, dma.left)
             left == dma.left - n
             transfer == dma.transfer - n
             over == left = 0 /\ Len(dma.table) = 1
             next == left = 0 /\ ~over
             table == IF next THEN Tail(dma.table) ELSE dma.table
             b == first_lba + done
  <1>c. SectorSize \in Nat \ {0}
    BY IdeAssumption
  <1>types. NumbersOK /\ DmaOK /\ UnitsOK
    BY DEF SectorInv, DataOK
  <1>on. Running /\ mode = "none" /\ issued
    BY DEF Transfer, SectorInv, DeviceInv
  <1>pos. Position
    BY <1>on DEF SectorInv, ProgressInv, Active
  <1>running. /\ command = (IF toMem THEN "readDMA" ELSE "writeDMA")
              /\ dma.transfer \in 1 .. SectorSize /\ dma.table # <<>>
              /\ Len(moved) = done * SectorSize + gone
              /\ ~toMem => Len(written) = done
              /\ Buffered
    BY <1>on DEF SectorInv, ProgressInv, RunningInv
  <1>logical. /\ b \in 0 .. Heads * HeadSize - 1 /\ b \in Nat
              /\ done \in Nat /\ wanted \in Nat /\ first_lba \in Nat /\ done < wanted
    BY <1>types, <1>pos, LogicalNow
  <1>same. UNCHANGED <<driveHead, command, mode, sectorpos, sector, start, toMem, issued,
                       first_lba, wanted>>
    BY DEF Transfer
  <1>dma. dma.left \in Nat /\ dma.transfer \in Nat
    BY <1>types DEF DmaOK
  <1>n. PICK m \in Nat : m = n /\ m \in 0 .. dma.transfer /\ m \in 0 .. dma.left
    BY <1>dma DEF lesser
  <1>gone. /\ gone \in 0 .. SectorSize - 1 /\ gone \in Nat /\ dma.transfer = SectorSize - gone
           /\ transfer = SectorSize - (gone + m) /\ transfer \in Nat
    BY <1>running, <1>n, <1>dma, <1>c DEF gone
  <1>device. IF toMem THEN deviceRead(m) ELSE deviceWrite(m)
    BY <1>n DEF Transfer
  <1>read. ASSUME toMem
           PROVE  /\ moved' \in Seq(Units) /\ Len(moved') = Len(moved) + m /\ MovedRight'
                  /\ mSector' \in Seq(Units) /\ written' = written
                  /\ gone + m \in {0, SectorSize} =>
                       /\ first' \in {0, SectorSize}
                       /\ filepos' = first_lba + done + (IF m = 0 THEN 0 ELSE 1)
                  /\ gone + m \notin {0, SectorSize} =>
                       /\ first' = gone + m /\ filepos' = first_lba + done + 1
                       /\ StartOf(mSector', first_lba + done) /\ Len(mSector') = SectorSize
    <2>a. MovedRight
      BY <1>read, <1>running, <1>on DEF SectorInv, ProgressInv, ContentInv
    <2> QED
      BY <2>a, <1>read, <1>types, <1>pos, <1>running, <1>n, <1>device, <1>same, DeviceReads
  <1>write. ASSUME ~toMem
            PROVE  /\ moved' \in Seq(Units) /\ Len(moved') = Len(moved) + m
                   /\ mSector' \in Seq(Units)
                   /\ written' \in Seq([at : Nat, units : Seq(Units)]) /\ WrittenRight'
                   /\ gone + m \in {0, SectorSize} =>
                        /\ first' \in {0, SectorSize}
                        /\ filepos' = first_lba + done + (IF m = 0 THEN 0 ELSE 1)
                        /\ Len(written') = done + (IF m = 0 THEN 0 ELSE 1)
                   /\ gone + m \notin {0, SectorSize} =>
                        /\ first' = gone + m /\ filepos' = first_lba + done
                        /\ StartOf(mSector', first_lba + done) /\ Len(mSector') = gone + m
                        /\ Len(written') = done
    <2>a. WrittenRight
      BY <1>write, <1>running, <1>on DEF SectorInv, ProgressInv, ContentInv
    <2> QED
      BY <2>a, <1>write, <1>types, <1>pos, <1>running, <1>n, <1>device, <1>same, DeviceWrites
  <1>units. UnitsOK'
    BY <1>read, <1>write, <1>same, <1>types DEF UnitsOK
  <1>place. filepos' \in Nat /\ first' \in 0 .. SectorSize
    <2>g. gone + m \in Nat /\ gone + m <= SectorSize
      BY <1>gone, <1>n, <1>c
    <2>a. CASE gone + m \in {0, SectorSize}
      <3>a. /\ first' \in {0, SectorSize}
            /\ filepos' \in {first_lba + done + 0, first_lba + done + 1}
        BY <2>a, <1>read, <1>write
      <3>b. first_lba + done + 0 \in Nat /\ first_lba + done + 1 \in Nat
        BY <1>logical
      <3> QED
        BY <3>a, <3>b, <1>c
    <2>b. CASE gone + m \notin {0, SectorSize}
      <3>a. first' = gone + m /\ filepos' \in {first_lba + done, first_lba + done + 1}
        BY <2>b, <1>read, <1>write
      <3> QED
        BY <3>a, <2>g, <1>logical, <1>c
    <2> QED
      BY <2>a, <2>b
  <1>content. /\ driveHead' * HeadSize <= first_lba'
              /\ first_lba' < driveHead' * HeadSize + HeadSize
              /\ command' = (IF toMem' THEN "readDMA" ELSE "writeDMA")
              /\ command' = "readDMA" => MovedRight'
              /\ command' = "writeDMA" => WrittenRight'
    BY <1>same, <1>running, <1>read, <1>write DEF SectorInv, ProgressInv, ContentInv
  <1>idle. ReadyInv' /\ PendingInv' /\ PioReadInv' /\ PioWriteInv'
    BY <1>same, <1>on DEF ReadyInv, PendingInv, PioReadInv, PioWriteInv
  <1>branches. \/ Finish(FALSE) /\ UNCHANGED <<head, addr, count>>
               \/ transfer = 0 /\ incAddress /\ count' = 0 /\ Finish(TRUE)
               \/ /\ transfer = 0 /\ incAddress /\ count' # 0
                  /\ dma' = [table |-> table,
                             left |-> IF next THEN Region(Head(table)) ELSE left,
                             transfer |-> SectorSize]
                  /\ failed' = failed
               \/ /\ transfer # 0 /\ UNCHANGED <<head, addr, count>>
                  /\ dma' = [table |-> table,
                             left |-> IF next THEN Region(Head(table)) ELSE left,
                             transfer |-> transfer]
                  /\ failed' = failed
    BY DEF Transfer
  <1>regions. /\ table \in Seq(0 .. RegionMod - 1) /\ table # <<>>
              /\ (IF next THEN Region(Head(table)) ELSE left) \in Nat
    <2>a. PICK more \in BOOLEAN : more <=> next
      OBVIOUS
    <2>b. more => Len(dma.table) # 1
      BY <2>a
    <2> QED
      BY <2>a, <2>b, <1>n, <1>types, <1>running, RegionsLeft
  <1>past. ASSUME incAddress
           PROVE  /\ head' \in 0 .. Heads - 1 /\ addr' \in 0 .. HeadSize - 1
                  /\ count' \in 0 .. CountMod - 1
                  /\ count' = 0 <=> done + 1 = wanted
                  /\ done + 1 < wanted => Position' /\ done' = done + 1
    BY <1>past, <1>types, <1>pos, <1>same, OnePast
  <1>numbers. ASSUME \/ UNCHANGED <<head, addr, count>>
                     \/ /\ head' \in 0 .. Heads - 1 /\ addr' \in 0 .. HeadSize - 1
                        /\ count' \in 0 .. CountMod - 1
              PROVE  NumbersOK'
    BY <1>numbers, <1>place, <1>same, <1>types DEF NumbersOK
  <1>none. ASSUME dma' = NoDma PROVE DmaOK' /\ ~Running' /\ ~Active' /\ RunningInv'
    <2>a. DmaOK'
      BY <1>none DEF DmaOK, NoDma
    <2> QED
      BY <2>a, <1>none, <1>same, <1>on DEF Running, Active, RunningInv
  <1>full. ASSUME transfer = 0
           PROVE  /\ gone + m = SectorSize /\ m # 0
                  /\ Len(moved') = (done + 1) * SectorSize
                  /\ ~toMem => Len(written') = done + 1
                  /\ first' \in {0, SectorSize} /\ filepos' = first_lba + done + 1
    <2>a. gone + m = SectorSize /\ m # 0
      BY <1>full, <1>gone, <1>n, <1>c
    <2>b. Len(moved') = done * SectorSize + SectorSize
      <3>a. done * SectorSize \in Int
        BY <1>logical, <1>c
      <3>b. Len(moved') = Len(moved) + m
        BY <1>read, <1>write
      <3> QED
        BY <3>a, <3>b, <2>a, <1>running, <1>gone
    <2>d. (done + 1) * SectorSize = done * SectorSize + SectorSize
      BY <1>logical, <1>c
    <2> QED
      BY <2>a, <2>b, <2>d, <1>read, <1>write
  <1> HIDE DEF n, left, transfer, over, next, table
  <1>fail. CASE Finish(FALSE) /\ UNCHANGED <<head, addr, count>>
    <2>a. dma' = NoDma /\ failed'
      BY <1>fail DEF Finish
    <2>b. ContentInv'
      BY <2>a, <1>content DEF ContentInv, Complete
    <2> QED
      BY <2>a, <2>b, <1>fail, <1>none, <1>numbers, <1>units, <1>idle DEF DataOK, ProgressInv
  <1>end. CASE transfer = 0 /\ incAddress /\ count' = 0 /\ Finish(TRUE)
    <2>a. dma' = NoDma
      BY <1>end DEF Finish
    <2>b. done + 1 = wanted'
      BY <1>end, <1>past, <1>same
    <2>d. ContentInv'
      BY <2>b, <1>end, <1>full, <1>content, <1>same DEF ContentInv, Complete
    <2> QED
      BY <2>a, <2>d, <1>end, <1>past, <1>none, <1>numbers, <1>units, <1>idle DEF DataOK, ProgressInv
  <1>sector. CASE /\ transfer = 0 /\ incAddress /\ count' # 0
                  /\ dma' = [table |-> table,
                             left |-> IF next THEN Region(Head(table)) ELSE left,
                             transfer |-> SectorSize]
                  /\ failed' = failed
    <2>a. Position' /\ done' = done + 1
      BY <1>sector, <1>past, <1>logical
    <2>dma. /\ DmaOK' /\ dma'.transfer = SectorSize /\ dma'.table # <<>> /\ Running'
            /\ gone' = 0
      <3>a. dma'.transfer = SectorSize /\ dma'.table # <<>>
        BY <1>sector, <1>regions
      <3>b. DmaOK'
        BY <1>sector, <1>regions, <1>c DEF DmaOK
      <3>d. Running'
        BY <3>a, <1>c, StillRunning DEF Running
      <3> QED
        BY <3>a, <3>b, <3>d, <1>c DEF gone
    <2>len. Len(moved') = done' * SectorSize + gone'
      <3>a. (done + 1) * SectorSize \in Int
        BY <1>logical, <1>c
      <3> QED
        BY <3>a, <2>a, <2>dma, <1>sector, <1>full
    <2>buf. Buffered'
      <3>a. filepos' = first_lba' + done'
        BY <2>a, <1>sector, <1>full, <1>same, <1>logical
      <3> QED
        BY <3>a, <2>dma, <1>sector, <1>full DEF Buffered
    <2>run. RunningInv'
      <3>a. dma'.transfer \in 1 .. SectorSize
        BY <2>dma, <1>c
      <3> QED
        BY <3>a, <2>a, <2>dma, <2>len, <2>buf, <1>sector, <1>full, <1>content, <1>same DEF RunningInv
    <2>content. ContentInv'
      BY <2>dma, <1>content DEF ContentInv, Complete
    <2> QED
      BY <2>a, <2>dma, <2>run, <2>content, <1>sector, <1>past, <1>numbers, <1>units, <1>idle
      DEF DataOK, ProgressInv
  <1>piece. CASE /\ transfer # 0 /\ UNCHANGED <<head, addr, count>>
                 /\ dma' = [table |-> table,
                            left |-> IF next THEN Region(Head(table)) ELSE left,
                            transfer |-> transfer]
                 /\ failed' = failed
    <2>a. Position' /\ done' = done
      BY <1>piece, <1>same, <1>pos DEF Position, done, makeLogical
    <2>t. transfer \in 1 .. SectorSize
      BY <1>piece, <1>gone, <1>n, <1>c
    <2>dma. /\ DmaOK' /\ dma'.transfer = transfer /\ dma'.table # <<>> /\ Running'
            /\ gone' = gone + m
      <3>a. dma'.transfer = transfer /\ dma'.table # <<>>
        BY <1>piece, <1>regions
      <3>b. DmaOK'
        BY <1>piece, <1>regions, <1>gone DEF DmaOK
      <3>d. Running'
        BY <3>a, <1>piece, StillRunning DEF Running
      <3>e. gone' = SectorSize - transfer
        BY <3>a DEF gone
      <3>f. SectorSize - (SectorSize - (gone + m)) = gone + m
        BY <1>gone, <1>n, <1>c
      <3> QED
        BY <3>a, <3>b, <3>d, <3>e, <3>f, <1>gone
    <2>part. gone + m # SectorSize /\ gone + m \in Nat
      BY <1>piece, <1>gone, <1>n, <1>c
    <2>len. Len(moved') = done' * SectorSize + gone'
      <3>a. done * SectorSize \in Int
        BY <1>logical, <1>c
      <3>b. Len(moved') = Len(moved) + m
        BY <1>read, <1>write
      <3> QED
        BY <3>a, <3>b, <2>a, <2>dma, <1>running, <1>gone
    <2>written. ~toMem => Len(written') = done
      <3>a. CASE gone + m = 0
        <4>a. m = 0 /\ done + 0 = done
          BY <3>a, <1>gone, <1>logical
        <4> QED
          BY <3>a, <4>a, <1>write
      <3>b. CASE gone + m # 0
        BY <3>b, <2>part, <1>write
      <3> QED
        BY <3>a, <3>b
    <2>buf. Buffered'
      <3>same. first_lba' + done' = b /\ toMem' = toMem
        BY <2>a, <1>same
      <3>a. CASE gone + m = 0
        <4>a. m = 0 /\ b + 0 = b
          BY <3>a, <1>gone, <1>logical
        <4>b. first' \in {0, SectorSize} /\ filepos' = b
          BY <3>a, <4>a, <1>read, <1>write
        <4> QED
          BY <3>a, <4>b, <3>same, <2>dma DEF Buffered
      <3>b. CASE gone + m # 0
        <4>a. /\ first' = gone + m /\ StartOf(mSector', b)
              /\ IF toMem THEN filepos' = b + 1 /\ Len(mSector') = SectorSize
                          ELSE filepos' = b /\ Len(mSector') = gone + m
          BY <3>b, <2>part, <1>read, <1>write
        <4>b. StartOf(mSector', first_lba' + done')
          BY <4>a, <3>same
        <4> QED
          BY <3>b, <4>a, <4>b, <3>same, <2>dma DEF Buffered, StartOf
      <3> QED
        BY <3>a, <3>b
    <2>run. RunningInv'
      BY <2>t, <2>a, <2>dma, <2>len, <2>written, <2>buf, <1>content, <1>same DEF RunningInv
    <2>content. ContentInv'
      BY <2>dma, <1>content DEF ContentInv, Complete
    <2> QED
      BY <2>a, <2>dma, <2>run, <2>content, <1>piece, <1>numbers, <1>units, <1>idle
      DEF DataOK, ProgressInv
  <1> QED
    BY <1>branches, <1>fail, <1>end, <1>sector, <1>piece

-----------------------------------------------------------------------------
LEMMA SectorStart == Init => SectorInv /\ BitsOK
  <1> SUFFICES ASSUME Init PROVE SectorInv /\ BitsOK
    OBVIOUS
  <1>c. /\ SectorSize \in Nat \ {0} /\ HeadSize \in Nat \ {0} /\ Heads \in Nat \ {0}
        /\ CountMod \in Nat \ {0} /\ RegionMod \in Nat \ {0}
    BY IdeAssumption
  <1>dev. DeviceInv
    BY DeviceStart
  <1>bits. BitsOK
    BY DEF Init, BitsOK
  <1>data. DataOK
    <2>a. NumbersOK
      BY <1>c DEF Init, NumbersOK
    <2>b. DmaOK /\ UnitsOK
      BY DEF Init, DmaOK, UnitsOK, NoDma
    <2> QED
      BY <2>a, <2>b DEF DataOK
  <1>idle. ~Running /\ ~Active
    BY DEF Init, Running, Active
  <1>content. ContentInv
    BY <1>c DEF Init, ContentInv, Complete
  <1> QED
    BY <1>dev, <1>bits, <1>data, <1>idle, <1>content
    DEF Init, SectorInv, ProgressInv, ReadyInv, PendingInv, RunningInv, PioReadInv, PioWriteInv

LEMMA SectorStep == InRange /\ SectorInv /\ [Next]_vars => SectorInv'
  <1> SUFFICES ASSUME InRange, SectorInv, [Next]_vars PROVE DataOK' /\ ProgressInv'
    BY DeviceStep DEF SectorInv
  <1>select. ASSUME NEW a \in Addresses, NEW n \in Counts, Select(a, n)
             PROVE  DataOK' /\ ProgressInv'
    BY <1>select, SelectMoves
  <1>pioIn. CASE readSector
    BY <1>pioIn, ReadSectorMoves
  <1>pioOut. CASE writeSector
    BY <1>pioOut, WriteSectorMoves
  <1>in. CASE readData
    BY <1>in, ReadDataMoves
  <1>out. CASE writeData
    BY <1>out, WriteDataMoves
  <1>flush. CASE flush
    BY <1>flush, FlushMoves
  <1>cmd. ASSUME NEW read \in BOOLEAN, NEW t \in Tables, commandDMA(read, t)
          PROVE  DataOK' /\ ProgressInv'
    BY <1>cmd, CommandMoves
  <1>bit. ASSUME NEW read \in BOOLEAN, NEW t \in Tables, startDMA(read, t)
          PROVE  DataOK' /\ ProgressInv'
    BY <1>bit, StartBitMoves
  <1>move. CASE Transfer
    BY <1>move, TransferMoves
  <1>quiet. CASE \/ stopDMA \/ reacquire \/ readStatus \/ writeBMStatus
                 \/ \E b \in BOOLEAN : writeMRDMODE(b)
                 \/ \E b \in BOOLEAN : writeOutput(b)
                 \/ UNCHANGED vars
    <2>a. UNCHANGED <<taskfile, toMem, dma, filepos, first, mSector, issued, first_lba, wanted,
                      moved, written, failed>>
      BY <1>quiet DEF stopDMA, reacquire, readStatus, writeBMStatus, writeMRDMODE, writeOutput, vars,
                      taskfile, busmaster, device, history
    <2>b. start' = start \/ issued
      BY <1>quiet DEF stopDMA, reacquire, readStatus, writeBMStatus, writeMRDMODE, writeOutput,
                      vars, busmaster
    <2> QED
      BY <2>a, <2>b, QuietKeeps
  <1> QED
    BY <1>select, <1>pioIn, <1>pioOut, <1>in, <1>out, <1>flush, <1>cmd, <1>bit, <1>move, <1>quiet
    DEF Next, ended

LEMMA SectorAlways == InRange /\ Spec => [](SectorInv /\ BitsOK)
  <1>range. CASE InRange
    <2>step. SectorInv /\ BitsOK /\ [Next]_vars => (SectorInv /\ BitsOK)'
      BY <1>range, SectorStep, BitsStep
    <2> QED
      BY SectorStart, <2>step, PTL DEF Spec
  <1> QED
    BY <1>range

(***************************************************************************)
(* For every sector size, number of sectors and table of regions, a read   *)
(* delivers the sectors asked for, in order and complete: by DMA across    *)
(* regions that cut the sectors anywhere, by the data register unless the  *)
(* address carries into the head.  The driver's sectors exist (InRange).   *)
(***************************************************************************)
THEOREM ReadsRight == InRange /\ Spec => []ReadsRightSectors
  <1>imp. SectorInv => ReadsRightSectors
    BY DEF SectorInv, ProgressInv, ContentInv, MovedRight, ReadsRightSectors
  <1> QED
    BY <1>imp, SectorAlways, PTL

(***************************************************************************)
(* And a write puts every sector at its place, whole and once, through the *)
(* deblocking buffer as well as from the data register; a transfer that    *)
(* fails in the middle of a sector leaves it unwritten.                    *)
(***************************************************************************)
THEOREM WritesRight == InRange /\ Spec => []WritesRightSectors
  <1>imp. SectorInv /\ BitsOK => WritesRightSectors
    BY TypeParts DEF SectorInv, ProgressInv, ContentInv, WrittenRight, WritesRightSectors
  <1> QED
    BY <1>imp, SectorAlways, PTL
=============================================================================
