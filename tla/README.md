# A verification of PearPC's concurrent core

PearPC emulates a PowerPC Macintosh. This directory holds TLA+ models of the
parts of it in which control, concurrency and bookkeeping are hard to test, TLC
configurations that check them on small instances, and TLAPS proofs of what
matters most for every value of the constants. `PROJECT.json` maps each
definition to the source lines it stands for.

## The system

| component | state | operations | interacts with |
|---|---|---|---|
| CPU backends `cpu_jitc_{aarch64,x86_64,x86}` | registers, MSR, the exception word | translated code, heartbeat, exception entry, doze, stop | JITC, MMU, decrementer, PIC, main |
| interpreter `cpu_generic` | the same, flags as four bools under a mutex | the run loop | PIC, main |
| translation cache `jitc.cc` | client pages (LRU list, free list), page map, fragments, entry points | `jitcNewPC`, eviction, `icbi` | emission, dispatcher |
| code emission `jitc.cc`, `jitc.h` | emission pointer, bytes left, fixups | `emit32`, `emitAssure`, fixups, alignment | translation cache |
| flag liveness `ppc_liveness.h` | blocks of a page, their edges and live sets; flags held in NZCV | analysis at each entry point, compares and branches that leave out dead flags | translation cache, emission |
| decrementer `ppc_opc.cc`, `systimer.cc` | value and time of the last write, host timer | `readDEC`, `writeDEC`, timer callback | exception word |
| interrupt controller `io/pic` | enable, pending, level words, `PIC_mutex` | raise, cancel, register writes | all devices, exception word |
| VIA and CUDA `io/cuda` | registers, one packet buffer, event queue | register accesses, replies, event thread with a time-out | PIC, user interface, CPU stop |
| IDE `io/ide` | task file, bus-master registers, device with lock and deblocking buffer | commands, data register, DMA | PIC, guest memory, disk images |
| network cards `io/3c90x`, `io/rtl8139` | registers, one packet held, descriptor rings in guest memory | register accesses, receive thread | PIC, guest memory, tunnel |
| serial, USB, graphics, PCI, NVRAM, Mac-IO | device registers | register accesses | PIC, host |
| MMU and TLB | BATs, segments, hash table, software TLB | translate, fill, invalidate | CPU, JITC |
| Open Firmware (`io/prom`) | device tree, client interface | boot | guest memory |
| host interface, user interface, debugger, tools, configuration | - | wrappers, drawing, parsing | main |

Threads. The **CPU thread** runs `ppc_cpu_run`: translated code and, called
from it, every device register handler. The **main thread** runs the user
interface and, when the window is closed, calls `ppc_cpu_stop` and joins the CPU
thread. **Device threads** (the CUDA event loop, the receivers of the network
cards) call `pic_raise_interrupt`. The **timer** calls `decTimerCB` from a thread
or a signal handler. They meet in the exception word of `PPC_CPU_State`, in the
registers of the interrupt controller, in the CUDA packet buffer and, without a
lock, in the descriptor rings of the network cards.

What is hard: the heartbeat tests the word in several loads while others change
it; cancelling or delivering one exception rewrites the word; `pic_write` takes
no lock while raisers do; pages are evicted in the middle of a translation;
lists share their link fields; the last word of a fragment is reserved and a
next fragment may or may not follow directly; the decrementer is a timer whose
earlier settings linger; an event may enter the CUDA buffer between any two
register accesses of the guest; a DMA command holds its device across accesses
and fails in many ways; a full ring stalls with a packet in hand; a TLB hit
looks at nothing but the page number; generated code drops condition flags on
the word of a dataflow analysis. The "hazards" of `PROJECT.json` list these at their
lines.

## Modules

**CpuExceptions** - the exception protocol of the JIT backends. The four flag
bytes are one set, `flags`; every read-modify-write of the code on it (an
exclusive or locked loop) is an operator from word to word (`raise_dec`,
`cancel_ext`, ...). The heartbeat is one action per load (`HeartbeatSignalled`,
`HeartbeatStop`, `HeartbeatEE`, `HeartbeatExt`, `HeartbeatDec`), followed by
`TakeExt` or `TakeDec`. `backend` is chosen at the start and never changes: the
backends differ in what the first load tests (`signalled`), in whether the
external entry clears the word (`take_ext`) and in whether `ppc_cpu_stop` is one
step or two byte stores. `CancelExt` and `RaiseExt` stand for the PIC here.

**Pic** - `io/pic/pic.cc` composed with CpuExceptions (it EXTENDS it and replaces
`RaiseExt` and `CancelExt` by what the PIC really does). `pic_raise_interrupt` is
lock and load, store, signal and unlock, per thread; `pic_write` is one step per
access to shared state, because it takes no lock; `pic_cancel_interrupt` is one
step, because it takes it. **PicLine** adds two histories (the interrupts the
guest has been told of, and whether a device thread's raise ever overlapped a
register write of the CPU) and states what the PIC promises. **MCPic** gives the
threads their lines.

**JitcCache** - `struct JITC`. Its functions are operators from the structure to
the structure with the pointers as they are (`moreRU`, `lessRU`, `LRUpage`, ...);
the actions are the branches of `jitcNewPC`, the allocation of a further
fragment in the middle of a translation, the creation of entry points and
`icbi`. A fragment chain is a set with its head; `stale` and `modified` are
history, for code the guest overwrites. **MCJitcCache** declares the symmetry.

**Emitter** - emission into fragments, by the word. `prog` is the history of what
was emitted and where; `native` (by `walk`) runs the memory, `intended` runs the
history, and `FlowPreserved` compares the two.

**Decrementer** - `readDEC`, `writeDEC` and the one-shot host timer, in ticks,
with the register modulo 2^32 (scaled).

**Cuda** - the shift register of `cuda.cc`. A write of register B is `TransferStart`
(TIP falls), `TransferByte` (an edge of TACK) or `TransferEnd` (TIP rises; a
command is answered at once by `cuda_send_packet`). A byte is its packet and its
index, so mixed or repeated bytes show. The user interface, the event loop and
its time-out are `cudaEventHandler`, `deQueue`, `tryProcessCudaEvent`, `TimeOut`.
**CudaDriver** adds the guest's driver, which is not part of the repository: one
action per register access, so that the event thread acts between any two.
**EventChannel** is the abstract specification of the event path: a channel that
may lose but not reorder or duplicate; `ImplementsChannel` is the refinement, with
queue, thread, chip and driver mapped to what is in transit.

**Ide** - the controller with one ATA drive. Registers are variables, commands and
register accesses actions; `bm_ide_dotransfer` is one `Transfer` per turn of its
inner loop. A sector is a sequence of numbered units, so a wrong sector, a wrong
order and a lost rest are told apart; `moved` and `written` are histories, and so
is `leaked`: `bm_ide_dotransfer` has returned for a first table entry that cannot be
read (`ide.cc:1107`) without releasing the device. `reacquire` is the command after
which `IDEDevice::acquire` then ends the process.
**MCIde** has the tables of regions.

**Nic3c90x** - the 3c90x. `handleRxQueue` is a turn of the receive thread;
an upload is three steps (`UploadData`, `UploadStatus`, `UploadIndicate`),
because the guest sees memory between them; `checkDnWork` is one turn of its
loop. The driver's actions end the module; it may set up one descriptor at a time
wrong (`UpdFlaws`, `DpdFlaws`), which is how the error exits of `rxUPD`, `txDPD0` and
`checkDnWork` are reached.

**Mmu** - data accesses in the 64-bit JITs. `Translates` and `Frame` are
`ppc_effective_to_physical` over page numbers, `Hit` and `Miss` the access stubs,
`CrossAccess` the byte-wise path over a page end, `SetMsr`, `Mtsr`, `MtBatu`,
`MtBatl`, `MtSdr1`, `Tlbie`, `Tlbia` and `Exception` what changes translation or
the TLB, with the difference between the two JITs in `Switched`, `SetMsr`,
`MtSdr1` and `fillable`, which computes the end of a frame modulo 2^32 as the code does.
An access ends the emulator (`Fatal`) in a direct-store segment, when the page table
entry cannot be read (`Dies`, `gaps`) and where no device answers: `io_mem_read` and
`io_mem_write` report a machine check, which is fatal, and the returns of
`PPC_MMU_EXC` behind them (`ppc_mmu.cc:433-438`) are never reached. Histories: the pages whose entries the guest changed and
still owes a `tlbie` (`owes`), whether a segment or BAT was switched since the TLB
was emptied (`left`), the pages stored to (`dirty`). **MCMmu** has the tables.

**Liveness** - `ppc_build_page_cfg`: `Discover` is one turn of the worklist, `BuildEdges`
the second loop, `SolveBlock` one block of a backward sweep and `EndSweep` the test of
`changed`. Instructions are what `ppc_analyze_insn` says of them and where they
branch to; the bits of the registers do not interact, so a few stand for all.
`live` is the reference, defined from the guest's instructions without blocks or
sweeps. **DeferredFlags** extends it with the code that uses the result: a compare
leaves a CR field in NZCV (`flags`), a conditional branch uses it there and writes
it to memory only where it is not dead. `stale` is the history that says which bits
in memory are not the guest's. **MCLiveness** has the instructions.

**PicProofs** (with those of CpuExceptions and Decrementer), **JitcCacheProofs**,
**EmitterProofs**, **CudaProofs** (with those of EventChannel), **IdeProofs**, **NicProofs**, **MmuProofs**, **LivenessProofs** (with
those of DeferredFlags) - the theorems.

Operators called `Mut...` are faulty variants of the definition that follows
them; nothing uses them but the mutation runs, in which each property must fail.

## Runs

| run | result | shows |
|---|---|---|
| `cpu` | holds | all backends: no unknown exception, no source dropped, the decrementer is delivered |
| `cpu_stop` | violated | a stop request is erased by another exception's cancel or entry; main waits for ever |
| `pic` | holds | a device thread beside the CPU: no raise loses a bit; PIC and CPU implement CpuExceptions; until a raise overlaps a register write nothing is stranded, spurious or lost |
| `jitc_cache` | holds | lists, map, ownership and entry points stay consistent; no stale translation is reachable |
| `emitter` | holds | room for the linking branch behind what `emitAssure` promised, control flow |
| `dec` | holds | no exception early, none later than 20 ms; the register never runs backward or faster than time |
| `cuda` | holds | packets stay whole, the guest is told, commands complete, the event thread returns, events in order |
| `ide` | holds | the right sectors for every cut into regions, device released but for one exit, interrupts kept, the loop ends |
| `net` | holds | packets neither duplicated nor reordered, and lost only to a wrong fragment; the guest is told; frames in order |
| `mmu` | holds | the TLB agrees with the tables, C bits are kept, the aarch64 fast path stays in RAM |
| `mmu_mtsr` | violated | on aarch64 `mtsr` leaves entries of the old segment in the TLB |
| `liveness` | holds | the analysis ends, is exact, and generated code never lets the guest read a condition field that was left out |

The type invariants of CpuExceptions, Decrementer and Mmu are proved and not in a
run; each of the other modules' is a conjunct of one of the invariants that its run
checks.

The two violated runs have a finding in `PROJECT.json` with the line of the
repository that says otherwise. What else the models show, without a run of its
own:

- PIC. A raise by a device thread during the unlocked `pic_renew_interrupts` can
  be cancelled and, being an edge, is not signalled again; the unlocked
  acknowledge (`pic.cc:86`) can erase a bit set meanwhile. Dropping `raced` from
  the properties of PicLine gives the traces.
- The 32-bit `ppc_cpu_stop` stores `exception_pending` before `stop_exception`; a
  heartbeat in between ends in the unknown-exception error. `KnownException`
  therefore excludes that backend once its stop has begun.
- Translation cache. Pages evicted by `jitcCreateClientPage` stay in the LRU list
  without fragments, so evicting the least recently used page may free none and
  `jitcGetFragment` uses a null pointer (`crashed` in JitcCache).
- `writeDEC` replaces intervals above 20 ms by 10 ms, where
  `doc/TIMER_ARCHITECTURE.md` says 20 ms; the first `readDEC` restarts the count,
  because only a read sets `gDECinitialized`.
- `asmBFixup` takes the address before `emit32`; when the fragment changes, the
  linking branch is what gets resolved, and `FlowPreserved` shows that this still
  gets to the right place.
- CUDA. A rise of TIP sets SR_INT after the test that raises the interrupt
  (`cuda.cc:616-619`), so after a packet of odd length SR_INT stands without an
  interrupt; `Told` excludes the end of a packet.
- IDE. The continuation of a PIO read takes the head from the register as written
  (`ide.cc:1761`), so it reads the wrong sector when the address carries into the
  head; `ReadsRightSectors` excludes that. An interrupt that comes under nIEN is
  not signalled when nIEN is lowered. A transfer that fails raises no interrupt,
  and one whose first table entry cannot be read does not release the device
  (`ide.cc:1107`): it stays acquired, and the next command ends the process in
  `IDEDevice::acquire`. The run reaches this; `NeverReacquired` and
  `HeldWhilePending` say that there is no other way to it (`leaked`).
- 3c90x. A comment in `rxUPD` says that a full ring throws the packet away; it is
  kept (`NothingLost`). `checkDnWork` does not end on a list that is a ring, nor on
  a DPD with a fragment that is too long or cannot be read: `txDPD0` returns
  (`3c90x.cc:1323-1332`) with DnListPtr as it was, and the loop comes back to it for
  ever, with mLock held. A UPD with such a fragment is completed with UPS_upError
  and its packet is lost; one that is not supported keeps the packet waiting.
- MMU. On aarch64 `mtsrin` and `mtspr` of a BAT do not empty the TLB either; on
  x86_64 `mtsdr1` does not, which the architecture leaves to the guest, and the
  frame just behind RAM enters the TLB (`page > gMemorySize`). On aarch64 the end of
  frame 0xFFFFF000 wraps to 0 in `pa_page + 0x1000 <= gMemorySize`
  (`ppc_mmu.cc:158`, `168`), so that it enters the TLB although it is not RAM. The
  entry is never used: the access that makes it goes on to a device, none answers
  there, and the emulator ends. `InMemory` says that while it runs (`alive`) no
  entry leads behind RAM.

- Flag liveness. `ppc_decode_branch_target` returns the address of an absolute
  branch below 4096 as an offset of the page that is analysed (`ppc_liveness.h:172`,
  `179`), where the comment in front of it says "-1 if off-page/unknown". With such
  a branch, an instruction with `aa` set, in `MCInsns`, `Conservative` is violated, and
  so is `ReadsCurrent`: a condition field is left out that the code at the real
  target reads. The properties are checked without absolute branches. The worklist of 512
  entries takes 513 on a page with 512 conditional branches in a row: the last turn
  writes one entry behind the array (`ppc_liveness.h:338`), which is not read, because
  the loop ends. `WorklistBound`, a part of `SolverExact`, says that no other turn
  does; the run reaches its bound. `everything()` makes all of its block live from the
  start, also what is written before it, which is safe. The note at
  `ppc_liveness.h:84` that the solver is wrong and not used is out of date: the code
  generator uses it, and `MutBlockForOfs` is the fault it speaks of.

### Bounds

- `cpu`: none; the state is finite. All three backends in one run.
- `pic`: an edge and a level line, the CPU and one device thread, every
  acknowledge word. A lost or stranded bit needs one raiser, the CPU and at most
  a second line to be confused with.
- `jitc_cache`: three pages, four frames, three fragments, two entry offsets,
  evictions of two pages. Pages can run out with frames left over, an eviction
  leaves evicted pages in the list next to one in use, fragments run out with
  pages left over, and a chain can take every fragment. The real numbers are
  4096 pages, evictions of five; two is the least that leaves an evicted page
  behind. One frame has its code overwritten.
- `emitter`: three fragments of eight words in every order of the free list and
  every fill level at the start, seven instructions, two fixups: a fixup,
  the code it jumps over and its target can lie in three different fragments.
- `dec`: the register has 16 values, the limit is 4 ticks, the clamp 2; 18 ticks,
  so that the register wraps.
- `cuda`: two commands with replies of even and odd length, packets of five
  bytes, three events: one with the guest, one in the chip, one waiting.
- `ide`: three units to a sector, regions of one to four units, counts that wrap
  (0 stands for three sectors), an address whose increment carries into the head;
  tables that end early, late and exactly, and of which any entry cannot be read.
- `net`: two UPDs and two DPDs, three packets and three frames, so that both rings
  wrap and overflow, one reset, and at each time at most one wrong UPD and one wrong
  DPD, of every kind and at every place.
- `mmu`: three pages of which two share a TLB slot, two segments, a BAT block of
  two pages that can be moved, five frames (two of RAM, the one just behind it, the
  frame buffer, and the last of the address space, whose end wraps), entries that are
  remapped and write-protected, a direct-store segment, a page table of which an entry
  can lie outside RAM. Both JITs in one run.

- `liveness`: every page of four instructions out of twelve kinds, entered at its
  start, with room for three blocks, so that blocks overlap, loop, and run out of
  room, and a field is compared, left out, and read again behind a join.

### Fairness

Threads run: the steps of a heartbeat, an exception entry, a store, a join and
the end of a doze (bounded by 10 ms in the code) are weakly fair. Translated code
calls the heartbeat at branches and page ends, so `HeartbeatSignalled` is weakly
fair; that the guest reaches one with MSR[EE] set, if it sets MSR[EE] again and
again, is an assumption about the guest program (strong fairness).
`DecDelivered` assumes in addition that devices stop raising external exceptions
at some time: these are tested first and can starve the decrementer.
The CUDA event thread and the guest's driver are weakly fair: they are threads
that run, and the time-out is the code's. `Transfer` is code the CPU thread runs to
its end, as are the card's upload and download loops and the analysis (`Translate`); that the guest serves its
network interrupts (`Driver`) is an assumption about the guest. The arrival of
packets, the user's events and the guest's requests are not fair.

CHECK_DEADLOCK is off for the emitter, `cuda` and `net`, which stop at their
bounds on words, events, packets and frames, and for `liveness`, in which the guest
leaves the page.

## Proofs

For every set of backends, with no assumption but `BackendsAssumption`:

- `TypeCorrect`: `Spec => []TypeOK`.
- `HeartbeatSound`: `Spec => []KnownException`. `KnownException` is not
  inductive. `HeartbeatInv` adds, for each place between two loads, the sources
  that must still be in the word, which holds because only the CPU thread takes
  sources out, and that a non-empty word has a source; both for as long as the
  32-bit `ppc_cpu_stop` has not begun.
- `SourcesAreKept`: `Spec => SourcesKept`, step by step.

For any lines, device threads and acknowledge words:

- `PicImplementsExceptions`: `PicSpec => Spec`, the composition implements the
  protocol, with the invariant `HandlerInGuest` (a PIC handler runs only while
  the CPU thread is in translated code), so the theorems above hold of it too.
- `RaisersLoseNothing`: `PicSpec => ClearedByCpuOnly`. The invariant
  `RaisersExclude` says that a raiser holds the lock alone, that what it loaded
  can be out of date only by bits cleared since, and that what an acknowledge
  loaded lacks only bits set since. It locates every lost bit in `AckStore`.
- `NothingStranded` and `NothingSpurious`: `LineSpec => []NoStrandedInterrupt`,
  `LineSpec => []NoSpuriousInterrupt`, both from `LineInv`. The properties speak of
  the moments when nobody is in `pic.cc`; in between the invariant says that at most
  one thread is in a raise (`OneRaiser`), what each loaded value still says of the
  registers while no raise has overlapped a register write (`Snapshots`), and that
  the line is up for a reportable interrupt, where a raise that has stored its bit
  and still has to pull the line counts as the line being up (`LineUp`).
- `PicTypeCorrect`: the PIC's own part is inductive, the other comes from the
  refinement.

For any finite numbers of pages, frames and fragments, evicting any number of pages
at a time (`CacheAssumption`):

- `FragmentsAreConserved`, `ListsAreWellFormed`, `MapIsConsistent`, `CurrentIsKept`,
  `NoStaleCodeReached`, all from `CacheInv`. The list operations are pointer surgery,
  and the properties describe the lists by what a walk along them meets; the proofs
  describe them by a sequence of pages that the links follow (`Listed`), and say of each
  operation what becomes of that sequence. Every eviction goes by way of these
  lemmas, the loop over evictions by an induction on its count. `CurrentKept` needs
  that when no fragment is free another page of the list holds one, hence that free
  pages hold none (`Quiet`) and that fragments are conserved; `NoStaleCode` needs
  that a page taken from the free list is not outdated, and `MapConsistent` for the
  frames that are stored to (`Fresh`).

For any size and number of fragments, any distance that is not branched over, any
alignment, sizes promised by `emitAssure` and bounds of the run (`EmitterAssumption`):

- `RoomIsKept`: `Spec => []RoomForLink`. `Placed` says that what is left ends with the
  current fragment and meets no free one, which is what `jitcEmitNextFragment` needs
  when it merges the next fragment with what is left; `Blank`, that all of it was never
  written; between them they give the room at every emission, `emitAssure` and `pads`
  included.
- `FlowIsPreserved`: `Spec => []FlowPreserved`. `Chained` says of the memory what emission
  keeps: from behind each instruction one either is at the next or at a linking branch to
  it (`Linked`); a fixup has its own word, or has taken over the linking branch before
  it (`FixupPut`); what resolving it overwrites belongs to no other instruction and lies
  on no other way (`Alone`); the fixup behind an inverted condition directly follows it, so
  skipping one word skips just the fixup (`CondPut`). `Arrives` then compares the two walks: from the k-th
  instruction, `2 * (Len(prog) + 2 - k)` branches of the memory are enough, at most two for each
  instruction emitted later. `EmitInv`, the conjunction, was checked on the instance of
  `emitter` as well.

For any limit, clamp and set of written values (`DecAssumption`: the clamp is
positive and at most the limit, which is below 2^31):

- `RegisterTracksTime`: `DecSpec => ReadsTrackTime`, from `CacheInv` (the value last
  returned is the written one less the time since, and is as old as the last
  access) and a lemma on subtraction modulo 2^32.
- `DecTypeCorrect` (the register stays within 32 bits), `NeverEarly` and
  `AlwaysInTime`: `DecSpec => []NotEarly`, `DecSpec => []RaisedInTime`. Both rest on
  `TimerInv`, which ties the timer to the last write until an exception has been
  raised for it: a timer left over by an immediate callback is harmless because
  the next write that does not call back replaces it.

For any commands, lengths of commands and of packets (at least two bytes, as
`cuda_send_packet` sends a type and what follows) and number of events
(`CudaAssumption`, `DriverAssumption`):

- `PacketsAreWhole` and `GuestIsTold`: `Spec => []WholePackets`, `Spec => []Told`, both from
  `CudaInv`. Chip and driver each have a state, and the invariant has a part for
  each state of the driver (`Rest`, `Idle`, `Awaiting`, `ReadDone`, `Sending`, `Reading`): what
  the chip is doing, that both have got equally far in the packet, and at which of
  the driver's register accesses SR_INT and TREQ show it.
- `CudaImplementsChannel`: `Spec => ImplementsChannel`. `OrderInv` says that the event the
  driver reads is older than the one in the chip's buffer, and that older than the
  thread's and the queue's; then a command that starts loses the chip's event,
  the time-out the thread's, and the end of a packet is the receipt of the oldest.
- `ChannelInOrder`: `Channel!Spec => []Channel!InOrder`; its invariant adds that what is in
  transit is newer than what was received. `GuestSeesOrder`: hence `Spec => []Channel!InOrder`.

For any sector size, number of heads, counts and tables (`IdeAssumption`):

- `AcquiredOnce` and `HeldForDma`: `Spec => []NeverReacquired`,
  `Spec => []HeldWhilePending`, from `DeviceInv`: a running transfer has mode "none"
  and a command behind it, and a read with DRQ has mode "read"; without these a
  register access might find the device acquired. Both name the one exit that leaves
  the device acquired (`leaked`), and say that nothing else does.
- `InterruptsKept`: `Spec => []InterruptKept`, which is inductive.
- `ReadsRight` and `WritesRight`: `InRange /\ Spec => []ReadsRightSectors` and
  `InRange /\ Spec => []WritesRightSectors`. `InRange` says that the sectors a driver asks
  for exist, and that the count register counts fewer sectors than one value of the
  head register covers (2^8 and 2^24 in the code); the instance of `ide` satisfies it.
  `SectorInv` relates everything to `done`, the distance of the address registers from
  the first sector: the count register is `wanted - done` modulo `CountMod`; the file
  of the device is `done` sectors on, or one more while a read has a part of a sector
  left in the deblocking buffer; the buffer then starts with the sector under way, as far
  as `mSectorFirst` says (`Buffered`); what was moved or written ends there. It is
  needed that a transfer goes in the direction of its command whichever of the start
  bit and the command came first, and that within a command the head register does
  not return to where it was (`HeadStays`), or a PIO read that went wrong at the carry
  would be called right at its end. `DeviceReads` and `DeviceWrites` prove one call of
  the device for every way a region can cut a sector, the empty region included.
  `SectorInv` was checked on the instance of `ide` as well.

For rings of any size, any number of packets, frames and resets (`NicAssumption`):

- `NicLosesNothing`: `Spec => []NothingLost`. `RxInv` ties the ring to the histories: the
  slots from the driver's `dirty` to the last upload are complete and hold, in this
  order, the packets accepted (`Ring`), and the packet held back and `upListPtr` agree
  with it at each of the three steps of an upload (`Uploading`). The index arithmetic
  is modular, so the lemmas it rests on are about quotients and remainders.
  `ErrInv` adds that UPS_upError stands in the completed UPDs with a wrong fragment and
  in no others.
- `NicTellsGuest`: `Spec => []GuestTold`. `Telling` says at which of the driver's register
  accesses an unseen upload shows in IntStatus or has its interrupt pending: the
  driver acknowledges before it looks at the ring.
- `NicFramesInOrder`: `Spec => []FramesInOrder`. `DnInv` says that the card's list pointer is
  at the first frame not sent of a batch that is linked in order (`Batch`, `Download`),
  and, with a wrong DPD in it, that the card has got up to that one and no further
  (`Reached`).

For any pages, TLB size, block size, RAM, segments, BATs and page tables
(`MmuAssumption`):

- `TranslationsFresh`, `ChangedBitsKept`, `FastPathInMemory`, `MmuTypesKept`, all from
  `MmuInv`. `NoStaleTranslation` alone says nothing of the C bit, and
  `StoresMarkChanged` alone breaks at the first TLB hit: `EntryOK` says of each entry
  that it stands in its page's slot, that its frame and rights are the table's
  unless its page is owed a `tlbie` or the TLB was filled across a switch, that
  an entry for stores was made from a page table entry whose C bit is still set
  unless it was rewritten and is owed, and that on aarch64 its frame is RAM as
  long as the emulator runs: what `fillable` lets through is RAM or the frame that
  wraps, and an access to that one is fatal.

For pages of any size, any instructions and any number of blocks
(`LivenessAssumption`):

- `SweepsSolve` and `SweepsGrow`: `LivenessSpec => []Solved`, `LivenessSpec => LiveGrows`.
  `Solved` speaks only of the end. `SweepInv` says of the time before that no set is
  larger than its equation gives (`Below`), which the monotone equations preserve
  when another set grows, and that in a sweep without a change so far the sets
  already visited solve theirs (`Settled`); a sweep that ends without a change has
  visited all.
- `SolverIsExact`: `NoLowAbsolute /\ LivenessSpec => []SolverExact`. `NoLowAbsolute` says that no
  absolute branch leads to an address below the size of a page; with one, the
  property fails (see above), and without any the properties are checked. `NotAbove`
  says that no set is ever larger than what is live, since a step of the sweep only adds
  bits that are read, or live behind the block. Conversely, what a solution leaves out is dead: the
  offsets at which it leaves a bit out, up to the writes of it, are a set that the
  guest leaves only by writing the bit, which needs that there is a block for
  everywhere the guest can go on to (`EdgesCover`, from `CfgInv`).
- `GuestSeesField`: `NoLowAbsolute /\ Spec => []ReadsCurrent`, from `SolverIsExact` and `FieldInv`:
  a condition field that is not the guest's in memory is dead at the place where
  the guest is.

Only model-checked: liveness under fairness, which is outside the prover. Every
invariant and every action property of a passing run is the subject of a theorem.
The inductions of the proofs (along the instructions of a block, the walk along a
list, the loop of evictions, the existence of the recursive functions `walk` and
`intended`) go by the least counterexample, because the induction theorems of the
library cannot be instantiated.

## Not modelled

The run loop of the interpreter (`cpu_generic`), which has the flags and the order of
tests of the JIT backends with a mutex around the writers. Instruction semantics and
encodings (data over hundreds of opcodes), the file
systems of Open Firmware (third-party), drawing, parsing and the debugger, the
host wrappers. Of the modelled parts: `pic_read` and the high words of the PIC
registers (no IRQ in use is there); the T1 timer of the VIA, commands without an
answer, `cuda_prom_get_key`; ATAPI and the CD-ROM, CHS addressing, the second drive,
the ACTIVE and ERROR bits of BMIDESR0; the register windows, EEPROM and MII of the
3c90x, and the rtl8139; instruction translation with the code TLB, the R bit,
collisions in a hash group; `asmB` (`jitc.cc:274-285`), which nothing calls; blocks
and their heartbeats after `mtmsr`; `ppc_compute_liveness`, which only the tests call,
and the deferred carry. Logging and tracing are left out everywhere.
These are register files, data, or variants of a protocol that is modelled; the
register allocator of the x86 JITs is the part with logic of its own that remains.

## Plan

Done: exceptions, PIC, translation cache, emission, decrementer, CUDA, IDE, 3c90x,
MMU, flag liveness, in this order.

1. **RegAlloc**: the register map of the x86 JITs.
2. Composition of Decrementer with CpuExceptions; JitcCache as an implementation
   of an abstract cache (a partial map from frame and offset to code).
