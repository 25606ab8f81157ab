--------------------------------- MODULE Mmu ---------------------------------
(***************************************************************************)
(* Address translation of data accesses in the 64-bit JITs: BATs, segment  *)
(* register and page table, and the direct-mapped software TLB that the    *)
(* access stubs consult first.  A TLB hit checks nothing but the page      *)
(* number, so everything translation depends on (MSR, BATs, segment        *)
(* registers, page table entries) has to reach the TLB by invalidation.    *)
(*                                                                         *)
(* Addresses are page numbers.  One segment, one data BAT with blocks of   *)
(* BlockPages pages and one page table entry for a virtual page are        *)
(* modelled: no second entry in the hash groups of a page, and of the      *)
(* R and C bits only C.  An access that no memory and no device answers    *)
(* ends the emulator (ppc_machine_check_exception is fatal), and so does,  *)
(* on aarch64, a segment with T set or a page table that cannot be read.   *)
(***************************************************************************)
EXTENDS Integers

CONSTANTS
    Backends,       \* the JITs to look at
    NPages,         \* effective pages 0 .. NPages - 1
    TlbEntries,     \* TLB_ENTRIES
    BlockPages,     \* pages in a BAT block
    PhysFrames,     \* frames of the 32-bit physical address space: 2^20
    MemFrames,      \* gMemorySize in pages
    DeviceFrames,   \* the frames behind RAM that io_mem_read and io_mem_write know
    FrameBuffer,    \* the frame buffer among them
    Vsids,          \* virtual segments
    Segments,       \* values of the segment register
    BatUppers,      \* values of DBATU
    BatLowers,      \* values of DBATL
    Gaps,           \* the virtual pages whose hash groups cannot be read
    Ptes            \* Ptes[k]: the entries the guest makes for virtual page k

Pages == 0 .. NPages - 1
Keys == Vsids \X Pages
Absent == [rpn |-> -1, pp |-> 0, c |-> FALSE]       \* PTE1_V clear

Frames == 0 .. PhysFrames - 1
PteValues == [rpn : Frames, pp : 0 .. 3, c : BOOLEAN]

ASSUME MmuAssumption ==
    /\ Backends \subseteq {"aarch64", "x86_64"}
    /\ PhysFrames \in Nat \ {0} /\ NPages \in 1 .. PhysFrames /\ MemFrames \in Frames
    /\ TlbEntries \in Nat \ {0} /\ BlockPages \in Nat \ {0}
    /\ FrameBuffer \subseteq DeviceFrames
    /\ DeviceFrames \subseteq Frames \ {PhysFrames - 1}
    /\ Gaps \subseteq SUBSET Keys
    /\ Segments \subseteq [vsid : Vsids, t : BOOLEAN, ks : BOOLEAN, kp : BOOLEAN]
    /\ BatUppers \subseteq [bepi : Pages, vs : BOOLEAN, vp : BOOLEAN]
    /\ BatLowers \subseteq 0 .. PhysFrames - BlockPages
    /\ \A k \in Keys : Ptes[k] \subseteq PteValues

VARIABLES
    backend,    \* the JIT the emulator was built with; never changes
    dr, pr,     \* MSR[DR] and MSR[PR]
    sr,         \* the segment register
    batu, batl, \* DBATU and DBATL
    pt,         \* the page table in guest memory
    gaps,       \* the virtual pages whose walk meets what cannot be read
    alive,      \* ppc_fatal has not ended the emulator
    tlb         \* tlb[op]: tlb_data_read_*, tlb_data_write_*

\* histories
VARIABLES
    owes,       \* the pages of entries the guest changed since their tlbie
    left,       \* a segment or BAT was switched since the TLB was emptied
    dirty       \* the virtual pages stored to since their entry was written

mmuVars == <<backend, dr, pr, sr, batu, batl, pt, gaps, alive, tlb, owes, left, dirty>>

Ops == {"read", "write"}
None == [page |-> -1]           \* the tag 0xffffffff
Direct == <<>>                  \* not translated by the page table

\* "via" is a history: the virtual page the entry was made from
Entries == {None} \cup [page : Pages, frame : Frames, via : Keys \cup {Direct}]
Slots == 0 .. TlbEntries - 1

MmuTypeOK ==
    /\ backend \in Backends
    /\ dr \in BOOLEAN /\ pr \in BOOLEAN
    /\ sr \in Segments /\ batu \in BatUppers /\ batl \in BatLowers
    /\ pt \in [Keys -> PteValues \cup {Absent}]
    /\ gaps \subseteq Keys /\ alive \in BOOLEAN
    /\ tlb \in [Ops -> [Slots -> Entries]]
    /\ owes \subseteq Pages /\ left \in BOOLEAN /\ dirty \subseteq Keys

-----------------------------------------------------------------------------
(* ppc_effective_to_physical                                               *)

\* ppc_pte_protection[write, key, pp]
allowed(pp, key, op) ==
    IF op = "read" THEN ~(key /\ pp = 0) ELSE IF key THEN pp = 2 ELSE pp # 3

\* the block of the BAT covers page p and is valid in this mode
BatHit(p) ==
    /\ p - (p % BlockPages) = batu.bepi
    /\ IF pr THEN batu.vp ELSE batu.vs

UsesPageTable(p) == dr /\ ~BatHit(p)
Key(p) == <<sr.vsid, p>>

\* the walk ends the emulator: SR_T, or a word of the table that no one answers
\* (io_mem_read is fatal before ppc_effective_to_physical sees the error); the
\* x86_64 stubs test neither
Dies(p) == backend = "aarch64" /\ UsesPageTable(p) /\ (sr.t \/ Key(p) \in gaps)

Translates(p, op) ==
    UsesPageTable(p) =>
        /\ ~Dies(p)
        /\ pt[Key(p)] # Absent
        /\ allowed(pt[Key(p)].pp, IF pr THEN sr.kp ELSE sr.ks, op)

Frame(p) == IF ~dr THEN p
            ELSE IF BatHit(p) THEN (p % BlockPages) + batl
            ELSE pt[Key(p)].rpn

Via(p) == IF UsesPageTable(p) THEN Key(p) ELSE Direct

\* faulty variant: only a load goes through the page table entry
MutTouch(table, p, op) == table

\* pte |= PTE2_C, written back to the page table
Touch(table, p, op) ==
    IF op = "write" /\ UsesPageTable(p)
    THEN [table EXCEPT ![Key(p)].c = TRUE] ELSE table

\* the histories of a store through "via"
Stored(via, op) == IF op = "write" /\ via # Direct THEN {via} ELSE {}

-----------------------------------------------------------------------------
(* The TLB                                                                 *)

slot(p) == p % TlbEntries

\* faulty variants
MutFillable(f) == f <= MemFrames                        \* off by one
MutWithout(p) == [op \in Ops |-> [tlb[op] EXCEPT ![p % BlockPages] =
                     IF op = "write" THEN @ ELSE None]]

\* tlb_fill_data_*: RAM only; the end of the page is computed in 32 bits.  The
\* x86_64 stubs test "page > gMemorySize", and fill for the frame buffer too.
fillable(f) == IF backend = "aarch64" THEN (f + 1) % PhysFrames <= MemFrames
                                      ELSE f <= MemFrames \/ f \in FrameBuffer

\* whether the emulator survives the access that follows: an address of no one
\* is fatal, and so are 8 bytes and more of a device other than the frame buffer
Outcomes(f) ==
    IF f < MemFrames \/ f \in FrameBuffer \/ (backend = "x86_64" /\ fillable(f)) THEN {TRUE}
    ELSE IF f \in DeviceFrames THEN BOOLEAN ELSE {FALSE}

\* ppc_mmu_tlb_invalidate_all_asm
emptied == [op \in Ops |-> [s \in Slots |-> None]]

\* ppc_mmu_tlb_invalidate_entry_asm: the slot of the page in every array
without(p) == [op \in Ops |-> [tlb[op] EXCEPT ![slot(p)] = None]]

\* ppc_exception and the asm exception_epilogue: MSR cleared, TLB emptied
Enter ==
    /\ dr' = FALSE /\ pr' = FALSE
    /\ tlb' = emptied /\ left' = FALSE

-----------------------------------------------------------------------------
(* Loads and stores.  The guest's kernel does not touch a page between     *)
(* changing its entry and the tlbie.                                       *)

\* the access stubs: the tag matches
Hit(p, op) ==
    LET e == tlb[op][slot(p)] IN
    /\ p \notin owes
    /\ e.page = p
    /\ dirty' = dirty \cup Stored(e.via, op)
    /\ UNCHANGED <<backend, dr, pr, sr, batu, batl, pt, gaps, alive, tlb, owes, left>>

\* the slow path: translate, fill, access
Miss(p, op) ==
    /\ p \notin owes
    /\ tlb[op][slot(p)].page # p
    /\ Translates(p, op)
    /\ pt' = Touch(pt, p, op)
    /\ tlb' = IF fillable(Frame(p))
              THEN [tlb EXCEPT ![op][slot(p)] =
                      [page |-> p, frame |-> Frame(p), via |-> Via(p)]]
              ELSE tlb
    /\ dirty' = dirty \cup Stored(Via(p), op)
    /\ alive' \in Outcomes(Frame(p))
    /\ UNCHANGED <<backend, dr, pr, sr, batu, batl, gaps, owes, left>>

\* ... and a DSI, page fault or protection
Fault(p, op) ==
    /\ p \notin owes
    /\ tlb[op][slot(p)].page # p
    /\ ~Translates(p, op) /\ ~Dies(p)
    /\ Enter
    /\ UNCHANGED <<backend, sr, batu, batl, pt, gaps, alive, owes, dirty>>

\* ... and ppc_fatal
Fatal(p, op) ==
    /\ p \notin owes
    /\ tlb[op][slot(p)].page # p
    /\ Dies(p)
    /\ alive' = FALSE
    /\ UNCHANGED <<backend, dr, pr, sr, batu, batl, pt, gaps, tlb, owes, left, dirty>>

\* aarch64: an access across the end of page p goes byte by byte through the
\* page table and fills nothing; a fault on the second page comes after the
\* bytes of the first.  (On x86_64 it is an access to p and one to p + 1.)
CrossAccess(p, op) ==
    LET first  == Translates(p, op)
        second == first /\ TRUE \in Outcomes(Frame(p)) /\ Translates(p + 1, op)
        done   == {q \in {p, p + 1} : IF q = p THEN first ELSE second}
        pt1    == IF first THEN Touch(pt, p, op) ELSE pt IN
    /\ backend = "aarch64"
    /\ p + 1 \in Pages
    /\ {p, p + 1} \cap owes = {}
    /\ pt' = IF second THEN Touch(pt1, p + 1, op) ELSE pt1
    /\ dirty' = dirty \cup UNION {Stored(Via(q), op) : q \in done}
    /\ alive' = (/\ \A q \in done : TRUE \in Outcomes(Frame(q))
                 /\ ~Dies(IF first THEN p + 1 ELSE p))
    /\ IF second \/ ~alive' THEN UNCHANGED <<dr, pr, tlb, left>> ELSE Enter
    /\ UNCHANGED <<backend, sr, batu, batl, gaps, owes>>

-----------------------------------------------------------------------------
(* What changes translation.  In user mode these instructions trap         *)
(* (Exception).                                                            *)

\* sc, interrupts, program exceptions
Exception ==
    /\ Enter
    /\ UNCHANGED <<backend, sr, batu, batl, pt, gaps, alive, owes, dirty>>

\* faulty variant: PR left out of the test
MutSetMsr(newDr, newPr) ==
    /\ ~pr
    /\ dr' = newDr /\ pr' = newPr
    /\ tlb' = IF newDr # dr THEN emptied ELSE tlb
    /\ left' = (left /\ newDr = dr)
    /\ UNCHANGED <<backend, sr, batu, batl, pt, gaps, alive, owes, dirty>>

\* mtmsr and rfi: ppc_set_msr empties the TLB on aarch64, ppc_set_msr_asm of
\* x86_64 if PR or DR (or IR) changes
SetMsr(newDr, newPr) ==
    LET flush == backend = "aarch64" \/ newDr # dr \/ newPr # pr IN
    /\ ~pr
    /\ dr' = newDr /\ pr' = newPr
    /\ tlb' = IF flush THEN emptied ELSE tlb
    /\ left' = (left /\ ~flush)
    /\ UNCHANGED <<backend, sr, batu, batl, pt, gaps, alive, owes, dirty>>

\* faulty variant: no backend empties the TLB
MutSwitched == left' = left /\ tlb' = tlb

\* the code generated for mtsr, mtsrin and mtspr BAT empties the TLB on
\* x86_64; on aarch64 the interpreter function only sets the register
Switched ==
    IF backend = "aarch64" THEN left' = TRUE /\ tlb' = tlb
                           ELSE left' = FALSE /\ tlb' = emptied

Mtsr(value) ==
    /\ ~pr
    /\ sr' = value
    /\ Switched
    /\ UNCHANGED <<backend, dr, pr, batu, batl, pt, gaps, alive, owes, dirty>>

MtBatu(value) ==
    /\ ~pr
    /\ batu' = value
    /\ Switched
    /\ UNCHANGED <<backend, dr, pr, sr, batl, pt, gaps, alive, owes, dirty>>

MtBatl(value) ==
    /\ ~pr
    /\ batl' = value
    /\ Switched
    /\ UNCHANGED <<backend, dr, pr, sr, batu, pt, gaps, alive, owes, dirty>>

\* mtsdr1 selects another page table, here an empty one, which on aarch64 may
\* lie where no memory is (x86_64 would read past gMemory).  Only aarch64
\* empties the TLB, and the architecture asks for a tlbia.
MtSdr1(missing) ==
    /\ ~pr
    /\ pt' = [k \in Keys |-> Absent]
    /\ missing # {} => backend = "aarch64"
    /\ gaps' = missing
    /\ tlb' = IF backend = "aarch64" THEN emptied ELSE tlb
    /\ left' = (left /\ backend # "aarch64")
    /\ owes' = Pages
    /\ dirty' = {}
    /\ UNCHANGED <<backend, dr, pr, sr, batu, batl, alive>>

\* the guest's kernel writes an entry of the page table; one that was not
\* there needs no tlbie
WritePte(k, value) ==
    /\ ~pr
    /\ pt[k] # value
    /\ pt' = [pt EXCEPT ![k] = value]
    /\ owes' = IF pt[k] = Absent THEN owes ELSE owes \cup {k[2]}
    /\ dirty' = dirty \ {k}
    /\ UNCHANGED <<backend, dr, pr, sr, batu, batl, gaps, alive, tlb, left>>

Tlbie(p) ==
    /\ ~pr
    /\ tlb' = without(p)
    /\ owes' = owes \ {p}
    /\ UNCHANGED <<backend, dr, pr, sr, batu, batl, pt, gaps, alive, left, dirty>>

Tlbia ==
    /\ ~pr
    /\ tlb' = emptied
    /\ owes' = {} /\ left' = FALSE
    /\ UNCHANGED <<backend, dr, pr, sr, batu, batl, pt, gaps, alive, dirty>>

\* ppc_start_jitc_asm empties the TLB; the boot code has chosen the mode
MmuInit ==
    /\ backend \in Backends
    /\ dr \in BOOLEAN /\ pr = FALSE
    /\ sr \in Segments /\ batu \in BatUppers /\ batl \in BatLowers
    /\ pt = [k \in Keys |-> Absent]
    /\ gaps = {} /\ alive = TRUE
    /\ tlb = emptied
    /\ owes = {} /\ left = FALSE /\ dirty = {}

Step ==
    \/ \E p \in Pages, op \in Ops :
          Hit(p, op) \/ Miss(p, op) \/ Fault(p, op) \/ Fatal(p, op) \/ CrossAccess(p, op)
    \/ Exception
    \/ \E newDr, newPr \in BOOLEAN : SetMsr(newDr, newPr)
    \/ \E value \in Segments : Mtsr(value)
    \/ \E value \in BatUppers : MtBatu(value)
    \/ \E value \in BatLowers : MtBatl(value)
    \/ \E missing \in Gaps : MtSdr1(missing)
    \/ \E k \in Keys : \E value \in Ptes[k] \cup {Absent} : WritePte(k, value)
    \/ \E p \in Pages : Tlbie(p)
    \/ Tlbia

MmuNext == \/ alive /\ Step
           \/ ~alive /\ UNCHANGED mmuVars

MmuSpec == MmuInit /\ [][MmuNext]_mmuVars

-----------------------------------------------------------------------------
\* the entry is what a walk would find now, in this mode and for this access
Fresh(e, op) == Translates(e.page, op) /\ Frame(e.page) = e.frame

Held(op) == {tlb[op][s] : s \in Slots} \ {None}

(***************************************************************************)
(* No stale translation: every TLB entry whose page the guest does not     *)
(* still owe a tlbie gives the frame, and only the rights, that BATs,      *)
(* segment and page table give in the current mode, so neither a mode      *)
(* switch nor a remapping lets an access through to a page it may not use. *)
(* On aarch64 this is limited to a TLB that was not filled across a        *)
(* segment or BAT switch.                                                  *)
(***************************************************************************)
NoStaleTranslation ==
    left \/ \A op \in Ops : \A e \in Held(op) : e.page \in owes \/ Fresh(e, op)

(***************************************************************************)
(* The same without that limit.  ppc_opc_gen_mtsr (aarch64) says it        *)
(* invalidates the TLB and does not.                                       *)
(***************************************************************************)
SegmentSwitchFlushes ==
    \A op \in Ops : \A e \in Held(op) : e.page \in owes \/ Fresh(e, op)

(***************************************************************************)
(* No store is lost to the guest's pager: a virtual page stored to since   *)
(* its entry was last written has C set in that entry, although a store    *)
(* that hits the TLB does not look at the entry.                           *)
(***************************************************************************)
StoresMarkChanged == \A k \in dirty : pt[k] # Absent /\ pt[k].c

(***************************************************************************)
(* The fast path of aarch64 stays inside gMemory, whatever frame the guest *)
(* maps: the frame just behind RAM, and the last frame of the address      *)
(* space, whose end wraps to 0 and passes the test of tlb_fill_data_*.  It *)
(* enters the TLB, but no access can use it: the one that made the entry   *)
(* ends the emulator, because no device answers there.                     *)
(***************************************************************************)
InMemory ==
    backend = "aarch64" /\ alive =>
        \A op \in Ops : \A e \in Held(op) : e.frame < MemFrames
=============================================================================
