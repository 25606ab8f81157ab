------------------------------ MODULE Liveness ------------------------------
(***************************************************************************)
(* The page-level liveness analysis of the aarch64 JIT (ppc_liveness.h):   *)
(* from an entry point the basic blocks of a page are discovered, their    *)
(* edges resolved, and the bits live at their entries computed by a        *)
(* backward iteration to the fixed point.                                  *)
(*                                                                         *)
(* Offsets count instructions.  A bit is one of the bits of the registers  *)
(* an InsnEffect tracks; the bits do not interact, so a few stand for all. *)
(***************************************************************************)
EXTENDS Integers, Sequences, FiniteSets

CONSTANTS
    Slots,        \* instructions on a page, 1024
    MaxBlocks,    \* PageCFG.blocks, 512
    Bits,         \* what is tracked
    Insns,        \* what a page may hold
    Entries       \* where the guest may enter a page from another one

VARIABLES
    page,         \* the instructions of the page
    phase,        \* the loop of ppc_build_page_cfg that runs
    worklist,     \* a stack of offsets
    blocks, numBlocks,
    succ,         \* the successors of each block
    live_in, live_out,
    i, changed    \* of the last loop

lvars == <<page, phase, worklist, blocks, numBlocks, succ,
           live_in, live_out, i, changed>>

Offsets == 0 .. Slots - 1
Indices == 1 .. MaxBlocks
OffPage == 0                  \* PAGE_SUCC_OFF_PAGE; blocks count from 1 here

(***************************************************************************)
(* An instruction: what ppc_analyze_insn says it reads and writes and, of  *)
(* a branch, its displacement (aa: its absolute address) and whether it is *)
(* always taken.  bclrx and bcctrx are displacements that lead off the     *)
(* page: both are -1 to ppc_decode_branch_target.                          *)
(***************************************************************************)
Insn == [op : {"plain", "compare", "mfcr", "crop", "everything", "bc", "branch", "getpc"},
         reads : SUBSET Bits, writes : SUBSET Bits,
         to : Int, aa : BOOLEAN, uncond : BOOLEAN]

ASSUME LivenessAssumption ==
    /\ Slots \in Nat \ {0}
    /\ MaxBlocks \in Nat \ {0}
    /\ Insns \subseteq Insn
    /\ Entries \subseteq Offsets

Block == [start : Offsets, end : 1 .. Slots, gen : SUBSET Bits, kill : SUBSET Bits]
NoBlock == [start |-> 0, end |-> 1, gen |-> {}, kill |-> {}]

\* faulty variant: everything is live at first
MutNone == [b \in Indices |-> Bits]

None == [b \in Indices |-> {}]

\* Everything has its type.
LivenessTypeOK ==
    /\ page \in [Offsets -> Insns]
    /\ phase \in {"discover", "solve", "done"}
    /\ \A k \in 1 .. Len(worklist) : worklist[k] \in Offsets
    /\ blocks \in [Indices -> Block]
    /\ numBlocks \in 0 .. MaxBlocks
    /\ succ \in [Indices -> SUBSET (Indices \cup {OffPage})]
    /\ live_in \in [Indices -> SUBSET Bits]
    /\ live_out \in [Indices -> SUBSET Bits]
    /\ i \in 0 .. numBlocks
    /\ changed \in BOOLEAN

-----------------------------------------------------------------------------
is_branch(insn) == insn.op \in {"bc", "branch", "getpc"}
is_everything(insn) == insn.op = "everything"

\* the offset of the branch at ofs on its page, or -1
ppc_decode_branch_target(insn, ofs) ==
    LET target == IF insn.aa THEN insn.to ELSE ofs + insn.to
    IN  IF target \in Offsets THEN target ELSE -1

\* faulty variant: the block that contains the offset
MutBlockForOfs(ofs) ==
    IF \E b \in 1 .. numBlocks : ofs \in blocks[b].start .. blocks[b].end - 1
    THEN CHOOSE b \in 1 .. numBlocks : ofs \in blocks[b].start .. blocks[b].end - 1
    ELSE OffPage

\* the block that starts at the offset; blocks may overlap
blockForOfs(ofs) ==
    IF \E b \in 1 .. numBlocks : blocks[b].start = ofs
    THEN CHOOSE b \in 1 .. numBlocks : blocks[b].start = ofs
    ELSE OffPage

\* a block ends behind its first branch or everything(), or with the page
blockEnd(start) ==
    CHOOSE e \in start + 1 .. Slots :
        /\ e = Slots \/ is_branch(page[e - 1]) \/ is_everything(page[e - 1])
        /\ \A o \in start .. e - 2 : ~is_branch(page[o]) /\ ~is_everything(page[o])

\* gen: what is read before it is written; kill: what is written
ppc_scan_block(start) ==
    LET end == blockEnd(start)
        within == start .. end - 1
        all == is_everything(page[end - 1])
    IN  [start |-> start, end |-> end,
         gen |-> IF all THEN Bits
                 ELSE {r \in Bits : \E o \in within :
                         r \in page[o].reads /\ \A q \in start .. o - 1 : r \notin page[q].writes},
         kill |-> IF all THEN Bits
                  ELSE {r \in Bits : \E o \in within : r \in page[o].writes}]

\* what the scan of a block ending before end adds to the worklist
pushed(end) ==
    LET last == page[end - 1]
        target == ppc_decode_branch_target(last, end - 1)
        next == IF end < Slots THEN <<end>> ELSE <<>>
    IN  IF is_branch(last)
        THEN (IF target # -1 THEN <<target>> ELSE <<>>) \o (IF last.uncond THEN <<>> ELSE next)
        ELSE IF is_everything(last) THEN next ELSE <<>>

blockOrOffPage(ofs) == IF ofs \in Offsets THEN blockForOfs(ofs) ELSE OffPage

\* the edges of block b; none if the page ends without a branch
successors(b) ==
    LET end == blocks[b].end
        last == page[end - 1]
        target == blockOrOffPage(ppc_decode_branch_target(last, end - 1))
    IN  IF is_branch(last) /\ last.uncond THEN {target}
        ELSE IF is_branch(last) THEN {target, blockOrOffPage(end)}
        ELSE IF is_everything(last) THEN {blockOrOffPage(end)}
        ELSE {}

newLiveOut(b) ==
    IF succ[b] = {} \/ OffPage \in succ[b] THEN Bits
    ELSE UNION {live_in[s] : s \in succ[b]}

newLiveIn(b) == blocks[b].gen \cup (newLiveOut(b) \ blocks[b].kill)

-----------------------------------------------------------------------------
\* what ppc_build_page_cfg begins with for the entry point ofs
Begin(ofs) ==
    /\ phase' = "discover"
    /\ worklist' = <<ofs>>
    /\ blocks' = [b \in Indices |-> NoBlock]
    /\ numBlocks' = 0
    /\ succ' = [b \in Indices |-> {}]
    /\ live_in' = None
    /\ live_out' = None
    /\ i' = 0
    /\ changed' = FALSE

\* one turn of the discovery, for the offset on top of the stack
Discover ==
    /\ phase = "discover"
    /\ worklist # <<>>
    /\ numBlocks < MaxBlocks
    /\ LET ofs == worklist[Len(worklist)]
           rest == SubSeq(worklist, 1, Len(worklist) - 1)
           block == ppc_scan_block(ofs)
       IN  IF blockForOfs(ofs) # OffPage
           THEN worklist' = rest /\ UNCHANGED <<blocks, numBlocks>>
           ELSE /\ numBlocks' = numBlocks + 1
                /\ blocks' = [blocks EXCEPT ![numBlocks + 1] = block]
                /\ worklist' = rest \o pushed(block.end)
    /\ UNCHANGED <<page, phase, succ, live_in, live_out, i, changed>>

\* all blocks are there, or as many as fit: the edges, and the first sweep
BuildEdges ==
    /\ phase = "discover"
    /\ worklist = <<>> \/ numBlocks = MaxBlocks
    /\ succ' = [b \in Indices |-> IF b <= numBlocks THEN successors(b) ELSE {}]
    /\ phase' = "solve"
    /\ i' = numBlocks
    /\ changed' = FALSE
    /\ UNCHANGED <<page, worklist, blocks, numBlocks, live_in, live_out>>

\* faulty variants: a change of an earlier block in the sweep is forgotten,
\* and every turn counts as a change
MutSolveForgets ==
    /\ phase = "solve"
    /\ i > 0
    /\ live_in' = [live_in EXCEPT ![i] = newLiveIn(i)]
    /\ live_out' = [live_out EXCEPT ![i] = newLiveOut(i)]
    /\ changed' = (newLiveIn(i) # live_in[i])
    /\ i' = i - 1
    /\ UNCHANGED <<page, phase, worklist, blocks, numBlocks, succ>>

MutSolveBlock ==
    /\ phase = "solve"
    /\ i > 0
    /\ live_in' = [live_in EXCEPT ![i] = newLiveIn(i)]
    /\ live_out' = [live_out EXCEPT ![i] = newLiveOut(i)]
    /\ changed' = TRUE
    /\ i' = i - 1
    /\ UNCHANGED <<page, phase, worklist, blocks, numBlocks, succ>>

\* one block of a sweep, from the last block to the first
SolveBlock ==
    /\ phase = "solve"
    /\ i > 0
    /\ live_in' = [live_in EXCEPT ![i] = newLiveIn(i)]
    /\ live_out' = [live_out EXCEPT ![i] = newLiveOut(i)]
    /\ changed' = (changed \/ newLiveIn(i) # live_in[i])
    /\ i' = i - 1
    /\ UNCHANGED <<page, phase, worklist, blocks, numBlocks, succ>>

\* another sweep if a set has changed in this one
EndSweep ==
    /\ phase = "solve"
    /\ i = 0
    /\ IF changed THEN i' = numBlocks /\ phase' = phase
       ELSE phase' = "done" /\ i' = 0
    /\ changed' = FALSE
    /\ UNCHANGED <<page, worklist, blocks, numBlocks, succ, live_in, live_out>>

Analyse == Discover \/ BuildEdges \/ SolveBlock \/ EndSweep

\* the next entry point on this page is translated
Reenter(ofs) ==
    /\ phase = "done"
    /\ Begin(ofs)
    /\ page' = page

LivenessInit ==
    /\ page \in [Offsets -> Insns]
    /\ phase = "discover"
    /\ worklist \in {<<o>> : o \in Entries}
    /\ blocks = [b \in Indices |-> NoBlock]
    /\ numBlocks = 0
    /\ succ = [b \in Indices |-> {}]
    /\ live_in = None
    /\ live_out = None
    /\ i = 0
    /\ changed = FALSE

LivenessNext == Analyse \/ \E ofs \in Offsets : Reenter(ofs)

LivenessSpec == LivenessInit /\ [][LivenessNext]_lvars

-----------------------------------------------------------------------------
(***************************************************************************)
(* The reference, from the guest's instructions alone.  The offsets the    *)
(* guest can go to from o; -1 is another page, where everything is read.   *)
(* An absolute branch leads to a page of its own.                          *)
(***************************************************************************)
follows(o) ==
    LET insn == page[o]
        next == IF o + 1 < Slots THEN o + 1 ELSE -1
        target == IF insn.aa THEN -1 ELSE ppc_decode_branch_target(insn, o)
    IN  IF ~is_branch(insn) THEN {next}
        ELSE IF insn.uncond THEN {target} ELSE {target, next}

(***************************************************************************)
(* Bit r is dead at o: there is a set of offsets that the guest leaves     *)
(* only by writing r, and at none of which it reads r.                     *)
(***************************************************************************)
deadAt(r, o) ==
    \E D \in SUBSET Offsets :
        /\ o \in D
        /\ \A q \in D : r \notin page[q].reads /\ (r \in page[q].writes \/ follows(q) \subseteq D)

live(o) == {r \in Bits : ~deadAt(r, o)}

\* no block was left out for want of room, and none has everything() in it,
\* which makes all bits live from the start of the block
Complete ==
    /\ worklist = <<>>
    /\ \A b \in 1 .. numBlocks : ~is_everything(page[blocks[b].end - 1])

(***************************************************************************)
(* "Branches with unknown targets (bclrx, bcctrx, off-page) ... live_out = *)
(* all_live (conservative)": whatever the guest may still read is live at  *)
(* the entry of every block.                                               *)
(***************************************************************************)
Conservative ==
    phase = "done" => \A b \in 1 .. numBlocks : live(blocks[b].start) \subseteq live_in[b]

(***************************************************************************)
(* The worklist is an array of MaxBlocks entries.  The turn that takes the *)
(* last place in the table of blocks may write one entry behind it, and no *)
(* other turn does; that entry is not read, because the loop ends.         *)
(***************************************************************************)
WorklistBound ==
    Len(worklist) <= IF numBlocks = MaxBlocks THEN MaxBlocks + 1 ELSE MaxBlocks

(***************************************************************************)
(* The solver computes liveness exactly, overlapping blocks, loops and     *)
(* branches into the middle of a block included; where there are more      *)
(* blocks than fit in the table, and with everything(), it errs on the     *)
(* live side.  (On pages without absolute branches.)                       *)
(***************************************************************************)
SolverExact ==
    /\ LivenessTypeOK
    /\ WorklistBound
    /\ Conservative
    /\ phase = "done" /\ Complete =>
         \A b \in 1 .. numBlocks : live_in[b] = live(blocks[b].start)

(***************************************************************************)
(* The sweeps end with a solution of the dataflow equations for every      *)
(* block, although a sweep changes the sets it has already used.           *)
(***************************************************************************)
Solved == phase = "done" => \A b \in 1 .. numBlocks : live_in[b] = newLiveIn(b)

(***************************************************************************)
(* "live_in values can only grow (more live)": no turn of the sweeps takes *)
(* a bit out of a set, which is why they end.                              *)
(***************************************************************************)
LiveGrows ==
    [][phase = "solve" => \A b \in Indices : live_in[b] \subseteq live_in'[b]]_lvars
=============================================================================
