--------------------------- MODULE LivenessProofs ---------------------------
(***************************************************************************)
(* The liveness analysis and the deferred flags that rely on it, for pages *)
(* of any size with any instructions.                                      *)
(*                                                                         *)
(* The sweeps: Solved speaks of the end only; before it, the sets are      *)
(* below what their equations give (Below), which makes them grow, and in  *)
(* a sweep without a change those already visited agree (Settled).         *)
(*                                                                         *)
(* The blocks (CfgInv): each is what the scan gives for its start, and     *)
(* what it leads to is a block or still on the worklist.                   *)
(*                                                                         *)
(* Exactness: the offsets of the blocks that have not got a bit in their   *)
(* set, up to the first write, are a set that shows the bit dead; and no   *)
(* turn of a sweep puts a dead bit into a set (NotAbove).                  *)
(*                                                                         *)
(* The flags: what is stale in memory is dead where the guest is.          *)
(***************************************************************************)
EXTENDS DeferredFlags, SequenceTheorems, WellFoundedInduction, TLAPS

Shape ==
    /\ phase \in {"discover", "solve", "done"}
    /\ numBlocks \in 0 .. MaxBlocks
    /\ i \in 0 .. numBlocks
    /\ live_in = [b \in Indices |-> live_in[b]]
    /\ succ \in [Indices -> SUBSET (Indices \cup {OffPage})]

Unswept == phase = "discover" => \A b \in Indices : live_in[b] = {}

Below == phase = "solve" => \A b \in 1 .. numBlocks : live_in[b] \subseteq newLiveIn(b)

Settled ==
    phase = "solve" /\ ~changed =>
        \A b \in 1 .. numBlocks : b > i => live_in[b] = newLiveIn(b)

SweepInv == Shape /\ Unswept /\ Below /\ Settled /\ Solved

\* A turn of the solver for block i, as the steps below use it.
LEMMA SolveStep ==
  ASSUME SweepInv, SolveBlock
  PROVE  /\ i \in Indices /\ i \in 1 .. numBlocks
         /\ live_in' = [b \in Indices |-> IF b = i THEN newLiveIn(i) ELSE live_in[b]]
         /\ \A b \in Indices : live_in[b] \subseteq live_in'[b]
  <1>range. i \in Indices /\ i \in 1 .. numBlocks
    BY LivenessAssumption DEF SweepInv, Shape, SolveBlock, Indices
  <1>set. live_in' = [b \in Indices |-> IF b = i THEN newLiveIn(i) ELSE live_in[b]]
    BY <1>range DEF SweepInv, Shape, SolveBlock
  <1>below. live_in[i] \subseteq newLiveIn(i)
    BY <1>range DEF SweepInv, Below, SolveBlock
  <1> QED  BY <1>range, <1>set, <1>below

\* The equations are monotone: with larger sets they give larger sets.
LEMMA Monotone ==
  ASSUME Shape, succ' = succ, blocks' = blocks, NEW b \in Indices,
         \A c \in Indices : live_in[c] \subseteq live_in'[c]
  PROVE  newLiveIn(b) \subseteq newLiveIn(b)'
  <1>out. newLiveOut(b) \subseteq newLiveOut(b)'
    <2>end. CASE succ[b] = {} \/ OffPage \in succ[b]
      BY <2>end DEF newLiveOut
    <2>on. CASE ~(succ[b] = {} \/ OffPage \in succ[b])
      <3>blocks. succ[b] \subseteq Indices
        BY <2>on DEF Shape
      <3>old. newLiveOut(b) = UNION {live_in[s] : s \in succ[b]}
        BY <2>on DEF newLiveOut
      <3>new. newLiveOut(b)' = UNION {live_in'[s] : s \in succ[b]}
        BY <2>on DEF newLiveOut
      <3> QED  BY <3>blocks, <3>old, <3>new
    <2> QED  BY <2>end, <2>on
  <1> QED  BY <1>out DEF newLiveIn

\* The edges lead to blocks that were discovered, or off the page.
LEMMA EdgesType ==
  ASSUME Shape, NEW b \in Indices
  PROVE  successors(b) \subseteq Indices \cup {OffPage}
  <1>for. \A ofs : blockForOfs(ofs) \in Indices \cup {OffPage}
    <2> SUFFICES ASSUME NEW ofs PROVE blockForOfs(ofs) \in Indices \cup {OffPage}
      OBVIOUS
    <2>found. CASE \E c \in 1 .. numBlocks : blocks[c].start = ofs
      <3>some. blockForOfs(ofs) \in 1 .. numBlocks
        BY <2>found DEF blockForOfs
      <3> QED  BY <3>some, LivenessAssumption DEF Shape, Indices
    <2>none. CASE ~\E c \in 1 .. numBlocks : blocks[c].start = ofs
      BY <2>none DEF blockForOfs
    <2> QED  BY <2>found, <2>none
  <1>or. \A ofs : blockOrOffPage(ofs) \in Indices \cup {OffPage}
    BY <1>for DEF blockOrOffPage
  <1> HIDE DEF blockOrOffPage
  <1> QED  BY <1>or DEF successors

LEMMA SweepInit == LivenessInit => SweepInv
  <1> SUFFICES ASSUME LivenessInit PROVE SweepInv
    OBVIOUS
  <1>sets. /\ live_in = [b \in Indices |-> live_in[b]]
           /\ succ \in [Indices -> SUBSET (Indices \cup {OffPage})]
    BY DEF LivenessInit, None
  <1>max. MaxBlocks \in Nat
    BY LivenessAssumption
  <1>shape. Shape
    BY <1>sets, <1>max DEF LivenessInit, Shape
  <1> QED  BY <1>shape DEF LivenessInit, SweepInv, Unswept, Below, Settled, Solved, None

LEMMA SweepKept == SweepInv /\ [LivenessNext]_lvars => SweepInv'
  <1> SUFFICES ASSUME SweepInv, [LivenessNext]_lvars PROVE SweepInv'
    OBVIOUS
  <1>discover. CASE Discover
    <2>kept. /\ phase' = phase /\ phase = "discover" /\ i' = i /\ changed' = changed
             /\ live_in' = live_in /\ succ' = succ
      BY <1>discover DEF Discover
    <2>count. numBlocks < MaxBlocks /\ numBlocks' \in {numBlocks, numBlocks + 1}
      BY <1>discover DEF Discover
    <2>max. MaxBlocks \in Nat
      BY LivenessAssumption
    <2>range. numBlocks' \in 0 .. MaxBlocks /\ i' \in 0 .. numBlocks'
      BY <2>kept, <2>count, <2>max DEF SweepInv, Shape
    <2>shape. Shape'
      BY <2>kept, <2>range DEF SweepInv, Shape
    <2> QED
      BY <2>kept, <2>shape DEF SweepInv, Unswept, Below, Settled, Solved
  <1>edges. CASE BuildEdges
    <2>type. \A b \in Indices : successors(b) \subseteq Indices \cup {OffPage}
      BY EdgesType DEF SweepInv
    <2> HIDE DEF successors
    <2>succ. succ' \in [Indices -> SUBSET (Indices \cup {OffPage})]
      BY <1>edges, <2>type DEF BuildEdges
    <2>shape. Shape'
      <3>kept. /\ phase' = "solve" /\ numBlocks' = numBlocks /\ i' = numBlocks
               /\ changed' = FALSE /\ live_in' = live_in
        BY <1>edges DEF BuildEdges
      <3> QED  BY <3>kept, <2>succ DEF SweepInv, Shape
    <2>below. Below'
      <3>empty. \A b \in 1 .. numBlocks : live_in[b] = {}
        BY <1>edges, LivenessAssumption DEF BuildEdges, SweepInv, Unswept, Shape, Indices
      <3> QED  BY <3>empty, <1>edges DEF BuildEdges, Below
    <2>settled. Settled'
      BY <1>edges, <2>shape DEF BuildEdges, Settled, Shape
    <2> QED
      BY <1>edges, <2>shape, <2>below, <2>settled DEF BuildEdges, SweepInv, Unswept, Solved
  <1>solve. CASE SolveBlock
    <2>step. /\ i \in Indices /\ i \in 1 .. numBlocks
             /\ live_in' = [b \in Indices |-> IF b = i THEN newLiveIn(i) ELSE live_in[b]]
             /\ \A b \in Indices : live_in[b] \subseteq live_in'[b]
      BY <1>solve, SolveStep
    <2>same. /\ succ' = succ /\ blocks' = blocks /\ numBlocks' = numBlocks
             /\ phase = "solve" /\ phase' = "solve" /\ i' = i - 1
             /\ changed' = (changed \/ newLiveIn(i) # live_in[i])
      BY <1>solve DEF SolveBlock
    <2>inside. \A b \in 1 .. numBlocks : b \in Indices
      BY LivenessAssumption DEF SweepInv, Shape, Indices
    <2>shape. Shape'
      <3>in. live_in' = [b \in Indices |-> live_in'[b]]
        BY <2>step
      <3>rest. i' \in 0 .. numBlocks'
        BY <2>step, <2>same DEF SweepInv, Shape
      <3> QED  BY <2>same, <3>in, <3>rest DEF SweepInv, Shape
    <2>below. Below'
      <3> SUFFICES ASSUME NEW b \in 1 .. numBlocks
                   PROVE  live_in'[b] \subseteq newLiveIn(b)'
        BY <2>same DEF Below
      <3>mono. newLiveIn(b) \subseteq newLiveIn(b)'
        BY <2>step, <2>same, <2>inside, Monotone DEF SweepInv
      <3>old. live_in[b] \subseteq newLiveIn(b)
        BY <2>same DEF SweepInv, Below
      <3>new. live_in'[b] = IF b = i THEN newLiveIn(i) ELSE live_in[b]
        BY <2>step, <2>inside
      <3> QED  BY <3>mono, <3>old, <3>new
    <2>settled. Settled'
      <3> SUFFICES ASSUME ~changed', NEW b \in 1 .. numBlocks, b > i - 1
                   PROVE  live_in'[b] = newLiveIn(b)'
        BY <2>same DEF Settled
      <3>quiet. ~changed /\ newLiveIn(i) = live_in[i]
        BY <2>same
      <3>kept. live_in' = live_in
        BY <2>step, <3>quiet DEF SweepInv, Shape
      <3>rhs. newLiveIn(b)' = newLiveIn(b)
        BY <3>kept, <2>same DEF newLiveIn, newLiveOut
      <3>which. b = i \/ b > i
        BY <2>step DEF SweepInv, Shape
      <3>agree. live_in[b] = newLiveIn(b)
        BY <3>which, <3>quiet, <2>same DEF SweepInv, Settled
      <3> QED  BY <3>kept, <3>rhs, <3>agree
    <2> QED
      BY <2>same, <2>shape, <2>below, <2>settled DEF SweepInv, Unswept, Solved
  <1>sweep. CASE EndSweep
    <2>same. /\ succ' = succ /\ blocks' = blocks /\ numBlocks' = numBlocks
             /\ live_in' = live_in /\ phase = "solve" /\ i = 0 /\ changed' = FALSE
      BY <1>sweep DEF EndSweep
    <2>next. (phase' = "solve" /\ i' = numBlocks) \/ (~changed /\ phase' = "done" /\ i' = 0)
      BY <1>sweep DEF EndSweep
    <2>rhs. \A b \in 1 .. numBlocks : newLiveIn(b)' = newLiveIn(b)
      BY <2>same DEF newLiveIn, newLiveOut
    <2>shape. Shape'
      BY <2>same, <2>next DEF SweepInv, Shape
    <2>below. Below'
      BY <2>same, <2>rhs DEF SweepInv, Below
    <2>settled. Settled'
      BY <2>same, <2>next, <2>shape DEF Settled, Shape
    <2>solved. Solved'
      <3> SUFFICES ASSUME phase' = "done", NEW b \in 1 .. numBlocks
                   PROVE  live_in[b] = newLiveIn(b)
        BY <2>same, <2>rhs DEF Solved
      <3>last. ~changed /\ b > i
        BY <2>next, <2>same
      <3> QED  BY <3>last, <2>same DEF SweepInv, Settled
    <2> QED
      BY <2>same, <2>next, <2>shape, <2>below, <2>settled, <2>solved DEF SweepInv, Unswept
  <1>again. CASE \E ofs \in Offsets : Reenter(ofs)
    <2>new. /\ phase' = "discover" /\ numBlocks' = 0 /\ i' = 0 /\ changed' = FALSE
            /\ live_in' = None /\ succ' = [b \in Indices |-> {}]
      BY <1>again DEF Reenter, Begin
    <2>sets. /\ live_in' = [b \in Indices |-> live_in'[b]]
             /\ succ' \in [Indices -> SUBSET (Indices \cup {OffPage})]
      BY <2>new DEF None
    <2>max. MaxBlocks \in Nat
      BY LivenessAssumption
    <2>shape. Shape'
      BY <2>new, <2>sets, <2>max DEF Shape
    <2> QED
      BY <2>new, <2>shape DEF SweepInv, Unswept, Below, Settled, Solved, None
  <1>idle. CASE UNCHANGED lvars
    <2>same. /\ phase' = phase /\ blocks' = blocks /\ numBlocks' = numBlocks /\ i' = i
             /\ succ' = succ /\ live_in' = live_in /\ changed' = changed
      BY <1>idle DEF lvars
    <2>rhs. \A b : newLiveIn(b)' = newLiveIn(b)
      BY <2>same DEF newLiveIn, newLiveOut
    <2>shape. Shape' /\ Unswept'
      BY <2>same DEF SweepInv, Shape, Unswept
    <2>sets. Below' /\ Settled' /\ Solved'
      BY <2>same, <2>rhs DEF SweepInv, Below, Settled, Solved
    <2> QED  BY <2>shape, <2>sets DEF SweepInv
  <1> QED
    BY <1>discover, <1>edges, <1>solve, <1>sweep, <1>again, <1>idle DEF LivenessNext, Analyse

(***************************************************************************)
(* When the sweeps of ppc_build_page_cfg end, every block satisfies its    *)
(* dataflow equation, whatever the page and wherever it was entered.       *)
(***************************************************************************)
THEOREM SweepsSolve == LivenessSpec => []Solved
  <1>inv. SweepInv => Solved
    BY DEF SweepInv
  <1> QED  BY SweepInit, SweepKept, <1>inv, PTL DEF LivenessSpec

(***************************************************************************)
(* No turn of the sweeps takes a bit out of a live set, as the comment on  *)
(* their convergence says.                                                 *)
(***************************************************************************)
THEOREM SweepsGrow == LivenessSpec => LiveGrows
  <1>step. SweepInv /\ [LivenessNext]_lvars =>
             [phase = "solve" => \A b \in Indices : live_in[b] \subseteq live_in'[b]]_lvars
    <2> SUFFICES ASSUME SweepInv, LivenessNext, phase = "solve", NEW b \in Indices
                 PROVE  live_in[b] \subseteq live_in'[b]
      OBVIOUS
    <2>solve. CASE SolveBlock
      BY <2>solve, SolveStep
    <2>other. CASE ~SolveBlock
      <3>kept. live_in' = live_in
        BY <2>other DEF LivenessNext, Analyse, Discover, BuildEdges, EndSweep, Reenter
      <3> QED  BY <3>kept
    <2> QED  BY <2>solve, <2>other
  <1> QED  BY SweepInit, SweepKept, <1>step, PTL DEF LivenessSpec, LiveGrows

-----------------------------------------------------------------------------
\* Every non-empty set of naturals has a least element: what stands for
\* induction along the instructions below.
LEMMA LeastElement ==
  ASSUME NEW T, T \subseteq Nat, T # {}
  PROVE  \E m \in T : \A n \in T : m <= n
  <1>wf. IsWellFoundedOn(OpToRel(<, Nat), Nat)
    BY NatLessThanWellFounded
  <1>min. PICK m \in T : \A n \in T : ~(<<n, m>> \in OpToRel(<, Nat))
    BY <1>wf, WFMin
  <1>less. \A n \in T : ~(n < m)
    BY <1>min DEF OpToRel
  <1> QED  BY <1>less

\* no instruction between the offsets ends a block
Straight(from, to) == \A o \in from .. to : ~is_branch(page[o]) /\ ~is_everything(page[o])

\* A block has an end, and no branch or everything() before its last instruction.
LEMMA BlockEnds ==
  ASSUME NEW start \in Offsets
  PROVE  /\ blockEnd(start) \in start + 1 .. Slots
         /\ \/ blockEnd(start) = Slots
            \/ is_branch(page[blockEnd(start) - 1])
            \/ is_everything(page[blockEnd(start) - 1])
         /\ Straight(start, blockEnd(start) - 2)
  <1> DEFINE stop(e) == e = Slots \/ is_branch(page[e - 1]) \/ is_everything(page[e - 1])
             T == {e \in start + 1 .. Slots : stop(e)}
  <1>slots. Slots \in Nat /\ start \in Nat /\ start + 1 <= Slots
    BY LivenessAssumption DEF Offsets
  <1>some. Slots \in T /\ T \subseteq Nat
    BY <1>slots
  <1>least. PICK e \in T : \A n \in T : e <= n
    BY <1>some, LeastElement
  <1>before. \A o \in start .. e - 2 : ~is_branch(page[o]) /\ ~is_everything(page[o])
    <2> SUFFICES ASSUME NEW o \in start .. e - 2, is_branch(page[o]) \/ is_everything(page[o])
                 PROVE  FALSE
      OBVIOUS
    <2>num. e \in start + 1 .. Slots /\ o \in Int /\ (o + 1) - 1 = o
      BY <1>slots
    <2>in. o + 1 \in start + 1 .. Slots /\ o + 1 < e
      BY <2>num, <1>slots
    <2>stop. stop(o + 1)
      BY <2>num
    <2>member. o + 1 \in T
      BY <2>in, <2>stop
    <2> QED  BY <2>member, <1>least, <2>in, <2>num, <1>slots
  <1>witness. /\ e \in start + 1 .. Slots
              /\ e = Slots \/ is_branch(page[e - 1]) \/ is_everything(page[e - 1])
              /\ \A o \in start .. e - 2 : ~is_branch(page[o]) /\ ~is_everything(page[o])
    BY <1>before
  <1> HIDE DEF T, stop
  <1> QED  BY <1>witness DEF blockEnd, Straight

\* The scan gives a block that starts where it was asked to.
LEMMA ScanType ==
  ASSUME NEW start \in Offsets
  PROVE  /\ ppc_scan_block(start) \in Block
         /\ ppc_scan_block(start).start = start
         /\ ppc_scan_block(start).end = blockEnd(start)
  <1>end. blockEnd(start) \in 1 .. Slots
    BY BlockEnds, LivenessAssumption DEF Offsets
  <1> HIDE DEF blockEnd
  <1> QED  BY <1>end DEF ppc_scan_block, Block

\* A decoded target is on the page or -1.
LEMMA TargetType ==
  ASSUME NEW insn, NEW ofs
  PROVE  ppc_decode_branch_target(insn, ofs) \in Offsets \cup {-1}
  BY DEF ppc_decode_branch_target

\* What the scan pushes: the branch target if it is on the page, and the offset
\* behind the block if the guest can get there and it is on the page.
LEMMA PushedType ==
  ASSUME NEW end \in 1 .. Slots
  PROVE  /\ pushed(end) \in Seq(Offsets)
         /\ Len(pushed(end)) <= 2
         /\ \A o \in Offsets :
              (\/ is_branch(page[end - 1]) /\ o = ppc_decode_branch_target(page[end - 1], end - 1)
               \/ /\ o = end
                  /\ \/ is_everything(page[end - 1])
                     \/ is_branch(page[end - 1]) /\ ~page[end - 1].uncond)
              => \E k \in 1 .. Len(pushed(end)) : pushed(end)[k] = o
  <1> DEFINE last == page[end - 1]
             to == ppc_decode_branch_target(last, end - 1)
             next == IF end < Slots THEN <<end>> ELSE <<>>
             first == IF to # -1 THEN <<to>> ELSE <<>>
             second == IF last.uncond THEN <<>> ELSE next
  <1>slots. Slots \in Nat /\ end \in Nat /\ -1 \notin Offsets /\ (end \in Offsets <=> end < Slots)
    BY LivenessAssumption DEF Offsets
  <1>to. to \in Offsets \cup {-1}
    BY TargetType
  <1>pushed. pushed(end) = IF is_branch(last) THEN first \o second
                           ELSE IF is_everything(last) THEN next ELSE <<>>
    BY DEF pushed
  <1>next. /\ next \in Seq(Offsets) /\ Len(next) \in 0 .. 1
           /\ end \in Offsets => Len(next) = 1 /\ next[1] = end
    BY <1>slots
  <1>first. /\ first \in Seq(Offsets) /\ Len(first) \in 0 .. 1
            /\ to \in Offsets => Len(first) = 1 /\ first[1] = to
    BY <1>slots, <1>to
  <1>second. /\ second \in Seq(Offsets) /\ Len(second) \in 0 .. 1
             /\ end \in Offsets /\ ~last.uncond => Len(second) = 1 /\ second[1] = end
    BY <1>next
  <1> HIDE DEF next, first, second, last, to
  <1>both. /\ first \o second \in Seq(Offsets)
           /\ Len(first \o second) = Len(first) + Len(second)
           /\ \A k \in 1 .. Len(first) : (first \o second)[k] = first[k]
           /\ \A k \in 1 .. Len(second) : (first \o second)[Len(first) + k] = second[k]
    BY <1>first, <1>second
  <1>branch. CASE is_branch(last)
    <2>eq. pushed(end) = first \o second
      BY <1>branch, <1>pushed
    <2>len. Len(first) \in 0 .. 1 /\ Len(second) \in 0 .. 1
      BY <1>first, <1>second
    <2>one. to \in Offsets => \E k \in 1 .. Len(pushed(end)) : pushed(end)[k] = to
      <3> SUFFICES ASSUME to \in Offsets PROVE \E k \in 1 .. Len(pushed(end)) : pushed(end)[k] = to
        OBVIOUS
      <3>len. Len(first) = 1 /\ first[1] = to
        BY <1>first
      <3>at. 1 \in 1 .. Len(pushed(end)) /\ pushed(end)[1] = to
        BY <2>eq, <2>len, <3>len, <1>both
      <3> QED  BY <3>at
    <2>two. end \in Offsets /\ ~last.uncond =>
              \E k \in 1 .. Len(pushed(end)) : pushed(end)[k] = end
      <3> SUFFICES ASSUME end \in Offsets, ~last.uncond
                   PROVE  \E k \in 1 .. Len(pushed(end)) : pushed(end)[k] = end
        OBVIOUS
      <3>len. Len(second) = 1 /\ second[1] = end
        BY <1>second
      <3>at. Len(first) + 1 \in 1 .. Len(pushed(end)) /\ pushed(end)[Len(first) + 1] = end
        BY <2>eq, <2>len, <3>len, <1>both
      <3> QED  BY <3>at
    <2>not. ~is_everything(last)
      BY <1>branch DEF is_branch, is_everything
    <2> HIDE DEF is_branch, is_everything
    <2>size. Len(pushed(end)) <= 2 /\ pushed(end) \in Seq(Offsets)
      BY <2>eq, <2>len, <1>both
    <2> QED  BY <2>one, <2>two, <2>not, <2>size, <1>branch DEF last, to
  <1>every. CASE ~is_branch(last) /\ is_everything(last)
    <2>eq. pushed(end) = next
      BY <1>every, <1>pushed
    <2>size. Len(pushed(end)) <= 2 /\ pushed(end) \in Seq(Offsets)
      BY <2>eq, <1>next
    <2>one. end \in Offsets => \E k \in 1 .. Len(pushed(end)) : pushed(end)[k] = end
      <3> SUFFICES ASSUME end \in Offsets
                   PROVE  \E k \in 1 .. Len(pushed(end)) : pushed(end)[k] = end
        OBVIOUS
      <3>len. Len(next) = 1 /\ next[1] = end
        BY <1>next
      <3>at. 1 \in 1 .. Len(pushed(end)) /\ pushed(end)[1] = end
        BY <2>eq, <3>len
      <3> QED  BY <3>at
    <2> HIDE DEF is_branch, is_everything
    <2> QED  BY <2>size, <2>one, <1>every DEF last
  <1>none. CASE ~is_branch(last) /\ ~is_everything(last)
    <2>eq. pushed(end) = <<>>
      BY <1>none, <1>pushed
    <2>size. Len(pushed(end)) <= 2 /\ pushed(end) \in Seq(Offsets)
      BY <2>eq
    <2> HIDE DEF is_branch, is_everything
    <2> QED  BY <2>size, <1>none DEF last
  <1> QED  BY <1>branch, <1>every, <1>none

-----------------------------------------------------------------------------
\* where the scan of a block ending before end leads, the starts of the blocks
\* found so far, and the offsets still to be looked at
exits(end) == {pushed(end)[k] : k \in 1 .. Len(pushed(end))}
Starts == {blocks[b].start : b \in 1 .. numBlocks}
Pending == {worklist[k] : k \in 1 .. Len(worklist)}

FromScan == \A b \in 1 .. numBlocks : blocks[b] = ppc_scan_block(blocks[b].start)
Explored == \A b \in 1 .. numBlocks : exits(blocks[b].end) \subseteq Starts \cup Pending
Edges == phase # "discover" => \A b \in 1 .. numBlocks : succ[b] = successors(b)

CfgInv ==
    /\ page \in [Offsets -> Insns]
    /\ phase \in {"discover", "solve", "done"}
    /\ worklist \in Seq(Offsets)
    /\ Len(worklist) <= numBlocks + 1
    /\ blocks \in [Indices -> Block]
    /\ numBlocks \in 0 .. MaxBlocks
    /\ FromScan
    /\ Explored
    /\ Edges

\* blockForOfs finds the block that starts at the offset, if there is one.
LEMMA BlockFor ==
  ASSUME NEW ofs, numBlocks \in Nat
  PROVE  IF ofs \in Starts THEN blockForOfs(ofs) \in 1 .. numBlocks /\ blocks[blockForOfs(ofs)].start = ofs
                           ELSE blockForOfs(ofs) = OffPage
  <1>found. CASE \E b \in 1 .. numBlocks : blocks[b].start = ofs
    BY <1>found DEF blockForOfs, Starts
  <1>none. CASE ~\E b \in 1 .. numBlocks : blocks[b].start = ofs
    BY <1>none DEF blockForOfs, Starts
  <1> QED  BY <1>found, <1>none

\* ... and says so by an index that is not OffPage.
LEMMA BlockForNot ==
  ASSUME NEW ofs, numBlocks \in Nat
  PROVE  blockForOfs(ofs) # OffPage <=> ofs \in Starts
  BY BlockFor DEF OffPage

\* The worklist an analysis begins with.
LEMMA OneOffset ==
  ASSUME NEW o \in Offsets
  PROVE  <<o>> \in Seq(Offsets) /\ Len(<<o>>) = 1
  OBVIOUS

\* The invariant of the discovery holds at first ...
LEMMA CfgInit == LivenessInit => CfgInv
  <1> SUFFICES ASSUME LivenessInit PROVE CfgInv
    OBVIOUS
  <1>max. MaxBlocks \in Nat /\ Slots \in Nat \ {0} /\ Entries \subseteq Offsets
    BY LivenessAssumption
  <1>list. worklist \in Seq(Offsets) /\ Len(worklist) = 1
    BY <1>max, OneOffset DEF LivenessInit
  <1>blocks. blocks \in [Indices -> Block]
    BY <1>max DEF LivenessInit, NoBlock, Block, Offsets
  <1> QED  BY <1>max, <1>list, <1>blocks DEF LivenessInit, CfgInv, FromScan, Explored, Edges

\* Taking the last offset off the worklist.
LEMMA Popped ==
  ASSUME NEW w \in Seq(Offsets), w # <<>>
  PROVE  /\ Len(w) \in Nat \ {0} /\ w[Len(w)] \in Offsets
         /\ SubSeq(w, 1, Len(w) - 1) \in Seq(Offsets)
         /\ Len(SubSeq(w, 1, Len(w) - 1)) = Len(w) - 1
         /\ \A k \in 1 .. Len(w) - 1 : SubSeq(w, 1, Len(w) - 1)[k] = w[k]
  <1>len. Len(w) \in Nat \ {0} /\ w[Len(w)] \in Offsets
    OBVIOUS
  <1>each. \A k \in 1 .. Len(w) - 1 : w[k] \in Offsets
    BY <1>len
  <1>sub. /\ SubSeq(w, 1, Len(w) - 1) \in Seq(Offsets)
          /\ Len(SubSeq(w, 1, Len(w) - 1)) = IF 1 <= Len(w) - 1 THEN Len(w) - 1 - 1 + 1 ELSE 0
          /\ \A k \in 1 .. Len(w) - 1 - 1 + 1 : SubSeq(w, 1, Len(w) - 1)[k] = w[1 + k - 1]
    BY <1>len, <1>each, SubSeqProperties
  <1>size. Len(SubSeq(w, 1, Len(w) - 1)) = Len(w) - 1
    <2>sum. \A n \in Nat \ {0} : (IF 1 <= n - 1 THEN n - 1 - 1 + 1 ELSE 0) = n - 1
      OBVIOUS
    <2> QED  BY <1>len, <1>sub, <2>sum
  <1>at. \A k \in 1 .. Len(w) - 1 : SubSeq(w, 1, Len(w) - 1)[k] = w[k]
    <2> SUFFICES ASSUME NEW k \in 1 .. Len(w) - 1
                 PROVE  SubSeq(w, 1, Len(w) - 1)[k] = w[k]
      OBVIOUS
    <2>num. k \in 1 .. Len(w) - 1 - 1 + 1 /\ 1 + k - 1 = k
      BY <1>len
    <2> QED  BY <2>num, <1>sub
  <1> QED  BY <1>len, <1>sub, <1>size, <1>at

\* ... and every step keeps it: a new block brings what it leads to with it.
LEMMA CfgKept == CfgInv /\ [LivenessNext]_lvars => CfgInv'
  <1> SUFFICES ASSUME CfgInv, [LivenessNext]_lvars PROVE CfgInv'
    OBVIOUS
  <1>max. MaxBlocks \in Nat /\ Slots \in Nat \ {0} /\ numBlocks \in Nat
    BY LivenessAssumption DEF CfgInv
  <1>page. page' = page
    BY DEF LivenessNext, Analyse, Discover, BuildEdges, SolveBlock, EndSweep, Reenter, lvars
  <1>scan. \A o : ppc_scan_block(o)' = ppc_scan_block(o) /\ exits(o)' = exits(o)
    BY <1>page DEF ppc_scan_block, blockEnd, exits, pushed, is_branch, is_everything, ppc_decode_branch_target
  <1>discover. CASE Discover
    <2> DEFINE n == Len(worklist)
               ofs == worklist[n]
               rest == SubSeq(worklist, 1, n - 1)
               new == ppc_scan_block(ofs)
    <2>same. phase = "discover" /\ phase' = "discover" /\ worklist # <<>> /\ numBlocks < MaxBlocks
      BY <1>discover DEF Discover
    <2>top. n \in Nat \ {0} /\ ofs \in Offsets
      BY <2>same, Popped DEF CfgInv
    <2>rest. /\ rest \in Seq(Offsets) /\ Len(rest) = n - 1
             /\ \A k \in 1 .. n - 1 : rest[k] = worklist[k]
      BY <2>same, Popped DEF CfgInv
    <2> DEFINE left == {rest[k] : k \in 1 .. n - 1}
    <2>keep. Pending \subseteq {ofs} \cup left
      BY <2>top, <2>rest DEF Pending
    <2>known. CASE blockForOfs(ofs) # OffPage
      <3>next. worklist' = rest /\ blocks' = blocks /\ numBlocks' = numBlocks
        BY <1>discover, <2>known DEF Discover
      <3>type. worklist' \in Seq(Offsets) /\ Len(worklist') <= numBlocks' + 1
        BY <3>next, <2>rest, <2>top, <1>max DEF CfgInv
      <3>sets. Starts' = Starts /\ Pending' = left
        BY <3>next, <2>rest DEF Starts, Pending
      <3>here. ofs \in Starts
        BY <2>known, BlockForNot, <1>max
      <3> HIDE DEF ofs, rest, new, n, left
      <3>scan. FromScan'
        BY <3>next, <1>scan DEF CfgInv, FromScan
      <3>explored. Explored'
        BY <3>next, <1>scan, <3>sets, <3>here, <2>keep DEF CfgInv, Explored
      <3> QED  BY <3>next, <3>type, <3>scan, <3>explored, <1>page, <2>same DEF CfgInv, Edges
    <2>fresh. CASE blockForOfs(ofs) = OffPage
      <3>next. /\ worklist' = rest \o pushed(new.end)
               /\ blocks' = [blocks EXCEPT ![numBlocks + 1] = new]
               /\ numBlocks' = numBlocks + 1
        BY <1>discover, <2>fresh DEF Discover
      <3>new. new \in Block /\ new.start = ofs /\ new.end \in 1 .. Slots
        <4>block. new \in Block /\ new.start = ofs
          BY ScanType, <2>top
        <4> QED  BY <4>block DEF Block
      <3>idx. numBlocks + 1 \in Indices /\ 1 .. numBlocks \subseteq Indices
        BY <2>same, <1>max DEF Indices
      <3> DEFINE more == pushed(new.end)
      <3>more. more \in Seq(Offsets) /\ Len(more) \in 0 .. 2
        <4>two. more \in Seq(Offsets) /\ Len(more) <= 2
          BY <3>new, PushedType
        <4> HIDE DEF more
        <4>nat. Len(more) \in Nat
          BY <4>two
        <4>sum. \A m \in Nat : m <= 2 => m \in 0 .. 2
          OBVIOUS
        <4> QED  BY <4>two, <4>nat, <4>sum
      <3>exits. exits(new.end) = {more[k] : k \in 1 .. Len(more)}
        BY DEF exits
      <3>own. new = ppc_scan_block(new.start)
        BY <3>new
      <3>list. worklist' = rest \o more
        BY <3>next
      <3> HIDE DEF ofs, rest, new, more
      <3>type. worklist' \in Seq(Offsets) /\ Len(worklist') = Len(rest) + Len(more)
        <4>cat. rest \o more \in Seq(Offsets) /\ Len(rest \o more) = Len(rest) + Len(more)
          BY <2>rest, <3>more, ConcatProperties
        <4> QED  BY <4>cat, <3>list
      <3>at. /\ \A k \in 1 .. Len(rest) : worklist'[k] = rest[k]
             /\ \A k \in 1 .. Len(more) : worklist'[Len(rest) + k] = more[k]
        BY <3>list, <2>rest, <3>more
      <3>old. n <= numBlocks + 1
        BY DEF CfgInv
      <3> HIDE DEF n
      <3>len. Len(worklist') <= numBlocks' + 1
        <4>sum. Len(worklist') = n - 1 + Len(more) /\ numBlocks' = numBlocks + 1
          BY <3>type, <3>next, <2>rest
        <4>arith. \A m \in Nat, k \in 0 .. 2, c \in Nat :
                    m <= c + 1 => m - 1 + k <= c + 1 + 1
          OBVIOUS
        <4>num. n \in Nat /\ Len(more) \in 0 .. 2
          BY <3>more, <2>top
        <4> QED  BY <4>sum, <4>arith, <4>num, <3>old, <1>max
      <3>pending. left \subseteq Pending' /\ exits(new.end) \subseteq Pending'
        <4>left. \A k \in 1 .. n - 1 : k \in 1 .. Len(worklist') /\ worklist'[k] = rest[k]
          BY <3>at, <3>type, <2>rest, <2>top, <3>more
        <4>more. \A k \in 1 .. Len(more) :
                   Len(rest) + k \in 1 .. Len(worklist') /\ worklist'[Len(rest) + k] = more[k]
          BY <3>at, <3>type, <2>rest, <2>top, <3>more
        <4> QED  BY <4>left, <4>more, <3>exits DEF Pending
      <3>blocks. /\ blocks' \in [Indices -> Block]
                 /\ \A b \in 1 .. numBlocks : blocks'[b] = blocks[b]
                 /\ blocks'[numBlocks + 1] = new
        BY <3>next, <3>idx, <3>new, <1>max DEF CfgInv
      <3>which. \A b \in 1 .. numBlocks' : b \in 1 .. numBlocks \/ b = numBlocks + 1
        BY <3>next, <1>max
      <3>in. numBlocks + 1 \in 1 .. numBlocks' /\ \A b \in 1 .. numBlocks : b \in 1 .. numBlocks'
        BY <3>next, <1>max
      <3>starts. Starts \cup {ofs} \subseteq Starts'
        BY <3>blocks, <3>in, <3>new DEF Starts
      <3> HIDE DEF left
      <3>all. Starts \cup Pending \cup exits(new.end) \subseteq Starts' \cup Pending'
        BY <3>starts, <3>pending, <2>keep
      <3>scan. FromScan'
        <4> SUFFICES ASSUME NEW b \in 1 .. numBlocks'
                     PROVE  blocks'[b] = ppc_scan_block(blocks'[b].start)
          BY <1>scan DEF FromScan
        <4>old. CASE b \in 1 .. numBlocks
          BY <4>old, <3>blocks DEF CfgInv, FromScan
        <4>this. CASE b = numBlocks + 1
          BY <4>this, <3>blocks, <3>own
        <4> QED  BY <4>old, <4>this, <3>which
      <3>explored. Explored'
        <4> SUFFICES ASSUME NEW b \in 1 .. numBlocks'
                     PROVE  exits(blocks'[b].end) \subseteq Starts' \cup Pending'
          BY <1>scan DEF Explored
        <4>old. CASE b \in 1 .. numBlocks
          <5>was. exits(blocks[b].end) \subseteq Starts \cup Pending
            BY <4>old DEF CfgInv, Explored
          <5> QED  BY <4>old, <5>was, <3>all, <3>blocks
        <4>this. CASE b = numBlocks + 1
          BY <4>this, <3>blocks, <3>all
        <4> QED  BY <4>old, <4>this, <3>which
      <3>count. numBlocks' \in 0 .. MaxBlocks
        BY <3>next, <2>same, <1>max
      <3> QED  BY <3>type, <3>len, <3>blocks, <3>count, <3>scan, <3>explored, <1>page, <2>same DEF CfgInv, Edges
    <2> QED  BY <2>known, <2>fresh
  <1>other. ASSUME UNCHANGED <<blocks, numBlocks, worklist>> , phase' \in {"solve", "done"} \/ phase' = phase,
                   phase' # "discover" => \A b \in 1 .. numBlocks : succ'[b] = successors(b)
            PROVE  CfgInv'
    <2>same. blocks' = blocks /\ numBlocks' = numBlocks /\ worklist' = worklist
      BY <1>other
    <2>sets. Starts' = Starts /\ Pending' = Pending
      BY <2>same DEF Starts, Pending
    <2>succs. \A b : successors(b)' = successors(b)
      BY <2>same, <1>page DEF successors, blockOrOffPage, blockForOfs, is_branch, is_everything, ppc_decode_branch_target
    <2>edges. Edges'
      <3> HIDE DEF successors
      <3> QED  BY <1>other, <2>same, <2>succs DEF Edges
    <2>scan. FromScan'
      <3> HIDE DEF ppc_scan_block
      <3> QED  BY <1>scan, <2>same DEF CfgInv, FromScan
    <2>explored. Explored'
      <3> HIDE DEF exits, Starts, Pending
      <3> QED  BY <1>scan, <2>same, <2>sets DEF CfgInv, Explored
    <2> QED  BY <1>other, <1>page, <2>same, <2>edges, <2>scan, <2>explored DEF CfgInv
  <1>edges. CASE BuildEdges
    <2>set. \A b \in 1 .. numBlocks : succ'[b] = successors(b)
      <3> HIDE DEF successors
      <3>in. \A b \in 1 .. numBlocks : b \in Indices /\ b <= numBlocks
        BY <1>max DEF Indices, CfgInv
      <3> QED  BY <1>edges, <3>in DEF BuildEdges
    <2> QED  BY <1>edges, <1>other, <2>set DEF BuildEdges
  <1>solve. CASE SolveBlock \/ EndSweep
    <2>same. UNCHANGED <<blocks, numBlocks, worklist, succ>> /\ phase = "solve" /\ phase' \in {"solve", "done"}
      BY <1>solve DEF SolveBlock, EndSweep
    <2>set. \A b \in 1 .. numBlocks : succ'[b] = successors(b)
      <3> HIDE DEF successors
      <3> QED  BY <2>same DEF CfgInv, Edges
    <2> QED  BY <2>same, <1>other, <2>set
  <1>again. CASE \E o \in Offsets : Reenter(o)
    <2>pick. PICK o \in Offsets : Reenter(o)
      BY <1>again
    <2>new. /\ phase' = "discover" /\ worklist' = <<o>> /\ numBlocks' = 0
            /\ blocks' = [b \in Indices |-> NoBlock]
      BY <2>pick DEF Reenter, Begin
    <2>blocks. blocks' \in [Indices -> Block]
      BY <2>new, <1>max DEF NoBlock, Block, Offsets
    <2>list. worklist' \in Seq(Offsets) /\ Len(worklist') = 1
      BY <2>new, OneOffset
    <2> QED  BY <2>new, <2>blocks, <2>list, <1>page, <1>max DEF CfgInv, FromScan, Explored, Edges
  <1>idle. CASE UNCHANGED lvars
    <2>same. UNCHANGED <<blocks, numBlocks, worklist, succ>> /\ phase' = phase
      BY <1>idle DEF lvars
    <2>set. phase' # "discover" => \A b \in 1 .. numBlocks : succ'[b] = successors(b)
      <3> HIDE DEF successors
      <3> QED  BY <2>same DEF CfgInv, Edges
    <2> QED  BY <2>same, <1>other, <2>set
  <1> QED
    BY <1>discover, <1>edges, <1>solve, <1>again, <1>idle DEF LivenessNext, Analyse

-----------------------------------------------------------------------------
\* A bit dead at an offset is not read there.
LEMMA DeadUnread ==
  ASSUME NEW r, NEW o, deadAt(r, o)
  PROVE  o \in Offsets /\ r \notin page[o].reads
  BY DEF deadAt

\* A dead bit is dead wherever the guest goes without writing it.
LEMMA DeadStep ==
  ASSUME NEW r, NEW o, deadAt(r, o), r \notin page[o].writes, NEW q \in follows(o)
  PROVE  q \in Offsets /\ deadAt(r, q)
  <1>set. PICK D \in SUBSET Offsets :
            /\ o \in D
            /\ \A p \in D : r \notin page[p].reads /\ (r \in page[p].writes \/ follows(p) \subseteq D)
    BY DEF deadAt
  <1>in. q \in D
    BY <1>set
  <1> QED  BY <1>set, <1>in DEF deadAt

\* Only a branch leads elsewhere than to the next instruction.
LEMMA GoesOn ==
  ASSUME NEW o \in Offsets, ~is_branch(page[o])
  PROVE  follows(o) = {IF o + 1 < Slots THEN o + 1 ELSE -1}
  BY DEF follows

\* What the scan has found out about a block.
LEMMA BlockFacts ==
  ASSUME CfgInv, NEW b \in 1 .. numBlocks
  PROVE  /\ blocks[b].start \in Offsets
         /\ blocks[b].end \in blocks[b].start + 1 .. Slots
         /\ \/ blocks[b].end = Slots
            \/ is_branch(page[blocks[b].end - 1])
            \/ is_everything(page[blocks[b].end - 1])
         /\ Straight(blocks[b].start, blocks[b].end - 2)
         /\ b \in Indices
         /\ blocks[b].gen =
              IF is_everything(page[blocks[b].end - 1]) THEN Bits
              ELSE {r \in Bits : \E o \in blocks[b].start .. blocks[b].end - 1 :
                      /\ r \in page[o].reads
                      /\ \A q \in blocks[b].start .. o - 1 : r \notin page[q].writes}
         /\ blocks[b].kill =
              IF is_everything(page[blocks[b].end - 1]) THEN Bits
              ELSE {r \in Bits : \E o \in blocks[b].start .. blocks[b].end - 1 : r \in page[o].writes}
  <1>idx. b \in Indices
    BY LivenessAssumption DEF CfgInv, Indices
  <1>start. blocks[b].start \in Offsets
    BY <1>idx DEF CfgInv, Block
  <1>scan. blocks[b] = ppc_scan_block(blocks[b].start)
    BY DEF CfgInv, FromScan
  <1> DEFINE s == blocks[b].start
  <1>end. blocks[b].end = blockEnd(s)
    BY <1>scan, <1>start, ScanType
  <1>stop. /\ blockEnd(s) \in s + 1 .. Slots
           /\ \/ blockEnd(s) = Slots
              \/ is_branch(page[blockEnd(s) - 1])
              \/ is_everything(page[blockEnd(s) - 1])
           /\ Straight(s, blockEnd(s) - 2)
    BY <1>start, BlockEnds
  <1>gen. ppc_scan_block(s).gen =
              IF is_everything(page[blockEnd(s) - 1]) THEN Bits
              ELSE {r \in Bits : \E o \in s .. blockEnd(s) - 1 :
                      /\ r \in page[o].reads
                      /\ \A q \in s .. o - 1 : r \notin page[q].writes}
    BY DEF ppc_scan_block
  <1>kill. ppc_scan_block(s).kill =
              IF is_everything(page[blockEnd(s) - 1]) THEN Bits
              ELSE {r \in Bits : \E o \in s .. blockEnd(s) - 1 : r \in page[o].writes}
    BY DEF ppc_scan_block
  <1>same. ppc_scan_block(s).gen = blocks[b].gen /\ ppc_scan_block(s).kill = blocks[b].kill
    BY <1>scan
  <1> HIDE DEF blockEnd, ppc_scan_block, is_branch, is_everything
  <1> QED  BY <1>idx, <1>start, <1>end, <1>stop, <1>gen, <1>kill, <1>same

\* A bit dead at the start of a block stays dead up to its first write.
LEMMA DeadThrough ==
  ASSUME CfgInv, NEW b \in 1 .. numBlocks, NEW r, deadAt(r, blocks[b].start),
         NEW o \in blocks[b].start .. blocks[b].end - 1,
         \A q \in blocks[b].start .. o - 1 : r \notin page[q].writes
  PROVE  deadAt(r, o)
  <1> DEFINE s == blocks[b].start
             e == blocks[b].end
             T == {n \in s .. o : ~deadAt(r, n)}
  <1>facts. s \in Offsets /\ e \in s + 1 .. Slots /\ Straight(s, e - 2)
    BY BlockFacts
  <1>num. Slots \in Nat /\ s \in Nat /\ e \in Nat /\ o \in s .. e - 1 /\ o \in Nat
    BY <1>facts, LivenessAssumption DEF Offsets
  <1> SUFFICES ASSUME T # {} PROVE FALSE
    BY <1>num
  <1>least. PICK n \in T : \A m \in T : n <= m
    <2>nat. T \subseteq Nat
      BY <1>num
    <2> HIDE DEF T
    <2> QED  BY <2>nat, LeastElement
  <1>not. n # s /\ n \in s .. o
    BY <1>least
  <1>before. n - 1 \in s .. o - 1 /\ n - 1 \in s .. e - 2 /\ n - 1 \in Offsets /\ n < Slots
    BY <1>not, <1>num, <1>facts DEF Offsets
  <1>dead. deadAt(r, n - 1)
    <2>out. n - 1 \notin T
      BY <1>least, <1>not, <1>num
    <2> QED  BY <2>out, <1>before, <1>num
  <1>plain. ~is_branch(page[n - 1])
    BY <1>before, <1>facts DEF Straight
  <1>step. n \in follows(n - 1)
    <2>add. (n - 1) + 1 = n
      BY <1>not, <1>num
    <2> QED  BY <1>plain, <1>before, <2>add, GoesOn
  <1>unwritten. r \notin page[n - 1].writes
    BY <1>before
  <1>next. deadAt(r, n)
    BY <1>dead, <1>step, <1>unwritten, DeadStep
  <1> QED  BY <1>next, <1>least

(***************************************************************************)
(* No absolute branch leads to an address below the size of a page, which  *)
(* ppc_decode_branch_target takes for an offset of the page.               *)
(***************************************************************************)
NoLowAbsolute == \A insn \in Insns : insn.aa => insn.to \notin Offsets

\* Where the edges of a block lead: OffPage unless there is a block for every
\* offset to which the guest can go behind it.
LEMMA EdgesCover ==
  ASSUME NoLowAbsolute, CfgInv, NEW b \in 1 .. numBlocks, succ[b] = successors(b),
         succ[b] # {}, OffPage \notin succ[b], ~is_everything(page[blocks[b].end - 1]),
         NEW q \in follows(blocks[b].end - 1)
  PROVE  q \in Offsets /\ \E c \in succ[b] : c \in 1 .. numBlocks /\ blocks[c].start = q
  <1> DEFINE e == blocks[b].end
             last == page[e - 1]
             to == ppc_decode_branch_target(last, e - 1)
  <1>range. blocks[b].start \in Offsets /\ e \in blocks[b].start + 1 .. Slots
    BY BlockFacts
  <1>size. Slots \in Nat /\ numBlocks \in Nat
    BY LivenessAssumption DEF CfgInv
  <1>num. Slots \in Nat /\ e \in 1 .. Slots /\ numBlocks \in Nat
    BY <1>range, <1>size DEF Offsets
  <1>off. e - 1 \in Offsets /\ e - 1 + 1 = e /\ -1 \notin Offsets
    BY <1>num DEF Offsets
  <1>insn. last \in Insns
    BY <1>off DEF CfgInv
  <1>abs. last.aa => to = -1
    BY <1>insn DEF NoLowAbsolute, ppc_decode_branch_target
  <1>edges. /\ is_branch(last)
            /\ blockOrOffPage(to) \in succ[b]
            /\ ~last.uncond => blockOrOffPage(e) \in succ[b]
    BY DEF successors
  <1>block. ASSUME NEW o, blockOrOffPage(o) \in succ[b]
            PROVE  o \in Offsets /\ \E c \in succ[b] : c \in 1 .. numBlocks /\ blocks[c].start = o
    <2>on. o \in Offsets /\ blockForOfs(o) \in succ[b] /\ blockForOfs(o) # OffPage
      BY <1>block DEF blockOrOffPage
    <2>start. o \in Starts
      BY <2>on, <1>num, BlockForNot
    <2>for. blockForOfs(o) \in 1 .. numBlocks /\ blocks[blockForOfs(o)].start = o
      BY <2>start, <1>num, BlockFor
    <2> QED  BY <2>on, <2>for
  <1>target. q = to => q \in Offsets /\ \E c \in succ[b] : c \in 1 .. numBlocks /\ blocks[c].start = q
    BY <1>block, <1>edges
  <1>behind. q = e /\ ~last.uncond =>
               q \in Offsets /\ \E c \in succ[b] : c \in 1 .. numBlocks /\ blocks[c].start = q
    BY <1>block, <1>edges
  <1>which. q = to \/ (q = e /\ ~last.uncond)
    <2>ends. ~last.uncond => e \in Offsets
      BY <1>block, <1>edges
    <2>less. ~last.uncond => e < Slots
      BY <2>ends, <1>num DEF Offsets
    <2>on. to \in Offsets
      BY <1>block, <1>edges
    <2>rel. ~last.aa
      BY <2>on, <1>abs, <1>off
    <2>follows. follows(e - 1) = IF last.uncond THEN {to} ELSE {to, e}
      BY <2>less, <2>rel, <1>edges, <1>off DEF follows
    <2> QED  BY <2>follows
  <1> QED  BY <1>which, <1>target, <1>behind

\* Where every block satisfies its equation, what is not in its set is dead.
LEMMA SolutionConservative ==
  ASSUME NoLowAbsolute, CfgInv, phase # "discover",
         \A b \in 1 .. numBlocks : live_in[b] = newLiveIn(b),
         NEW b \in 1 .. numBlocks, NEW r \in Bits, r \notin live_in[b]
  PROVE  deadAt(r, blocks[b].start)
  <1> DEFINE Clear(c, o) == /\ r \notin live_in[c]
                            /\ o \in blocks[c].start .. blocks[c].end - 1
                            /\ \A p \in blocks[c].start .. o - 1 : r \notin page[p].writes
             D == {o \in Offsets : \E c \in 1 .. numBlocks : Clear(c, o)}
  <1>slots. Slots \in Nat
    BY LivenessAssumption
  <1>first. \A c \in 1 .. numBlocks : r \notin live_in[c] => blocks[c].start \in D
    <2> SUFFICES ASSUME NEW c \in 1 .. numBlocks, r \notin live_in[c]
                 PROVE  blocks[c].start \in D
      OBVIOUS
    <2>type. blocks[c].start \in Offsets /\ blocks[c].end \in blocks[c].start + 1 .. Slots
      BY BlockFacts
    <2>num. blocks[c].start \in Nat /\ blocks[c].end \in Nat /\ blocks[c].start + 1 <= blocks[c].end
      BY <2>type, <1>slots DEF Offsets
    <2>clear. Clear(c, blocks[c].start)
      BY <2>num
    <2> QED  BY <2>clear, <2>type
  <1>closed. ASSUME NEW o \in D
             PROVE  r \notin page[o].reads /\ (r \in page[o].writes \/ follows(o) \subseteq D)
    <2>in. PICK c \in 1 .. numBlocks : Clear(c, o)
      BY <1>closed
    <2> DEFINE s == blocks[c].start
               e == blocks[c].end
    <2>facts. /\ s \in Offsets /\ e \in s + 1 .. Slots /\ Straight(s, e - 2)
              /\ blocks[c].gen =
                   IF is_everything(page[e - 1]) THEN Bits
                   ELSE {x \in Bits : \E p \in s .. e - 1 :
                           x \in page[p].reads /\ \A q \in s .. p - 1 : x \notin page[q].writes}
              /\ blocks[c].kill =
                   IF is_everything(page[e - 1]) THEN Bits
                   ELSE {x \in Bits : \E p \in s .. e - 1 : x \in page[p].writes}
      BY BlockFacts
    <2>num. s \in Nat /\ e \in Nat /\ o \in s .. e - 1 /\ o \in Nat /\ o \in Offsets
      BY <2>in, <2>facts, <1>slots DEF Offsets
    <2>eq. r \notin blocks[c].gen /\ (r \in blocks[c].kill \/ r \notin newLiveOut(c))
      BY <2>in DEF newLiveIn
    <2>some. ~is_everything(page[e - 1])
      BY <2>eq, <2>facts
    <2>gen. blocks[c].gen = {x \in Bits : \E p \in s .. e - 1 :
                           x \in page[p].reads /\ \A q \in s .. p - 1 : x \notin page[q].writes}
      BY <2>facts, <2>some
    <2>kill. blocks[c].kill = {x \in Bits : \E p \in s .. e - 1 : x \in page[p].writes}
      BY <2>facts, <2>some
    <2>read. r \notin page[o].reads
      BY <2>gen, <2>eq, <2>in
    <2>goes. ASSUME r \notin page[o].writes, NEW q \in follows(o)
             PROVE  q \in D
      <3>inner. CASE o < e - 1
        <4>range. o \in s .. e - 2 /\ o + 1 < Slots /\ o + 1 \in s .. e - 1 /\ o + 1 \in Offsets
          BY <3>inner, <2>num, <2>facts, <1>slots DEF Offsets
        <4>next. q = o + 1
          BY <4>range, <2>facts, <2>num, GoesOn DEF Straight
        <4>upto. \A p \in s .. (o + 1) - 1 : p \in s .. o - 1 \/ p = o
          BY <2>num
        <4>clear. Clear(c, o + 1)
          BY <4>range, <4>upto, <2>in, <2>goes
        <4> QED  BY <4>next, <4>clear, <4>range
      <3>outer. CASE o = e - 1
        <4>upto. \A p \in s .. e - 1 : p \in s .. o - 1 \/ p = o
          BY <3>outer, <2>num
        <4>kill. r \notin blocks[c].kill
          BY <4>upto, <2>kill, <2>in, <2>goes
        <4>out. r \notin newLiveOut(c)
          BY <4>kill, <2>eq
        <4>succ. succ[c] # {} /\ OffPage \notin succ[c] /\ \A d \in succ[c] : r \notin live_in[d]
          BY <4>out DEF newLiveOut
        <4>edges. succ[c] = successors(c)
          BY DEF CfgInv, Edges
        <4>to. \E d \in succ[c] : d \in 1 .. numBlocks /\ blocks[d].start = q
          BY <4>succ, <4>edges, <2>some, <2>goes, <3>outer, EdgesCover
        <4> QED  BY <4>to, <4>succ, <1>first
      <3> QED  BY <3>inner, <3>outer, <2>num
    <2> QED  BY <2>read, <2>goes
  <1>start. blocks[b].start \in D /\ D \in SUBSET Offsets
    BY <1>first
  <1> HIDE DEF D
  <1> QED  BY <1>start, <1>closed DEF deadAt

\* Sets that hold live bits only give, by the equations, live bits only.
LEMMA SolutionExact ==
  ASSUME CfgInv, Complete, phase # "discover",
         \A c \in 1 .. numBlocks : \A x \in live_in[c] : ~deadAt(x, blocks[c].start),
         NEW b \in 1 .. numBlocks, NEW r \in Bits, r \in newLiveIn(b)
  PROVE  ~deadAt(r, blocks[b].start)
  <1> SUFFICES ASSUME deadAt(r, blocks[b].start) PROVE FALSE
    OBVIOUS
  <1> DEFINE s == blocks[b].start
             e == blocks[b].end
             last == page[e - 1]
             to == ppc_decode_branch_target(last, e - 1)
  <1>some. ~is_everything(last)
    BY DEF Complete
  <1>facts. /\ s \in Offsets /\ e \in s + 1 .. Slots
            /\ e = Slots \/ is_branch(last)
            /\ blocks[b].gen =
                   IF is_everything(last) THEN Bits
                   ELSE {x \in Bits : \E p \in s .. e - 1 :
                           x \in page[p].reads /\ \A q \in s .. p - 1 : x \notin page[q].writes}
            /\ blocks[b].kill =
                   IF is_everything(last) THEN Bits
                   ELSE {x \in Bits : \E p \in s .. e - 1 : x \in page[p].writes}
    BY BlockFacts, <1>some
  <1>gen. blocks[b].gen = {x \in Bits : \E p \in s .. e - 1 :
                           x \in page[p].reads /\ \A q \in s .. p - 1 : x \notin page[q].writes}
    BY <1>facts, <1>some
  <1>kill. blocks[b].kill = {x \in Bits : \E p \in s .. e - 1 : x \in page[p].writes}
    BY <1>facts, <1>some
  <1>slots. Slots \in Nat
    BY LivenessAssumption
  <1>num. /\ s \in Nat /\ e \in Nat /\ e \in 1 .. Slots /\ e - 1 \in s .. e - 1
          /\ e - 1 \in Offsets /\ -1 \notin Offsets /\ (e - 1) + 1 = e
          /\ (e \in Offsets <=> e < Slots)
    BY <1>facts, <1>slots DEF Offsets
  <1>count. numBlocks \in Nat
    BY LivenessAssumption DEF CfgInv
  <1>unread. r \notin blocks[b].gen
    <2> SUFFICES ASSUME NEW p \in s .. e - 1, r \in page[p].reads,
                        \A q \in s .. p - 1 : r \notin page[q].writes
                 PROVE  FALSE
      BY <1>gen
    <2>dead. deadAt(r, p)
      BY DeadThrough
    <2> QED  BY <2>dead, DeadUnread
  <1>out. r \in newLiveOut(b) /\ r \notin blocks[b].kill
    BY <1>unread DEF newLiveIn
  <1>unwritten. \A p \in s .. e - 1 : r \notin page[p].writes
    BY <1>out, <1>kill
  <1>end. deadAt(r, e - 1)
    <2>sub. \A q \in s .. (e - 1) - 1 : q \in s .. e - 1
      BY <1>num
    <2> QED  BY <2>sub, <1>unwritten, <1>num, DeadThrough
  <1>goes. \A q \in follows(e - 1) : q \in Offsets /\ deadAt(r, q)
    BY <1>end, <1>unwritten, <1>num, DeadStep
  <1>branch. is_branch(last)
    <2> SUFFICES ASSUME ~is_branch(last) PROVE FALSE
      OBVIOUS
    <2>last. e = Slots
      BY <1>facts
    <2>off. follows(e - 1) = {-1}
      BY <2>last, <1>num, <1>slots, GoesOn
    <2> QED  BY <2>off, <1>goes, <1>num
  <1>rel. ~last.aa /\ to \in follows(e - 1) /\ (~last.uncond => e \in follows(e - 1) /\ e < Slots)
    <2>eq. follows(e - 1) = LET t == IF last.aa THEN -1 ELSE to
                                n == IF e < Slots THEN e ELSE -1
                            IN  IF last.uncond THEN {t} ELSE {t, n}
      BY <1>branch, <1>num DEF follows
    <2>no. -1 \notin follows(e - 1)
      BY <1>goes, <1>num
    <2> QED  BY <2>eq, <2>no
  <1>edges. /\ succ[b] = successors(b)
            /\ successors(b) = IF last.uncond THEN {blockOrOffPage(to)}
                               ELSE {blockOrOffPage(to), blockOrOffPage(e)}
    BY <1>branch DEF CfgInv, Edges, successors
  <1>exits. (to \in Offsets => to \in exits(e)) /\ (e \in Offsets /\ ~last.uncond => e \in exits(e))
    <2>pushed. \A o \in Offsets :
              (\/ is_branch(page[e - 1]) /\ o = ppc_decode_branch_target(page[e - 1], e - 1)
               \/ /\ o = e
                  /\ \/ is_everything(page[e - 1])
                     \/ is_branch(page[e - 1]) /\ ~page[e - 1].uncond)
              => \E k \in 1 .. Len(pushed(e)) : pushed(e)[k] = o
      BY <1>num, PushedType
    <2> QED  BY <2>pushed, <1>branch DEF exits
  <1>found. exits(e) \subseteq Starts
    <2>none. Pending = {}
      BY DEF Complete, Pending
    <2> QED  BY <2>none DEF CfgInv, Explored
  <1>block. ASSUME NEW o \in follows(e - 1), o \in exits(e)
            PROVE  /\ blockOrOffPage(o) \in 1 .. numBlocks
                   /\ r \notin live_in[blockOrOffPage(o)]
    <2>start. o \in Starts /\ o \in Offsets /\ deadAt(r, o)
      BY <1>block, <1>found, <1>goes
    <2>for. blockForOfs(o) \in 1 .. numBlocks /\ blocks[blockForOfs(o)].start = o
      BY <2>start, <1>count, BlockFor
    <2>same. blockOrOffPage(o) = blockForOfs(o)
      BY <2>start DEF blockOrOffPage
    <2> QED  BY <2>start, <2>for, <2>same
  <1>each. \A c \in succ[b] : c \in 1 .. numBlocks /\ r \notin live_in[c]
    <2>to. to \in exits(e)
      BY <1>rel, <1>goes, <1>exits
    <2>one. blockOrOffPage(to) \in 1 .. numBlocks /\ r \notin live_in[blockOrOffPage(to)]
      BY <2>to, <1>rel, <1>block
    <2>two. ~last.uncond => /\ blockOrOffPage(e) \in 1 .. numBlocks
                            /\ r \notin live_in[blockOrOffPage(e)]
      BY <1>rel, <1>block, <1>exits, <1>num
    <2> HIDE DEF blockOrOffPage
    <2> QED  BY <2>one, <2>two, <1>edges
  <1>nonempty. succ[b] # {} /\ OffPage \notin succ[b]
    <2>some. succ[b] # {}
      BY <1>edges
    <2> QED  BY <2>some, <1>each, <1>count DEF OffPage
  <1> QED  BY <1>nonempty, <1>each, <1>out DEF newLiveOut

SetsType ==
    /\ live_in \in [Indices -> SUBSET Bits]
    /\ live_out \in [Indices -> SUBSET Bits]
    /\ changed \in BOOLEAN

\* The sets never hold more than what is live, as long as nothing was left out.
NotAbove ==
    phase # "discover" /\ Complete =>
        \A b \in 1 .. numBlocks : \A r \in live_in[b] : ~deadAt(r, blocks[b].start)

SolverInv == SweepInv /\ CfgInv /\ SetsType /\ NotAbove

\* All of it holds at first ...
LEMMA SolverInit == LivenessInit => SolverInv
  <1> SUFFICES ASSUME LivenessInit PROVE SolverInv
    OBVIOUS
  <1>sets. SetsType /\ NotAbove
    BY DEF LivenessInit, SetsType, None, NotAbove
  <1> QED  BY <1>sets, SweepInit, CfgInit DEF SolverInv

\* The equations give sets of bits.
LEMMA NewSetsType ==
  ASSUME SolverInv, NEW b \in 1 .. numBlocks
  PROVE  newLiveOut(b) \subseteq Bits /\ newLiveIn(b) \subseteq Bits
  <1>idx. b \in Indices
    BY LivenessAssumption DEF SolverInv, CfgInv, Indices
  <1>out. newLiveOut(b) \subseteq Bits
    <2>off. CASE succ[b] = {} \/ OffPage \in succ[b]
      BY <2>off DEF newLiveOut
    <2>on. CASE ~(succ[b] = {} \/ OffPage \in succ[b])
      <3>sub. succ[b] \subseteq Indices
        BY <1>idx, <2>on DEF SolverInv, SweepInv, Shape
      <3> QED  BY <2>on, <3>sub DEF newLiveOut, SolverInv, SetsType
    <2> QED  BY <2>off, <2>on
  <1>gen. blocks[b].gen \subseteq Bits
    BY <1>idx DEF SolverInv, CfgInv, Block
  <1> QED  BY <1>out, <1>gen DEF newLiveIn

\* ... and every step keeps it.
LEMMA SolverKept == SolverInv /\ [LivenessNext]_lvars => SolverInv'
  <1> SUFFICES ASSUME SolverInv, [LivenessNext]_lvars PROVE SolverInv'
    OBVIOUS
  <1>parts. SweepInv' /\ CfgInv'
    BY SweepKept, CfgKept DEF SolverInv
  <1>page. page' = page
    BY DEF LivenessNext, Analyse, Discover, BuildEdges, SolveBlock, EndSweep, Reenter, lvars
  <1>dead. \A r, o : deadAt(r, o)' <=> deadAt(r, o)
    BY <1>page DEF deadAt, follows, is_branch, ppc_decode_branch_target
  <1>same. ASSUME live_in' = live_in, live_out' = live_out, changed' \in BOOLEAN,
                  phase' # "discover" => \/ phase # "discover" /\ blocks' = blocks
                                            /\ numBlocks' = numBlocks /\ worklist' = worklist
                                         \/ \A b \in 1 .. numBlocks' : live_in[b] = {}
           PROVE  SolverInv'
    <2>type. SetsType'
      BY <1>same DEF SolverInv, SetsType
    <2>above. NotAbove'
      <3>first. CASE phase' = "discover"
        BY <3>first DEF NotAbove
      <3>empty. CASE \A b \in 1 .. numBlocks' : live_in[b] = {}
        BY <3>empty, <1>same DEF NotAbove
      <3>kept. CASE phase # "discover" /\ blocks' = blocks /\ numBlocks' = numBlocks /\ worklist' = worklist
        <4>complete. Complete' <=> Complete
          BY <3>kept, <1>page DEF Complete, is_everything
        <4> HIDE DEF Complete, deadAt
        <4> QED  BY <3>kept, <4>complete, <1>same, <1>dead DEF SolverInv, NotAbove
      <3> QED  BY <3>first, <3>empty, <3>kept, <1>same
    <2> HIDE DEF SetsType, NotAbove
    <2> QED  BY <2>type, <2>above, <1>parts DEF SolverInv
  <1>flag. changed \in BOOLEAN
    BY DEF SolverInv, SetsType
  <1>discover. CASE Discover
    <2>kept. live_in' = live_in /\ live_out' = live_out /\ phase' = "discover" /\ changed' = changed
      BY <1>discover DEF Discover
    <2> QED  BY <2>kept, <1>flag, <1>same
  <1>edges. CASE BuildEdges
    <2>empty. \A b \in 1 .. numBlocks' : live_in[b] = {}
      BY <1>edges, LivenessAssumption DEF BuildEdges, SolverInv, SweepInv, Unswept, Shape, Indices
    <2>kept. live_in' = live_in /\ live_out' = live_out /\ changed' \in BOOLEAN
      BY <1>edges DEF BuildEdges
    <2> QED  BY <2>kept, <2>empty, <1>same
  <1>solve. CASE SolveBlock
    <2>range. i \in Indices /\ i \in 1 .. numBlocks
      BY <1>solve, SolveStep DEF SolverInv
    <2>next. /\ live_in' = [live_in EXCEPT ![i] = newLiveIn(i)]
             /\ live_out' = [live_out EXCEPT ![i] = newLiveOut(i)]
             /\ changed' = (changed \/ newLiveIn(i) # live_in[i])
             /\ phase = "solve" /\ blocks' = blocks /\ numBlocks' = numBlocks /\ worklist' = worklist
      BY <1>solve DEF SolveBlock
    <2>new. newLiveOut(i) \subseteq Bits /\ newLiveIn(i) \subseteq Bits
      BY <2>range, NewSetsType
    <2> HIDE DEF newLiveIn, newLiveOut
    <2>in. live_in' \in [Indices -> SUBSET Bits] /\ live_out' \in [Indices -> SUBSET Bits]
      BY <2>next, <2>new DEF SolverInv, SetsType
    <2>flag. changed' \in BOOLEAN
      BY <2>next
    <2>type. SetsType'
      BY <2>in, <2>flag DEF SetsType
    <2>above. NotAbove'
      <3>complete. Complete' <=> Complete
        BY <2>next, <1>page DEF Complete, is_everything
      <3> SUFFICES ASSUME Complete, NEW b \in 1 .. numBlocks, NEW r \in live_in'[b]
                   PROVE  ~deadAt(r, blocks[b].start)
        <4> HIDE DEF Complete, deadAt
        <4> QED  BY <3>complete, <1>dead, <2>next DEF NotAbove
      <3>old. \A c \in 1 .. numBlocks : \A x \in live_in[c] : ~deadAt(x, blocks[c].start)
        BY <2>next DEF SolverInv, NotAbove
      <3>idx. b \in Indices
        BY LivenessAssumption DEF SolverInv, CfgInv, Indices
      <3>this. CASE b = i
        <4>in. r \in newLiveIn(b) /\ r \in Bits
          BY <3>this, <2>range, <2>next, <2>new DEF SolverInv, SetsType
        <4> QED  BY <4>in, <3>old, <2>next, SolutionExact DEF SolverInv
      <3>other. CASE b # i
        <4>in. r \in live_in[b]
          BY <3>other, <3>idx, <2>next DEF SolverInv, SetsType
        <4> QED  BY <4>in, <3>old
      <3> QED  BY <3>this, <3>other
    <2> QED  BY <2>type, <2>above, <1>parts DEF SolverInv
  <1>sweep. CASE EndSweep
    <2>kept. /\ live_in' = live_in /\ live_out' = live_out /\ changed' \in BOOLEAN
             /\ phase # "discover" /\ blocks' = blocks /\ numBlocks' = numBlocks /\ worklist' = worklist
      BY <1>sweep DEF EndSweep
    <2> QED  BY <2>kept, <1>same
  <1>again. CASE \E o \in Offsets : Reenter(o)
    <2>new. phase' = "discover" /\ live_in' = None /\ live_out' = None /\ changed' = FALSE
      BY <1>again DEF Reenter, Begin
    <2> QED  BY <2>new, <1>parts DEF SolverInv, SetsType, NotAbove, None
  <1>idle. CASE UNCHANGED lvars
    <2>kept. /\ live_in' = live_in /\ live_out' = live_out /\ changed' = changed /\ phase' = phase
             /\ blocks' = blocks /\ numBlocks' = numBlocks /\ worklist' = worklist
      BY <1>idle DEF lvars
    <2> QED  BY <2>kept, <1>flag, <1>same
  <1> QED
    BY <1>discover, <1>edges, <1>solve, <1>sweep, <1>again, <1>idle DEF LivenessNext, Analyse

\* The invariants say what SolverExact does.
LEMMA InvExact == NoLowAbsolute /\ SolverInv => SolverExact
  <1> SUFFICES ASSUME NoLowAbsolute, SolverInv PROVE SolverExact
    OBVIOUS
  <1>type. LivenessTypeOK
    <2>list. \A k \in 1 .. Len(worklist) : worklist[k] \in Offsets
      BY DEF SolverInv, CfgInv
    <2> QED  BY <2>list DEF SolverInv, SweepInv, Shape, CfgInv, SetsType, LivenessTypeOK
  <1>list. WorklistBound
    <2> SUFFICES ASSUME numBlocks \in 0 .. MaxBlocks, Len(worklist) <= numBlocks + 1, Len(worklist) \in Nat
                 PROVE  WorklistBound
      BY DEF SolverInv, CfgInv
    <2> QED  BY LivenessAssumption DEF WorklistBound
  <1>conservative. ASSUME phase = "done", NEW b \in 1 .. numBlocks
                   PROVE  live(blocks[b].start) \subseteq live_in[b]
    <2>solved. \A c \in 1 .. numBlocks : live_in[c] = newLiveIn(c)
      BY <1>conservative DEF SolverInv, SweepInv, Solved
    <2> SUFFICES ASSUME NEW r \in Bits, r \notin live_in[b]
                 PROVE  deadAt(r, blocks[b].start)
      BY DEF live
    <2> QED  BY <1>conservative, <2>solved, SolutionConservative DEF SolverInv
  <1>exact. ASSUME phase = "done", Complete, NEW b \in 1 .. numBlocks
            PROVE  live_in[b] = live(blocks[b].start)
    <2>below. \A r \in live_in[b] : ~deadAt(r, blocks[b].start)
      BY <1>exact DEF SolverInv, NotAbove
    <2>bits. live_in[b] \subseteq Bits
      BY LivenessAssumption DEF SolverInv, CfgInv, SetsType, Indices
    <2> QED  BY <1>exact, <1>conservative, <2>below, <2>bits DEF live
  <1> QED  BY <1>type, <1>list, <1>conservative, <1>exact DEF SolverExact, Conservative

(***************************************************************************)
(* The analysis of ppc_build_page_cfg is exact on every page without a     *)
(* low absolute branch, whatever its size, its instructions and the number *)
(* of blocks it has room for; where the table of blocks is full, or a      *)
(* block ends with everything(), it errs on the live side.                 *)
(***************************************************************************)
THEOREM SolverIsExact == NoLowAbsolute /\ LivenessSpec => []SolverExact
  <1>inv. LivenessSpec => []SolverInv
    BY SolverInit, SolverKept, PTL DEF LivenessSpec
  <1>case. CASE NoLowAbsolute
    <2>all. SolverInv => SolverExact
      BY <1>case, InvExact
    <2> QED  BY <1>inv, <2>all, PTL
  <1> QED  BY <1>case

-----------------------------------------------------------------------------
\* The flags: what memory shows wrongly is never read again before it is written.
StaleDead == \A r \in stale : deadAt(r, pc)

FieldInv ==
    /\ page \in [Offsets -> Insns]
    /\ pc \in Offsets \cup {Slots}
    /\ flags \in {"rsUnused", "rsMapped", "rsDirty"}
    /\ stale \subseteq Bits
    /\ flags = "rsDirty" \/ pc = Slots => stale = {}
    /\ StaleDead

\* The guest gets to an offset with s stale in memory: nothing is, or the offset
\* is on the page and s is dead there.
Arrives(to, s) ==
    /\ s \subseteq Bits
    /\ \/ s = {}
       \/ to \in Offsets /\ \A r \in s : deadAt(r, to)

\* What stays stale over an instruction arrives where the guest goes.
LEMMA Passed ==
  ASSUME FieldInv, pc # Slots, NEW q \in follows(pc), NEW s,
         s \subseteq clobberFlags \ page[pc].writes
  PROVE  Arrives(q, s)
  <1>sub. s \subseteq stale
    BY DEF clobberFlags
  <1>dead. \A r \in s : q \in Offsets /\ deadAt(r, q)
    BY <1>sub, DeadStep DEF FieldInv, StaleDead
  <1> QED  BY <1>sub, <1>dead DEF Arrives, FieldInv

\* Where the guest goes behind an instruction of each kind.
LEMMA NextFollows ==
  ASSUME FieldInv, pc # Slots,
         page[pc].op \in {"plain", "compare", "mfcr", "crop", "everything", "getpc"}
         \/ ~page[pc].uncond
  PROVE  (IF pc + 1 < Slots THEN pc + 1 ELSE -1) \in follows(pc)
  <1>on. pc \in Offsets /\ page[pc] \in Insns
    BY DEF FieldInv
  <1>num. pc \in Nat /\ Slots \in Nat /\ pc < Slots
    BY <1>on, LivenessAssumption DEF Offsets
  <1>getpc. CASE page[pc].op = "getpc"
    <2>kind. page[pc].uncond /\ ~page[pc].aa /\ page[pc].to = 1
      BY <1>on, <1>getpc, KindsAssumption
    <2>to. ppc_decode_branch_target(page[pc], pc) = IF pc + 1 < Slots THEN pc + 1 ELSE -1
      BY <2>kind, <1>num DEF ppc_decode_branch_target, Offsets
    <2> QED  BY <2>kind, <2>to, <1>getpc DEF follows, is_branch
  <1>line. CASE page[pc].op \in {"plain", "compare", "mfcr", "crop", "everything"}
    BY <1>line DEF follows, is_branch
  <1>bc. CASE ~page[pc].uncond
    BY <1>bc DEF follows
  <1> QED  BY <1>getpc, <1>line, <1>bc

\* A branch may go to its target.
LEMMA TargetFollows ==
  ASSUME pc # Slots, page[pc].op \in {"bc", "branch"}
  PROVE  target \in follows(pc)
  BY DEF follows, target, is_branch

\* An offset the analysis calls dead is dead.
LEMMA DeadMeansDead ==
  ASSUME NoLowAbsolute, SolverInv, phase = "done", NEW ofs, crDead(ofs), NEW r \in Bits
  PROVE  ofs \in Offsets /\ deadAt(r, ofs)
  <1>count. numBlocks \in Nat
    BY LivenessAssumption DEF SolverInv, CfgInv
  <1>for. /\ ofs \in Offsets /\ blockForOfs(ofs) # OffPage
          /\ live_in[blockForOfs(ofs)] = {}
    BY DEF crDead
  <1>start. ofs \in Starts
    BY <1>for, <1>count, BlockForNot
  <1>block. blockForOfs(ofs) \in 1 .. numBlocks /\ blocks[blockForOfs(ofs)].start = ofs
    BY <1>start, <1>count, BlockFor
  <1>solved. \A c \in 1 .. numBlocks : live_in[c] = newLiveIn(c)
    BY DEF SolverInv, SweepInv, Solved
  <1>dead. deadAt(r, blocks[blockForOfs(ofs)].start)
    BY <1>block, <1>for, <1>solved, SolutionConservative DEF SolverInv
  <1> QED  BY <1>dead, <1>block, <1>for

\* What a bcx leaves in memory on a way it takes for dead only if it is.
LEMMA BehindArrives ==
  ASSUME NoLowAbsolute, SolverInv, FieldInv, At("bc"), NEW q \in follows(pc),
         NEW dead \in BOOLEAN, dead => crDead(q)
  PROVE  Arrives(q, Behind(dead))
  <1>on. phase = "done" /\ pc # Slots /\ page[pc].op = "bc" /\ page[pc] \in Insns
    BY DEF At, Running, FieldInv
  <1>slow. CASE ~fast
    <2>same. Behind(dead) = clobberFlags /\ page[pc].writes = {}
      BY <1>slow, <1>on, KindsAssumption DEF Behind
    <2> QED  BY <2>same, <1>on, Passed
  <1>written. CASE fast /\ ~dead
    BY <1>written DEF Behind, Arrives
  <1>left. CASE fast /\ dead
    <2>sub. Behind(dead) \subseteq Bits
      BY <1>left DEF Behind, FieldInv
    <2>dead. q \in Offsets /\ \A r \in Bits : deadAt(r, q)
      <3>in. q \in Offsets
        BY <1>left DEF crDead
      <3> QED  BY <3>in, <1>on, <1>left, DeadMeansDead
    <2> QED  BY <2>sub, <2>dead DEF Arrives
  <1> QED  BY <1>slow, <1>written, <1>left

\* Going on to the next instruction.
LEMMA ContinueKeeps ==
  ASSUME FieldInv, pc # Slots, NEW f, NEW s, Continue(f, s),
         f \in {"rsUnused", "rsMapped", "rsDirty"}, f = "rsDirty" => s = {},
         Arrives(IF pc + 1 < Slots THEN pc + 1 ELSE -1, s)
  PROVE  FieldInv'
  <1>num. pc \in Nat /\ Slots \in Nat /\ pc < Slots /\ pc \in Offsets /\ Slots \notin Offsets /\ -1 \notin Offsets
    BY LivenessAssumption DEF FieldInv, Offsets
  <1>page. page' = page
    BY DEF Continue, lvars
  <1>follows. \A o : follows(o)' = follows(o)
    BY <1>page DEF follows, is_branch, ppc_decode_branch_target
  <1>last. CASE pc + 1 = Slots
    <2>none. s = {}
      BY <1>last, <1>num DEF Arrives
    <2>next. pc' = Slots /\ flags' = "rsUnused" /\ stale' = {}
      BY <1>last, <2>none DEF Continue
    <2> QED  BY <2>next, <1>page DEF FieldInv, StaleDead
  <1>more. CASE pc + 1 # Slots
    <2>in. pc + 1 \in Offsets /\ pc + 1 < Slots
      BY <1>more, <1>num DEF Offsets
    <2>next. pc' = pc + 1 /\ flags' = f /\ stale' = s
      BY <1>more DEF Continue
    <2>dead. s \subseteq Bits /\ \A r \in s : deadAt(r, pc + 1)
      BY <2>in DEF Arrives
    <2>still. StaleDead'
      BY <2>dead, <2>next, <1>page, <1>follows DEF StaleDead, deadAt
    <2>not. pc' # Slots
      BY <2>in, <2>next, <1>num
    <2> QED  BY <2>in, <2>next, <2>dead, <2>still, <2>not, <1>page DEF FieldInv
  <1> QED  BY <1>last, <1>more

\* Going through the dispatcher.
LEMMA DispatchKeeps ==
  ASSUME FieldInv, NEW to, NEW s, Dispatch(to, s), Arrives(to, s)
  PROVE  FieldInv'
  <1>page. page' = page
    BY DEF Dispatch, Reenter, lvars
  <1>follows. \A o : follows(o)' = follows(o)
    BY <1>page DEF follows, is_branch, ppc_decode_branch_target
  <1>next. flags' = "rsUnused" /\ stale' = s /\ pc' = IF to \in Offsets THEN to ELSE Slots
    BY DEF Dispatch
  <1>slots. Slots \notin Offsets
    BY LivenessAssumption DEF Offsets
  <1>on. CASE to \in Offsets
    <2>dead. s \subseteq Bits /\ \A r \in s : deadAt(r, to)
      BY <1>on DEF Arrives
    <2>pc. pc' = to /\ to # Slots
      BY <1>on, <1>next, <1>slots
    <2>still. StaleDead'
      BY <2>dead, <2>pc, <1>next, <1>page, <1>follows DEF StaleDead, deadAt
    <2> QED  BY <1>on, <2>dead, <2>pc, <2>still, <1>next, <1>page DEF FieldInv
  <1>off. CASE to \notin Offsets
    <2>none. s = {}
      BY <1>off DEF Arrives
    <2> QED  BY <2>none, <1>off, <1>next, <1>page DEF FieldInv, StaleDead
  <1> QED  BY <1>on, <1>off

\* Every instruction of the guest keeps it.
LEMMA RunKeeps ==
  ASSUME NoLowAbsolute, SolverInv, FieldInv, Run
  PROVE  FieldInv'
  <1>on. phase = "done" /\ pc # Slots /\ pc \in Offsets /\ page[pc] \in Insns
    BY DEF Run, Compare, CrOp, Mfcr, Plain, Interpret, GetPC, Taken, FallThrough, Branch,
           At, Running, FieldInv
  <1> DEFINE next == IF pc + 1 < Slots THEN pc + 1 ELSE -1
             Kinds == {"rsUnused", "rsMapped", "rsDirty"}
  <1>stale. /\ flags \in Kinds
            /\ flags = "rsDirty" => stale = {}
            /\ clobberFlags \subseteq stale
            /\ stale \subseteq clobberFlags
    BY DEF FieldInv, clobberFlags
  <1>unwritten. page[pc].op \in {"plain", "mfcr", "bc", "branch", "getpc"} => page[pc].writes = {}
    BY <1>on, KindsAssumption
  <1>compare. CASE Compare
    <2>to. Arrives(next, {})
      BY DEF Arrives
    <2> QED  BY <1>compare, <2>to, <1>on, ContinueKeeps DEF Compare
  <1>line. ASSUME page[pc].op \in {"plain", "mfcr", "crop", "everything", "getpc"} \/ ~page[pc].uncond,
                  NEW s, s \subseteq clobberFlags \ page[pc].writes,
                  NEW f \in Kinds, f = "rsDirty" => s = {}, Continue(f, s)
           PROVE  FieldInv'
    <2>follows. next \in follows(pc)
      BY <1>line, <1>on, NextFollows
    <2>to. Arrives(next, s)
      BY <2>follows, <1>line, <1>on, Passed
    <2> QED  BY <2>to, <1>line, <1>on, ContinueKeeps
  <1>crop. CASE CrOp
    <2>at. page[pc].op = "crop" /\ Continue("rsUnused", clobberFlags \ page[pc].writes)
      BY <1>crop DEF CrOp, At
    <2> QED  BY <2>at, <1>line
  <1>interpret. CASE Interpret
    <2>at. page[pc].op = "everything" /\ Continue("rsUnused", clobberFlags \ page[pc].writes)
      BY <1>interpret DEF Interpret, At
    <2> QED  BY <2>at, <1>line
  <1>mfcr. CASE Mfcr
    <2> DEFINE f == IF flags = "rsUnused" THEN flags ELSE "rsMapped"
    <2>at. page[pc].op = "mfcr" /\ Continue(f, clobberFlags)
      BY <1>mfcr DEF Mfcr, At
    <2>f. f \in Kinds /\ f # "rsDirty"
      OBVIOUS
    <2> HIDE DEF f
    <2>sub. clobberFlags \subseteq clobberFlags \ page[pc].writes
      BY <2>at, <1>unwritten
    <2> QED  BY <2>at, <2>f, <2>sub, <1>line
  <1>plain. CASE Plain
    <2>at. page[pc].op = "plain" /\ (Continue(flags, stale) \/ Continue("rsUnused", clobberFlags))
      BY <1>plain DEF Plain, At
    <2>sub. stale \subseteq clobberFlags \ page[pc].writes /\ clobberFlags \subseteq clobberFlags \ page[pc].writes
      BY <2>at, <1>unwritten, <1>stale
    <2>keep. Continue(flags, stale) => FieldInv'
      BY <2>at, <2>sub, <1>stale, <1>line
    <2>drop. Continue("rsUnused", clobberFlags) => FieldInv'
      BY <2>at, <2>sub, <1>line
    <2> QED  BY <2>at, <2>keep, <2>drop
  <1>getpc. CASE GetPC
    <2>at. page[pc].op = "getpc" /\ Continue(flags, stale)
      BY <1>getpc DEF GetPC, At
    <2>sub. stale \subseteq clobberFlags \ page[pc].writes
      BY <2>at, <1>unwritten, <1>stale
    <2> QED  BY <2>at, <2>sub, <1>stale, <1>line
  <1>taken. CASE Taken
    <2>at. At("bc") /\ page[pc].op = "bc" /\ Dispatch(target, Behind(deadAtTarget))
      BY <1>taken DEF Taken, At
    <2>follows. target \in follows(pc)
      BY <2>at, <1>on, TargetFollows
    <2>dead. deadAtTarget \in BOOLEAN /\ (deadAtTarget => crDead(target))
      BY DEF deadAtTarget
    <2> HIDE DEF deadAtTarget
    <2>to. Arrives(target, Behind(deadAtTarget))
      BY <2>at, <2>follows, <2>dead, BehindArrives
    <2> QED  BY <2>at, <2>to, DispatchKeeps
  <1>fall. CASE FallThrough
    <2> DEFINE dead == deadAtTarget /\ deadAtFallthrough
    <2>at. At("bc") /\ page[pc].op = "bc" /\ Continue("rsUnused", Behind(dead))
      BY <1>fall DEF FallThrough, At
    <2>un. ~page[pc].uncond
      BY <2>at, <1>on, KindsAssumption
    <2>follows. next \in follows(pc)
      BY <2>un, <1>on, NextFollows
    <2>dead. dead \in BOOLEAN /\ (dead => crDead(pc + 1))
      BY DEF deadAtFallthrough
    <2>next. dead => crDead(next)
      <3> SUFFICES ASSUME dead PROVE crDead(next)
        OBVIOUS
      <3>in. pc + 1 \in Offsets
        BY <2>dead DEF crDead
      <3>less. pc + 1 < Slots
        BY <3>in, LivenessAssumption DEF Offsets
      <3> QED  BY <3>less, <2>dead
    <2> HIDE DEF dead, next
    <2>to. Arrives(next, Behind(dead))
      BY <2>at, <2>follows, <2>dead, <2>next, BehindArrives
    <2> QED  BY <2>at, <2>to, <1>on, ContinueKeeps DEF next
  <1>branch. CASE Branch
    <2>at. /\ page[pc].op = "branch"
           /\ \/ Dispatch(target, clobberFlags)
              \/ ~page[pc].uncond /\ Continue("rsUnused", clobberFlags)
              \/ ~page[pc].uncond /\ Dispatch(pc + 1, clobberFlags)
      BY <1>branch DEF Branch, At
    <2>sub. clobberFlags \subseteq clobberFlags \ page[pc].writes
      BY <2>at, <1>unwritten
    <2>go. Dispatch(target, clobberFlags) => FieldInv'
      <3>follows. target \in follows(pc)
        BY <2>at, <1>on, TargetFollows
      <3>to. Arrives(target, clobberFlags)
        BY <3>follows, <2>sub, <1>on, Passed
      <3> QED  BY <3>to, DispatchKeeps
    <2>on. ~page[pc].uncond /\ Continue("rsUnused", clobberFlags) => FieldInv'
      BY <2>sub, <1>line
    <2>through. ~page[pc].uncond /\ Dispatch(pc + 1, clobberFlags) => FieldInv'
      <3> SUFFICES ASSUME ~page[pc].uncond, Dispatch(pc + 1, clobberFlags) PROVE FieldInv'
        OBVIOUS
      <3>follows. next \in follows(pc)
        BY <1>on, NextFollows
      <3>to. Arrives(next, clobberFlags)
        BY <3>follows, <2>sub, <1>on, Passed
      <3>num. pc \in Nat /\ Slots \in Nat
        BY <1>on, LivenessAssumption DEF Offsets
      <3>less. pc + 1 < Slots \/ next \notin Offsets
        BY <3>num DEF Offsets
      <3>there. Arrives(pc + 1, clobberFlags)
        BY <3>to, <3>less DEF Arrives
      <3> QED  BY <3>there, DispatchKeeps
    <2> QED  BY <2>at, <2>go, <2>on, <2>through
  <1> QED
    BY <1>compare, <1>crop, <1>mfcr, <1>plain, <1>interpret, <1>getpc, <1>taken, <1>fall, <1>branch
    DEF Run

\* A step of the composed system is one of the analysis, or leaves it alone.
LEMMA RunReenters == [Next]_vars => [LivenessNext]_lvars
  <1> SUFFICES ASSUME [Next]_vars PROVE [LivenessNext]_lvars
    OBVIOUS
  <1>stay. UNCHANGED vars => UNCHANGED lvars
    BY DEF vars
  <1>translate. Translate => LivenessNext
    BY DEF Translate, LivenessNext
  <1>continue. \A f, s : Continue(f, s) => UNCHANGED lvars
    BY DEF Continue
  <1>dispatch. \A o, s : Dispatch(o, s) => UNCHANGED lvars \/ LivenessNext
    <2> SUFFICES ASSUME NEW o, NEW s, Dispatch(o, s) PROVE UNCHANGED lvars \/ LivenessNext
      OBVIOUS
    <2>on. CASE o \in Offsets
      <3>pick. PICK e \in origins(o) : Reenter(e)
        BY <2>on DEF Dispatch
      <3>in. e \in Offsets
        BY <2>on, LivenessAssumption DEF origins, Offsets
      <3> QED  BY <3>pick, <3>in DEF LivenessNext
    <2>off. CASE o \notin Offsets
      BY <2>off DEF Dispatch
    <2> QED  BY <2>on, <2>off
  <1>run. Run => UNCHANGED lvars \/ LivenessNext
    <2> HIDE DEF Continue, Dispatch, LivenessNext
    <2> QED
      BY <1>continue, <1>dispatch
      DEF Run, Compare, CrOp, Mfcr, Plain, Interpret, GetPC, Taken, FallThrough, Branch
  <1> QED  BY <1>stay, <1>translate, <1>run DEF Next

\* Every step of the composed system keeps it.
LEMMA FieldKept ==
  NoLowAbsolute /\ SolverInv /\ FieldInv /\ [Next]_vars => FieldInv'
  <1> SUFFICES ASSUME NoLowAbsolute, SolverInv, FieldInv, [Next]_vars PROVE FieldInv'
    OBVIOUS
  <1>still. ASSUME page' = page, pc' = pc, flags' = flags, stale' = stale
            PROVE  FieldInv'
    <2>follows. \A o : follows(o)' = follows(o)
      BY <1>still DEF follows, is_branch, ppc_decode_branch_target
    <2>all. StaleDead'
      BY <1>still, <2>follows DEF FieldInv, StaleDead, deadAt
    <2> QED  BY <1>still, <2>all DEF FieldInv
  <1>translate. CASE Translate
    <2>same. page' = page /\ pc' = pc /\ flags' = flags /\ stale' = stale
      BY <1>translate DEF Translate, Analyse, Discover, BuildEdges, SolveBlock, EndSweep
    <2> QED  BY <2>same, <1>still
  <1>run. CASE Run
    BY <1>run, RunKeeps
  <1>idle. CASE UNCHANGED vars
    <2>same. page' = page /\ pc' = pc /\ flags' = flags /\ stale' = stale
      BY <1>idle DEF vars, lvars
    <2> QED  BY <2>same, <1>still
  <1> QED  BY <1>translate, <1>run, <1>idle DEF Next

\* What is dead is not read, and off the page nothing is.
LEMMA FieldRead == FieldInv => ReadsCurrent
  <1> SUFFICES ASSUME FieldInv PROVE ReadsCurrent
    OBVIOUS
  <1>unread. \A r \in stale : r \notin page[pc].reads
    BY DeadUnread DEF FieldInv, StaleDead
  <1> QED  BY <1>unread DEF FieldInv, ReadsCurrent

(***************************************************************************)
(* The deferred flags of the aarch64 JIT are invisible to the guest on     *)
(* every page without a low absolute branch: whatever it reads of the      *)
(* condition register is in memory, and all of it when it leaves the page, *)
(* wherever the page was entered and analysed from.                        *)
(***************************************************************************)
THEOREM GuestSeesField == NoLowAbsolute /\ Spec => []ReadsCurrent
  <1>init. Init => LivenessInit /\ FieldInv
    <2> SUFFICES ASSUME Init PROVE FieldInv
      BY DEF Init
    <2>first. worklist[1] \in Offsets /\ page \in [Offsets -> Insns]
      BY LivenessAssumption DEF Init, LivenessInit
    <2> QED  BY <2>first DEF Init, FieldInv, StaleDead
  <1>solver. Spec => []SolverInv
    BY <1>init, SolverInit, SolverKept, RunReenters, PTL DEF Spec
  <1>case. CASE NoLowAbsolute
    <2>step. SolverInv /\ FieldInv /\ [Next]_vars => FieldInv'
      BY <1>case, FieldKept
    <2> QED  BY <1>init, <1>solver, <2>step, FieldRead, PTL DEF Spec
  <1> QED  BY <1>case
=============================================================================
