---------------------------- MODULE DeferredFlags ----------------------------
(***************************************************************************)
(* Deferred condition flags in the code of the aarch64 JIT, and what they  *)
(* take from the liveness analysis.  A compare leaves its result in NZCV;  *)
(* a conditional branch uses it there and writes it to the CR field in     *)
(* memory only on the ways on which the field is live.  Bits is one CR     *)
(* field; the code of the page is translated and run.  An exception saves  *)
(* and restores what it finds in memory and is left out.                   *)
(***************************************************************************)
EXTENDS Liveness

CONSTANT SO       \* the bit of the field that NZCV does not hold

ASSUME SOAssumption == SO \in Bits

(***************************************************************************)
(* What the kinds of instructions mean to the analysis: none of these      *)
(* writes the field, bcx that tests CR alone may fall through, and getpc   *)
(* is bcl 20,31,$+4.                                                       *)
(***************************************************************************)
ASSUME KindsAssumption ==
    \A insn \in Insns :
        /\ insn.op \in {"plain", "mfcr", "bc", "branch", "getpc"} => insn.writes = {}
        /\ insn.op = "bc" => ~insn.uncond
        /\ insn.op = "getpc" => insn.uncond /\ ~insn.aa /\ insn.to = 1

VARIABLES
    pc,           \* of the guest; Slots once it has left the page
    flags,        \* nativeFlagsState: whether NZCV holds the field
    stale         \* the bits whose value in memory is not the guest's

vars == <<lvars, pc, flags, stale>>

Running == phase = "done" /\ pc # Slots
At(op) == Running /\ page[pc].op = op

\* the field as memory shows it once clobberFlags has run
clobberFlags == IF flags = "rsDirty" THEN {} ELSE stale

crDead(ofs) ==
    /\ ofs \in Offsets
    /\ blockForOfs(ofs) # OffPage
    /\ live_in[blockForOfs(ofs)] = {}

\* the code goes on to the next instruction, with the flags in state f and s
\* in memory; at the end of the page after clobberAll
Continue(f, s) ==
    LET last == pc + 1 = Slots IN
    /\ pc' = pc + 1
    /\ flags' = IF last THEN "rsUnused" ELSE f
    /\ stale' = IF last /\ f = "rsDirty" THEN {} ELSE s
    /\ UNCHANGED lvars

\* where the translation with the code for ofs began: there, or before it if
\* the instruction in front of it, not a branch, ended a block
origins(ofs) ==
    {ofs} \cup {e \in 0 .. ofs - 1 :
                  /\ page[ofs - 1].op \in {"plain", "everything"}
                  /\ \A o \in e .. ofs - 1 : ~(page[o].op = "branch" /\ page[o].uncond)}

\* the dispatcher goes to ofs, for which there is or will be a translation;
\* no flags are mapped at an entry point
Dispatch(ofs, s) ==
    /\ flags' = "rsUnused"
    /\ stale' = s
    /\ IF ofs \in Offsets THEN pc' = ofs /\ \E e \in origins(ofs) : Reenter(e)
       ELSE pc' = Slots /\ UNCHANGED lvars

-----------------------------------------------------------------------------
Init ==
    /\ LivenessInit
    /\ pc = worklist[1]
    /\ flags = "rsUnused"
    /\ stale = {}

\* jitcNewEntrypoint: the page is analysed
Translate == Analyse /\ UNCHANGED <<pc, flags, stale>>

\* cmp, cmpl, cmpi, cmpli and the Rc forms: NZCV is the field
Compare == At("compare") /\ Continue("rsDirty", {})

\* mtcrf, mcrf and the CR logical operations work on memory ...
CrOp == At("crop") /\ Continue("rsUnused", clobberFlags \ page[pc].writes)

\* ... and so does mfcr, after flushFlags: NZCV is still valid
Mfcr == At("mfcr") /\ Continue(IF flags = "rsUnused" THEN flags ELSE "rsMapped", clobberFlags)

\* an instruction without CR, which may need NZCV for itself
Plain == At("plain") /\ (Continue(flags, stale) \/ Continue("rsUnused", clobberFlags))

\* ppc_opc_gen_interpret
Interpret == At("everything") /\ Continue("rsUnused", clobberFlags \ page[pc].writes)

\* bcl 20,31,$+4 only sets LR
GetPC == At("getpc") /\ Continue(flags, stale)

target == IF page[pc].aa THEN -1 ELSE ppc_decode_branch_target(page[pc], pc)
fast == flags # "rsUnused" /\ SO \notin page[pc].reads
deadAtTarget == target # -1 /\ crDead(target)
deadAtFallthrough == target # -1 /\ crDead(pc + 1)

\* memory behind a bcx that leaves out the write to the CR field, or does it
Behind(dead) ==
    IF ~fast THEN clobberFlags
    ELSE IF ~dead THEN {}
    ELSE IF flags = "rsDirty" THEN Bits ELSE stale

\* bcx that tests CR alone: taken ...
Taken == At("bc") /\ Dispatch(target, Behind(deadAtTarget))

\* faulty variant: the other way is not asked for
MutFallThrough == At("bc") /\ Continue("rsUnused", Behind(deadAtTarget))

\* ... and not taken
FallThrough == At("bc") /\ Continue("rsUnused", Behind(deadAtTarget /\ deadAtFallthrough))

\* bx, bclrx, bcctrx, and bcx with CTR or LK, all after clobberAll; some go
\* on through the dispatcher also when they are not taken
Branch ==
    /\ At("branch")
    /\ \/ Dispatch(target, clobberFlags)
       \/ ~page[pc].uncond /\ Continue("rsUnused", clobberFlags)
       \/ ~page[pc].uncond /\ Dispatch(pc + 1, clobberFlags)

Run == Compare \/ CrOp \/ Mfcr \/ Plain \/ Interpret \/ GetPC \/ Taken \/ FallThrough \/ Branch

Next == Translate \/ Run

\* The analysis is a function that runs to its end.
Spec == Init /\ [][Next]_vars /\ WF_vars(Translate)

-----------------------------------------------------------------------------
(***************************************************************************)
(* The guest sees its condition register: whatever an instruction reads    *)
(* from memory, and everything when it leaves the page, has been written   *)
(* back there, although the branch code leaves the field out on the ways   *)
(* on which the analysis of some entry point finds it dead.                *)
(***************************************************************************)
ReadsCurrent ==
    /\ Running /\ flags # "rsDirty" => page[pc].reads \cap stale = {}
    /\ pc = Slots => stale = {}

(***************************************************************************)
(* The fixed point is reached: no page keeps the translator in its sweeps. *)
(***************************************************************************)
Converges == phase # "done" ~> phase = "done"
=============================================================================
