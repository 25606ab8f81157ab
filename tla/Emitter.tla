------------------------------- MODULE Emitter -------------------------------
(***************************************************************************)
(* Code emission of the AArch64 JIT (jitc.cc, jitc.h): instructions go to  *)
(* the fragments of the page being translated.  A fragment that is full is *)
(* left by a linking branch, unless the next fragment directly follows it. *)
(*                                                                         *)
(* Addresses are instruction words (4 bytes) from the start of the         *)
(* translation cache.  What an instruction does is left out, except for    *)
(* the unconditional branches: linking branches and forward-branch fixups. *)
(***************************************************************************)
EXTENDS Naturals, Sequences

CONSTANTS
    FragWords,      \* FRAGMENT_SIZE / 4
    Near,           \* 20 / 4: a fragment that starts closer is not branched to
    AlignWords,     \* the alignment of an entry point
    Sizes,          \* what emitAssure is called with, in words
    NumFrags,       \* bound: fragments on the free list, plus one
    MaxProg,        \* bound: instructions emitted
    MaxFixups       \* bound: fixups among them

ASSUME EmitterAssumption ==
    /\ FragWords \in Nat /\ AlignWords \in Nat \ {0} /\ FragWords % AlignWords = 0
    /\ Near \in 1 .. FragWords
    /\ AlignWords < FragWords
    /\ Sizes \subseteq 1 .. (FragWords - 1)
    /\ 2 < FragWords
    /\ NumFrags \in Nat \ {0}
    /\ MaxProg \in Nat /\ MaxFixups \in Nat

Addresses == 0 .. (NumFrags * FragWords - 1)
Bases == {n * FragWords : n \in 0 .. (NumFrags - 1)}

VARIABLES
    page,       \* tcp, bytesLeft / 4 and the base of tcf_current
    free,       \* the free fragments, the next one first
    mem,        \* the translation cache
    prog,       \* history: what has been emitted, in order, and where
    assured     \* history: the words emitAssure has promised and not yet seen

vars == <<page, free, mem, prog, assured>>

(***************************************************************************)
(* mem: "none" (never written or left over), [op |-> "insn"] or            *)
(* [op |-> "B", to |-> a]; a fixup that is not resolved branches to itself *)
(* (offset 0).  prog: each instruction's kind ("cond": may skip the word  *)
(* behind it), its address, for a fixup the address returned to the caller *)
(* (at) and, once resolved, the index in prog of what it must reach.       *)
(***************************************************************************)
Words == {[op |-> "none"], [op |-> "insn"]} \cup [op : {"B"}, to : Addresses]

Insn(a) == [kind |-> "insn", where |-> a]
Cond(a) == [kind |-> "cond", where |-> a]
Fixup(a, at) == [kind |-> "fixup", where |-> a, at |-> at, target |-> 0]

TypeOK ==
    /\ page \in [tcp : Addresses, left : 0 .. (2 * FragWords), base : Bases]
    /\ free \in Seq(Bases)
    /\ mem \in [Addresses -> Words]
    /\ \A k \in 1 .. Len(prog) : /\ prog[k].kind \in {"insn", "cond", "fixup"}
                                 /\ prog[k].where \in Addresses
    /\ assured \in 0 .. FragWords

-----------------------------------------------------------------------------
(* Operations on the emission state e = [page, free, mem, prog]            *)

State == [page |-> page, free |-> free, mem |-> mem, prog |-> prog]

jitcEmitNextFragment(e) ==
    LET f == Head(e.free) IN
    IF f >= e.page.tcp /\ f - e.page.tcp < Near
    THEN [e EXCEPT !.page.left = @ + FragWords, !.page.base = f, !.free = Tail(@)]
    ELSE [e EXCEPT !.page = [tcp |-> f, left |-> FragWords, base |-> f],
                   !.free = Tail(@),
                   !.mem[e.page.tcp] = [op |-> "B", to |-> f]]

\* write one word at tcp and record it as p
put(e, word, p) ==
    [e EXCEPT !.mem[e.page.tcp] = word,
              !.page.tcp = @ + 1,
              !.page.left = @ - 1,
              !.prog = Append(@, p)]

\* "We always leave at least 4 bytes (one instruction) in the fragment for
\* a linking B instruction."
emitRoom(e) == IF e.page.left <= 1 THEN jitcEmitNextFragment(e) ELSE e

emit32(e) == LET r == emitRoom(e) IN put(r, [op |-> "insn"], Insn(r.page.tcp))

\* emit32(a64_B(0)), its address having been taken before the call
emitB(e, at) == LET r == emitRoom(e)
                IN  put(r, [op |-> "B", to |-> r.page.tcp], Fixup(r.page.tcp, at))

\* faulty variant: the room for the linking branch is forgotten
MutEmitAssure(e, size) == IF e.page.left < size THEN jitcEmitNextFragment(e) ELSE e

emitAssure(e, size) ==
    IF e.page.left < size + 1 THEN jitcEmitNextFragment(e) ELSE e

asmHERE(e) == e.page.tcp

\* asmBccFixup, asmCBZwFixup, asmCBNZwFixup: the inverted condition skips
\* the unconditional placeholder
condFixup(e) ==
    LET r == emitRoom(emitAssure(e, 2))
        c == put(r, [op |-> "insn"], Cond(r.page.tcp))
    IN  emitB(c, asmHERE(c))

asmBFixup(e) == emitB(e, asmHERE(e))

\* n padding instructions
pads(e, n) ==
    [e EXCEPT !.mem = [a \in Addresses |->
                         IF a \in e.page.tcp .. (e.page.tcp + n - 1)
                         THEN [op |-> "insn"] ELSE e.mem[a]],
              !.page.tcp = @ + n,
              !.page.left = @ - n,
              !.prog = @ \o [k \in 1 .. n |-> Insn(e.page.tcp + k - 1)]]

\* a fragment that is branched to needs no padding
jitcEmitAlign(e) ==
    LET n == (AlignWords - (e.page.tcp % AlignWords)) % AlignWords
        r == jitcEmitNextFragment(e)
    IN  IF n = 0 THEN e
        ELSE IF e.page.left >= n + 1 THEN pads(e, n)
        ELSE IF r.page.tcp = e.page.tcp THEN pads(r, n)
        ELSE r

-----------------------------------------------------------------------------
(* The code generators                                                     *)

Becomes(e) == /\ page' = e.page /\ free' = e.free
              /\ mem' = e.mem /\ prog' = e.prog

\* the bounds: eviction of other pages (JitcCache) is not modelled here
Room(n) == free # <<>> /\ Len(prog) + n <= MaxProg
FixupRoom == Len(SelectSeq(prog, LAMBDA p : p.kind = "fixup")) < MaxFixups

Emit ==
    /\ Room(1)
    /\ Becomes(emit32(State))
    /\ assured' = IF assured > 0 THEN assured - 1 ELSE 0

\* asmBL, asmCALL_cpu, privilege checks, stwcx. and others
Assure(size) ==
    /\ Room(0)
    /\ assured = 0
    /\ Becomes(emitAssure(State, size))
    /\ assured' = size

CondFixup ==
    /\ Room(2) /\ FixupRoom
    /\ assured = 0
    /\ Becomes(condFixup(State))
    /\ UNCHANGED assured

BFixup ==
    /\ Room(1) /\ FixupRoom
    /\ assured = 0
    /\ Becomes(asmBFixup(State))
    /\ UNCHANGED assured

\* faulty variant: the branch gets the address behind the target
MutResolveFixup(k) ==
    /\ prog[k].kind = "fixup"
    /\ prog[k].target = 0
    /\ page.tcp + 1 \in Addresses
    /\ mem' = [mem EXCEPT ![prog[k].at] = [op |-> "B", to |-> page.tcp + 1]]
    /\ prog' = [prog EXCEPT ![k].target = Len(prog) + 1]
    /\ UNCHANGED <<page, free, assured>>

\* asmResolveFixup(at): the branch at that address is aimed at asmHERE
asmResolveFixup(k) ==
    /\ prog[k].kind = "fixup"
    /\ prog[k].target = 0
    /\ mem' = [mem EXCEPT ![prog[k].at] = [op |-> "B", to |-> asmHERE(State)]]
    /\ prog' = [prog EXCEPT ![k].target = Len(prog) + 1]
    /\ UNCHANGED <<page, free, assured>>

\* jitcNewEntrypoint: the entry point is aligned, then created at tcp
NewEntrypoint ==
    /\ Room(AlignWords - 1)
    /\ assured = 0
    /\ Becomes(jitcEmitAlign(State))
    /\ UNCHANGED assured

-----------------------------------------------------------------------------
Orders == {s \in [1 .. (NumFrags - 1) -> Bases] :
              \A a, b \in DOMAIN s : a # b => s[a] # s[b]}

\* some fragment is current and filled up to some point, what was emitted
\* before is not looked at; the others are free in some order
Init ==
    /\ \E b \in Bases, n \in 0 .. (FragWords - 1) :
         /\ page = [tcp |-> b + n, left |-> FragWords - n, base |-> b]
         /\ free \in {s \in Orders : \A k \in DOMAIN s : s[k] # b}
    /\ mem = [a \in Addresses |-> [op |-> "none"]]
    /\ prog = <<>>
    /\ assured = 0

Next ==
    \/ Emit \/ CondFixup \/ BFixup \/ NewEntrypoint
    \/ \E size \in Sizes : Assure(size)
    \/ \E k \in 1 .. Len(prog) : asmResolveFixup(k)

Spec == Init /\ [][Next]_vars

-----------------------------------------------------------------------------
\* the fragments the page owns
Owned == Bases \ {free[k] : k \in 1 .. Len(free)}

(***************************************************************************)
(* There is always a word left for the linking branch behind whatever      *)
(* emitAssure has promised, which is therefore emitted without a gap, so   *)
(* that branches over it with fixed offsets are right; and the words left  *)
(* end where the current fragment ends: the error checks of emit32 and     *)
(* jitcEmitNextFragment (bytesLeft below 0 or 4, "emit32 OOB") never fire, *)
(* and emission never writes to a fragment the page does not own.          *)
(***************************************************************************)
RoomForLink ==
    /\ TypeOK
    /\ page.left > assured
    /\ page.tcp + page.left = page.base + FragWords
    /\ page.base \in Owned

\* where native execution at an address gets to within i words: an
\* instruction, the end of what has been emitted, or an unresolved fixup
walk[i \in 0 .. (2 * Len(prog))] ==
    [x \in Addresses |->
        IF i = 0 THEN "lost"
        ELSE IF x = page.tcp THEN "end"
        ELSE IF mem[x].op = "none" THEN "lost"
        ELSE IF mem[x].op = "insn" THEN x
        ELSE IF mem[x].to = x THEN "open"
        ELSE walk[i - 1][mem[x].to]]

\* each instruction may be reached by a linking branch
native(a) == walk[2 * Len(prog)][a]

\* where it should get to from the k-th instruction on
intended[k \in 1 .. (Len(prog) + 1)] ==
    IF k = Len(prog) + 1 THEN "end"
    ELSE IF prog[k].kind # "fixup" THEN prog[k].where
    ELSE IF prog[k].target = 0 THEN "open"
    ELSE intended[prog[k].target]

(***************************************************************************)
(* Control flow survives the fragments: behind each instruction, native    *)
(* execution gets to the next one emitted, or through a resolved fixup to  *)
(* the one it was resolved to, across linking branches and although        *)
(* asmResolveFixup may overwrite one of those.  The condition in front of  *)
(* a wide fixup, when it holds, gets to the instruction behind the fixup.  *)
(***************************************************************************)
FlowPreserved ==
    \A k \in 1 .. Len(prog) :
        /\ prog[k].kind # "fixup" => native(prog[k].where + 1) = intended[k + 1]
        /\ prog[k].kind = "cond" => native(prog[k].where + 2) = intended[k + 2]
=============================================================================
