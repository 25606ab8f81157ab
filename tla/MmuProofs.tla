------------------------------ MODULE MmuProofs ------------------------------
(***************************************************************************)
(* The properties of the TLB for every number of pages, entries and        *)
(* frames, every page table and every value of segment register and BAT.   *)
(*                                                                         *)
(* The invariants are not inductive: a hit uses what the entry was made    *)
(* from (via), and tlbie p only reaches an entry for p if that entry is    *)
(* in the slot of p.  EntryOK adds both.                                   *)
(***************************************************************************)
EXTENDS Mmu, TLAPS

\* what holds of the entry e in the array for op
EntryOK(e, op) ==
    /\ left \/ e.page \in owes \/ Fresh(e, op)
    /\ op = "write" /\ e.via # Direct =>
          /\ e.via[2] = e.page
          /\ e.page \in owes \/ (pt[e.via] # Absent /\ pt[e.via].c)
    /\ backend = "aarch64" /\ alive => e.frame < MemFrames

TlbOK ==
    \A op \in Ops, s \in Slots :
        tlb[op][s] # None =>
            slot(tlb[op][s].page) = s /\ EntryOK(tlb[op][s], op)

MmuInv == MmuTypeOK /\ TlbOK /\ StoresMarkChanged

\* A page number selects a slot of the TLB (page & (TLB_ENTRIES - 1)).
LEMMA SlotType == \A p \in Pages : slot(p) \in Slots
  BY MmuAssumption DEF slot, Slots, Pages

\* A successful translation gives a frame number.
LEMMA FrameType ==
  ASSUME MmuTypeOK, NEW p \in Pages, NEW op \in Ops, Translates(p, op)
  PROVE  Frame(p) \in Frames
  <1>mod. p % BlockPages \in 0 .. BlockPages - 1
    BY MmuAssumption DEF Pages
  <1>flat. p \in Frames
    BY MmuAssumption DEF Pages, Frames
  <1>size. BlockPages \in Nat /\ PhysFrames \in Nat
    BY MmuAssumption
  <1>key. Key(p) \in Keys
    BY MmuAssumption DEF MmuTypeOK, Key, Keys
  <1>bat. batl \in 0 .. PhysFrames - BlockPages
    BY MmuAssumption DEF MmuTypeOK
  <1>block. (p % BlockPages) + batl \in Frames
    BY <1>mod, <1>bat, <1>size DEF Frames
  <1>walk. UsesPageTable(p) => pt[Key(p)].rpn \in Frames
    BY <1>key DEF MmuTypeOK, Translates, PteValues
  <1> QED
    BY <1>flat, <1>block, <1>walk DEF Frame, UsesPageTable

\* What the test of tlb_fill_data_* lets through: RAM, and the last frame.
LEMMA FilledFrame ==
  ASSUME NEW f \in Frames, backend = "aarch64", fillable(f)
  PROVE  f < MemFrames \/ f = PhysFrames - 1
  <1>t. /\ PhysFrames \in Nat \ {0} /\ MemFrames \in Nat
        /\ f \in Nat /\ f <= PhysFrames - 1
    BY MmuAssumption DEF Frames
  <1>in. CASE f + 1 < PhysFrames
    <2>a. (f + 1) % PhysFrames = f + 1
      BY <1>t, <1>in
    <2> QED
      BY <2>a, <1>t DEF fillable
  <1> QED
    BY <1>in, <1>t

\* No access to the last frame is survived.
LEMMA LastFrameFatal ==
  ASSUME backend = "aarch64", alive' \in Outcomes(PhysFrames - 1)
  PROVE  alive' = FALSE
  <1>a. ~(PhysFrames - 1 < MemFrames) /\ PhysFrames - 1 \notin DeviceFrames
    BY MmuAssumption DEF Frames
  <1> QED
    BY <1>a, MmuAssumption DEF Outcomes

\* A virtual page is not the mark of an untranslated access.
LEMMA KeyNotDirect == \A k \in Keys : k # Direct
  BY DEF Keys, Direct

\* What a step that empties the TLB leaves is in order.
LEMMA EmptiedOK ==
  ASSUME MmuTypeOK, tlb' = emptied
  PROVE  TlbOK' /\ tlb' \in [Ops -> [Slots -> Entries]]
  BY DEF TlbOK, emptied, Entries

\* Setting C in entries of the page table (Touch) changes no translation.
LEMMA FreshKept ==
  ASSUME MmuTypeOK, NEW p \in Pages, NEW op \in Ops,
         UNCHANGED <<backend, dr, pr, sr, batu, batl, gaps>>,
         pt[Key(p)] # Absent =>
            /\ pt'[Key(p)] # Absent
            /\ pt'[Key(p)].rpn = pt[Key(p)].rpn
            /\ pt'[Key(p)].pp = pt[Key(p)].pp
  PROVE  Translates(p, op) => Translates(p, op)' /\ Frame(p)' = Frame(p)
  BY DEF Translates, Dies, Frame, UsesPageTable, BatHit, Key, allowed

\* What Touch does to a page table: C is set in the entry a store went
\* through, and nothing else changes.
LEMMA TouchSets ==
  ASSUME MmuTypeOK, NEW table \in [Keys -> PteValues \cup {Absent}],
         NEW p \in Pages, NEW op \in Ops,
         UsesPageTable(p) => table[Key(p)] # Absent
  PROVE  /\ Touch(table, p, op) \in [Keys -> PteValues \cup {Absent}]
         /\ \A k \in Keys :
               /\ table[k] = Absent => Touch(table, p, op)[k] = Absent
               /\ table[k] # Absent =>
                     /\ Touch(table, p, op)[k] # Absent
                     /\ Touch(table, p, op)[k].rpn = table[k].rpn
                     /\ Touch(table, p, op)[k].pp = table[k].pp
                     /\ table[k].c => Touch(table, p, op)[k].c
         /\ op = "write" /\ UsesPageTable(p) =>
               Touch(table, p, op)[Key(p)] # Absent /\ Touch(table, p, op)[Key(p)].c
  <1>key. Key(p) \in Keys
    BY MmuAssumption DEF MmuTypeOK, Key, Keys
  <1>in. UsesPageTable(p) => table[Key(p)] \in PteValues
    BY <1>key
  <1>not. \A e \in PteValues : e # Absent
    BY DEF PteValues, Absent, Frames
  <1>same. CASE ~(op = "write" /\ UsesPageTable(p))
    BY <1>same DEF Touch
  <1>set. CASE op = "write" /\ UsesPageTable(p)
    <2> DEFINE new == [table[Key(p)] EXCEPT !.c = TRUE]
    <2>new. new \in PteValues /\ new.rpn = table[Key(p)].rpn
            /\ new.pp = table[Key(p)].pp /\ new.c = TRUE
      BY <1>set, <1>in DEF PteValues
    <2>is. Touch(table, p, op) = [table EXCEPT ![Key(p)] = new]
      BY <1>set DEF Touch
    <2> HIDE DEF new
    <2> QED
      BY <2>new, <2>is, <1>key, <1>not, <1>set
  <1> QED
    BY <1>same, <1>set

\* The same for a step that changes the page table only by Touch: entries of
\* the TLB that stay are still in order, and so are the histories.
LEMMA TouchedKeeps ==
  ASSUME MmuInv, NEW o \in Ops, NEW s \in Slots,
         tlb'[o][s] = tlb[o][s], tlb[o][s] # None,
         UNCHANGED <<backend, dr, pr, sr, batu, batl, gaps, owes, left>>, alive' => alive,
         pt' \in [Keys -> PteValues \cup {Absent}],
         \A k \in Keys :
            pt[k] # Absent => /\ pt'[k] # Absent
                              /\ pt'[k].rpn = pt[k].rpn
                              /\ pt'[k].pp = pt[k].pp
                              /\ pt[k].c => pt'[k].c
  PROVE  (slot(tlb[o][s].page) = s /\ EntryOK(tlb[o][s], o))'
  <1> DEFINE e == tlb[o][s]
  <1>type. e.page \in Pages /\ e.via \in Keys \cup {Direct}
    BY DEF MmuInv, MmuTypeOK, Entries
  <1>old. slot(e.page) = s /\ EntryOK(e, o)
    BY DEF MmuInv, TlbOK
  <1>key. Key(e.page) \in Keys
    BY <1>type, MmuAssumption DEF MmuInv, MmuTypeOK, Key, Keys
  <1>fresh. Fresh(e, o) => Fresh(e, o)'
    BY <1>type, <1>key, FreshKept DEF MmuInv, Fresh
  <1>slot. slot(e.page)' = slot(e.page)
    BY DEF slot
  <1> HIDE DEF e
  <1>ok. e' = e => EntryOK(e, o)'
    BY <1>old, <1>fresh, <1>type, KeyNotDirect DEF EntryOK
  <1> QED
    BY <1>ok, <1>old, <1>slot DEF e, slot
\* A load or store that hits: the entry vouches for the C bit.
LEMMA HitKeeps ==
  ASSUME MmuInv, NEW p \in Pages, NEW op \in Ops, Hit(p, op)
  PROVE  MmuInv'
  <1> DEFINE e == tlb[op][slot(p)]
  <1>slot. slot(p) \in Slots
    BY SlotType
  <1>type. e \in Entries
    BY <1>slot DEF MmuInv, MmuTypeOK
  <1>some. e # None
    BY MmuAssumption DEF Hit, None, Pages
  <1>via. e.via \in Keys \cup {Direct}
    BY <1>type, <1>some DEF Entries
  <1>ok. EntryOK(e, op) /\ e.page = p /\ p \notin owes
    BY <1>slot, <1>some DEF MmuInv, TlbOK, Hit
  <1>new. \A k \in Stored(e.via, op) : k \in Keys /\ pt[k] # Absent /\ pt[k].c
    BY <1>ok, <1>via DEF Stored, EntryOK
  <1>dirty. dirty' = dirty \cup Stored(e.via, op)
    BY DEF Hit
  <1>rest. UNCHANGED <<backend, dr, pr, sr, batu, batl, pt, gaps, alive, tlb, owes, left>>
    BY DEF Hit
  <1> HIDE DEF e
  <1>t. MmuTypeOK'
    BY <1>new, <1>dirty, <1>rest DEF MmuInv, MmuTypeOK
  <1>s. StoresMarkChanged'
    BY <1>new, <1>dirty, <1>rest DEF MmuInv, StoresMarkChanged
  <1>tlb. TlbOK'
    <2> SUFFICES ASSUME NEW o \in Ops, NEW s \in Slots, tlb[o][s] # None
                 PROVE  (slot(tlb[o][s].page) = s /\ EntryOK(tlb[o][s], o))'
      BY <1>rest DEF TlbOK
    <2> QED
      BY <1>rest, TouchedKeeps DEF MmuInv, MmuTypeOK
  <1> QED
    BY <1>t, <1>s, <1>tlb DEF MmuInv

\* A miss: the new entry is fresh, inside memory if the backend checks that,
\* and a store has set C in what it was made from.
LEMMA MissKeeps ==
  ASSUME MmuInv, alive, NEW p \in Pages, NEW op \in Ops, Miss(p, op)
  PROVE  MmuInv'
  <1>slot. slot(p) \in Slots
    BY SlotType
  <1>rest. UNCHANGED <<backend, dr, pr, sr, batu, batl, gaps, owes, left>>
    BY DEF Miss
  <1>tr. Translates(p, op) /\ Frame(p) \in Frames
    BY FrameType DEF Miss, MmuInv
  <1>alive. alive' \in BOOLEAN
    BY DEF Miss, Outcomes
  <1>inside. backend = "aarch64" /\ alive' /\ fillable(Frame(p)) => Frame(p) < MemFrames
    <2>a. alive' \in Outcomes(Frame(p))
      BY DEF Miss
    <2> QED
      BY <2>a, <1>tr, FilledFrame, LastFrameFatal
  <1>key. Key(p) \in Keys
    BY MmuAssumption DEF MmuInv, MmuTypeOK, Key, Keys
  <1>there. UsesPageTable(p) => pt[Key(p)] # Absent
    BY <1>tr DEF Translates
  <1>pt. /\ pt' \in [Keys -> PteValues \cup {Absent}]
         /\ \A k \in Keys :
               pt[k] # Absent => /\ pt'[k] # Absent
                                 /\ pt'[k].rpn = pt[k].rpn
                                 /\ pt'[k].pp = pt[k].pp
                                 /\ pt[k].c => pt'[k].c
         /\ op = "write" /\ UsesPageTable(p) => pt'[Key(p)] # Absent /\ pt'[Key(p)].c
    BY <1>there, TouchSets DEF Miss, MmuInv, MmuTypeOK
  <1>via. Via(p) \in Keys \cup {Direct} /\ (Via(p) # Direct => UsesPageTable(p) /\ Via(p) = Key(p))
    BY <1>key DEF Via
  <1>new. \A k \in Stored(Via(p), op) : k \in Keys /\ pt'[k] # Absent /\ pt'[k].c
    BY <1>via, <1>pt, <1>key DEF Stored
  <1>dirty. dirty' = dirty \cup Stored(Via(p), op)
    BY DEF Miss
  <1>n. PICK n \in Entries : /\ n = [page |-> p, frame |-> Frame(p), via |-> Via(p)]
                             /\ n.page = p /\ n.frame = Frame(p) /\ n.via = Via(p)
    <2>in. [page |-> p, frame |-> Frame(p), via |-> Via(p)] \in Entries
      BY <1>tr, <1>via DEF Entries
    <2> WITNESS [page |-> p, frame |-> Frame(p), via |-> Via(p)] \in Entries
    <2> QED
      BY <2>in
  <1>cases. \/ tlb' = tlb
            \/ fillable(Frame(p)) /\ tlb' = [tlb EXCEPT ![op] = [tlb[op] EXCEPT ![slot(p)] = n]]
    BY <1>n DEF Miss, MmuInv, MmuTypeOK
  <1>t. MmuTypeOK'
    BY <1>cases, <1>n, <1>slot, <1>pt, <1>new, <1>dirty, <1>rest, <1>alive DEF MmuInv, MmuTypeOK
  <1>s. StoresMarkChanged'
    BY <1>new, <1>dirty, <1>pt DEF MmuInv, MmuTypeOK, StoresMarkChanged
  <1>fresh. Fresh(n, op)'
    <2>a. Translates(p, op) => Translates(p, op)' /\ Frame(p)' = Frame(p)
      BY <1>pt, <1>rest, <1>key, FreshKept DEF MmuInv
    <2> QED
      BY <2>a, <1>n, <1>tr DEF Fresh
  <1>ok. fillable(Frame(p)) => EntryOK(n, op)'
    <2>a. Via(p) # Direct => Via(p)[2] = p
      BY <1>via DEF Key
    <2> QED
      BY <2>a, <1>fresh, <1>n, <1>via, <1>pt, <1>rest, <1>inside DEF EntryOK
  <1>tlb. TlbOK'
    <2> SUFFICES ASSUME NEW o \in Ops, NEW s \in Slots, tlb'[o][s] # None
                 PROVE  (slot(tlb[o][s].page) = s /\ EntryOK(tlb[o][s], o))'
      BY DEF TlbOK
    <2>old. CASE tlb'[o][s] = tlb[o][s]
      BY <2>old, <1>rest, <1>pt, TouchedKeeps DEF None
    <2>new. CASE tlb'[o][s] = n /\ o = op /\ s = slot(p) /\ fillable(Frame(p))
      BY <2>new, <1>ok, <1>n DEF slot
    <2> QED
      BY <2>old, <2>new, <1>cases, <1>slot DEF MmuInv, MmuTypeOK
  <1> QED
    BY <1>t, <1>s, <1>tlb DEF MmuInv
\* An exception, a switch of MSR, segment or BAT that empties the TLB, tlbia:
\* there is no entry left to be wrong.
LEMMA EmptyKeeps ==
  ASSUME MmuInv, tlb' = emptied,
         dr' \in BOOLEAN, pr' \in BOOLEAN, left' \in BOOLEAN,
         sr' \in Segments, batu' \in BatUppers, batl' \in BatLowers,
         owes' \subseteq Pages,
         UNCHANGED <<backend, pt, gaps, alive, dirty>>
  PROVE  MmuInv'
  <1>a. TlbOK' /\ tlb' \in [Ops -> [Slots -> Entries]]
    BY EmptiedOK DEF MmuInv
  <1>b. MmuTypeOK'
    BY <1>a DEF MmuInv, MmuTypeOK
  <1> QED
    BY <1>a, <1>b DEF MmuInv, StoresMarkChanged

\* A switch that leaves the TLB alone: entries count as left behind.
LEMMA LeftKeeps ==
  ASSUME MmuInv, left' = TRUE, tlb' = tlb,
         sr' \in Segments, batu' \in BatUppers, batl' \in BatLowers,
         UNCHANGED <<backend, dr, pr, pt, gaps, alive, owes, dirty>>
  PROVE  MmuInv'
  <1>a. MmuTypeOK' /\ StoresMarkChanged'
    BY DEF MmuInv, MmuTypeOK, StoresMarkChanged
  <1>b. TlbOK'
    BY DEF MmuInv, TlbOK, EntryOK, slot
  <1> QED
    BY <1>a, <1>b DEF MmuInv

\* An access across a page boundary (aarch64): whatever pages were reached
\* before the fault, their C bits are set.
LEMMA CrossKeeps ==
  ASSUME MmuInv, alive, NEW p \in Pages, NEW op \in Ops, CrossAccess(p, op)
  PROVE  MmuInv'
  <1> DEFINE first  == Translates(p, op)
             second == first /\ TRUE \in Outcomes(Frame(p)) /\ Translates(p + 1, op)
             pt1    == IF first THEN Touch(pt, p, op) ELSE pt
             done   == {q \in {p, p + 1} : IF q = p THEN first ELSE second}
             Grown(a, b) == \A k \in Keys :
                 a[k] # Absent => /\ b[k] # Absent
                                  /\ b[k].rpn = a[k].rpn
                                  /\ b[k].pp = a[k].pp
                                  /\ a[k].c => b[k].c
             Tables == [Keys -> PteValues \cup {Absent}]
             Marks(b, q) == op = "write" /\ UsesPageTable(q) => b[Key(q)] # Absent /\ b[Key(q)].c
  <1>q. p + 1 \in Pages /\ pt \in Tables
    BY DEF CrossAccess, MmuInv, MmuTypeOK
  <1>keys. Key(p) \in Keys /\ Key(p + 1) \in Keys
    BY <1>q, MmuAssumption DEF MmuInv, MmuTypeOK, Key, Keys
  <1>one. pt1 \in Tables /\ Grown(pt, pt1) /\ (first => Marks(pt1, p))
    <2>a. CASE first
      BY <2>a, <1>q, TouchSets DEF MmuInv, Translates
    <2>b. CASE ~first
      BY <2>b, <1>q
    <2> QED
      BY <2>a, <2>b
  <1>two. pt' \in Tables /\ Grown(pt1, pt') /\ (second => Marks(pt', p + 1))
    <2>a. CASE second
      <3>a. UsesPageTable(p + 1) => pt1[Key(p + 1)] # Absent
        BY <2>a, <1>one, <1>keys DEF Translates
      <3>b. pt' = Touch(pt1, p + 1, op)
        BY <2>a DEF CrossAccess
      <3> HIDE DEF pt1, second
      <3> QED
        BY <2>a, <3>a, <3>b, <1>q, <1>one, TouchSets DEF MmuInv
    <2>b. CASE ~second
      BY <2>b, <1>one DEF CrossAccess
    <2> QED
      BY <2>a, <2>b
  <1>grown. Grown(pt, pt')
    BY <1>one, <1>two
  <1>marks. \A q \in done : q \in Pages /\ Key(q) \in Keys /\ Marks(pt', q)
    BY <1>one, <1>two, <1>keys, <1>q
  <1>stored. \A q \in done : \A k \in Stored(Via(q), op) :
                 k \in Keys /\ pt'[k] # Absent /\ pt'[k].c
    BY <1>marks DEF Stored, Via
  <1>dirty. dirty' = dirty \cup UNION {Stored(Via(q), op) : q \in done}
    BY DEF CrossAccess
  <1>rest. UNCHANGED <<backend, sr, batu, batl, gaps, owes>> /\ alive' \in BOOLEAN
    BY DEF CrossAccess
  <1>cases. \/ UNCHANGED <<dr, pr, tlb, left>>
            \/ dr' = FALSE /\ pr' = FALSE /\ tlb' = emptied /\ left' = FALSE
    BY DEF CrossAccess, Enter
  <1> HIDE DEF first, second, pt1, done
  <1>tlb. TlbOK' /\ tlb' \in [Ops -> [Slots -> Entries]]
    <2>a. CASE tlb' = emptied
      BY <2>a, EmptiedOK DEF MmuInv
    <2>b. CASE UNCHANGED <<dr, pr, tlb, left>>
      <3>a. ASSUME NEW o \in Ops, NEW s \in Slots, tlb[o][s] # None
            PROVE  (slot(tlb[o][s].page) = s /\ EntryOK(tlb[o][s], o))'
        BY <3>a, <2>b, <1>rest, <1>grown, <1>two, TouchedKeeps
      <3> QED
        BY <3>a, <2>b DEF TlbOK, MmuInv, MmuTypeOK
    <2> QED
      BY <2>a, <2>b, <1>cases
  <1>d. \A k \in dirty' : k \in Keys /\ pt'[k] # Absent /\ pt'[k].c
    BY <1>dirty, <1>stored, <1>grown DEF MmuInv, MmuTypeOK, StoresMarkChanged
  <1>t. MmuTypeOK'
    BY <1>tlb, <1>d, <1>two, <1>cases, <1>rest DEF MmuInv, MmuTypeOK
  <1> QED
    BY <1>t, <1>d, <1>tlb DEF MmuInv, StoresMarkChanged
\* mtsdr1: every page is owed a tlbie, so entries that stay claim nothing.
LEMMA Sdr1Keeps ==
  ASSUME MmuInv, NEW missing \in Gaps, MtSdr1(missing)
  PROVE  MmuInv'
  <1>a. MmuTypeOK' /\ StoresMarkChanged'
    BY EmptiedOK, MmuAssumption DEF MmuInv, MmuTypeOK, StoresMarkChanged, MtSdr1
  <1>b. CASE tlb' = emptied
    BY <1>a, <1>b, EmptiedOK DEF MmuInv
  <1>c. CASE tlb' = tlb
    <2>page. \A o \in Ops, s \in Slots : tlb[o][s] # None => tlb[o][s].page \in Pages
      BY DEF MmuInv, MmuTypeOK, Entries
    <2>t. TlbOK'
      BY <1>c, <2>page DEF MmuInv, TlbOK, EntryOK, MtSdr1, slot
    <2> QED
      BY <1>a, <2>t DEF MmuInv
  <1> QED
    BY <1>b, <1>c DEF MtSdr1

\* The kernel writes an entry: if it was there its page is owed a tlbie; if it
\* was not, no entry of the TLB that counts was made from it.
LEMMA WritePteKeeps ==
  ASSUME MmuInv, NEW k \in Keys, NEW value \in Ptes[k] \cup {Absent},
         WritePte(k, value)
  PROVE  MmuInv'
  <1>v. value \in PteValues \cup {Absent}
    BY MmuAssumption
  <1>k. k[2] \in Pages
    BY DEF Keys
  <1>pt. pt' = [pt EXCEPT ![k] = value] /\ pt \in [Keys -> PteValues \cup {Absent}]
    BY DEF WritePte, MmuInv, MmuTypeOK
  <1>owes. owes \subseteq owes' /\ (pt[k] # Absent => k[2] \in owes')
    BY DEF WritePte
  <1>rest. UNCHANGED <<backend, dr, pr, sr, batu, batl, gaps, alive, tlb, left>>
    BY DEF WritePte
  <1>t. MmuTypeOK'
    BY <1>v, <1>k, <1>pt DEF MmuInv, MmuTypeOK, WritePte
  <1>s. StoresMarkChanged'
    BY <1>pt DEF MmuInv, MmuTypeOK, StoresMarkChanged, WritePte
  <1>tlb. TlbOK'
    <2> SUFFICES ASSUME NEW o \in Ops, NEW s \in Slots, tlb[o][s] # None
                 PROVE  (slot(tlb[o][s].page) = s /\ EntryOK(tlb[o][s], o))'
      BY <1>rest DEF TlbOK
    <2>e. PICK e \in Entries : e = tlb[o][s]
      BY DEF MmuInv, MmuTypeOK
    <2>type. e.page \in Pages /\ e.via \in Keys \cup {Direct}
      BY <2>e DEF Entries
    <2>old. slot(e.page) = s /\ EntryOK(e, o)
      BY <2>e DEF MmuInv, TlbOK
    <2>key. Key(e.page) \in Keys /\ Key(e.page)[2] = e.page
      BY <2>type, MmuAssumption DEF MmuInv, MmuTypeOK, Key, Keys
    <2>fresh. Fresh(e, o) => Fresh(e, o)' \/ e.page \in owes'
      <3>a. CASE Key(e.page) # k
        <4>a. pt'[Key(e.page)] = pt[Key(e.page)]
          BY <3>a, <2>key, <1>pt
        <4>b. Translates(e.page, o) => Translates(e.page, o)' /\ Frame(e.page)' = Frame(e.page)
          BY <4>a, <2>type, <1>rest, FreshKept DEF MmuInv
        <4> QED
          BY <4>b DEF Fresh
      <3>b. CASE Key(e.page) = k /\ pt[k] # Absent
        BY <3>b, <2>key, <1>owes
      <3>c. CASE Key(e.page) = k /\ pt[k] = Absent
        <4>a. Fresh(e, o) => ~UsesPageTable(e.page)
          BY <3>c DEF Fresh, Translates
        <4>b. ~UsesPageTable(e.page) => Fresh(e, o) = Fresh(e, o)'
          BY <1>rest DEF Fresh, Translates, Frame, UsesPageTable, BatHit
        <4> QED
          BY <4>a, <4>b
      <3> QED
        BY <3>a, <3>b, <3>c
    <2>via. o = "write" /\ e.via # Direct =>
              e.page \in owes' \/ (pt'[e.via] # Absent /\ pt'[e.via].c)
      BY <2>old, <2>type, <1>pt, <1>owes DEF EntryOK
    <2>ok. EntryOK(e, o)'
      BY <2>old, <2>fresh, <2>via, <1>owes, <1>rest DEF EntryOK
    <2> QED
      BY <2>ok, <2>e, <2>old, <1>rest DEF slot
  <1> QED
    BY <1>t, <1>s, <1>tlb DEF MmuInv

\* tlbie p empties the slot of p in every array, and an entry for p can be in
\* no other slot.
LEMMA TlbieKeeps ==
  ASSUME MmuInv, NEW p \in Pages, Tlbie(p)
  PROVE  MmuInv'
  <1>slot. slot(p) \in Slots
    BY SlotType
  <1>tlb. /\ tlb' \in [Ops -> [Slots -> Entries]]
          /\ \A o \in Ops, s \in Slots :
                tlb'[o][s] = IF s = slot(p) THEN None ELSE tlb[o][s]
    BY <1>slot DEF Tlbie, without, MmuInv, MmuTypeOK, Entries
  <1>rest. UNCHANGED <<backend, dr, pr, sr, batu, batl, pt, gaps, alive, left, dirty>>
    BY DEF Tlbie
  <1>owes. owes' = owes \ {p}
    BY DEF Tlbie
  <1>t. MmuTypeOK' /\ StoresMarkChanged'
    BY <1>tlb, <1>rest, <1>owes DEF MmuInv, MmuTypeOK, StoresMarkChanged
  <1>ok. TlbOK'
    <2> SUFFICES ASSUME NEW o \in Ops, NEW s \in Slots, tlb'[o][s] # None
                 PROVE  (slot(tlb[o][s].page) = s /\ EntryOK(tlb[o][s], o))'
      BY DEF TlbOK
    <2>same. tlb'[o][s] = tlb[o][s] /\ s # slot(p)
      BY <1>tlb
    <2>e. PICK e : e = tlb[o][s]
      OBVIOUS
    <2>old. slot(e.page) = s /\ EntryOK(e, o)
      BY <2>e, <2>same DEF MmuInv, TlbOK, None
    <2>other. e.page # p
      BY <2>old, <2>same
    <2>fresh. Fresh(e, o) = Fresh(e, o)'
      BY <1>rest DEF Fresh, Translates, Dies, Frame, UsesPageTable, BatHit, Key, allowed
    <2>ok. EntryOK(e, o)'
      BY <2>old, <2>other, <2>fresh, <1>rest, <1>owes DEF EntryOK
    <2> QED
      BY <2>ok, <2>e, <2>same, <2>old DEF slot
  <1> QED
    BY <1>t, <1>ok DEF MmuInv
\* mtmsr and rfi: if the TLB is kept, nothing translation uses has changed.
LEMMA SetMsrKeeps ==
  ASSUME MmuInv, NEW newDr \in BOOLEAN, NEW newPr \in BOOLEAN,
         SetMsr(newDr, newPr)
  PROVE  MmuInv'
  <1>same. CASE backend # "aarch64" /\ newDr = dr /\ newPr = pr
    <2>a. UNCHANGED <<backend, dr, pr, sr, batu, batl, pt, gaps, alive, tlb, owes, left, dirty>>
      BY <1>same DEF SetMsr, MmuInv, MmuTypeOK
    <2>t. MmuTypeOK' /\ StoresMarkChanged'
      BY <2>a DEF MmuInv, MmuTypeOK, StoresMarkChanged
    <2>b. ASSUME NEW o \in Ops, NEW s \in Slots, tlb[o][s] # None
          PROVE  (slot(tlb[o][s].page) = s /\ EntryOK(tlb[o][s], o))'
      BY <2>b, <2>a, TouchedKeeps DEF MmuInv, MmuTypeOK
    <2> QED
      BY <2>a, <2>t, <2>b DEF TlbOK, MmuInv
  <1>flush. CASE ~(backend # "aarch64" /\ newDr = dr /\ newPr = pr)
    <2>a. tlb' = emptied /\ left' \in BOOLEAN
      BY <1>flush DEF SetMsr
    <2> QED
      BY <2>a, EmptyKeeps DEF SetMsr, MmuInv, MmuTypeOK
  <1> QED
    BY <1>same, <1>flush

\* mtsr, mtsrin and mtspr to a BAT
LEMMA SwitchKeeps ==
  ASSUME MmuInv, Switched,
         sr' \in Segments, batu' \in BatUppers, batl' \in BatLowers,
         UNCHANGED <<backend, dr, pr, pt, gaps, alive, owes, dirty>>
  PROVE  MmuInv'
  <1>a. CASE backend = "aarch64"
    BY <1>a, LeftKeeps DEF Switched
  <1>b. CASE backend # "aarch64"
    BY <1>b, EmptyKeeps DEF Switched, MmuInv, MmuTypeOK
  <1> QED
    BY <1>a, <1>b

\* ppc_fatal changes nothing that the guest could see.
LEMMA FatalKeeps ==
  ASSUME MmuInv, NEW p \in Pages, NEW op \in Ops, Fatal(p, op)
  PROVE  MmuInv'
  <1>a. /\ UNCHANGED <<backend, dr, pr, sr, batu, batl, pt, gaps, tlb, owes, left, dirty>>
        /\ alive' = FALSE
    BY DEF Fatal
  <1>t. MmuTypeOK' /\ StoresMarkChanged'
    BY <1>a DEF MmuInv, MmuTypeOK, StoresMarkChanged
  <1>b. ASSUME NEW o \in Ops, NEW s \in Slots, tlb[o][s] # None
        PROVE  (slot(tlb[o][s].page) = s /\ EntryOK(tlb[o][s], o))'
    BY <1>b, <1>a, TouchedKeeps DEF MmuInv, MmuTypeOK
  <1> QED
    BY <1>a, <1>t, <1>b DEF TlbOK, MmuInv

LEMMA MmuStep ==
  ASSUME MmuInv, [MmuNext]_mmuVars
  PROVE  MmuInv'
  <1>typed. MmuTypeOK
    BY DEF MmuInv
  <1>hit. ASSUME NEW p \in Pages, NEW op \in Ops, Hit(p, op) PROVE MmuInv'
    BY <1>hit, HitKeeps
  <1>miss. ASSUME alive, NEW p \in Pages, NEW op \in Ops, Miss(p, op) PROVE MmuInv'
    BY <1>miss, MissKeeps
  <1>fault. ASSUME NEW p \in Pages, NEW op \in Ops, Fault(p, op) PROVE MmuInv'
    BY <1>fault, <1>typed, EmptyKeeps DEF Fault, Enter, MmuTypeOK
  <1>fatal. ASSUME NEW p \in Pages, NEW op \in Ops, Fatal(p, op) PROVE MmuInv'
    BY <1>fatal, FatalKeeps
  <1>cross. ASSUME alive, NEW p \in Pages, NEW op \in Ops, CrossAccess(p, op) PROVE MmuInv'
    BY <1>cross, CrossKeeps
  <1>exc. CASE Exception
    BY <1>exc, <1>typed, EmptyKeeps DEF Exception, Enter, MmuTypeOK
  <1>msr. ASSUME NEW newDr \in BOOLEAN, NEW newPr \in BOOLEAN, SetMsr(newDr, newPr)
          PROVE  MmuInv'
    BY <1>msr, SetMsrKeeps
  <1>sr. ASSUME NEW value \in Segments, Mtsr(value) PROVE MmuInv'
    BY <1>sr, <1>typed, SwitchKeeps DEF Mtsr, MmuTypeOK
  <1>batu. ASSUME NEW value \in BatUppers, MtBatu(value) PROVE MmuInv'
    BY <1>batu, <1>typed, SwitchKeeps DEF MtBatu, MmuTypeOK
  <1>batl. ASSUME NEW value \in BatLowers, MtBatl(value) PROVE MmuInv'
    BY <1>batl, <1>typed, SwitchKeeps DEF MtBatl, MmuTypeOK
  <1>sdr. ASSUME NEW missing \in Gaps, MtSdr1(missing) PROVE MmuInv'
    BY <1>sdr, Sdr1Keeps
  <1>pte. ASSUME NEW k \in Keys, NEW value \in Ptes[k] \cup {Absent}, WritePte(k, value)
          PROVE  MmuInv'
    BY <1>pte, WritePteKeeps
  <1>ie. ASSUME NEW p \in Pages, Tlbie(p) PROVE MmuInv'
    BY <1>ie, TlbieKeeps
  <1>ia. CASE Tlbia
    BY <1>ia, <1>typed, EmptyKeeps DEF Tlbia, MmuTypeOK
  <1>idle. CASE UNCHANGED mmuVars
    <2>a. UNCHANGED <<backend, dr, pr, sr, batu, batl, pt, gaps, alive, tlb, owes, left, dirty>>
      BY <1>idle DEF mmuVars
    <2>t. MmuTypeOK' /\ StoresMarkChanged'
      BY <2>a DEF MmuInv, MmuTypeOK, StoresMarkChanged
    <2>b. ASSUME NEW o \in Ops, NEW s \in Slots, tlb[o][s] # None
          PROVE  (slot(tlb[o][s].page) = s /\ EntryOK(tlb[o][s], o))'
      BY <2>b, <2>a, TouchedKeeps DEF MmuInv, MmuTypeOK
    <2> QED
      BY <2>a, <2>t, <2>b DEF TlbOK, MmuInv
  <1> QED
    BY <1>hit, <1>miss, <1>fault, <1>fatal, <1>cross, <1>exc, <1>msr, <1>sr, <1>batu,
       <1>batl, <1>sdr, <1>pte, <1>ie, <1>ia, <1>idle
    DEF MmuNext, Step

LEMMA MmuStart == MmuInit => MmuInv
  <1> SUFFICES ASSUME MmuInit PROVE MmuInv
    OBVIOUS
  <1>a. tlb \in [Ops -> [Slots -> Entries]] /\ TlbOK
    BY DEF MmuInit, emptied, Entries, TlbOK
  <1>b. MmuTypeOK
    BY <1>a DEF MmuInit, MmuTypeOK
  <1> QED
    BY <1>a, <1>b DEF MmuInv, MmuInit, StoresMarkChanged

LEMMA MmuAlways == MmuSpec => []MmuInv
  <1>end. QED
    BY MmuStart, MmuStep, PTL DEF MmuSpec

(***************************************************************************)
(* The TLB only ever holds empty entries and translations of pages to      *)
(* frames, and the page table only entries the guest's kernel can write.   *)
(***************************************************************************)
THEOREM MmuTypesKept == MmuSpec => []MmuTypeOK
  <1>imp. MmuInv => MmuTypeOK
    BY DEF MmuInv
  <1>end. QED
    BY <1>imp, MmuAlways, PTL

(***************************************************************************)
(* No access stub is ever led by a TLB entry to a frame, or past a right,  *)
(* that translation would refuse: through mode switches, exceptions,       *)
(* remappings with tlbie, and on x86_64 through segment and BAT switches.  *)
(***************************************************************************)
THEOREM TranslationsFresh == MmuSpec => []NoStaleTranslation
  <1>imp. MmuInv => NoStaleTranslation
    <2> SUFFICES ASSUME MmuInv, ~left, NEW op \in Ops, NEW e \in Held(op)
                 PROVE  e.page \in owes \/ Fresh(e, op)
      BY DEF NoStaleTranslation
    <2>s. PICK s \in Slots : e = tlb[op][s] /\ e # None
      BY DEF Held
    <2> QED
      BY <2>s DEF MmuInv, TlbOK, EntryOK
  <1>end. QED
    BY <1>imp, MmuAlways, PTL

(***************************************************************************)
(* Every virtual page stored to has C set in its page table entry, hit or  *)
(* miss, whichever part of a page-crossing store was done.                 *)
(***************************************************************************)
THEOREM ChangedBitsKept == MmuSpec => []StoresMarkChanged
  <1>imp. MmuInv => StoresMarkChanged
    BY DEF MmuInv
  <1>end. QED
    BY <1>imp, MmuAlways, PTL

(***************************************************************************)
(* The aarch64 fast path never leaves gMemory: tlb_fill_data_read and      *)
(* tlb_fill_data_write test the end of the page, and where the 32-bit sum  *)
(* wraps and the test fails to tell, the access that follows is fatal.     *)
(***************************************************************************)
THEOREM FastPathInMemory == MmuSpec => []InMemory
  <1>imp. MmuInv => InMemory
    <2> SUFFICES ASSUME MmuInv, backend = "aarch64", alive, NEW op \in Ops, NEW e \in Held(op)
                 PROVE  e.frame < MemFrames
      BY DEF InMemory
    <2>s. PICK s \in Slots : e = tlb[op][s] /\ e # None
      BY DEF Held
    <2> QED
      BY <2>s DEF MmuInv, TlbOK, EntryOK
  <1>end. QED
    BY <1>imp, MmuAlways, PTL
=============================================================================
