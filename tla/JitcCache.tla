------------------------------ MODULE JitcCache ------------------------------
(***************************************************************************)
(* The translation cache of the JIT (struct JITC, jitc.cc): client pages   *)
(* in an intrusive LRU list, a map from guest page frames to client pages, *)
(* and a pool of native code fragments that the client pages draw from.    *)
(* Everything runs on the CPU thread: jitcNewPC looks a guest address up   *)
(* and translates it if necessary, icbi throws a page's translation away.  *)
(*                                                                         *)
(* The list links are modelled as the pointers they are.  A fragment chain *)
(* is modelled as the set of its members and its head (tcf_current);       *)
(* native addresses as the fragment they lie in; the free fragments, whose *)
(* order nobody depends on here, as a set.                                 *)
(***************************************************************************)
EXTENDS Naturals, FiniteSets, Functions

CONSTANTS
    Pages,      \* the ClientPage structures (maxClientPages)
    Fragments,  \* the fragments of the translation cache
    Frames,     \* the guest page frames that are executed
    Stored,     \* those whose code is overwritten while it is in use
    Offsets,    \* the offsets in a page at which translations start
    Evicted,    \* pages evicted when jitcCreateClientPage finds none free (5)
    MaxChain,   \* bound: the fragments one page's translation can need
    NULL

ASSUME CacheAssumption ==
    /\ IsFiniteSet(Fragments) /\ IsFiniteSet(Pages)
    /\ NULL \notin Pages \cup Fragments \cup Frames
    /\ Stored \subseteq Frames
    /\ Pages # {}
    /\ Evicted \in Nat \ {0}
    /\ MaxChain \in 1 .. Cardinality(Fragments)

VARIABLES
    jitc,       \* struct JITC and the ClientPages it owns
    current,    \* the page being translated (jitc.currentPage), or NULL
    ofs,        \* the offset whose entry point is still to be created, or NULL
    crashed,    \* a null fragment pointer has been dereferenced
    modified    \* frames the guest has stored code to since its last icbi

vars == <<jitc, current, ofs, crashed, modified>>

NoEntries == [o \in Offsets |-> NULL]

TypeOK ==
    /\ jitc \in [clientPages   : [Frames -> Pages \cup {NULL}],
                 baseaddress   : [Pages -> Frames \cup {NULL}],
                 entrypoints   : [Pages -> [Offsets -> Fragments \cup {NULL}]],
                 tcf_current   : [Pages -> Fragments \cup {NULL}],
                 chain         : [Pages -> SUBSET Fragments],
                 moreRU        : [Pages -> Pages \cup {NULL}],
                 lessRU        : [Pages -> Pages \cup {NULL}],
                 LRUpage       : Pages \cup {NULL},
                 MRUpage       : Pages \cup {NULL},
                 freePages     : Pages \cup {NULL},
                 freeFragments : SUBSET Fragments,
                 stale         : SUBSET Pages]
    /\ current \in Pages \cup {NULL}
    /\ ofs \in Offsets \cup {NULL}
    /\ crashed \in BOOLEAN
    /\ modified \subseteq Frames

-----------------------------------------------------------------------------
(* The functions of jitc.cc, from JITC to JITC                             *)

jitcMapClientPage(j, b, p) ==
    [j EXCEPT !.clientPages[b] = p, !.baseaddress[p] = b]

\* faulty variants: the new least recent page keeps its link to p ...
MutTouchClientPage(j, p) ==
    IF j.moreRU[p] = NULL THEN j
    ELSE LET more == j.moreRU[p]
             less == j.lessRU[p]
             unlinked ==
                IF less # NULL
                THEN [j EXCEPT !.lessRU[more] = less, !.moreRU[less] = more]
                ELSE [j EXCEPT !.LRUpage = more]
         IN  [unlinked EXCEPT !.moreRU[p] = NULL,
                              !.lessRU[p] = j.MRUpage,
                              !.moreRU[j.MRUpage] = p,
                              !.MRUpage = p]

\* ... tcf_current or the mapping survives the destruction
MutDestroyKeepsFragments(j, p) ==
    [j EXCEPT !.freeFragments = @ \cup j.chain[p],
              !.entrypoints[p] = NoEntries,
              !.clientPages[j.baseaddress[p]] = NULL,
              !.stale = @ \ {p}]

MutDestroyKeepsMapping(j, p) ==
    [j EXCEPT !.freeFragments = @ \cup j.chain[p],
              !.chain[p] = {},
              !.tcf_current[p] = NULL,
              !.entrypoints[p] = NoEntries,
              !.stale = @ \ {p}]

\* move p to the most recently used end
jitcTouchClientPage(j, p) ==
    IF j.moreRU[p] = NULL THEN j
    ELSE LET more == j.moreRU[p]
             less == j.lessRU[p]
             unlinked ==
                IF less # NULL
                THEN [j EXCEPT !.lessRU[more] = less, !.moreRU[less] = more]
                ELSE [j EXCEPT !.LRUpage = more, !.lessRU[more] = NULL]
         IN  [unlinked EXCEPT !.moreRU[p] = NULL,
                              !.lessRU[p] = j.MRUpage,
                              !.moreRU[j.MRUpage] = p,
                              !.MRUpage = p]

\* the fragments go back, the entry points are cleared, the frame the page
\* was last mapped for is unmapped
jitcDestroyClientPage(j, p) ==
    [j EXCEPT !.freeFragments = @ \cup j.chain[p],
              !.chain[p] = {},
              !.tcf_current[p] = NULL,
              !.entrypoints[p] = NoEntries,
              !.clientPages[j.baseaddress[p]] = NULL,
              !.stale = @ \ {p}]

\* unlink p from the LRU list and push it on the list of free pages
jitcFreeClientPage(j, p) ==
    LET more == j.moreRU[p]
        less == j.lessRU[p]
        unlinked ==
            IF less = NULL
            THEN IF more = NULL
                 THEN [j EXCEPT !.LRUpage = NULL, !.MRUpage = NULL]
                 ELSE [j EXCEPT !.LRUpage = more, !.lessRU[more] = NULL]
            ELSE IF more = NULL
                 THEN [j EXCEPT !.MRUpage = less, !.moreRU[less] = NULL]
                 ELSE [j EXCEPT !.lessRU[more] = less, !.moreRU[less] = more]
    IN  [unlinked EXCEPT !.moreRU[p] = j.freePages, !.freePages = p]

jitcDestroyAndFreeClientPage(j, p) == jitcFreeClientPage(jitcDestroyClientPage(j, p), p)
jitcDestroyAndTouchClientPage(j, p) == jitcTouchClientPage(jitcDestroyClientPage(j, p), p)

\* the first half of jitcAllocFragment: make room if there is none
jitcMakeRoom(j) ==
    IF j.freeFragments = {} THEN jitcDestroyAndFreeClientPage(j, j.LRUpage) ELSE j

\* jitcGetFragment, and the caller's linking of f in front of p's chain
jitcLinkFragment(j, p, f) ==
    [j EXCEPT !.freeFragments = @ \ {f},
              !.chain[p] = @ \cup {f},
              !.tcf_current[p] = f]

\* the least recently used page and Evicted - 1 more are destroyed and moved
\* to the other end of the list; the first of them is returned
evictPages(j) ==
    LET e[n \in 0 .. Evicted] ==
            IF n = 0 THEN j ELSE jitcDestroyAndTouchClientPage(e[n - 1], e[n - 1].LRUpage)
    IN  e[Evicted]

\* take p from the list of free pages and append it to the LRU list
appendFreePage(j) ==
    LET p == j.freePages
        popped == [j EXCEPT !.freePages = j.moreRU[p], !.MRUpage = p]
    IN  IF j.MRUpage # NULL
        THEN [popped EXCEPT !.moreRU[j.MRUpage] = p, !.lessRU[p] = j.MRUpage,
                            !.moreRU[p] = NULL]
        ELSE [popped EXCEPT !.LRUpage = p, !.lessRU[p] = NULL, !.moreRU[p] = NULL]

jitcCreateClientPage(j, b) ==
    IF j.freePages # NULL
    THEN jitcMapClientPage(appendFreePage(j), b, j.freePages)
    ELSE jitcMapClientPage(evictPages(j), b, j.LRUpage)

jitcGetOrCreateClientPage(j, b) ==
    IF j.clientPages[b] # NULL THEN j ELSE jitcCreateClientPage(j, b)

-----------------------------------------------------------------------------
(* The CPU thread                                                          *)

Executing == ~crashed /\ current = NULL

\* faulty variant: the page is not touched
MutFound(b) == jitcGetOrCreateClientPage(jitc, b)

\* the lookup at the start of jitcNewPC: the page, made the most recent one
found(b) == LET j == jitcGetOrCreateClientPage(jitc, b)
            IN  jitcTouchClientPage(j, j.clientPages[b])

\* jitcNewPC finds an entry point
Hit(b, o) ==
    LET j == found(b)
        p == j.clientPages[b] IN
    /\ Executing
    /\ j.tcf_current[p] # NULL
    /\ j.entrypoints[p][o] # NULL
    /\ jitc' = j
    /\ UNCHANGED <<current, ofs, crashed, modified>>

\* jitcNewPC, page known, entry point not: jitcNewEntrypoint
NewEntrypoint(b, o) ==
    LET j == found(b)
        p == j.clientPages[b] IN
    /\ Executing
    /\ j.tcf_current[p] # NULL
    /\ j.entrypoints[p][o] = NULL
    /\ jitc' = j
    /\ current' = p
    /\ ofs' = o
    /\ UNCHANGED <<crashed, modified>>

\* jitcNewPC, page without translation: jitcStartTranslation, which
\* dereferences what jitcAllocFragment returns
StartTranslation(b, o) ==
    LET j == found(b)
        p == j.clientPages[b]
        r == jitcMakeRoom(j) IN
    /\ Executing
    /\ j.tcf_current[p] = NULL
    /\ \/ /\ r.freeFragments = {}
          /\ crashed' = TRUE
          /\ jitc' = r
          /\ UNCHANGED <<current, ofs>>
       \/ \E f \in r.freeFragments :
            /\ jitc' = jitcLinkFragment(r, p, f)
            /\ current' = p
            /\ ofs' = o
            /\ UNCHANGED crashed
    /\ UNCHANGED modified

\* jitcEmitNextFragment, called by emit32, emitAssure and jitcEmitAlign
NextFragment ==
    LET r == jitcMakeRoom(jitc) IN
    /\ ~crashed
    /\ current # NULL
    /\ Cardinality(jitc.chain[current]) < MaxChain
    /\ \/ /\ r.freeFragments = {}
          /\ crashed' = TRUE
          /\ jitc' = r
       \/ \E f \in r.freeFragments :
            /\ jitc' = jitcLinkFragment(r, current, f)
            /\ UNCHANGED crashed
    /\ UNCHANGED <<current, ofs, modified>>

\* jitcCreateEntrypoint, for the address asked for once the emission pointer
\* is aligned, then for the instruction behind each flowEndBlock.  The
\* pointer lies in the current fragment or, if that one directly follows its
\* predecessor, still in the predecessor: in a fragment of the chain.
CreateEntrypoint(o) ==
    /\ ~crashed
    /\ current # NULL
    /\ ofs # NULL => o = ofs
    /\ \E f \in jitc.chain[current] : jitc' = [jitc EXCEPT !.entrypoints[current][o] = f]
    /\ ofs' = NULL
    /\ UNCHANGED <<current, crashed, modified>>

\* flowEndBlockUnreachable or the end of the page: back to translated code
EndTranslation ==
    /\ ~crashed
    /\ current # NULL
    /\ ofs = NULL
    /\ current' = NULL
    /\ UNCHANGED <<jitc, ofs, crashed, modified>>

\* faulty variant: icbi as a no-op
MutIcbi(b) ==
    /\ Executing
    /\ modified' = modified \ {b}
    /\ UNCHANGED <<jitc, current, ofs, crashed>>

\* ppc_opc_icbi; at an address that has no translation or lies outside memory
\* it returns early, and nothing changes
icbi(b) ==
    /\ Executing
    /\ jitc' = IF jitc.clientPages[b] # NULL
               THEN jitcDestroyAndFreeClientPage(jitc, jitc.clientPages[b])
               ELSE jitc
    /\ modified' = modified \ {b}
    /\ UNCHANGED <<current, ofs, crashed>>

\* the guest (or a DMA transfer) stores to frame b; every translation made
\* from it so far is out of date
StoreCode(b) ==
    /\ Executing
    /\ modified' = modified \cup {b}
    /\ jitc' = [jitc EXCEPT !.stale =
                  @ \cup {p \in Pages : jitc.baseaddress[p] = b /\ jitc.chain[p] # {}}]
    /\ UNCHANGED <<current, ofs, crashed>>

\* the process is gone
Crashed == crashed /\ UNCHANGED vars

-----------------------------------------------------------------------------
\* JITC::init links the pages into the free list; baseaddress is not set, and
\* NULL stands for what it happens to hold
FreeOrder == CHOOSE f \in [1 .. Cardinality(Pages) -> Pages] :
                \A a, b \in 1 .. Cardinality(Pages) : a # b => f[a] # f[b]

FreeIndex(p) == CHOOSE k \in 1 .. Cardinality(Pages) : FreeOrder[k] = p

Init ==
    /\ jitc = [clientPages   |-> [b \in Frames |-> NULL],
               baseaddress   |-> [p \in Pages |-> NULL],
               entrypoints   |-> [p \in Pages |-> NoEntries],
               tcf_current   |-> [p \in Pages |-> NULL],
               chain         |-> [p \in Pages |-> {}],
               moreRU        |-> [p \in Pages |->
                                    IF FreeIndex(p) = Cardinality(Pages) THEN NULL
                                    ELSE FreeOrder[FreeIndex(p) + 1]],
               lessRU        |-> [p \in Pages |->
                                    IF FreeIndex(p) = 1 THEN NULL
                                    ELSE FreeOrder[FreeIndex(p) - 1]],
               LRUpage       |-> NULL,
               MRUpage       |-> NULL,
               freePages     |-> FreeOrder[1],
               freeFragments |-> Fragments,
               stale         |-> {}]
    /\ current = NULL
    /\ ofs = NULL
    /\ crashed = FALSE
    /\ modified = {}

NewPC(b, o) == Hit(b, o) \/ NewEntrypoint(b, o) \/ StartTranslation(b, o)

Next ==
    \/ \E b \in Frames : icbi(b) \/ \E o \in Offsets : NewPC(b, o)
    \/ \E b \in Stored : StoreCode(b)
    \/ \E o \in Offsets : CreateEntrypoint(o)
    \/ NextFragment
    \/ EndTranslation
    \/ Crashed

Spec == Init /\ [][Next]_vars

-----------------------------------------------------------------------------
(***************************************************************************)
(* No fragment is lost or shared: each is free or in the chain of exactly  *)
(* one page, through evictions in the middle of a translation too.  A      *)
(* page's current fragment is in its own chain, and so are its entry       *)
(* points: the jump through clientPages and entrypoints never lands in a   *)
(* fragment that has been given to another page.                           *)
(***************************************************************************)
FragmentsConserved ==
    /\ \A p, q \in Pages : p # q => jitc.chain[p] \cap jitc.chain[q] = {}
    /\ \A p \in Pages : jitc.chain[p] \cap jitc.freeFragments = {}
    /\ Fragments = jitc.freeFragments \cup UNION {jitc.chain[p] : p \in Pages}
    /\ \A p \in Pages : IF jitc.chain[p] = {} THEN jitc.tcf_current[p] = NULL
                        ELSE jitc.tcf_current[p] \in jitc.chain[p]
    /\ \A p \in Pages : \A o \in Offsets :
         jitc.entrypoints[p][o] \in jitc.chain[p] \cup {NULL}

\* the list that starts at page p and follows moreRU, as a function
walk(p) ==
    LET next == [q \in Pages \cup {NULL} |-> IF q = NULL THEN NULL ELSE jitc.moreRU[q]]
        w[n \in 0 .. Cardinality(Pages)] == IF n = 0 THEN p ELSE next[w[n - 1]]
    IN  w

listed(p) == Range(walk(p)) \ {NULL}

(***************************************************************************)
(* The LRU list and the list of free pages are well formed: both end, they *)
(* share no page, every page is in one of them, and the links of the LRU   *)
(* list agree in both directions from LRUpage to MRUpage.                  *)
(***************************************************************************)
ListsWellFormed ==
    LET lru == listed(jitc.LRUpage)
        free == listed(jitc.freePages) IN
    /\ TypeOK
    /\ walk(jitc.LRUpage)[Cardinality(Pages)] = NULL
    /\ walk(jitc.freePages)[Cardinality(Pages)] = NULL
    /\ lru \cap free = {}
    /\ lru \cup free = Pages
    /\ (jitc.LRUpage = NULL) <=> (jitc.MRUpage = NULL)
    /\ \A p \in lru :
         /\ (p = jitc.MRUpage) <=> (jitc.moreRU[p] = NULL)
         /\ (p = jitc.LRUpage) <=> (jitc.lessRU[p] = NULL)
         /\ jitc.moreRU[p] # NULL => jitc.lessRU[jitc.moreRU[p]] = p

(***************************************************************************)
(* clientPages leads to a page of the LRU list that stands for that very   *)
(* frame, although evicted pages stay in the list with the address of the  *)
(* frame they stood for, and unmap it once more when they are evicted      *)
(* again.                                                                  *)
(***************************************************************************)
MapConsistent ==
    LET lru == listed(jitc.LRUpage) IN
    \A b \in Frames :
        LET p == jitc.clientPages[b] IN
        p # NULL => jitc.baseaddress[p] = b /\ p \in lru

(***************************************************************************)
(* The page being translated is never the one evicted to make room for it: *)
(* it keeps its current fragment until the translation ends.               *)
(***************************************************************************)
CurrentKept ==
    current # NULL => /\ jitc.tcf_current[current] # NULL
                      /\ current = jitc.MRUpage

(***************************************************************************)
(* icbi is enough: once the guest has executed icbi for a frame it has     *)
(* written to, no translation made before the store can be reached through *)
(* clientPages.                                                            *)
(***************************************************************************)
NoStaleCode ==
    \A b \in Frames \ modified : jitc.clientPages[b] \notin jitc.stale
=============================================================================
