--------------------------- MODULE JitcCacheProofs ---------------------------
(***************************************************************************)
(* The invariants of the translation cache, for every number of client     *)
(* pages, fragments, frames and evictions.                                 *)
(*                                                                         *)
(* First what each function of jitc.cc leaves in each field of struct      *)
(* JITC; then what the functions on the two lists do to the sequences of   *)
(* pages the links stand for; then what they do to the fragments, the map  *)
(* and the outdated pages; then one step for each action.                  *)
(***************************************************************************)
EXTENDS JitcCache, FiniteSetTheorems, TLAPS

\* what struct JITC holds
Cache == [clientPages   : [Frames -> Pages \cup {NULL}],
          baseaddress   : [Pages -> Frames \cup {NULL}],
          entrypoints   : [Pages -> [Offsets -> Fragments \cup {NULL}]],
          tcf_current   : [Pages -> Fragments \cup {NULL}],
          chain         : [Pages -> SUBSET Fragments],
          moreRU        : [Pages -> Pages \cup {NULL}],
          lessRU        : [Pages -> Pages \cup {NULL}],
          LRUpage       : Pages \cup {NULL},
          MRUpage       : Pages \cup {NULL},
          freePages     : Pages \cup {NULL},
          freeFragments : SUBSET Fragments,
          stale         : SUBSET Pages]

\* The fields of JITC after jitcDestroyClientPage.
LEMMA DestroyFields ==
  ASSUME NEW j \in Cache, NEW p \in Pages
  PROVE  LET k == jitcDestroyClientPage(j, p) IN
         /\ k \in Cache
         /\ k.freeFragments = j.freeFragments \cup j.chain[p]
         /\ k.chain = [j.chain EXCEPT ![p] = {}]
         /\ k.tcf_current = [j.tcf_current EXCEPT ![p] = NULL]
         /\ k.entrypoints = [j.entrypoints EXCEPT ![p] = NoEntries]
         /\ k.clientPages = [j.clientPages EXCEPT ![j.baseaddress[p]] = NULL]
         /\ k.stale = j.stale \ {p}
         /\ k.baseaddress = j.baseaddress
         /\ k.moreRU = j.moreRU /\ k.lessRU = j.lessRU
         /\ k.LRUpage = j.LRUpage /\ k.MRUpage = j.MRUpage /\ k.freePages = j.freePages
  BY DEF Cache, jitcDestroyClientPage, NoEntries

\* The fields of JITC after a fragment is linked in front of a chain.
LEMMA LinkFields ==
  ASSUME NEW j \in Cache, NEW p \in Pages, NEW f \in Fragments
  PROVE  LET k == jitcLinkFragment(j, p, f) IN
         /\ k \in Cache
         /\ k.freeFragments = j.freeFragments \ {f}
         /\ k.chain = [j.chain EXCEPT ![p] = @ \cup {f}]
         /\ k.tcf_current = [j.tcf_current EXCEPT ![p] = f]
         /\ k.entrypoints = j.entrypoints /\ k.clientPages = j.clientPages
         /\ k.baseaddress = j.baseaddress /\ k.stale = j.stale
         /\ k.moreRU = j.moreRU /\ k.lessRU = j.lessRU
         /\ k.LRUpage = j.LRUpage /\ k.MRUpage = j.MRUpage /\ k.freePages = j.freePages
  BY DEF Cache, jitcLinkFragment

\* the fields of JITC that are not links of a list
SameContents(j, k) ==
    /\ k.freeFragments = j.freeFragments /\ k.chain = j.chain /\ k.tcf_current = j.tcf_current
    /\ k.entrypoints = j.entrypoints /\ k.clientPages = j.clientPages
    /\ k.baseaddress = j.baseaddress /\ k.stale = j.stale

\* The fields of JITC after jitcTouchClientPage of a page that is not yet the last.
LEMMA TouchFields ==
  ASSUME NEW j \in Cache, NEW p \in Pages, j.moreRU[p] # NULL, j.MRUpage # NULL
  PROVE  LET k == jitcTouchClientPage(j, p)
             more == j.moreRU[p]
             less == j.lessRU[p] IN
         /\ k \in Cache
         /\ SameContents(j, k) /\ k.freePages = j.freePages
         /\ k.MRUpage = p
         /\ k.LRUpage = IF less = NULL THEN more ELSE j.LRUpage
         /\ k.lessRU = [j.lessRU EXCEPT ![more] = less, ![p] = j.MRUpage]
         /\ k.moreRU = IF less = NULL
                       THEN [j.moreRU EXCEPT ![p] = NULL, ![j.MRUpage] = p]
                       ELSE [j.moreRU EXCEPT ![less] = more, ![p] = NULL, ![j.MRUpage] = p]
  <1> DEFINE more == j.moreRU[p]
             less == j.lessRU[p]
  <1>more. more \in Pages /\ less \in Pages \cup {NULL} /\ NULL \notin Pages /\ j.MRUpage \in Pages
    BY CacheAssumption DEF Cache
  <1>null. CASE less = NULL
    BY <1>null, <1>more DEF Cache, jitcTouchClientPage, SameContents
  <1>some. CASE less # NULL
    BY <1>some, <1>more DEF Cache, jitcTouchClientPage, SameContents
  <1> QED  BY <1>null, <1>some

\* The fields of JITC after jitcFreeClientPage.
LEMMA FreeFields ==
  ASSUME NEW j \in Cache, NEW p \in Pages
  PROVE  LET k == jitcFreeClientPage(j, p)
             more == j.moreRU[p]
             less == j.lessRU[p] IN
         /\ k \in Cache
         /\ SameContents(j, k) /\ k.freePages = p
         /\ k.MRUpage = IF more = NULL THEN less ELSE j.MRUpage
         /\ k.LRUpage = IF less = NULL THEN more ELSE j.LRUpage
         /\ k.lessRU = IF more = NULL THEN j.lessRU ELSE [j.lessRU EXCEPT ![more] = less]
         /\ k.moreRU = IF less = NULL THEN [j.moreRU EXCEPT ![p] = j.freePages]
                       ELSE [j.moreRU EXCEPT ![less] = more, ![p] = j.freePages]
  <1> DEFINE more == j.moreRU[p]
             less == j.lessRU[p]
  <1>more. more \in Pages \cup {NULL} /\ less \in Pages \cup {NULL} /\ NULL \notin Pages
    BY CacheAssumption DEF Cache
  <1>one. CASE less = NULL /\ more = NULL
    BY <1>one, <1>more DEF Cache, jitcFreeClientPage, SameContents
  <1>two. CASE less # NULL /\ more = NULL
    BY <1>two, <1>more DEF Cache, jitcFreeClientPage, SameContents
  <1>three. CASE less = NULL /\ more # NULL
    BY <1>three, <1>more DEF Cache, jitcFreeClientPage, SameContents
  <1>four. CASE less # NULL /\ more # NULL
    BY <1>four, <1>more DEF Cache, jitcFreeClientPage, SameContents
  <1> QED  BY <1>one, <1>two, <1>three, <1>four

\* The fields of JITC after the first free page is taken.
LEMMA AppendFields ==
  ASSUME NEW j \in Cache, j.freePages # NULL
  PROVE  LET k == appendFreePage(j)
             p == j.freePages IN
         /\ k \in Cache
         /\ SameContents(j, k)
         /\ k.freePages = j.moreRU[p]
         /\ k.MRUpage = p
         /\ k.LRUpage = IF j.MRUpage = NULL THEN p ELSE j.LRUpage
         /\ k.lessRU = [j.lessRU EXCEPT ![p] = j.MRUpage]
         /\ k.moreRU = IF j.MRUpage = NULL THEN [j.moreRU EXCEPT ![p] = NULL]
                       ELSE [j.moreRU EXCEPT ![j.MRUpage] = p, ![p] = NULL]
  <1>page. j.freePages \in Pages /\ NULL \notin Pages
    BY CacheAssumption DEF Cache
  <1>null. CASE j.MRUpage = NULL
    BY <1>null, <1>page DEF Cache, appendFreePage, SameContents
  <1>some. CASE j.MRUpage # NULL
    BY <1>some, <1>page DEF Cache, appendFreePage, SameContents
  <1> QED  BY <1>null, <1>some

\* The fields of JITC after jitcMapClientPage.
LEMMA MapFields ==
  ASSUME NEW j \in Cache, NEW p \in Pages, NEW b \in Frames
  PROVE  LET k == jitcMapClientPage(j, b, p) IN
         /\ k \in Cache
         /\ k.clientPages = [j.clientPages EXCEPT ![b] = p]
         /\ k.baseaddress = [j.baseaddress EXCEPT ![p] = b]
         /\ k.freeFragments = j.freeFragments /\ k.chain = j.chain /\ k.tcf_current = j.tcf_current
         /\ k.entrypoints = j.entrypoints /\ k.stale = j.stale
         /\ k.moreRU = j.moreRU /\ k.lessRU = j.lessRU
         /\ k.LRUpage = j.LRUpage /\ k.MRUpage = j.MRUpage /\ k.freePages = j.freePages
  BY DEF Cache, jitcMapClientPage

-----------------------------------------------------------------------------
\* s lists the n pages from LRUpage to MRUpage, and the links say so
LruLinks(j, s, n) ==
    /\ \A a, c \in 1 .. n : s[a] = s[c] => a = c
    /\ j.LRUpage = IF n = 0 THEN NULL ELSE s[1]
    /\ j.MRUpage = IF n = 0 THEN NULL ELSE s[n]
    /\ \A a \in 1 .. n : j.moreRU[s[a]] = IF a = n THEN NULL ELSE s[a + 1]
    /\ \A a \in 1 .. n : j.lessRU[s[a]] = IF a = 1 THEN NULL ELSE s[a - 1]

\* t lists the m free pages
FreeLinks(j, t, m) ==
    /\ \A a, c \in 1 .. m : t[a] = t[c] => a = c
    /\ j.freePages = IF m = 0 THEN NULL ELSE t[1]
    /\ \A a \in 1 .. m : j.moreRU[t[a]] = IF a = m THEN NULL ELSE t[a + 1]

\* the pages of a list
Members(s, n) == {s[a] : a \in 1 .. n}

\* L are the pages of the LRU list, the other ones are free
Listed(j, L) ==
    /\ \E n \in Nat : \E s \in [1 .. n -> Pages] : LruLinks(j, s, n) /\ L = Members(s, n)
    /\ \E m \in Nat : \E t \in [1 .. m -> Pages] : FreeLinks(j, t, m) /\ Pages \ L = Members(t, m)

\* What the links at the ends of the lists, and beside a page, tell.
LEMMA EndsOfLists ==
  ASSUME NEW j \in Cache, NEW L \in SUBSET Pages, Listed(j, L)
  PROVE  /\ j.LRUpage = NULL <=> L = {}
         /\ j.MRUpage = NULL <=> L = {}
         /\ j.LRUpage # NULL => j.LRUpage \in L
         /\ j.MRUpage # NULL => j.MRUpage \in L
         /\ \A p \in L : p = j.MRUpage <=> j.moreRU[p] = NULL
         /\ \A p \in L : p = j.LRUpage <=> j.lessRU[p] = NULL
         /\ \A p \in L : j.moreRU[p] # NULL => j.moreRU[p] \in L /\ j.lessRU[j.moreRU[p]] = p
         /\ j.LRUpage = j.MRUpage => \A p, q \in L : p = q
         /\ j.freePages = NULL <=> L = Pages
         /\ j.freePages # NULL => j.freePages \in Pages \ L
  <1>null. NULL \notin Pages
    BY CacheAssumption
  <1>lrun. PICK n \in Nat : \E s \in [1 .. n -> Pages] : LruLinks(j, s, n) /\ L = Members(s, n)
    BY DEF Listed
  <1>lru. PICK s \in [1 .. n -> Pages] : LruLinks(j, s, n) /\ L = Members(s, n)
    BY <1>lrun
  <1>freen. PICK m \in Nat : \E t \in [1 .. m -> Pages] : FreeLinks(j, t, m) /\ Pages \ L = Members(t, m)
    BY DEF Listed
  <1>free. PICK t \in [1 .. m -> Pages] : FreeLinks(j, t, m) /\ Pages \ L = Members(t, m)
    BY <1>freen
  <1>a. n = 0 <=> L = {}
    <2>a. n # 0 => 1 \in 1 .. n
      OBVIOUS
    <2>b. n = 0 => 1 .. n = {}
      OBVIOUS
    <2> QED  BY <1>lru, <2>a, <2>b DEF Members
  <1>b. m = 0 <=> L = Pages
    <2>a. m # 0 => 1 \in 1 .. m
      OBVIOUS
    <2>b. m = 0 => 1 .. m = {}
      OBVIOUS
    <2> QED  BY <1>free, <2>a, <2>b DEF Members
  <1>c. n # 0 => 1 \in 1 .. n /\ n \in 1 .. n
    OBVIOUS
  <1>d. m # 0 => 1 \in 1 .. m
    OBVIOUS
  <1>ends. /\ j.LRUpage = NULL <=> L = {}
           /\ j.MRUpage = NULL <=> L = {}
           /\ j.LRUpage # NULL => j.LRUpage \in L
           /\ j.MRUpage # NULL => j.MRUpage \in L
    <2>zero. CASE n = 0
      BY <2>zero, <1>lru, <1>a DEF LruLinks
    <2>some. CASE n # 0
      <3>a. s[1] \in L /\ s[n] \in L
        BY <2>some, <1>c, <1>lru DEF Members
      <3>b. j.LRUpage = s[1] /\ j.MRUpage = s[n]
        BY <2>some, <1>lru DEF LruLinks
      <3> QED  BY <3>a, <3>b, <1>null
    <2> QED  BY <2>zero, <2>some
  <1>frees. /\ j.freePages = NULL <=> L = Pages
            /\ j.freePages # NULL => j.freePages \in Pages \ L
    BY <1>free, <1>null, <1>b, <1>d DEF FreeLinks, Members
  <1>each. ASSUME NEW p \in L
           PROVE /\ p = j.MRUpage <=> j.moreRU[p] = NULL
                 /\ p = j.LRUpage <=> j.lessRU[p] = NULL
                 /\ j.moreRU[p] # NULL => j.moreRU[p] \in L /\ j.lessRU[j.moreRU[p]] = p
    <2>i. PICK i \in 1 .. n : p = s[i]
      BY <1>lru DEF Members
    <2>next. i # n => i + 1 \in 1 .. n /\ i + 1 # 1 /\ i + 1 - 1 = i
      OBVIOUS
    <2>prev. i # 1 => i - 1 \in 1 .. n
      OBVIOUS
    <2>n. n # 0
      OBVIOUS
    <2> QED  BY <1>lru, <1>null, <1>c, <2>i, <2>n, <2>next, <2>prev DEF LruLinks, Members
  <1>one. ASSUME j.LRUpage = j.MRUpage, NEW p \in L, NEW q \in L PROVE p = q
    <2>i. PICK i \in 1 .. n, k \in 1 .. n : p = s[i] /\ q = s[k]
      BY <1>lru DEF Members
    <2>n. n = 1
      <3>a. n # 0 /\ 1 \in 1 .. n /\ n \in 1 .. n
        OBVIOUS
      <3>b. s[1] = s[n] /\ (\A a, c \in 1 .. n : s[a] = s[c] => a = c)
        BY <3>a, <1>one, <1>lru DEF LruLinks
      <3> QED  BY <3>a, <3>b
    <2> QED  BY <2>i, <2>n
  <1> QED  BY <1>ends, <1>frees, <1>each, <1>one

\* A page of the LRU list is moved to its most recent end.
LEMMA TouchKeeps ==
  ASSUME NEW j \in Cache, NEW L \in SUBSET Pages, Listed(j, L), NEW p \in L
  PROVE  LET k == jitcTouchClientPage(j, p) IN
         /\ k \in Cache /\ Listed(k, L)
         /\ SameContents(j, k)
         /\ k.MRUpage = p /\ k.freePages = j.freePages
  <1> DEFINE k == jitcTouchClientPage(j, p)
             more == j.moreRU[p]
             less == j.lessRU[p]
  <1>null. NULL \notin Pages
    BY CacheAssumption
  <1>last. CASE more = NULL
    <2>same. k = j
      BY <1>last DEF jitcTouchClientPage
    <2> QED  BY <2>same, <1>last, EndsOfLists DEF SameContents
  <1>inner. CASE more # NULL
    <2>mru. j.MRUpage # NULL
      BY EndsOfLists
    <2>fields. /\ k \in Cache
               /\ SameContents(j, k) /\ k.freePages = j.freePages
               /\ k.MRUpage = p
               /\ k.LRUpage = IF less = NULL THEN more ELSE j.LRUpage
               /\ k.lessRU = [j.lessRU EXCEPT ![more] = less, ![p] = j.MRUpage]
               /\ k.moreRU = IF less = NULL
                             THEN [j.moreRU EXCEPT ![p] = NULL, ![j.MRUpage] = p]
                             ELSE [j.moreRU EXCEPT ![less] = more, ![p] = NULL, ![j.MRUpage] = p]
      BY <1>inner, <2>mru, TouchFields
    <2>lrun. PICK n \in Nat : \E s \in [1 .. n -> Pages] : LruLinks(j, s, n) /\ L = Members(s, n)
      BY DEF Listed
    <2>lru. PICK s \in [1 .. n -> Pages] : LruLinks(j, s, n) /\ L = Members(s, n)
      BY <2>lrun
    <2>freen. PICK m \in Nat : \E t \in [1 .. m -> Pages] : FreeLinks(j, t, m) /\ Pages \ L = Members(t, m)
      BY DEF Listed
    <2>free. PICK t \in [1 .. m -> Pages] : FreeLinks(j, t, m) /\ Pages \ L = Members(t, m)
      BY <2>freen
    <2>i. PICK i \in 1 .. n : p = s[i]
      BY <2>lru DEF Members
    <2> HIDE DEF k
    <2>not. i # n
      BY <1>inner, <2>lru, <2>i DEF LruLinks
    <2>in. i + 1 \in 1 .. n /\ n \in 1 .. n /\ n # 0 /\ (i # 1 => i - 1 \in 1 .. n)
      BY <2>not
    <2>near. /\ more = s[i + 1] /\ j.MRUpage = s[n]
             /\ less = IF i = 1 THEN NULL ELSE s[i - 1]
             /\ less = NULL <=> i = 1
             /\ j.LRUpage = s[1]
      BY <2>lru, <2>i, <2>in, <1>null DEF LruLinks
    <2> HIDE DEF more, less
    <2> DEFINE r == [a \in 1 .. n |-> IF a < i THEN s[a] ELSE IF a < n THEN s[a + 1] ELSE p]
               old(a) == IF a < i THEN a ELSE IF a < n THEN a + 1 ELSE i
    <2>old. \A a \in 1 .. n : old(a) \in 1 .. n /\ r[a] = s[old(a)]
      BY <2>i, <2>in
    <2>r. r \in [1 .. n -> Pages]
      BY <2>old
    <2>injold. \A a, c \in 1 .. n : old(a) = old(c) => a = c
      BY <2>i, <2>in
    <2>onto. \A c \in 1 .. n : \E a \in 1 .. n : old(a) = c
      <3> TAKE c \in 1 .. n
      <3>lt. CASE c < i
        BY <3>lt
      <3>eq. CASE c = i
        BY <3>eq, <2>in
      <3>gt. CASE c > i
        <4>a. c - 1 \in 1 .. n /\ ~(c - 1 < i) /\ c - 1 < n /\ c - 1 + 1 = c
          BY <3>gt
        <4> QED  BY <4>a
      <3> QED  BY <3>lt, <3>eq, <3>gt
    <2>members. Members(r, n) = L
      <3> HIDE DEF r, old
      <3>sub. \A q \in L : \E a \in 1 .. n : q = r[a]
        <4> TAKE q \in L
        <4>c. PICK c \in 1 .. n : q = s[c]
          BY <2>lru DEF Members
        <4>a. PICK a \in 1 .. n : old(a) = c
          BY <2>onto
        <4> QED  BY <4>c, <4>a, <2>old
      <3>sup. \A a \in 1 .. n : r[a] \in L
        BY <2>old, <2>lru DEF Members
      <3> QED  BY <3>sub, <3>sup DEF Members
    <2>pos. /\ \A a \in 1 .. n : s[a] \in Pages
            /\ \A a, c \in 1 .. n : s[a] = s[c] => a = c
            /\ \A a \in 1 .. n : j.moreRU[s[a]] = IF a = n THEN NULL ELSE s[a + 1]
            /\ \A a \in 1 .. n : j.lessRU[s[a]] = IF a = 1 THEN NULL ELSE s[a - 1]
      BY <2>lru DEF LruLinks
    <2>dom. /\ DOMAIN j.moreRU = Pages /\ DOMAIN j.lessRU = Pages
      BY DEF Cache
    <2>links. LruLinks(k, r, n)
      <3>inj. \A a, c \in 1 .. n : r[a] = r[c] => a = c
        <4> HIDE DEF r, old
        <4> QED  BY <2>old, <2>injold, <2>pos
      <3>ends. k.LRUpage = r[1] /\ k.MRUpage = r[n]
        BY <2>fields, <2>near, <2>in, <2>i
      <3>mores. \A a \in 1 .. n : k.moreRU[r[a]] = IF a = n THEN NULL ELSE r[a + 1]
        <4> TAKE a \in 1 .. n
        <4>val. k.moreRU[r[a]] = IF old(a) = n THEN p ELSE IF old(a) = i THEN NULL
                                 ELSE IF old(a) = i - 1 THEN s[i + 1] ELSE s[old(a) + 1]
          <5> HIDE DEF r, old
          <5>1. old(a) \in 1 .. n /\ r[a] = s[old(a)]
            BY <2>old
          <5>2. i # 1 => i - 1 \in 1 .. n
            BY <2>in
          <5>3. i = 1 => old(a) # i - 1
            BY <5>1
          <5>4. CASE i = 1
            BY <5>1, <5>3, <5>4, <2>fields, <2>near, <2>pos, <2>dom, <2>in, <2>i, <2>not
          <5>5. CASE i # 1
            BY <5>1, <5>2, <5>5, <2>fields, <2>near, <2>pos, <2>dom, <2>in, <2>i, <2>not
          <5> QED  BY <5>4, <5>5
        <4>lt. CASE a < i
          BY <4>lt, <4>val, <2>in, <2>not
        <4>ge. CASE ~(a < i)
          BY <4>ge, <4>val, <2>in, <2>not
        <4> QED  BY <4>lt, <4>ge
      <3>lesses. \A a \in 1 .. n : k.lessRU[r[a]] = IF a = 1 THEN NULL ELSE r[a - 1]
        <4> TAKE a \in 1 .. n
        <4>val. k.lessRU[r[a]] = IF old(a) = i THEN s[n] ELSE IF old(a) = i + 1 THEN less
                                 ELSE IF old(a) = 1 THEN NULL ELSE s[old(a) - 1]
          <5> HIDE DEF r, old
          <5>1. old(a) \in 1 .. n /\ r[a] = s[old(a)]
            BY <2>old
          <5> QED  BY <5>1, <2>fields, <2>near, <2>pos, <2>dom, <2>in, <2>i, <2>not
        <4>lt. CASE a < i
          BY <4>lt, <4>val, <2>in, <2>not
        <4>eq. CASE a = i
          BY <4>eq, <4>val, <2>in, <2>not, <2>near
        <4>gt. CASE a > i
          BY <4>gt, <4>val, <2>in, <2>not
        <4> QED  BY <4>lt, <4>eq, <4>gt
      <3> QED
        <4> HIDE DEF r
        <4> QED  BY <3>inj, <3>ends, <3>mores, <3>lesses, <2>in DEF LruLinks
    <2>frees. FreeLinks(k, t, m)
      <3>out. \A a \in 1 .. m : t[a] \in Pages \ L
        BY <2>free DEF Members
      <3>l. p \in L /\ j.MRUpage \in L /\ (less # NULL => less \in L)
        BY <2>lru, <2>near, <2>in, <2>i DEF Members
      <3>kept. \A q \in Pages \ L : k.moreRU[q] = j.moreRU[q]
        BY <3>l, <2>fields, <2>dom
      <3> QED  BY <3>out, <3>kept, <2>free, <2>fields DEF FreeLinks
    <2>listed. Listed(k, L)
      <3> HIDE DEF r
      <3> QED  BY <2>links, <2>frees, <2>free, <2>members, <2>r DEF Listed
    <2> QED  BY <2>fields, <2>listed DEF k
  <1> QED  BY <1>last, <1>inner

\* A page of the LRU list is taken out of it and becomes the first free page.
LEMMA FreeKeeps ==
  ASSUME NEW j \in Cache, NEW L \in SUBSET Pages, Listed(j, L), NEW p \in L
  PROVE  LET k == jitcFreeClientPage(j, p) IN
         /\ k \in Cache /\ Listed(k, L \ {p})
         /\ SameContents(j, k)
         /\ p # j.MRUpage => k.MRUpage = j.MRUpage
  <1> DEFINE k == jitcFreeClientPage(j, p)
             more == j.moreRU[p]
             less == j.lessRU[p]
  <1>lrun. PICK n \in Nat : \E s \in [1 .. n -> Pages] : LruLinks(j, s, n) /\ L = Members(s, n)
    BY DEF Listed
  <1>lru. PICK s \in [1 .. n -> Pages] : LruLinks(j, s, n) /\ L = Members(s, n)
    BY <1>lrun
  <1>freen. PICK m \in Nat : \E t \in [1 .. m -> Pages] : FreeLinks(j, t, m) /\ Pages \ L = Members(t, m)
    BY DEF Listed
  <1>free. PICK t \in [1 .. m -> Pages] : FreeLinks(j, t, m) /\ Pages \ L = Members(t, m)
    BY <1>freen
  <1>pos. /\ \A a \in 1 .. n : s[a] \in L
          /\ \A a, c \in 1 .. n : s[a] = s[c] => a = c
          /\ \A a \in 1 .. n : j.moreRU[s[a]] = IF a = n THEN NULL ELSE s[a + 1]
          /\ \A a \in 1 .. n : j.lessRU[s[a]] = IF a = 1 THEN NULL ELSE s[a - 1]
          /\ \A q \in L : \E a \in 1 .. n : q = s[a]
    BY <1>lru DEF LruLinks, Members
  <1>fpos. /\ \A a \in 1 .. m : t[a] \in Pages \ L
           /\ \A a, c \in 1 .. m : t[a] = t[c] => a = c
           /\ \A a \in 1 .. m : j.moreRU[t[a]] = IF a = m THEN NULL ELSE t[a + 1]
           /\ \A q \in Pages \ L : \E a \in 1 .. m : q = t[a]
    BY <1>free DEF FreeLinks, Members
  <1>dom. DOMAIN j.moreRU = Pages /\ DOMAIN j.lessRU = Pages
    BY DEF Cache
  <1>null. NULL \notin Pages
    BY CacheAssumption

  <1>fields. /\ k \in Cache
             /\ SameContents(j, k) /\ k.freePages = p
             /\ k.MRUpage = IF more = NULL THEN less ELSE j.MRUpage
             /\ k.LRUpage = IF less = NULL THEN more ELSE j.LRUpage
             /\ k.lessRU = IF more = NULL THEN j.lessRU ELSE [j.lessRU EXCEPT ![more] = less]
             /\ k.moreRU = IF less = NULL THEN [j.moreRU EXCEPT ![p] = j.freePages]
                           ELSE [j.moreRU EXCEPT ![less] = more, ![p] = j.freePages]
    BY FreeFields
  <1>i. PICK i \in 1 .. n : p = s[i]
    BY <1>pos
  <1> HIDE DEF k
  <1>in. (i # n => i + 1 \in 1 .. n) /\ n \in 1 .. n /\ n # 0 /\ (i # 1 => i - 1 \in 1 .. n)
         /\ 1 \in 1 .. n
    OBVIOUS
  <1>near. /\ more = IF i = n THEN NULL ELSE s[i + 1]
           /\ less = IF i = 1 THEN NULL ELSE s[i - 1]
           /\ less = NULL <=> i = 1
           /\ more = NULL <=> i = n
           /\ j.LRUpage = s[1] /\ j.MRUpage = s[n]
    <2>a. /\ more = IF i = n THEN NULL ELSE s[i + 1]
          /\ less = IF i = 1 THEN NULL ELSE s[i - 1]
      BY <1>pos, <1>i
    <2>b. j.LRUpage = s[1] /\ j.MRUpage = s[n]
      BY <1>lru, <1>in DEF LruLinks
    <2>c. (i # n => s[i + 1] \in Pages) /\ (i # 1 => s[i - 1] \in Pages)
      BY <1>in
    <2> QED  BY <2>a, <2>b, <2>c, <1>null
  <1> HIDE DEF more, less
  <1> DEFINE old(a) == IF a < i THEN a ELSE a + 1
             r == [a \in 1 .. n - 1 |-> s[old(a)]]
  <1>old. \A a \in 1 .. n - 1 : old(a) \in 1 .. n /\ old(a) # i /\ r[a] = s[old(a)]
    OBVIOUS
  <1>r. r \in [1 .. n - 1 -> Pages] /\ n - 1 \in Nat
    BY <1>old, <1>in
  <1>injold. \A a, c \in 1 .. n - 1 : old(a) = old(c) => a = c
    OBVIOUS
  <1>onto. \A c \in 1 .. n : c # i => \E a \in 1 .. n - 1 : old(a) = c
    <2> SUFFICES ASSUME NEW c \in 1 .. n, c # i PROVE \E a \in 1 .. n - 1 : old(a) = c
      OBVIOUS
    <2>lt. CASE c < i
      BY <2>lt
    <2>gt. CASE c > i
      <3>a. c - 1 \in 1 .. n - 1 /\ ~(c - 1 < i) /\ c - 1 + 1 = c
        BY <2>gt
      <3> QED  BY <3>a
    <2> QED  BY <2>lt, <2>gt
  <1>members. Members(r, n - 1) = L \ {p}
    <2> HIDE DEF r, old
    <2>sub. \A q \in L \ {p} : \E a \in 1 .. n - 1 : q = r[a]
      <3> TAKE q \in L \ {p}
      <3>c. PICK c \in 1 .. n : q = s[c]
        BY <1>pos
      <3>a. PICK a \in 1 .. n - 1 : old(a) = c
        BY <1>onto, <1>i, <3>c
      <3> QED  BY <3>c, <3>a, <1>old
    <2>sup. \A a \in 1 .. n - 1 : r[a] \in L \ {p}
      BY <1>old, <1>pos, <1>i
    <2> QED  BY <2>sub, <2>sup DEF Members
  <1>links. LruLinks(k, r, n - 1)
    <2>inj. \A a, c \in 1 .. n - 1 : r[a] = r[c] => a = c
      <3> HIDE DEF r, old
      <3> QED  BY <1>old, <1>injold, <1>pos
    <2>ends. /\ k.LRUpage = IF n - 1 = 0 THEN NULL ELSE r[1]
             /\ k.MRUpage = IF n - 1 = 0 THEN NULL ELSE r[n - 1]
      BY <1>fields, <1>near, <1>in, <1>i
    <2>kmore. \A c \in 1 .. n : c # i =>
                k.moreRU[s[c]] = IF c = i - 1 THEN more ELSE IF c = n THEN NULL ELSE s[c + 1]
      <3> SUFFICES ASSUME NEW c \in 1 .. n, c # i
                   PROVE  k.moreRU[s[c]] = IF c = i - 1 THEN more ELSE IF c = n THEN NULL ELSE s[c + 1]
        OBVIOUS
      <3>page. s[c] \in Pages /\ s[c] # p /\ p \in Pages
        BY <1>pos, <1>i
      <3>first. CASE i = 1
        <4>a. c # i - 1
          BY <3>first
        <4>b. k.moreRU[s[c]] = j.moreRU[s[c]]
          BY <3>first, <3>page, <1>fields, <1>near, <1>dom
        <4> QED  BY <4>a, <4>b, <1>pos
      <3>later. CASE i # 1
        <4>a. i - 1 \in 1 .. n /\ less = s[i - 1] /\ less # NULL
          BY <3>later, <1>near, <1>in
        <4>b. k.moreRU = [j.moreRU EXCEPT ![less] = more, ![p] = j.freePages]
          BY <4>a, <1>fields
        <4>c. c = i - 1 <=> s[c] = less
          BY <4>a, <1>pos
        <4>d. k.moreRU[s[c]] = IF s[c] = less THEN more ELSE j.moreRU[s[c]]
          BY <4>b, <3>page, <1>dom
        <4> QED  BY <4>c, <4>d, <1>pos
      <3> QED  BY <3>first, <3>later
    <2>kless. \A c \in 1 .. n : c # i =>
                k.lessRU[s[c]] = IF c = i + 1 THEN less ELSE IF c = 1 THEN NULL ELSE s[c - 1]
      <3> SUFFICES ASSUME NEW c \in 1 .. n, c # i
                   PROVE  k.lessRU[s[c]] = IF c = i + 1 THEN less ELSE IF c = 1 THEN NULL ELSE s[c - 1]
        OBVIOUS
      <3>page. s[c] \in Pages
        BY <1>pos
      <3>last. CASE i = n
        <4>a. c # i + 1
          BY <3>last
        <4>b. k.lessRU[s[c]] = j.lessRU[s[c]]
          BY <3>last, <1>fields, <1>near
        <4> QED  BY <4>a, <4>b, <1>pos
      <3>sooner. CASE i # n
        <4>a. i + 1 \in 1 .. n /\ more = s[i + 1] /\ more # NULL
          BY <3>sooner, <1>near, <1>in
        <4>b. k.lessRU = [j.lessRU EXCEPT ![more] = less]
          BY <4>a, <1>fields
        <4>c. c = i + 1 <=> s[c] = more
          BY <4>a, <1>pos
        <4>d. k.lessRU[s[c]] = IF s[c] = more THEN less ELSE j.lessRU[s[c]]
          BY <4>b, <3>page, <1>dom
        <4> QED  BY <4>c, <4>d, <1>pos
      <3> QED  BY <3>last, <3>sooner
    <2>mores. \A a \in 1 .. n - 1 : k.moreRU[r[a]] = IF a = n - 1 THEN NULL ELSE r[a + 1]
      <3> TAKE a \in 1 .. n - 1
      <3>val. k.moreRU[r[a]] = IF old(a) = i - 1 THEN more
                               ELSE IF old(a) = n THEN NULL ELSE s[old(a) + 1]
        BY <1>old, <2>kmore
      <3>lt. CASE a < i
        BY <3>lt, <3>val, <1>in, <1>near
      <3>ge. CASE ~(a < i)
        BY <3>ge, <3>val, <1>in
      <3> QED  BY <3>lt, <3>ge
    <2>lesses. \A a \in 1 .. n - 1 : k.lessRU[r[a]] = IF a = 1 THEN NULL ELSE r[a - 1]
      <3> TAKE a \in 1 .. n - 1
      <3>val. k.lessRU[r[a]] = IF old(a) = i + 1 THEN less
                               ELSE IF old(a) = 1 THEN NULL ELSE s[old(a) - 1]
        BY <1>old, <2>kless
      <3>lt. CASE a < i
        BY <3>lt, <3>val, <1>in
      <3>eq. CASE a = i
        BY <3>eq, <3>val, <1>in, <1>near
      <3>gt. CASE a > i
        BY <3>gt, <3>val, <1>in
      <3> QED  BY <3>lt, <3>eq, <3>gt
    <2> QED
      <3> HIDE DEF r
      <3> QED  BY <2>inj, <2>ends, <2>mores, <2>lesses DEF LruLinks
  <1> DEFINE t2 == [a \in 1 .. m + 1 |-> IF a = 1 THEN p ELSE t[a - 1]]
  <1>shift. /\ t2[1] = p /\ 1 \in 1 .. m + 1
            /\ \A a \in 1 .. m : a + 1 \in 1 .. m + 1 /\ t2[a + 1] = t[a]
            /\ \A c \in 1 .. m + 1 : c = 1 \/ (c - 1 \in 1 .. m /\ t2[c] = t[c - 1])
    OBVIOUS
  <1>t2. t2 \in [1 .. m + 1 -> Pages]
    OBVIOUS
  <1> HIDE DEF t2
  <1>fmembers. Members(t2, m + 1) = Pages \ (L \ {p})
    <2>sub. \A q \in Pages \ (L \ {p}) : \E a \in 1 .. m + 1 : q = t2[a]
      <3> TAKE q \in Pages \ (L \ {p})
      <3>p. CASE q = p
        BY <3>p, <1>shift
      <3>t. CASE q # p
        <4>a. PICK a \in 1 .. m : q = t[a]
          BY <3>t, <1>fpos
        <4> QED  BY <4>a, <1>shift
      <3> QED  BY <3>p, <3>t
    <2>sup. \A c \in 1 .. m + 1 : t2[c] \in Pages \ (L \ {p})
      BY <1>shift, <1>fpos
    <2> QED  BY <2>sub, <2>sup DEF Members
  <1>frees. FreeLinks(k, t2, m + 1)
    <2>kept. \A q \in Pages \ L : k.moreRU[q] = j.moreRU[q]
      <3>l. less # NULL => less \in L
        BY <1>near, <1>in, <1>pos
      <3> QED  BY <3>l, <1>fields, <1>dom
    <2>first. k.moreRU[p] = j.freePages
      BY <1>fields, <1>dom
    <2>head. j.freePages = IF m = 0 THEN NULL ELSE t[1]
      BY <1>free DEF FreeLinks
    <2>inj. \A a, c \in 1 .. m + 1 : t2[a] = t2[c] => a = c
      <3> SUFFICES ASSUME NEW a \in 1 .. m + 1, NEW c \in 1 .. m + 1, t2[a] = t2[c] PROVE a = c
        OBVIOUS
      <3>one. CASE a = 1 \/ c = 1
        BY <3>one, <1>shift, <1>fpos
      <3>two. CASE a # 1 /\ c # 1
        <4>a. a - 1 = c - 1
          BY <3>two, <1>shift, <1>fpos
        <4> QED  BY <4>a
      <3> QED  BY <3>one, <3>two
    <2>mores. \A a \in 1 .. m + 1 : k.moreRU[t2[a]] = IF a = m + 1 THEN NULL ELSE t2[a + 1]
      <3> TAKE a \in 1 .. m + 1
      <3>one. CASE a = 1
        <4>zero. CASE m = 0
          BY <4>zero, <3>one, <2>first, <2>head, <1>shift
        <4>some. CASE m # 0
          <5>a. 1 \in 1 .. m /\ 1 # m + 1
            BY <4>some
          <5> QED  BY <5>a, <4>some, <3>one, <2>first, <2>head, <1>shift
        <4> QED  BY <4>zero, <4>some
      <3>two. CASE a # 1
        <4>in. a - 1 \in 1 .. m /\ a - 1 + 1 = a /\ (a - 1 = m <=> a = m + 1) /\ (a # m + 1 => a \in 1 .. m)
          BY <3>two
        <4>val. k.moreRU[t[a - 1]] = IF a - 1 = m THEN NULL ELSE t[a - 1 + 1]
          BY <4>in, <2>kept, <1>fpos
        <4>here. t2[a] = t[a - 1]
          BY <3>two, <1>shift
        <4>next. a # m + 1 => t2[a + 1] = t[a]
          BY <4>in, <1>shift
        <4> QED  BY <4>val, <4>here, <4>next, <4>in
      <3> QED  BY <3>one, <3>two
    <2>top. k.freePages = IF m + 1 = 0 THEN NULL ELSE t2[1]
      <3>a. m + 1 # 0
        OBVIOUS
      <3> QED  BY <3>a, <1>shift, <1>fields
    <2> QED  BY <2>inj, <2>mores, <2>top DEF FreeLinks
  <1>listed. Listed(k, L \ {p})
    <2> HIDE DEF r
    <2>m. m + 1 \in Nat
      OBVIOUS
    <2> QED  BY <1>links, <1>frees, <1>members, <1>fmembers, <1>r, <1>t2, <2>m DEF Listed
  <1>mru. p # j.MRUpage => k.MRUpage = j.MRUpage
    BY <1>fields, <1>near, <1>i
  <1> QED  BY <1>fields, <1>listed, <1>mru DEF k

\* The first free page is appended to the LRU list.
LEMMA AppendKeeps ==
  ASSUME NEW j \in Cache, NEW L \in SUBSET Pages, Listed(j, L), j.freePages # NULL
  PROVE  LET k == appendFreePage(j) IN
         /\ k \in Cache /\ Listed(k, L \cup {j.freePages})
         /\ SameContents(j, k)
         /\ k.MRUpage = j.freePages
  <1> DEFINE k == appendFreePage(j)
             p == j.freePages
  <1>lrun. PICK n \in Nat : \E s \in [1 .. n -> Pages] : LruLinks(j, s, n) /\ L = Members(s, n)
    BY DEF Listed
  <1>lru. PICK s \in [1 .. n -> Pages] : LruLinks(j, s, n) /\ L = Members(s, n)
    BY <1>lrun
  <1>freen. PICK m \in Nat : \E t \in [1 .. m -> Pages] : FreeLinks(j, t, m) /\ Pages \ L = Members(t, m)
    BY DEF Listed
  <1>free. PICK t \in [1 .. m -> Pages] : FreeLinks(j, t, m) /\ Pages \ L = Members(t, m)
    BY <1>freen
  <1>pos. /\ \A a \in 1 .. n : s[a] \in L
          /\ \A a, c \in 1 .. n : s[a] = s[c] => a = c
          /\ \A a \in 1 .. n : j.moreRU[s[a]] = IF a = n THEN NULL ELSE s[a + 1]
          /\ \A a \in 1 .. n : j.lessRU[s[a]] = IF a = 1 THEN NULL ELSE s[a - 1]
          /\ \A q \in L : \E a \in 1 .. n : q = s[a]
    BY <1>lru DEF LruLinks, Members
  <1>fpos. /\ \A a \in 1 .. m : t[a] \in Pages \ L
           /\ \A a, c \in 1 .. m : t[a] = t[c] => a = c
           /\ \A a \in 1 .. m : j.moreRU[t[a]] = IF a = m THEN NULL ELSE t[a + 1]
           /\ \A q \in Pages \ L : \E a \in 1 .. m : q = t[a]
    BY <1>free DEF FreeLinks, Members
  <1>dom. DOMAIN j.moreRU = Pages /\ DOMAIN j.lessRU = Pages
    BY DEF Cache
  <1>null. NULL \notin Pages
    BY CacheAssumption

  <1>fields. /\ k \in Cache
             /\ SameContents(j, k)
             /\ k.freePages = j.moreRU[p]
             /\ k.MRUpage = p
             /\ k.LRUpage = IF j.MRUpage = NULL THEN p ELSE j.LRUpage
             /\ k.lessRU = [j.lessRU EXCEPT ![p] = j.MRUpage]
             /\ k.moreRU = IF j.MRUpage = NULL THEN [j.moreRU EXCEPT ![p] = NULL]
                           ELSE [j.moreRU EXCEPT ![j.MRUpage] = p, ![p] = NULL]
    BY AppendFields
  <1> HIDE DEF k
  <1>m. m # 0 /\ 1 \in 1 .. m /\ p = t[1] /\ p \in Pages \ L
    <2>a. m # 0
      BY <1>free DEF FreeLinks
    <2>b. 1 \in 1 .. m /\ p = t[1]
      BY <2>a, <1>free DEF FreeLinks
    <2> QED  BY <2>a, <2>b, <1>fpos
  <1>ends. /\ j.MRUpage = IF n = 0 THEN NULL ELSE s[n]
           /\ j.LRUpage = IF n = 0 THEN NULL ELSE s[1]
           /\ j.MRUpage = NULL <=> n = 0
           /\ n # 0 => n \in 1 .. n
    <2>a. /\ j.MRUpage = IF n = 0 THEN NULL ELSE s[n]
          /\ j.LRUpage = IF n = 0 THEN NULL ELSE s[1]
      BY <1>lru DEF LruLinks
    <2>b. n # 0 => n \in 1 .. n
      OBVIOUS
    <2> QED  BY <2>a, <2>b, <1>null
  <1> HIDE DEF p
  <1> DEFINE r == [a \in 1 .. n + 1 |-> IF a = n + 1 THEN p ELSE s[a]]
  <1>grown. /\ r[n + 1] = p /\ n + 1 \in 1 .. n + 1
            /\ \A a \in 1 .. n : a \in 1 .. n + 1 /\ a # n + 1 /\ r[a] = s[a]
            /\ \A a \in 1 .. n + 1 : a = n + 1 \/ a \in 1 .. n
    OBVIOUS
  <1>r. r \in [1 .. n + 1 -> Pages] /\ n + 1 \in Nat
    BY <1>m
  <1> HIDE DEF r
  <1>members. Members(r, n + 1) = L \cup {p}
    <2>sub. \A q \in L \cup {p} : \E a \in 1 .. n + 1 : q = r[a]
      <3> TAKE q \in L \cup {p}
      <3>p. CASE q = p
        BY <3>p, <1>grown
      <3>s. CASE q # p
        <4>a. PICK a \in 1 .. n : q = s[a]
          BY <3>s, <1>pos
        <4> QED  BY <4>a, <1>grown
      <3> QED  BY <3>p, <3>s
    <2>sup. \A a \in 1 .. n + 1 : r[a] \in L \cup {p}
      BY <1>grown, <1>pos
    <2> QED  BY <2>sub, <2>sup DEF Members
  <1>links. LruLinks(k, r, n + 1)
    <2>inj. \A a, c \in 1 .. n + 1 : r[a] = r[c] => a = c
      BY <1>grown, <1>pos, <1>m
    <2>first. k.LRUpage = r[1]
      <3>zero. CASE n = 0
        BY <3>zero, <1>fields, <1>ends, <1>grown DEF p
      <3>some. CASE n # 0
        <4>a. 1 \in 1 .. n
          BY <3>some
        <4> QED  BY <4>a, <3>some, <1>fields, <1>ends, <1>grown
      <3> QED  BY <3>zero, <3>some
    <2>last. k.MRUpage = r[n + 1]
      BY <1>fields, <1>grown DEF p
    <2>kmore. k.moreRU = IF n = 0 THEN [j.moreRU EXCEPT ![p] = NULL]
                         ELSE [j.moreRU EXCEPT ![s[n]] = p, ![p] = NULL]
      BY <1>fields, <1>ends DEF p
    <2>mores. \A a \in 1 .. n + 1 : k.moreRU[r[a]] = IF a = n + 1 THEN NULL ELSE r[a + 1]
      <3> TAKE a \in 1 .. n + 1
      <3>new. CASE a = n + 1
        BY <3>new, <2>kmore, <1>grown, <1>m, <1>dom
      <3>n. CASE a = n
        <4>a. n \in 1 .. n /\ n # 0 /\ n # n + 1
          BY <3>n
        <4> QED  BY <4>a, <3>n, <2>kmore, <1>grown, <1>m, <1>dom, <1>pos
      <3>old. CASE a # n /\ a # n + 1
        <4>a. a \in 1 .. n /\ a + 1 \in 1 .. n /\ n \in 1 .. n /\ n # 0
          BY <3>old
        <4>b. s[a] # s[n] /\ s[a] # p /\ s[a] \in Pages /\ j.moreRU[s[a]] = s[a + 1]
          BY <4>a, <3>old, <1>pos, <1>m
        <4> QED  BY <4>a, <4>b, <3>old, <2>kmore, <1>grown, <1>dom
      <3> QED  BY <3>new, <3>n, <3>old
    <2>kless. k.lessRU = [j.lessRU EXCEPT ![p] = j.MRUpage]
      BY <1>fields DEF p
    <2>lesses. \A a \in 1 .. n + 1 : k.lessRU[r[a]] = IF a = 1 THEN NULL ELSE r[a - 1]
      <3> TAKE a \in 1 .. n + 1
      <3>new. CASE a = n + 1
        <4>zero. CASE n = 0
          BY <4>zero, <3>new, <2>kless, <1>grown, <1>ends, <1>m, <1>dom
        <4>some. CASE n # 0
          <5>a. a # 1 /\ a - 1 = n /\ n \in 1 .. n
            BY <4>some, <3>new
          <5> QED  BY <5>a, <4>some, <3>new, <2>kless, <1>grown, <1>ends, <1>m, <1>dom
        <4> QED  BY <4>zero, <4>some
      <3>old. CASE a # n + 1
        <4>a. a \in 1 .. n /\ (a # 1 => a - 1 \in 1 .. n)
          BY <3>old
        <4>b. s[a] # p /\ s[a] \in Pages /\ j.lessRU[s[a]] = IF a = 1 THEN NULL ELSE s[a - 1]
          BY <4>a, <1>pos, <1>m
        <4> QED  BY <4>a, <4>b, <2>kless, <1>grown, <1>dom
      <3> QED  BY <3>new, <3>old
    <2>zero. n + 1 # 0
      OBVIOUS
    <2> QED  BY <2>inj, <2>first, <2>last, <2>mores, <2>lesses, <2>zero DEF LruLinks
  <1> DEFINE t2 == [a \in 1 .. m - 1 |-> t[a + 1]]
  <1>shift. /\ \A a \in 1 .. m - 1 : a + 1 \in 1 .. m /\ a + 1 # 1 /\ t2[a] = t[a + 1]
            /\ \A c \in 1 .. m : c = 1 \/ (c - 1 \in 1 .. m - 1 /\ t2[c - 1] = t[c])
    OBVIOUS
  <1>t2. t2 \in [1 .. m - 1 -> Pages] /\ m - 1 \in Nat
    BY <1>m
  <1> HIDE DEF t2
  <1>fmembers. Members(t2, m - 1) = Pages \ (L \cup {p})
    <2>sub. \A q \in Pages \ (L \cup {p}) : \E a \in 1 .. m - 1 : q = t2[a]
      <3> TAKE q \in Pages \ (L \cup {p})
      <3>c. PICK c \in 1 .. m : q = t[c]
        BY <1>fpos
      <3> QED  BY <3>c, <1>shift, <1>m
    <2>sup. \A a \in 1 .. m - 1 : t2[a] \in Pages \ (L \cup {p})
      BY <1>shift, <1>fpos, <1>m
    <2> QED  BY <2>sub, <2>sup DEF Members
  <1>frees. FreeLinks(k, t2, m - 1)
    <2>inj. \A a, c \in 1 .. m - 1 : t2[a] = t2[c] => a = c
      <3> SUFFICES ASSUME NEW a \in 1 .. m - 1, NEW c \in 1 .. m - 1, t2[a] = t2[c] PROVE a = c
        OBVIOUS
      <3>a. a + 1 = c + 1
        BY <1>shift, <1>fpos
      <3> QED  BY <3>a
    <2>head. k.freePages = IF m - 1 = 0 THEN NULL ELSE t2[1]
      <3>a. k.freePages = IF 1 = m THEN NULL ELSE t[1 + 1]
        BY <1>fields, <1>fpos, <1>m DEF p
      <3>b. (1 = m <=> m - 1 = 0) /\ (1 # m => 1 \in 1 .. m - 1)
        BY <1>m
      <3> QED  BY <3>a, <3>b, <1>shift
    <2>mores. \A a \in 1 .. m - 1 : k.moreRU[t2[a]] = IF a = m - 1 THEN NULL ELSE t2[a + 1]
      <3> TAKE a \in 1 .. m - 1
      <3>in. a + 1 \in 1 .. m /\ a + 1 # 1 /\ (a + 1 = m <=> a = m - 1) /\ (a # m - 1 => a + 1 \in 1 .. m - 1)
        OBVIOUS
      <3>page. t[a + 1] \in Pages \ L /\ t[a + 1] # p
        BY <3>in, <1>fpos, <1>m
      <3>kept. k.moreRU[t[a + 1]] = j.moreRU[t[a + 1]]
        <4>l. j.MRUpage # NULL => j.MRUpage \in L
          BY <1>ends, <1>pos
        <4> QED  BY <4>l, <3>page, <1>fields, <1>dom DEF p
      <3>val. j.moreRU[t[a + 1]] = IF a + 1 = m THEN NULL ELSE t[a + 1 + 1]
        BY <3>in, <1>fpos
      <3>next. a # m - 1 => t2[a + 1] = t[a + 1 + 1]
        BY <3>in, <1>shift
      <3>here. t2[a] = t[a + 1]
        BY <1>shift
      <3> QED  BY <3>in, <3>kept, <3>val, <3>next, <3>here
    <2> QED  BY <2>inj, <2>head, <2>mores DEF FreeLinks
  <1>listed. Listed(k, L \cup {p})
    BY <1>links, <1>frees, <1>members, <1>fmembers, <1>r, <1>t2 DEF Listed
  <1> QED  BY <1>fields, <1>listed DEF k, p

-----------------------------------------------------------------------------
\* FragmentsConserved of any cache
Conserved(j) ==
    /\ \A p, q \in Pages : p # q => j.chain[p] \cap j.chain[q] = {}
    /\ \A p \in Pages : j.chain[p] \cap j.freeFragments = {}
    /\ \A f \in Fragments : f \in j.freeFragments \/ \E p \in Pages : f \in j.chain[p]
    /\ \A p \in Pages : IF j.chain[p] = {} THEN j.tcf_current[p] = NULL
                        ELSE j.tcf_current[p] \in j.chain[p]
    /\ \A p \in Pages : \A o \in Offsets : j.entrypoints[p][o] \in j.chain[p] \cup {NULL}

\* the frames lead to pages in use, and free pages hold nothing
Mapped(j, L) == \A b \in Frames : j.clientPages[b] # NULL =>
                    j.clientPages[b] \in L /\ j.baseaddress[j.clientPages[b]] = b
Quiet(j, L) == \A p \in Pages \ L : j.chain[p] = {} /\ p \notin j.stale

\* a cache in good order, with L in the LRU list
CacheOK(j, L) ==
    /\ j \in Cache /\ L \subseteq Pages
    /\ Listed(j, L)
    /\ Conserved(j)
    /\ Mapped(j, L)
    /\ Quiet(j, L)

\* k maps no more than j, and no more of its pages are stale
Shrunk(j, k) ==
    /\ \A b \in Frames : k.clientPages[b] \in {j.clientPages[b], NULL}
    /\ k.stale \subseteq j.stale

\* nothing leads to p
Unmapped(j, p) == p \notin j.stale /\ \A b \in Frames : j.clientPages[b] # p

\* no frame outside M leads to an outdated page
Fresh(j, M) == \A b \in Frames \ M : j.clientPages[b] \notin j.stale

\* The lists depend on the links alone.
LEMMA ListedBy ==
  ASSUME NEW j, NEW k, NEW L, Listed(j, L),
         k.moreRU = j.moreRU, k.lessRU = j.lessRU,
         k.LRUpage = j.LRUpage, k.MRUpage = j.MRUpage, k.freePages = j.freePages
  PROVE  Listed(k, L)
  <1>lru. \A n \in Nat : \A s \in [1 .. n -> Pages] : LruLinks(j, s, n) => LruLinks(k, s, n)
    BY DEF LruLinks
  <1>free. \A m \in Nat : \A t \in [1 .. m -> Pages] : FreeLinks(j, t, m) => FreeLinks(k, t, m)
    BY DEF FreeLinks
  <1> QED  BY <1>lru, <1>free DEF Listed

\* A cache that maps less leads to no more outdated pages.
LEMMA ShrunkStays ==
  ASSUME NEW j \in Cache, NEW k \in Cache, Shrunk(j, k)
  PROVE  /\ \A M : Fresh(j, M) => Fresh(k, M)
         /\ \A p \in Pages : Unmapped(j, p) => Unmapped(k, p)
  <1>null. NULL \notin Pages /\ k.stale \subseteq Pages
    BY CacheAssumption DEF Cache
  <1> QED  BY <1>null DEF Shrunk, Fresh, Unmapped

\* jitcDestroyClientPage gives the fragments of a page back and leaves nothing that
\* leads to it, although baseaddress may be that of a frame mapped to another page.
LEMMA DestroyKeeps ==
  ASSUME NEW j, NEW L, CacheOK(j, L), NEW p \in L
  PROVE  LET k == jitcDestroyClientPage(j, p) IN
         /\ CacheOK(k, L)
         /\ k.chain[p] = {} /\ Unmapped(k, p) /\ Shrunk(j, k)
         /\ \A q \in Pages \ {p} : k.chain[q] = j.chain[q] /\ k.tcf_current[q] = j.tcf_current[q]
         /\ k.LRUpage = j.LRUpage /\ k.MRUpage = j.MRUpage /\ k.freePages = j.freePages
  <1> DEFINE k == jitcDestroyClientPage(j, p)
  <1>type. j \in Cache /\ p \in Pages /\ NULL \notin Pages /\ NULL \notin Frames /\ L \subseteq Pages
    BY CacheAssumption DEF CacheOK
  <1>f. /\ k \in Cache
        /\ k.freeFragments = j.freeFragments \cup j.chain[p]
        /\ k.chain = [j.chain EXCEPT ![p] = {}]
        /\ k.tcf_current = [j.tcf_current EXCEPT ![p] = NULL]
        /\ k.entrypoints = [j.entrypoints EXCEPT ![p] = NoEntries]
        /\ k.clientPages = [j.clientPages EXCEPT ![j.baseaddress[p]] = NULL]
        /\ k.stale = j.stale \ {p}
        /\ k.baseaddress = j.baseaddress
        /\ k.moreRU = j.moreRU /\ k.lessRU = j.lessRU
        /\ k.LRUpage = j.LRUpage /\ k.MRUpage = j.MRUpage /\ k.freePages = j.freePages
    BY <1>type, DestroyFields
  <1> HIDE DEF k
  <1>dom. /\ DOMAIN j.chain = Pages /\ DOMAIN j.tcf_current = Pages /\ DOMAIN j.entrypoints = Pages
          /\ DOMAIN j.clientPages = Frames
    BY <1>type DEF Cache
  <1>chain. /\ k.chain[p] = {} /\ k.tcf_current[p] = NULL /\ k.entrypoints[p] = NoEntries
            /\ \A q \in Pages \ {p} : /\ k.chain[q] = j.chain[q] /\ k.tcf_current[q] = j.tcf_current[q]
                                      /\ k.entrypoints[q] = j.entrypoints[q]
    BY <1>type, <1>f, <1>dom
  <1>pages. \A b \in Frames : k.clientPages[b] = IF b = j.baseaddress[p] THEN NULL ELSE j.clientPages[b]
    BY <1>f, <1>dom
  <1>map. Mapped(j, L) /\ Quiet(j, L) /\ Conserved(j) /\ Listed(j, L)
    BY DEF CacheOK
  <1>listed. Listed(k, L)
    BY <1>map, <1>f, ListedBy
  <1>conserved. Conserved(k)
    <2>a. \A q, r \in Pages : q # r => k.chain[q] \cap k.chain[r] = {}
      BY <1>map, <1>chain DEF Conserved
    <2>b. \A q \in Pages : k.chain[q] \cap k.freeFragments = {}
      BY <1>map, <1>chain, <1>f, <1>type DEF Conserved
    <2>c. \A f \in Fragments : f \in k.freeFragments \/ \E q \in Pages : f \in k.chain[q]
      BY <1>map, <1>chain, <1>f DEF Conserved
    <2>d. \A q \in Pages : IF k.chain[q] = {} THEN k.tcf_current[q] = NULL
                           ELSE k.tcf_current[q] \in k.chain[q]
      BY <1>map, <1>chain DEF Conserved
    <2>e. \A q \in Pages : \A o \in Offsets : k.entrypoints[q][o] \in k.chain[q] \cup {NULL}
      BY <1>map, <1>chain DEF Conserved, NoEntries
    <2> QED  BY <2>a, <2>b, <2>c, <2>d, <2>e DEF Conserved
  <1>mapped. Mapped(k, L)
    BY <1>map, <1>pages, <1>f DEF Mapped
  <1>quiet. Quiet(k, L)
    BY <1>map, <1>chain, <1>f DEF Quiet
  <1>un. Unmapped(k, p)
    BY <1>map, <1>pages, <1>f, <1>type DEF Unmapped, Mapped
  <1>shrunk. Shrunk(j, k)
    BY <1>pages, <1>f DEF Shrunk
  <1>ok. CacheOK(k, L)
    BY <1>type, <1>f, <1>listed, <1>conserved, <1>mapped, <1>quiet DEF CacheOK
  <1> QED  BY <1>ok, <1>chain, <1>un, <1>shrunk, <1>f DEF k

\* Functions that only change links keep the rest.
LEMMA SameContentsKeeps ==
  ASSUME NEW j, NEW k, NEW L, CacheOK(j, L), k \in Cache, SameContents(j, k)
  PROVE  /\ Conserved(k) /\ Mapped(k, L) /\ Quiet(k, L) /\ Shrunk(j, k)
         /\ \A p : Unmapped(j, p) => Unmapped(k, p)
         /\ \A M : Fresh(j, M) => Fresh(k, M)
  <1>a. Conserved(k)
    BY DEF CacheOK, SameContents, Conserved
  <1>b. Mapped(k, L) /\ Quiet(k, L) /\ Shrunk(j, k)
    BY DEF CacheOK, SameContents, Mapped, Quiet, Shrunk
  <1>c. (\A p : Unmapped(j, p) => Unmapped(k, p)) /\ (\A M : Fresh(j, M) => Fresh(k, M))
    BY DEF SameContents, Unmapped, Fresh
  <1> QED  BY <1>a, <1>b, <1>c

\* jitcDestroyAndFreeClientPage, the eviction for a fragment and for icbi.
LEMMA DestroyAndFreeKeeps ==
  ASSUME NEW j, NEW L, CacheOK(j, L), NEW p \in L
  PROVE  LET k == jitcDestroyAndFreeClientPage(j, p) IN
         /\ CacheOK(k, L \ {p}) /\ Unmapped(k, p) /\ Shrunk(j, k)
         /\ \A q \in Pages \ {p} : k.chain[q] = j.chain[q] /\ k.tcf_current[q] = j.tcf_current[q]
         /\ p # j.MRUpage => k.MRUpage = j.MRUpage
  <1> DEFINE d == jitcDestroyClientPage(j, p)
             k == jitcFreeClientPage(d, p)
  <1>d. /\ CacheOK(d, L) /\ d.chain[p] = {} /\ Unmapped(d, p) /\ Shrunk(j, d)
        /\ \A q \in Pages \ {p} : d.chain[q] = j.chain[q] /\ d.tcf_current[q] = j.tcf_current[q]
        /\ d.MRUpage = j.MRUpage
    BY DestroyKeeps
  <1> HIDE DEF d
  <1>type. d \in Cache /\ L \in SUBSET Pages /\ Listed(d, L)
    BY <1>d DEF CacheOK
  <1>k. /\ k \in Cache /\ Listed(k, L \ {p}) /\ SameContents(d, k)
        /\ p # d.MRUpage => k.MRUpage = d.MRUpage
    BY <1>type, FreeKeeps
  <1> HIDE DEF k
  <1>same. /\ Conserved(k) /\ Mapped(k, L) /\ Quiet(k, L) /\ Shrunk(d, k) /\ Unmapped(k, p)
    BY <1>d, <1>k, SameContentsKeeps
  <1>mapped. Mapped(k, L \ {p})
    BY <1>same DEF Mapped, Unmapped
  <1>quiet. Quiet(k, L \ {p})
    BY <1>same, <1>d, <1>k DEF Quiet, Unmapped, SameContents
  <1>ok. CacheOK(k, L \ {p})
    BY <1>k, <1>same, <1>mapped, <1>quiet, <1>type DEF CacheOK
  <1>shrunk. Shrunk(j, k)
    BY <1>d, <1>same DEF Shrunk
  <1>chain. \A q \in Pages \ {p} : k.chain[q] = j.chain[q] /\ k.tcf_current[q] = j.tcf_current[q]
    BY <1>d, <1>k DEF SameContents
  <1> QED  BY <1>ok, <1>same, <1>shrunk, <1>chain, <1>k, <1>d DEF jitcDestroyAndFreeClientPage, k, d

\* jitcTouchClientPage keeps all of it.
LEMMA TouchKeepsAll ==
  ASSUME NEW j, NEW L, CacheOK(j, L), NEW p \in L
  PROVE  LET k == jitcTouchClientPage(j, p) IN
         /\ CacheOK(k, L) /\ SameContents(j, k) /\ Shrunk(j, k)
         /\ k.MRUpage = p /\ k.freePages = j.freePages
  <1> DEFINE k == jitcTouchClientPage(j, p)
  <1>type. j \in Cache /\ L \in SUBSET Pages /\ Listed(j, L)
    BY DEF CacheOK
  <1>k. /\ k \in Cache /\ Listed(k, L) /\ SameContents(j, k)
        /\ k.MRUpage = p /\ k.freePages = j.freePages
    BY <1>type, TouchKeeps
  <1> HIDE DEF k
  <1>same. Conserved(k) /\ Mapped(k, L) /\ Quiet(k, L) /\ Shrunk(j, k)
    BY <1>k, SameContentsKeeps
  <1>ok. CacheOK(k, L)
    BY <1>k, <1>same, <1>type DEF CacheOK
  <1> QED  BY <1>ok, <1>same, <1>k DEF k

\* jitcDestroyAndTouchClientPage, the eviction for a page.
LEMMA DestroyAndTouchKeeps ==
  ASSUME NEW j, NEW L, CacheOK(j, L), NEW p \in L
  PROVE  LET k == jitcDestroyAndTouchClientPage(j, p) IN
         CacheOK(k, L) /\ Unmapped(k, p) /\ Shrunk(j, k) /\ k.freePages = j.freePages
  <1> DEFINE d == jitcDestroyClientPage(j, p)
             k == jitcTouchClientPage(d, p)
  <1>d. CacheOK(d, L) /\ Unmapped(d, p) /\ Shrunk(j, d) /\ d.freePages = j.freePages
    BY DestroyKeeps
  <1> HIDE DEF d
  <1>k. CacheOK(k, L) /\ SameContents(d, k) /\ Shrunk(d, k) /\ k.freePages = d.freePages
    BY <1>d, TouchKeepsAll
  <1> HIDE DEF k
  <1>un. Unmapped(k, p)
    BY <1>d, <1>k DEF SameContents, Unmapped
  <1>shrunk. Shrunk(j, k)
    BY <1>d, <1>k DEF Shrunk
  <1> QED  BY <1>k, <1>d, <1>un, <1>shrunk DEF jitcDestroyAndTouchClientPage, k, d

\* Every non-empty set of naturals has a least element.
LEMMA LeastElement ==
  ASSUME NEW T, T \subseteq Nat, T # {}
  PROVE  \E m \in T : \A n \in T : m <= n
  <1>wf. IsWellFoundedOn(OpToRel(<, Nat), Nat)
    BY NatLessThanWellFounded
  <1>min. PICK m \in T : \A n \in T : ~(<<n, m>> \in OpToRel(<, Nat))
    BY <1>wf, WFMin
  <1>less. \A n \in T : ~(n < m)
    BY <1>min DEF OpToRel
  <1> QED  BY <1>less

\* However many pages are evicted, the first one ends up in the list with nothing
\* leading to it.
LEMMA EvictKeeps ==
  ASSUME NEW j, NEW L, CacheOK(j, L), L # {}
  PROVE  LET k == evictPages(j) IN
         CacheOK(k, L) /\ Shrunk(j, k) /\ Unmapped(k, j.LRUpage) /\ j.LRUpage \in L
  <1> DEFINE step(k) == jitcDestroyAndTouchClientPage(k, k.LRUpage)
             runs(m, g) == g = [n \in 0 .. m |-> IF n = 0 THEN j ELSE step(g[n - 1])]
             e[n \in 0 .. Evicted] ==
               IF n = 0 THEN j ELSE jitcDestroyAndTouchClientPage(e[n - 1], e[n - 1].LRUpage)
             good(n) == /\ CacheOK(e[n], L) /\ Shrunk(j, e[n])
                        /\ n # 0 => Unmapped(e[n], j.LRUpage)
             bad == {n \in 0 .. Evicted : ~good(n)}
  <1>num. Evicted \in Nat /\ Evicted # 0 /\ Evicted \in 0 .. Evicted /\ 0 \in 0 .. Evicted
    BY CacheAssumption
  <1>is. evictPages(j) = e[Evicted]
    BY DEF evictPages
  <1>exists. \E g : runs(Evicted, g)
    <2> DEFINE none == {m \in 0 .. Evicted : ~\E g : runs(m, g)}
    <2> SUFFICES ASSUME none # {} PROVE FALSE
      BY <1>num
    <2>least. PICK m \in none : \A n \in none : m <= n
      <3>nat. none \subseteq Nat
        BY <1>num
      <3> HIDE DEF none
      <3> QED  BY <3>nat, LeastElement
    <2> HIDE DEF step
    <2>zero. CASE m = 0
      <3> DEFINE g == [n \in 0 .. m |-> j]
      <3>a. \A n \in 0 .. m : n = 0
        BY <2>zero
      <3>b. runs(m, g)
        BY <3>a
      <3> QED  BY <3>b, <2>least
    <2>succ. CASE m # 0
      <3>m. m \in Nat /\ m - 1 \in 0 .. Evicted /\ m - 1 \notin none /\ m - 1 \in 0 .. m - 1
        BY <2>succ, <2>least, <1>num
      <3>g. PICK g : runs(m - 1, g)
        BY <3>m
      <3>at. \A n \in 0 .. m - 1 : g[n] = IF n = 0 THEN j ELSE step(g[n - 1])
        BY <3>g
      <3> HIDE DEF runs
      <3> DEFINE h == [n \in 0 .. m |-> IF n = m THEN step(g[m - 1]) ELSE g[n]]
      <3>h. /\ h[m] = step(g[m - 1])
            /\ \A n \in 0 .. m - 1 : h[n] = g[n]
        BY <3>m
      <3>each. \A n \in 0 .. m : h[n] = IF n = 0 THEN j ELSE step(h[n - 1])
        <4> TAKE n \in 0 .. m
        <4>last. CASE n = m
          BY <4>last, <3>h, <3>m, <2>succ
        <4>inner. CASE n # m
          <5>in. n \in 0 .. m - 1 /\ (n # 0 => n - 1 \in 0 .. m - 1)
            BY <4>inner, <3>m
          <5> HIDE DEF h
          <5> QED  BY <5>in, <3>h, <3>at
        <4> QED  BY <4>last, <4>inner
      <3>fcn. h = [n \in 0 .. m |-> h[n]]
        OBVIOUS
      <3> HIDE DEF h
      <3>runs. runs(m, h)
        BY <3>each, <3>fcn DEF runs
      <3> QED  BY <3>runs, <2>least
    <2> QED  BY <2>zero, <2>succ
  <1>rec. e = [n \in 0 .. Evicted |->
                 IF n = 0 THEN j ELSE jitcDestroyAndTouchClientPage(e[n - 1], e[n - 1].LRUpage)]
    BY <1>exists DEF e
  <1> HIDE DEF e
  <1>zero. e[0] = j
    BY <1>rec, <1>num
  <1>succ. \A n \in 0 .. Evicted : n # 0 =>
             e[n] = jitcDestroyAndTouchClientPage(e[n - 1], e[n - 1].LRUpage)
    BY <1>rec, <1>num
  <1>lru. \A k : CacheOK(k, L) => k.LRUpage \in L
    <2> SUFFICES ASSUME NEW k, CacheOK(k, L) PROVE k.LRUpage \in L
      OBVIOUS
    <2>type. k \in Cache /\ L \in SUBSET Pages /\ Listed(k, L)
      BY DEF CacheOK
    <2> QED  BY <2>type, EndsOfLists
  <1>none. bad = {}
    <2> SUFFICES ASSUME bad # {} PROVE FALSE
      OBVIOUS
    <2>nat. bad \subseteq Nat
      BY <1>num
    <2>least. PICK n \in bad : \A m \in bad : n <= m
      <3> HIDE DEF bad
      <3> QED  BY <2>nat, LeastElement
    <2>pos. n # 0
      <3>a. Shrunk(j, j)
        BY DEF Shrunk
      <3> QED  BY <3>a, <1>zero
    <2>before. n - 1 \in 0 .. Evicted /\ n - 1 \notin bad /\ n \in 0 .. Evicted
      BY <2>pos, <2>least, <1>num
    <2>prev. good(n - 1)
      BY <2>before
    <2> DEFINE d == e[n - 1]
    <2>d. CacheOK(d, L) /\ Shrunk(j, d) /\ d.LRUpage \in L
      BY <2>prev, <1>lru
    <2>step. /\ CacheOK(e[n], L) /\ Unmapped(e[n], d.LRUpage) /\ Shrunk(d, e[n])
      BY <2>d, <2>before, <2>pos, <1>succ, DestroyAndTouchKeeps
    <2>shrunk. Shrunk(j, e[n])
      BY <2>step, <2>d DEF Shrunk
    <2>un. Unmapped(e[n], j.LRUpage)
      <3>first. CASE n - 1 = 0
        BY <3>first, <2>step, <1>zero
      <3>later. CASE n - 1 # 0
        <4>a. Unmapped(d, j.LRUpage)
          BY <3>later, <2>prev
        <4>b. d \in Cache /\ e[n] \in Cache /\ j.LRUpage \in Pages
          BY <2>d, <2>step, <1>lru DEF CacheOK
        <4> QED  BY <4>a, <4>b, <2>step, ShrunkStays
      <3> QED  BY <3>first, <3>later
    <2>good. good(n)
      BY <2>step, <2>shrunk, <2>un
    <2> QED  BY <2>good, <2>least
  <1>good. good(Evicted)
    BY <1>none, <1>num
  <1> QED  BY <1>good, <1>is, <1>lru, <1>num

\* Mapping a page that nothing leads to.
LEMMA MapKeeps ==
  ASSUME NEW j, NEW L, CacheOK(j, L), NEW p \in L, Unmapped(j, p), NEW b \in Frames
  PROVE  LET k == jitcMapClientPage(j, b, p) IN
         /\ CacheOK(k, L) /\ k.clientPages[b] = p
         /\ \A M : Fresh(j, M) => Fresh(k, M)
  <1> DEFINE k == jitcMapClientPage(j, b, p)
  <1>type. j \in Cache /\ p \in Pages /\ L \subseteq Pages
    BY DEF CacheOK
  <1>f. /\ k \in Cache
        /\ k.clientPages = [j.clientPages EXCEPT ![b] = p]
        /\ k.baseaddress = [j.baseaddress EXCEPT ![p] = b]
        /\ k.freeFragments = j.freeFragments /\ k.chain = j.chain /\ k.tcf_current = j.tcf_current
        /\ k.entrypoints = j.entrypoints /\ k.stale = j.stale
        /\ k.moreRU = j.moreRU /\ k.lessRU = j.lessRU
        /\ k.LRUpage = j.LRUpage /\ k.MRUpage = j.MRUpage /\ k.freePages = j.freePages
    BY <1>type, MapFields
  <1> HIDE DEF k
  <1>dom. DOMAIN j.clientPages = Frames /\ DOMAIN j.baseaddress = Pages
    BY <1>type DEF Cache
  <1>pages. \A c \in Frames : k.clientPages[c] = IF c = b THEN p ELSE j.clientPages[c]
    BY <1>f, <1>dom
  <1>bases. \A q \in Pages : k.baseaddress[q] = IF q = p THEN b ELSE j.baseaddress[q]
    BY <1>f, <1>dom
  <1>listed. Listed(k, L)
    BY <1>f, ListedBy DEF CacheOK
  <1>conserved. Conserved(k)
    BY <1>f DEF Conserved, CacheOK
  <1>mapped. Mapped(k, L)
    BY <1>pages, <1>bases, <1>type DEF Mapped, CacheOK, Unmapped
  <1>quiet. Quiet(k, L)
    BY <1>f DEF Quiet, CacheOK
  <1>ok. CacheOK(k, L)
    BY <1>type, <1>f, <1>listed, <1>conserved, <1>mapped, <1>quiet DEF CacheOK
  <1>current. \A M : Fresh(j, M) => Fresh(k, M)
    BY <1>pages, <1>f DEF Fresh, Unmapped
  <1> QED  BY <1>ok, <1>current, <1>pages DEF k

\* jitcCreateClientPage gives the frame a page in use that holds no outdated code.
LEMMA CreateKeeps ==
  ASSUME NEW j, NEW L, CacheOK(j, L), NEW b \in Frames
  PROVE  LET k == jitcCreateClientPage(j, b) IN
         /\ \E K \in SUBSET Pages : CacheOK(k, K) /\ k.clientPages[b] \in K
         /\ \A M : Fresh(j, M) => Fresh(k, M)
  <1>type. j \in Cache /\ L \in SUBSET Pages /\ Listed(j, L) /\ NULL \notin Pages
    BY CacheAssumption DEF CacheOK
  <1>free. CASE j.freePages # NULL
    <2> DEFINE a == appendFreePage(j)
               p == j.freePages
               K == L \cup {p}
    <2>p. p \in Pages \ L
      BY <1>type, <1>free, EndsOfLists
    <2>a. a \in Cache /\ Listed(a, K) /\ SameContents(j, a)
      BY <1>type, <1>free, AppendKeeps
    <2>un. Unmapped(j, p)
      BY <2>p, <1>type DEF CacheOK, Mapped, Quiet, Unmapped
    <2> HIDE DEF a, p
    <2>same. /\ Conserved(a) /\ Mapped(a, L) /\ Quiet(a, L) /\ Unmapped(a, p)
             /\ \A M : Fresh(j, M) => Fresh(a, M)
      BY <2>a, <2>un, SameContentsKeeps
    <2>ok. CacheOK(a, K)
      <3>m. Mapped(a, K) /\ Quiet(a, K)
        BY <2>same DEF Mapped, Quiet
      <3> QED  BY <3>m, <2>same, <2>a, <2>p, <1>type DEF CacheOK
    <2> DEFINE k == jitcMapClientPage(a, b, p)
    <2>k. CacheOK(k, K) /\ k.clientPages[b] = p /\ (\A M : Fresh(a, M) => Fresh(k, M))
      BY <2>ok, <2>same, MapKeeps
    <2>is. jitcCreateClientPage(j, b) = k
      BY <1>free DEF jitcCreateClientPage, a, p
    <2>sub. K \in SUBSET Pages /\ p \in K
      BY <2>p, <1>type
    <2> HIDE DEF k, K
    <2> QED  BY <2>k, <2>is, <2>sub, <2>same
  <1>full. CASE j.freePages = NULL
    <2> DEFINE a == evictPages(j)
               p == j.LRUpage
    <2>l. L # {}
      BY <1>type, <1>full, EndsOfLists, CacheAssumption
    <2>a. CacheOK(a, L) /\ Shrunk(j, a) /\ Unmapped(a, p) /\ p \in L
      BY <2>l, EvictKeeps
    <2> HIDE DEF a, p
    <2>cur. \A M : Fresh(j, M) => Fresh(a, M)
      <3>a. a \in Cache
        BY <2>a DEF CacheOK
      <3> QED  BY <3>a, <1>type, <2>a, ShrunkStays
    <2> DEFINE k == jitcMapClientPage(a, b, p)
    <2>k. CacheOK(k, L) /\ k.clientPages[b] = p /\ (\A M : Fresh(a, M) => Fresh(k, M))
      BY <2>a, MapKeeps
    <2>is. jitcCreateClientPage(j, b) = k
      BY <1>full DEF jitcCreateClientPage, a, p
    <2> HIDE DEF k
    <2> QED  BY <2>k, <2>is, <2>cur, <2>a, <1>type
  <1> QED  BY <1>free, <1>full

\* The lookup of jitcNewPC: the frame's page, the most recent one.
LEMMA FoundKeeps ==
  ASSUME NEW L, CacheOK(jitc, L), NEW b \in Frames
  PROVE  LET k == found(b) IN
         /\ \E K \in SUBSET Pages : CacheOK(k, K) /\ k.clientPages[b] \in K
         /\ k.MRUpage = k.clientPages[b]
         /\ \A M : Fresh(jitc, M) => Fresh(k, M)
  <1> DEFINE g == jitcGetOrCreateClientPage(jitc, b)
             p == g.clientPages[b]
             k == jitcTouchClientPage(g, p)
  <1>g. /\ \E K \in SUBSET Pages : CacheOK(g, K) /\ p \in K
        /\ \A M : Fresh(jitc, M) => Fresh(g, M)
    <2>old. CASE jitc.clientPages[b] # NULL
      <3>a. g = jitc
        BY <2>old DEF jitcGetOrCreateClientPage
      <3>b. L \in SUBSET Pages /\ jitc.clientPages[b] \in L
        BY <2>old DEF CacheOK, Mapped
      <3> QED  BY <3>a, <3>b
    <2>new. CASE jitc.clientPages[b] = NULL
      <3>a. g = jitcCreateClientPage(jitc, b)
        BY <2>new DEF jitcGetOrCreateClientPage
      <3> QED  BY <3>a, CreateKeeps
    <2> QED  BY <2>old, <2>new
  <1> HIDE DEF g
  <1>K. PICK K \in SUBSET Pages : CacheOK(g, K) /\ p \in K
    BY <1>g
  <1>k. CacheOK(k, K) /\ SameContents(g, k) /\ k.MRUpage = p
    BY <1>K, TouchKeepsAll
  <1> HIDE DEF k
  <1>same. k.clientPages[b] = p /\ \A M : Fresh(g, M) => Fresh(k, M)
    BY <1>k DEF SameContents, Fresh
  <1>is. found(b) = k
    BY DEF found, g, k
  <1> QED  BY <1>K, <1>k, <1>same, <1>g, <1>is

\* Making room takes the least recent page, never the most recent one p as long as
\* there is another.
LEMMA RoomKeeps ==
  ASSUME NEW j, NEW L, CacheOK(j, L), NEW p \in L, p = j.MRUpage,
         j.freeFragments = {} => \E q \in L : q # p
  PROVE  LET r == jitcMakeRoom(j) IN
         /\ \E K \in SUBSET Pages : CacheOK(r, K) /\ p \in K
         /\ Shrunk(j, r) /\ r.MRUpage = p
         /\ r.chain[p] = j.chain[p] /\ r.tcf_current[p] = j.tcf_current[p]
  <1>type. j \in Cache /\ L \in SUBSET Pages /\ Listed(j, L)
    BY DEF CacheOK
  <1>none. CASE j.freeFragments # {}
    <2>a. jitcMakeRoom(j) = j /\ Shrunk(j, j)
      BY <1>none DEF jitcMakeRoom, Shrunk
    <2> QED  BY <2>a, <1>type
  <1>full. CASE j.freeFragments = {}
    <2> DEFINE l == j.LRUpage
               r == jitcDestroyAndFreeClientPage(j, l)
    <2>l. l \in L /\ l # p
      BY <1>full, <1>type, EndsOfLists
    <2>r. /\ CacheOK(r, L \ {l}) /\ Shrunk(j, r) /\ r.MRUpage = p
          /\ r.chain[p] = j.chain[p] /\ r.tcf_current[p] = j.tcf_current[p]
      <3>a. /\ CacheOK(r, L \ {l}) /\ Shrunk(j, r)
            /\ \A q \in Pages \ {l} : r.chain[q] = j.chain[q] /\ r.tcf_current[q] = j.tcf_current[q]
            /\ l # j.MRUpage => r.MRUpage = j.MRUpage
        BY <2>l, DestroyAndFreeKeeps
      <3>b. p \in Pages \ {l} /\ l # j.MRUpage
        BY <2>l, <1>type
      <3> HIDE DEF r, l
      <3> QED  BY <3>a, <3>b
    <2>is. jitcMakeRoom(j) = r
      BY <1>full DEF jitcMakeRoom
    <2>in. p \in L \ {l} /\ L \ {l} \in SUBSET Pages
      BY <2>l, <1>type
    <2> HIDE DEF r, l
    <2> QED  BY <2>r, <2>is, <2>in
  <1> QED  BY <1>none, <1>full

\* Linking a free fragment conserves the fragments.
LEMMA LinkKeeps ==
  ASSUME NEW j, NEW L, CacheOK(j, L), NEW p \in L, NEW f \in j.freeFragments
  PROVE  LET k == jitcLinkFragment(j, p, f) IN
         /\ CacheOK(k, L) /\ Shrunk(j, k)
         /\ k.tcf_current[p] = f /\ k.MRUpage = j.MRUpage
  <1> DEFINE k == jitcLinkFragment(j, p, f)
  <1>type. j \in Cache /\ p \in Pages /\ L \subseteq Pages /\ f \in Fragments /\ NULL \notin Fragments
    BY CacheAssumption DEF CacheOK, Cache
  <1>f. /\ k \in Cache
        /\ k.freeFragments = j.freeFragments \ {f}
        /\ k.chain = [j.chain EXCEPT ![p] = @ \cup {f}]
        /\ k.tcf_current = [j.tcf_current EXCEPT ![p] = f]
        /\ k.entrypoints = j.entrypoints /\ k.clientPages = j.clientPages
        /\ k.baseaddress = j.baseaddress /\ k.stale = j.stale
        /\ k.moreRU = j.moreRU /\ k.lessRU = j.lessRU
        /\ k.LRUpage = j.LRUpage /\ k.MRUpage = j.MRUpage /\ k.freePages = j.freePages
    BY <1>type, LinkFields
  <1> HIDE DEF k
  <1>dom. DOMAIN j.chain = Pages /\ DOMAIN j.tcf_current = Pages
    BY <1>type DEF Cache
  <1>chain. /\ k.chain[p] = j.chain[p] \cup {f} /\ k.tcf_current[p] = f
            /\ \A q \in Pages \ {p} : k.chain[q] = j.chain[q] /\ k.tcf_current[q] = j.tcf_current[q]
    BY <1>f, <1>dom, <1>type
  <1>was. Conserved(j) /\ Mapped(j, L) /\ Quiet(j, L) /\ Listed(j, L)
    BY DEF CacheOK
  <1>conserved. Conserved(k)
    <2>free. \A q \in Pages : f \notin j.chain[q]
      BY <1>was DEF Conserved
    <2>a. \A q, r \in Pages : q # r => k.chain[q] \cap k.chain[r] = {}
      BY <1>was, <1>chain, <2>free DEF Conserved
    <2>b. \A q \in Pages : k.chain[q] \cap k.freeFragments = {}
      BY <1>was, <1>chain, <1>f, <2>free DEF Conserved
    <2>c. \A g \in Fragments : g \in k.freeFragments \/ \E q \in Pages : g \in k.chain[q]
      BY <1>was, <1>chain, <1>f, <1>type DEF Conserved
    <2>d. \A q \in Pages : IF k.chain[q] = {} THEN k.tcf_current[q] = NULL
                           ELSE k.tcf_current[q] \in k.chain[q]
      BY <1>was, <1>chain DEF Conserved
    <2>e. \A q \in Pages : \A o \in Offsets : k.entrypoints[q][o] \in k.chain[q] \cup {NULL}
      BY <1>was, <1>chain, <1>f DEF Conserved
    <2> QED  BY <2>a, <2>b, <2>c, <2>d, <2>e DEF Conserved
  <1>listed. Listed(k, L)
    BY <1>was, <1>f, ListedBy
  <1>rest. Mapped(k, L) /\ Quiet(k, L) /\ Shrunk(j, k)
    BY <1>was, <1>f, <1>chain, <1>type DEF Mapped, Quiet, Shrunk
  <1>ok. CacheOK(k, L)
    BY <1>type, <1>f, <1>conserved, <1>listed, <1>rest DEF CacheOK
  <1> QED  BY <1>ok, <1>rest, <1>chain, <1>f DEF k

\* When no fragment is free, some other page in use holds one that p does not.
LEMMA OthersHoldFragments ==
  ASSUME NEW j, NEW L, CacheOK(j, L), NEW p \in L, j.chain[p] # Fragments,
         j.freeFragments = {}
  PROVE  \E q \in L : q # p
  <1>f. PICK f \in Fragments : f \notin j.chain[p]
    BY DEF CacheOK, Cache
  <1>q. PICK q \in Pages : f \in j.chain[q]
    BY <1>f DEF CacheOK, Conserved
  <1> QED  BY <1>f, <1>q DEF CacheOK, Quiet

-----------------------------------------------------------------------------
(***************************************************************************)
(* The inductive invariant.  None of the properties is inductive alone:    *)
(* CurrentKept needs that another page of the LRU list holds a fragment    *)
(* when none is free, hence that free pages hold none; NoStaleCode needs   *)
(* that a page that is given to a frame is not outdated, hence that free   *)
(* pages are not, and MapConsistent for the frames that are stored to; all *)
(* of them need the lists.                                                 *)
(***************************************************************************)
CacheInv ==
    /\ \E L \in SUBSET Pages : CacheOK(jitc, L)
    /\ Fresh(jitc, modified)
    /\ modified \subseteq Frames
    /\ current \in Pages \cup {NULL}
    /\ ofs \in Offsets \cup {NULL}
    /\ crashed \in BOOLEAN
    /\ CurrentKept

\* The page of a lookup without a translation, or the one being translated, gets a
\* fragment, or the process ends: what jitcAllocFragment and its callers do.
LEMMA GrowKeeps ==
  ASSUME NEW j, NEW L, CacheOK(j, L), NEW p \in L, p = j.MRUpage, j.chain[p] # Fragments
  PROVE  LET r == jitcMakeRoom(j) IN
         /\ \E K \in SUBSET Pages : CacheOK(r, K)
         /\ \A M : Fresh(j, M) => Fresh(r, M)
         /\ r.MRUpage = p /\ r.tcf_current[p] = j.tcf_current[p]
         /\ \A f \in r.freeFragments :
              LET k == jitcLinkFragment(r, p, f) IN
              /\ \E K \in SUBSET Pages : CacheOK(k, K)
              /\ \A M : Fresh(j, M) => Fresh(k, M)
              /\ k.MRUpage = p /\ k.tcf_current[p] # NULL
  <1> DEFINE r == jitcMakeRoom(j)
  <1>other. j.freeFragments = {} => \E q \in L : q # p
    BY OthersHoldFragments
  <1>r. /\ \E K \in SUBSET Pages : CacheOK(r, K) /\ p \in K
        /\ Shrunk(j, r) /\ r.MRUpage = p
        /\ r.tcf_current[p] = j.tcf_current[p]
    BY <1>other, RoomKeeps
  <1> HIDE DEF r
  <1>K. PICK K \in SUBSET Pages : CacheOK(r, K) /\ p \in K
    BY <1>r
  <1>type. j \in Cache /\ r \in Cache /\ r.freeFragments \subseteq Fragments /\ NULL \notin Fragments
    BY <1>K, CacheAssumption DEF CacheOK, Cache
  <1>cur. \A M : Fresh(j, M) => Fresh(r, M)
    BY <1>type, <1>r, ShrunkStays
  <1>link. ASSUME NEW f \in r.freeFragments
           PROVE  LET k == jitcLinkFragment(r, p, f) IN
                  /\ CacheOK(k, K)
                  /\ \A M : Fresh(j, M) => Fresh(k, M)
                  /\ k.MRUpage = p /\ k.tcf_current[p] # NULL
    <2> DEFINE k == jitcLinkFragment(r, p, f)
    <2>k. /\ CacheOK(k, K) /\ Shrunk(r, k)
          /\ k.tcf_current[p] = f /\ k.MRUpage = r.MRUpage
      BY <1>K, LinkKeeps
    <2> HIDE DEF k
    <2>cur. \A M : Fresh(r, M) => Fresh(k, M)
      <3>a. k \in Cache
        BY <2>k DEF CacheOK
      <3> QED  BY <3>a, <1>type, <2>k, ShrunkStays
    <2> QED  BY <2>k, <2>cur, <1>cur, <1>r, <1>type DEF k
  <1> QED  BY <1>K, <1>cur, <1>r, <1>link DEF r

\* Every action keeps the invariant.
LEMMA StepKeeps ==
  ASSUME CacheInv, Next
  PROVE  CacheInv'
  <1>L. PICK L \in SUBSET Pages : CacheOK(jitc, L)
    BY DEF CacheInv
  <1>null. NULL \notin Pages /\ NULL \notin Fragments /\ Fragments # {}
    <2>a. Cardinality(Fragments) # 0
      BY CacheAssumption
    <2> QED  BY <2>a, CacheAssumption, FS_EmptySet
  <1>lookup. ASSUME NEW b \in Frames
             PROVE  /\ \E K \in SUBSET Pages : CacheOK(found(b), K) /\ found(b).clientPages[b] \in K
                    /\ found(b).MRUpage = found(b).clientPages[b]
                    /\ Fresh(found(b), modified)
    BY <1>L, FoundKeeps DEF CacheInv
  <1>hit. ASSUME NEW b \in Frames, NEW o \in Offsets, Hit(b, o) PROVE CacheInv'
    BY <1>hit, <1>lookup DEF Hit, CacheInv, CurrentKept, Executing
  <1>entry. ASSUME NEW b \in Frames, NEW o \in Offsets, NewEntrypoint(b, o) PROVE CacheInv'
    <2>k. PICK K \in SUBSET Pages : CacheOK(found(b), K) /\ found(b).clientPages[b] \in K
      BY <1>lookup
    <2> QED  BY <2>k, <1>entry, <1>lookup DEF NewEntrypoint, CacheInv, CurrentKept
  <1>start. ASSUME NEW b \in Frames, NEW o \in Offsets, StartTranslation(b, o) PROVE CacheInv'
    <2> DEFINE j == found(b)
               p == j.clientPages[b]
               r == jitcMakeRoom(j)
    <2>k. PICK K \in SUBSET Pages : CacheOK(j, K) /\ p \in K
      BY <1>lookup
    <2>mru. j.MRUpage = p /\ Fresh(j, modified) /\ p \in Pages
      BY <1>lookup, <2>k
    <2>next. /\ Executing /\ j.tcf_current[p] = NULL /\ UNCHANGED modified
             /\ \/ crashed' = TRUE /\ jitc' = r /\ UNCHANGED <<current, ofs>>
                \/ \E f \in r.freeFragments :
                     /\ jitc' = jitcLinkFragment(r, p, f) /\ current' = p /\ ofs' = o
                     /\ UNCHANGED crashed
      BY <1>start DEF StartTranslation
    <2> HIDE DEF j, p
    <2>empty. j.chain[p] # Fragments
      <3>a. j.chain[p] = {}
        BY <2>k, <2>next, <2>mru, <1>null DEF CacheOK, Conserved, Cache
      <3> QED  BY <3>a, <1>null
    <2>grow. /\ \E J \in SUBSET Pages : CacheOK(r, J)
             /\ Fresh(r, modified)
             /\ \A f \in r.freeFragments :
                  LET k == jitcLinkFragment(r, p, f) IN
                  /\ \E J \in SUBSET Pages : CacheOK(k, J)
                  /\ Fresh(k, modified)
                  /\ k.MRUpage = p /\ k.tcf_current[p] # NULL
      BY <2>k, <2>mru, <2>empty, GrowKeeps
    <2> HIDE DEF r
    <2> QED  BY <2>next, <2>grow, <2>mru DEF CacheInv, CurrentKept, Executing
  <1>next. CASE NextFragment
    <2> DEFINE p == current
               r == jitcMakeRoom(jitc)
    <2>next. /\ p # NULL /\ Cardinality(jitc.chain[p]) < MaxChain /\ UNCHANGED <<current, ofs, modified>>
             /\ \/ crashed' = TRUE /\ jitc' = r
                \/ \E f \in r.freeFragments : jitc' = jitcLinkFragment(r, p, f) /\ UNCHANGED crashed
      BY <1>next DEF NextFragment
    <2>mru. p \in Pages /\ jitc.MRUpage = p /\ jitc.tcf_current[p] # NULL /\ p \in L
      <3>a. p \in Pages /\ jitc.MRUpage = p /\ jitc.tcf_current[p] # NULL
        BY <2>next DEF CacheInv, CurrentKept
      <3>b. jitc \in Cache /\ Listed(jitc, L)
        BY <1>L DEF CacheOK
      <3> QED  BY <3>a, <3>b, <2>next, EndsOfLists
    <2>some. jitc.chain[p] # Fragments
      BY <2>next, CacheAssumption, FS_CardinalityType
    <2>grow. /\ \E J \in SUBSET Pages : CacheOK(r, J)
             /\ Fresh(r, modified) /\ r.MRUpage = p /\ r.tcf_current[p] # NULL
             /\ \A f \in r.freeFragments :
                  LET k == jitcLinkFragment(r, p, f) IN
                  /\ \E J \in SUBSET Pages : CacheOK(k, J)
                  /\ Fresh(k, modified)
                  /\ k.MRUpage = p /\ k.tcf_current[p] # NULL
      BY <1>L, <2>mru, <2>some, GrowKeeps DEF CacheInv
    <2> HIDE DEF r
    <2> QED  BY <2>next, <2>grow, <2>mru DEF CacheInv, CurrentKept
  <1>create. ASSUME NEW o \in Offsets, CreateEntrypoint(o) PROVE CacheInv'
    <2>next. /\ current # NULL /\ ofs' = NULL /\ UNCHANGED <<current, crashed, modified>>
             /\ \E f \in jitc.chain[current] : jitc' = [jitc EXCEPT !.entrypoints[current][o] = f]
      BY <1>create DEF CreateEntrypoint
    <2>f. PICK f \in jitc.chain[current] : jitc' = [jitc EXCEPT !.entrypoints[current][o] = f]
      BY <2>next
    <2>type. current \in Pages /\ jitc \in Cache /\ f \in Fragments
      BY <1>L, <2>next DEF CacheInv, CacheOK, Cache
    <2>k. /\ jitc' \in Cache
          /\ jitc'.entrypoints = [jitc.entrypoints EXCEPT ![current][o] = f]
          /\ jitc'.freeFragments = jitc.freeFragments /\ jitc'.chain = jitc.chain
          /\ jitc'.tcf_current = jitc.tcf_current /\ jitc'.clientPages = jitc.clientPages
          /\ jitc'.baseaddress = jitc.baseaddress /\ jitc'.stale = jitc.stale
          /\ jitc'.moreRU = jitc.moreRU /\ jitc'.lessRU = jitc.lessRU
          /\ jitc'.LRUpage = jitc.LRUpage /\ jitc'.MRUpage = jitc.MRUpage
          /\ jitc'.freePages = jitc.freePages
      BY <2>f, <2>type DEF Cache
    <2>at. \A q \in Pages : \A c \in Offsets :
             jitc'.entrypoints[q][c] = IF q = current /\ c = o THEN f ELSE jitc.entrypoints[q][c]
      BY <2>k, <2>type DEF Cache
    <2>listed. Listed(jitc', L)
      BY <1>L, <2>k, ListedBy DEF CacheOK
    <2>rest. Mapped(jitc', L) /\ Quiet(jitc', L) /\ Fresh(jitc', modified)
      BY <1>L, <2>k DEF CacheInv, CacheOK, Mapped, Quiet, Fresh
    <2>conserved. Conserved(jitc')
      BY <1>L, <2>k, <2>at DEF CacheOK, Conserved
    <2>ok. CacheOK(jitc', L)
      BY <1>L, <2>k, <2>listed, <2>rest, <2>conserved DEF CacheOK
    <2> QED  BY <2>ok, <2>rest, <2>k, <2>next DEF CacheInv, CurrentKept
  <1>end. CASE EndTranslation
    BY <1>end, <1>L DEF EndTranslation, CacheInv, CurrentKept
  <1>icbi. ASSUME NEW b \in Frames, icbi(b) PROVE CacheInv'
    <2> DEFINE p == jitc.clientPages[b]
               k == jitcDestroyAndFreeClientPage(jitc, p)
    <2>next. /\ current = NULL /\ UNCHANGED <<current, ofs, crashed>> /\ modified' = modified \ {b}
             /\ jitc' = IF p # NULL THEN k ELSE jitc
      BY <1>icbi DEF icbi, Executing
    <2>some. CASE p # NULL
      <3>p. p \in L
        BY <2>some, <1>L DEF CacheOK, Mapped
      <3>k. CacheOK(k, L \ {p}) /\ Unmapped(k, p) /\ Shrunk(jitc, k)
        BY <3>p, <1>L, DestroyAndFreeKeeps
      <3> HIDE DEF k, p
      <3>type. jitc \in Cache /\ k \in Cache /\ L \ {p} \in SUBSET Pages /\ k.stale \subseteq Pages
        BY <3>k, <1>L DEF CacheOK, Cache
      <3>cur. Fresh(k, modified)
        BY <3>type, <3>k, ShrunkStays DEF CacheInv
      <3>b. k.clientPages[b] = NULL
        BY <3>k DEF Shrunk, Unmapped, p
      <3>new. Fresh(k, modified \ {b})
        BY <3>cur, <3>b, <3>type, <1>null DEF Fresh
      <3> QED  BY <3>k, <3>new, <3>type, <2>some, <2>next DEF CacheInv, CurrentKept
    <2>none. CASE p = NULL
      <3>a. jitc.stale \subseteq Pages
        BY <1>L DEF CacheOK, Cache
      <3>new. Fresh(jitc, modified \ {b})
        BY <2>none, <3>a, <1>null DEF CacheInv, Fresh
      <3> QED  BY <3>new, <1>L, <2>none, <2>next DEF CacheInv, CurrentKept
    <2> QED  BY <2>some, <2>none
  <1>store. ASSUME NEW b \in Stored, StoreCode(b) PROVE CacheInv'
    <2> DEFINE new == {p \in Pages : jitc.baseaddress[p] = b /\ jitc.chain[p] # {}}
    <2>next. /\ current = NULL /\ UNCHANGED <<current, ofs, crashed>> /\ modified' = modified \cup {b}
             /\ jitc' = [jitc EXCEPT !.stale = @ \cup new]
      BY <1>store DEF StoreCode, Executing
    <2>k. /\ jitc' \in Cache /\ jitc'.stale = jitc.stale \cup new
          /\ jitc'.entrypoints = jitc.entrypoints
          /\ jitc'.freeFragments = jitc.freeFragments /\ jitc'.chain = jitc.chain
          /\ jitc'.tcf_current = jitc.tcf_current /\ jitc'.clientPages = jitc.clientPages
          /\ jitc'.baseaddress = jitc.baseaddress
          /\ jitc'.moreRU = jitc.moreRU /\ jitc'.lessRU = jitc.lessRU
          /\ jitc'.LRUpage = jitc.LRUpage /\ jitc'.MRUpage = jitc.MRUpage
          /\ jitc'.freePages = jitc.freePages
      <3>a. new \subseteq Pages /\ jitc \in Cache
        BY <1>L DEF CacheOK
      <3> HIDE DEF new
      <3> QED  BY <3>a, <2>next DEF Cache
    <2>listed. Listed(jitc', L)
      BY <1>L, <2>k, ListedBy DEF CacheOK
    <2>rest. Mapped(jitc', L) /\ Quiet(jitc', L)
      BY <1>L, <2>k DEF CacheOK, Mapped, Quiet
    <2>conserved. Conserved(jitc')
      BY <1>L, <2>k DEF CacheOK, Conserved
    <2>ok. CacheOK(jitc', L)
      BY <1>L, <2>k, <2>listed, <2>rest, <2>conserved DEF CacheOK
    <2>cur. Fresh(jitc', modified \cup {b})
      BY <1>L, <2>k, <1>null DEF CacheInv, Fresh, CacheOK, Mapped
    <2>mod. modified \cup {b} \subseteq Frames
      BY CacheAssumption DEF CacheInv
    <2> QED  BY <2>ok, <2>cur, <2>mod, <2>next DEF CacheInv, CurrentKept
  <1>crash. CASE Crashed
    BY <1>crash DEF Crashed, vars, CacheInv, CurrentKept
  <1> QED
    BY <1>hit, <1>entry, <1>start, <1>next, <1>create, <1>end, <1>icbi, <1>store, <1>crash
    DEF Next, NewPC

\* JITC::init makes a cache in good order with all pages free.
LEMMA InitKeeps ==
  ASSUME Init
  PROVE  CacheInv
  <1> DEFINE N == Cardinality(Pages)
             inj(g) == \A a, b \in 1 .. N : a # b => g[a] # g[b]
  <1>num. N \in Nat /\ ExistsBijection(1 .. N, Pages) /\ N # 0 /\ 1 \in 1 .. N
    <2>a. N \in Nat /\ ExistsBijection(1 .. N, Pages)
      BY CacheAssumption, FS_CardinalityType
    <2>b. N # 0
      BY CacheAssumption, FS_EmptySet
    <2> QED  BY <2>a, <2>b
  <1>order. FreeOrder \in [1 .. N -> Pages] /\ inj(FreeOrder)
    <2>a. PICK g : g \in Bijection(1 .. N, Pages)
      BY <1>num DEF ExistsBijection
    <2>b. g \in [1 .. N -> Pages] /\ inj(g)
      BY <2>a DEF Bijection, Injection, IsInjective
    <2> QED  BY <2>b DEF FreeOrder
  <1>onto. \A p \in Pages : \E a \in 1 .. N : FreeOrder[a] = p
    <2>a. FreeOrder \in Injection(1 .. N, Pages)
      BY <1>order DEF Injection, IsInjective
    <2>b. Cardinality(1 .. N) = N
      BY <1>num, FS_Interval
    <2>c. FreeOrder \in Surjection(1 .. N, Pages)
      BY <2>a, <2>b, CacheAssumption, FS_Injection
    <2> QED  BY <2>c DEF Surjection
  <1>index. \A a \in 1 .. N : FreeIndex(FreeOrder[a]) = a
    <2> TAKE a \in 1 .. N
    <2>a. FreeIndex(FreeOrder[a]) \in 1 .. N /\ FreeOrder[FreeIndex(FreeOrder[a])] = FreeOrder[a]
      BY DEF FreeIndex
    <2> QED  BY <2>a, <1>order
  <1>anyindex. \A p \in Pages : FreeIndex(p) \in 1 .. N
    <2> TAKE p \in Pages
    <2>a. PICK a \in 1 .. N : FreeOrder[a] = p
      BY <1>onto
    <2> QED  BY <2>a, <1>index
  <1> HIDE DEF N
  <1>more. jitc.moreRU = [p \in Pages |-> IF FreeIndex(p) = N THEN NULL ELSE FreeOrder[FreeIndex(p) + 1]]
    BY DEF Init, N
  <1>less. jitc.lessRU = [p \in Pages |-> IF FreeIndex(p) = 1 THEN NULL ELSE FreeOrder[FreeIndex(p) - 1]]
    BY DEF Init, N
  <1>types. /\ jitc.moreRU \in [Pages -> Pages \cup {NULL}] /\ jitc.lessRU \in [Pages -> Pages \cup {NULL}]
            /\ FreeOrder[1] \in Pages
    <2>a. \A p \in Pages : /\ FreeIndex(p) = N \/ FreeIndex(p) + 1 \in 1 .. N
                           /\ FreeIndex(p) = 1 \/ FreeIndex(p) - 1 \in 1 .. N
      BY <1>anyindex, <1>num
    <2> QED  BY <2>a, <1>more, <1>less, <1>order, <1>num
  <1>cache. jitc \in Cache
    BY <1>types DEF Init, Cache, NoEntries
  <1>fields. /\ jitc.LRUpage = NULL /\ jitc.MRUpage = NULL /\ jitc.freePages = FreeOrder[1]
             /\ jitc.freeFragments = Fragments /\ jitc.stale = {}
             /\ \A p \in Pages : jitc.chain[p] = {} /\ jitc.tcf_current[p] = NULL
             /\ \A p \in Pages : \A o \in Offsets : jitc.entrypoints[p][o] = NULL
             /\ \A b \in Frames : jitc.clientPages[b] = NULL
    BY DEF Init, NoEntries
  <1>free. FreeLinks(jitc, FreeOrder, N)
    <2>a. \A a \in 1 .. N : jitc.moreRU[FreeOrder[a]] = IF a = N THEN NULL ELSE FreeOrder[a + 1]
      BY <1>more, <1>index, <1>order
    <2> QED  BY <2>a, <1>order, <1>num, <1>fields DEF FreeLinks
  <1>lru. LruLinks(jitc, <<>>, 0)
    BY <1>fields DEF LruLinks
  <1>listed. Listed(jitc, {})
    <2>a. <<>> \in [1 .. 0 -> Pages] /\ 1 .. 0 = {}
      OBVIOUS
    <2>b. Members(<<>>, 0) = {}
      BY <2>a DEF Members
    <2>c. \E n \in Nat : \E s \in [1 .. n -> Pages] : LruLinks(jitc, s, n) /\ {} = Members(s, n)
      BY <2>a, <2>b, <1>lru
    <2>d. Members(FreeOrder, N) = Pages \ {}
      BY <1>onto, <1>order DEF Members
    <2> QED  BY <2>c, <2>d, <1>free, <1>order, <1>num DEF Listed
  <1>rest. Conserved(jitc) /\ Mapped(jitc, {}) /\ Quiet(jitc, {}) /\ Fresh(jitc, modified)
    BY <1>fields DEF Conserved, Mapped, Quiet, Fresh
  <1>ok. CacheOK(jitc, {})
    BY <1>cache, <1>listed, <1>rest DEF CacheOK
  <1> QED  BY <1>ok, <1>rest DEF CacheInv, Init, CurrentKept

\* The invariant holds in every state.
LEMMA CacheInvariant == Spec => []CacheInv
  <1>stay. CacheInv /\ UNCHANGED vars => CacheInv'
    BY DEF CacheInv, vars, CurrentKept, Fresh
  <1> QED  BY InitKeeps, StepKeeps, <1>stay, PTL DEF Spec

\* The walk along moreRU visits the pages of the list it starts with, and ends.
LEMMA WalkOver ==
  ASSUME NEW n \in Nat, NEW s \in [1 .. n -> Pages], NEW p,
         \A a, c \in 1 .. n : s[a] = s[c] => a = c,
         p = IF n = 0 THEN NULL ELSE s[1],
         \A a \in 1 .. n : jitc.moreRU[s[a]] = IF a = n THEN NULL ELSE s[a + 1]
  PROVE  walk(p)[Cardinality(Pages)] = NULL /\ listed(p) = Members(s, n)
  <1> DEFINE next == [q \in Pages \cup {NULL} |-> IF q = NULL THEN NULL ELSE jitc.moreRU[q]]
             w[a \in 0 .. Cardinality(Pages)] == IF a = 0 THEN p ELSE next[w[a - 1]]
             v(a) == IF a < n THEN s[a + 1] ELSE NULL
  <1>is. walk(p) = w
    BY DEF walk
  <1>num. Cardinality(Pages) \in Nat /\ n <= Cardinality(Pages)
    <2>a. s \in Injection(1 .. n, Pages)
      BY DEF Injection, IsInjective
    <2>b. Cardinality(1 .. n) = n
      BY FS_Interval
    <2> QED  BY <2>a, <2>b, CacheAssumption, FS_Injection, FS_CardinalityType
  <1>null. NULL \notin Pages
    BY CacheAssumption
  <1>zero. v(0) = p
    BY <1>num
  <1>succ. \A a \in Nat : next[v(a)] = v(a + 1)
    <2> TAKE a \in Nat
    <2>in. CASE a < n
      <3>a. a + 1 \in 1 .. n /\ (a + 1 = n <=> ~(a + 1 < n))
        BY <2>in
      <3>b. s[a + 1] \in Pages /\ s[a + 1] # NULL
        BY <3>a, <1>null
      <3>c. jitc.moreRU[s[a + 1]] = v(a + 1)
        BY <3>a
      <3> QED  BY <3>b, <3>c, <2>in
    <2>out. CASE ~(a < n)
      <3>a. ~(a + 1 < n)
        BY <2>out
      <3> QED  BY <3>a, <2>out
    <2> QED  BY <2>in, <2>out
  <1> HIDE DEF v, next
  <1>exists. \E g : g = [a \in 0 .. Cardinality(Pages) |-> IF a = 0 THEN p ELSE next[g[a - 1]]]
    <2> DEFINE g == [a \in 0 .. Cardinality(Pages) |-> v(a)]
    <2>each. \A a \in 0 .. Cardinality(Pages) : v(a) = IF a = 0 THEN p ELSE next[g[a - 1]]
      <3> TAKE a \in 0 .. Cardinality(Pages)
      <3>a. CASE a # 0
        <4>a. a - 1 \in 0 .. Cardinality(Pages) /\ a - 1 \in Nat /\ a - 1 + 1 = a
          BY <3>a, <1>num
        <4> QED  BY <4>a, <3>a, <1>succ
      <3> QED  BY <3>a, <1>zero
    <2>g. g = [a \in 0 .. Cardinality(Pages) |-> IF a = 0 THEN p ELSE next[g[a - 1]]]
      BY <2>each
    <2> QED  BY <2>g
  <1>rec. w = [a \in 0 .. Cardinality(Pages) |-> IF a = 0 THEN p ELSE next[w[a - 1]]]
    BY <1>exists DEF w
  <1> HIDE DEF w
  <1>all. \A a \in 0 .. Cardinality(Pages) : w[a] = v(a)
    <2> DEFINE bad == {a \in 0 .. Cardinality(Pages) : w[a] # v(a)}
    <2> SUFFICES ASSUME bad # {} PROVE FALSE
      OBVIOUS
    <2>least. PICK a \in bad : \A c \in bad : a <= c
      <3>nat. bad \subseteq Nat
        BY <1>num
      <3> HIDE DEF bad
      <3> QED  BY <3>nat, LeastElement
    <2>pos. a # 0
      BY <1>rec, <1>zero, <1>num, <2>least
    <2>before. a - 1 \in 0 .. Cardinality(Pages) /\ a - 1 \notin bad /\ a \in Nat /\ a - 1 + 1 = a
               /\ a - 1 \in Nat /\ a \in 0 .. Cardinality(Pages)
      BY <2>pos, <2>least, <1>num
    <2>prev. w[a - 1] = v(a - 1)
      BY <2>before
    <2>here. w[a] = next[w[a - 1]]
      BY <2>before, <2>pos, <1>rec
    <2>value. w[a] = v(a)
      BY <2>prev, <2>here, <2>before, <1>succ
    <2> QED  BY <2>value, <2>least
  <1>end. w[Cardinality(Pages)] = NULL
    <2>a. Cardinality(Pages) \in 0 .. Cardinality(Pages) /\ ~(Cardinality(Pages) < n)
      BY <1>num
    <2> QED  BY <2>a, <1>all DEF v
  <1>range. listed(p) = {v(a) : a \in 0 .. Cardinality(Pages)} \ {NULL}
    <2>a. DOMAIN w = 0 .. Cardinality(Pages)
      BY <1>rec
    <2>b. Range(w) = {w[a] : a \in 0 .. Cardinality(Pages)}
      BY <2>a DEF Range
    <2>c. {w[a] : a \in 0 .. Cardinality(Pages)} = {v(a) : a \in 0 .. Cardinality(Pages)}
      BY <1>all
    <2> QED  BY <2>b, <2>c, <1>is DEF listed
  <1>members. {v(a) : a \in 0 .. Cardinality(Pages)} \ {NULL} = Members(s, n)
    <2>sub. \A a \in 0 .. Cardinality(Pages) : v(a) # NULL => \E c \in 1 .. n : v(a) = s[c]
      <3> TAKE a \in 0 .. Cardinality(Pages)
      <3>a. a < n => a + 1 \in 1 .. n
        OBVIOUS
      <3> QED  BY <3>a DEF v
    <2>sup. \A c \in 1 .. n : s[c] # NULL /\ \E a \in 0 .. Cardinality(Pages) : v(a) = s[c]
      <3> TAKE c \in 1 .. n
      <3>a. c - 1 \in 0 .. Cardinality(Pages) /\ c - 1 < n /\ c - 1 + 1 = c
        BY <1>num
      <3>b. v(c - 1) = s[c]
        BY <3>a DEF v
      <3>c. s[c] # NULL
        BY <1>null
      <3> QED  BY <3>a, <3>b, <3>c
    <2> QED  BY <2>sub, <2>sup DEF Members
  <1> QED  BY <1>end, <1>is, <1>range, <1>members

\* The walks of ListsWellFormed and MapConsistent are the lists of the invariant.
LEMMA WalksAreLists ==
  ASSUME NEW L, CacheOK(jitc, L)
  PROVE  /\ listed(jitc.LRUpage) = L /\ listed(jitc.freePages) = Pages \ L
         /\ walk(jitc.LRUpage)[Cardinality(Pages)] = NULL
         /\ walk(jitc.freePages)[Cardinality(Pages)] = NULL
  <1>lists. Listed(jitc, L)
    BY DEF CacheOK
  <1>lru. /\ listed(jitc.LRUpage) = L
          /\ walk(jitc.LRUpage)[Cardinality(Pages)] = NULL
    <2>n. PICK n \in Nat : \E s \in [1 .. n -> Pages] : LruLinks(jitc, s, n) /\ L = Members(s, n)
      BY <1>lists DEF Listed
    <2>s. PICK s \in [1 .. n -> Pages] : LruLinks(jitc, s, n) /\ L = Members(s, n)
      BY <2>n
    <2>links. /\ \A a, c \in 1 .. n : s[a] = s[c] => a = c
              /\ jitc.LRUpage = IF n = 0 THEN NULL ELSE s[1]
              /\ \A a \in 1 .. n : jitc.moreRU[s[a]] = IF a = n THEN NULL ELSE s[a + 1]
      BY <2>s DEF LruLinks
    <2> QED  BY <2>links, <2>s, WalkOver
  <1>free. /\ listed(jitc.freePages) = Pages \ L
           /\ walk(jitc.freePages)[Cardinality(Pages)] = NULL
    <2>n. PICK m \in Nat : \E t \in [1 .. m -> Pages] : FreeLinks(jitc, t, m) /\ Pages \ L = Members(t, m)
      BY <1>lists DEF Listed
    <2>s. PICK t \in [1 .. m -> Pages] : FreeLinks(jitc, t, m) /\ Pages \ L = Members(t, m)
      BY <2>n
    <2>links. /\ \A a, c \in 1 .. m : t[a] = t[c] => a = c
              /\ jitc.freePages = IF m = 0 THEN NULL ELSE t[1]
              /\ \A a \in 1 .. m : jitc.moreRU[t[a]] = IF a = m THEN NULL ELSE t[a + 1]
      BY <2>s DEF FreeLinks
    <2> QED  BY <2>links, <2>s, WalkOver
  <1> QED  BY <1>lru, <1>free

-----------------------------------------------------------------------------
(***************************************************************************)
(* No fragment is lost or shared by jitcAllocFragment, the evictions and   *)
(* icbi, and every entry point lies in its own page's chain.               *)
(***************************************************************************)
THEOREM FragmentsAreConserved == Spec => []FragmentsConserved
  <1>inv. CacheInv => FragmentsConserved
    <2> SUFFICES ASSUME CacheInv PROVE FragmentsConserved
      OBVIOUS
    <2>a. Conserved(jitc) /\ jitc \in Cache
      BY DEF CacheInv, CacheOK
    <2>b. Fragments = jitc.freeFragments \cup UNION {jitc.chain[p] : p \in Pages}
      BY <2>a DEF Conserved, Cache
    <2> QED  BY <2>a, <2>b DEF Conserved, FragmentsConserved
  <1> QED  BY CacheInvariant, <1>inv, PTL

(***************************************************************************)
(* The pointer operations of jitcTouchClientPage, jitcFreeClientPage and   *)
(* jitcCreateClientPage keep both lists whole, whichever page they hit.    *)
(***************************************************************************)
THEOREM ListsAreWellFormed == Spec => []ListsWellFormed
  <1>inv. CacheInv => ListsWellFormed
    <2> SUFFICES ASSUME CacheInv PROVE ListsWellFormed
      OBVIOUS
    <2>L. PICK L \in SUBSET Pages : CacheOK(jitc, L)
      BY DEF CacheInv
    <2>type. jitc \in Cache /\ Listed(jitc, L)
      BY <2>L DEF CacheOK
    <2>ok. TypeOK
      BY <2>type DEF CacheInv, TypeOK, Cache
    <2>walks. /\ listed(jitc.LRUpage) = L /\ listed(jitc.freePages) = Pages \ L
              /\ walk(jitc.LRUpage)[Cardinality(Pages)] = NULL
              /\ walk(jitc.freePages)[Cardinality(Pages)] = NULL
      BY <2>L, WalksAreLists
    <2>ends. /\ (jitc.LRUpage = NULL) <=> (jitc.MRUpage = NULL)
             /\ \A p \in L :
                  /\ (p = jitc.MRUpage) <=> (jitc.moreRU[p] = NULL)
                  /\ (p = jitc.LRUpage) <=> (jitc.lessRU[p] = NULL)
                  /\ jitc.moreRU[p] # NULL => jitc.lessRU[jitc.moreRU[p]] = p
      BY <2>type, EndsOfLists
    <2>sets. L \cap (Pages \ L) = {} /\ L \cup (Pages \ L) = Pages
      OBVIOUS
    <2> QED  BY <2>ok, <2>walks, <2>ends, <2>sets DEF ListsWellFormed
  <1> QED  BY CacheInvariant, <1>inv, PTL

(***************************************************************************)
(* A frame leads to a page in use that stands for it, although evicted     *)
(* pages stay in the LRU list with their old baseaddress.                  *)
(***************************************************************************)
THEOREM MapIsConsistent == Spec => []MapConsistent
  <1>inv. CacheInv => MapConsistent
    BY WalksAreLists DEF CacheInv, CacheOK, Mapped, MapConsistent
  <1> QED  BY CacheInvariant, <1>inv, PTL

(***************************************************************************)
(* jitcEmitNextFragment never evicts the page that is being translated.    *)
(***************************************************************************)
THEOREM CurrentIsKept == Spec => []CurrentKept
  <1>inv. CacheInv => CurrentKept
    BY DEF CacheInv
  <1> QED  BY CacheInvariant, <1>inv, PTL

(***************************************************************************)
(* After the icbi of a frame, jitcNewPC reaches no translation that was    *)
(* made before the store.                                                  *)
(***************************************************************************)
THEOREM NoStaleCodeReached == Spec => []NoStaleCode
  <1>inv. CacheInv => NoStaleCode
    BY DEF CacheInv, Fresh, NoStaleCode
  <1> QED  BY CacheInvariant, <1>inv, PTL
=============================================================================
