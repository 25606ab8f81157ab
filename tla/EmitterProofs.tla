---------------------------- MODULE EmitterProofs ----------------------------
(***************************************************************************)
(* Theorems about code emission, for every size of fragments, every order  *)
(* of the free list and every sequence of emissions.                       *)
(***************************************************************************)
EXTENDS Emitter, WellFoundedInduction, TLAPS

Entries ==
    [kind : {"insn", "cond"}, where : Addresses]
        \cup [kind : {"fixup"}, where : Addresses, at : Addresses, target : Nat]

Emissions ==
    [page : [tcp : Addresses, left : 0 .. (2 * FragWords), base : Bases],
     free : Seq(Bases), mem : [Addresses -> Words], prog : Seq(Entries)]

(***************************************************************************)
(* Space.  What is left ends with the current fragment, a word or more is  *)
(* left, and no free fragment meets what is left.                          *)
(***************************************************************************)
Placed(e) ==
    /\ e \in Emissions
    /\ e.page.left >= 1
    /\ e.page.tcp + e.page.left = e.page.base + FragWords
    /\ \A j \in 1 .. Len(e.free) :
         /\ e.free[j] + FragWords <= e.page.tcp \/ e.page.base + FragWords <= e.free[j]
         /\ \A l \in 1 .. Len(e.free) : j # l => e.free[j] # e.free[l]

\* what is left and what is free has never been written to
Blank(e) ==
    /\ \A a \in e.page.tcp .. (e.page.tcp + e.page.left - 1) : e.mem[a].op = "none"
    /\ \A j \in 1 .. Len(e.free) :
         \A a \in e.free[j] .. (e.free[j] + FragWords - 1) : e.mem[a].op = "none"

End(e) == Len(e.prog) + 1

\* where the instruction before the k-th leads to
entry(e, k) == e.prog[k - 1].where + 1

\* where the k-th instruction is, or the linking branch that a fixup takes over
dest(e, k) ==
    IF k = End(e) THEN e.page.tcp
    ELSE IF e.prog[k].kind = "fixup" THEN e.prog[k].at
    ELSE e.prog[k].where

B(a) == [op |-> "B", to |-> a]

InsnPut(e, k) ==
    e.prog[k].kind # "fixup" => e.mem[e.prog[k].where] = [op |-> "insn"]

FixupPut(e, k) ==
    LET p == e.prog[k] IN
    p.kind = "fixup" =>
      /\ p.target = 0 => /\ e.mem[p.where] = B(p.where)
                         /\ p.at # p.where => e.mem[p.at] = B(p.where)
      /\ p.target # 0 => /\ p.target \in (k + 1) .. End(e)
                         /\ \E x \in {entry(e, p.target), dest(e, p.target)} : e.mem[p.at] = B(x)

\* the way from one instruction to the next
Linked(e, k) ==
    entry(e, k) # dest(e, k) => /\ entry(e, k) \in Addresses
                                /\ e.mem[entry(e, k)] = B(dest(e, k))

\* resolving a fixup changes nothing but the fixup
Alone(e, k) ==
    e.prog[k].kind = "fixup" =>
      /\ \A j \in 1 .. Len(e.prog) : j # k => e.prog[k].at # e.prog[j].where
      /\ \A j \in 2 .. End(e) : j # k => e.prog[k].at # entry(e, j)

CondPut(e, k) ==
    e.prog[k].kind = "cond" /\ k < Len(e.prog) =>
        /\ e.prog[k + 1].kind = "fixup"
        /\ e.prog[k + 1].where = e.prog[k].where + 1

Chained(e) ==
    /\ \A k \in 1 .. Len(e.prog) :
         /\ e.mem[e.prog[k].where].op # "none"
         /\ InsnPut(e, k) /\ FixupPut(e, k) /\ Alone(e, k) /\ CondPut(e, k)
    /\ \A k \in 2 .. End(e) : Linked(e, k)
    /\ \A k \in 2 .. Len(e.prog) :
         e.prog[k].kind = "fixup" => e.prog[k].at \in {entry(e, k), e.prog[k].where}
    /\ Len(e.prog) > 0 /\ entry(e, End(e)) # e.page.tcp => e.page.left >= FragWords

-----------------------------------------------------------------------------
(***************************************************************************)
(* Fragments lie in the cache and do not overlap.                          *)
(***************************************************************************)
LEMMA Apart ==
  ASSUME NEW a \in Bases, NEW b \in Bases
  PROVE  /\ a \in Nat /\ a + FragWords <= NumFrags * FragWords
         /\ a = b \/ a + FragWords <= b \/ b + FragWords <= a
  <1>n. PICK n \in 0 .. (NumFrags - 1) : a = n * FragWords
    BY DEF Bases
  <1>m. PICK m \in 0 .. (NumFrags - 1) : b = m * FragWords
    BY DEF Bases
  <1>num. FragWords \in Nat /\ NumFrags \in Nat /\ n \in Nat /\ m \in Nat
    BY EmitterAssumption
  <1>mono. ASSUME NEW x \in Nat, NEW y \in Nat, x < y
           PROVE  x * FragWords + FragWords <= y * FragWords
    <2>a. y * FragWords = x * FragWords + FragWords + (y - x - 1) * FragWords
      BY <1>num
    <2>b. y - x - 1 \in Nat
      BY <1>mono
    <2>c. (y - x - 1) * FragWords \in Nat
      BY <2>b, <1>num
    <2>d. x * FragWords \in Nat
      BY <1>num
    <2> QED  BY <2>a, <2>c, <2>d, <1>num
  <1>in. n < NumFrags
    BY <1>num
  <1>up. n * FragWords + FragWords <= NumFrags * FragWords
    BY <1>in, <1>mono, <1>num
  <1>cases. n = m \/ n < m \/ m < n
    BY <1>num
  <1>nat. a \in Nat
    BY <1>n, <1>num
  <1> QED  BY <1>n, <1>m, <1>num, <1>nat, <1>up, <1>cases, <1>mono

\* the size of the cache
Top == NumFrags * FragWords

LEMMA Cache ==
  /\ FragWords \in Nat /\ FragWords > 2
  /\ Top \in Nat /\ Addresses = 0 .. (Top - 1)
  /\ \A b \in Bases : b \in Nat /\ b + FragWords <= Top
  /\ \A a, b \in Bases : a = b \/ a + FragWords <= b \/ b + FragWords <= a
  <1>num. FragWords \in Nat /\ NumFrags \in Nat /\ FragWords > 2
    BY EmitterAssumption
  <1>top. Top \in Nat
    BY <1>num DEF Top
  <1> QED  BY <1>num, <1>top, Apart DEF Top, Addresses

(***************************************************************************)
(* What Placed says of the current words.                                  *)
(***************************************************************************)
LEMMA Space ==
  ASSUME NEW e, Placed(e)
  PROVE  /\ e.page.tcp \in Nat /\ e.page.left \in Nat /\ e.page.base \in Bases
         /\ e.page.tcp \in Addresses /\ e.page.tcp + e.page.left <= Top
         /\ e.mem \in [Addresses -> Words]
         /\ e.prog \in Seq(Entries) /\ Len(e.prog) \in Nat
         /\ e.free \in Seq(Bases)
  <1> USE Cache
  <1>e. /\ e.page \in [tcp : Addresses, left : 0 .. (2 * FragWords), base : Bases]
        /\ e.mem \in [Addresses -> Words] /\ e.prog \in Seq(Entries) /\ e.free \in Seq(Bases)
    BY DEF Placed, Emissions
  <1>p. e.page.tcp \in Addresses /\ e.page.left \in 0 .. (2 * FragWords) /\ e.page.base \in Bases
    BY <1>e
  <1> QED  BY <1>e, <1>p DEF Placed

(***************************************************************************)
(* The next fragment is entered without a branch only if it directly       *)
(* follows the current one: Near is no more than a fragment.               *)
(***************************************************************************)
LEMMA Merges ==
  ASSUME NEW e, Placed(e), e.free # <<>>, NEW f, f = Head(e.free),
         f >= e.page.tcp, f - e.page.tcp < Near
  PROVE  f = e.page.base + FragWords
  <1>s. /\ e.page.tcp \in Nat /\ e.page.left \in Nat /\ e.page.base \in Bases
        /\ e.free \in Seq(Bases)
    BY Space
  <1>f. f = e.free[1] /\ 1 \in 1 .. Len(e.free) /\ f \in Bases
    BY <1>s
  <1>n. Near \in Nat /\ Near <= FragWords
    BY EmitterAssumption
  <1>d. /\ f + FragWords <= e.page.tcp \/ e.page.base + FragWords <= f
        /\ e.page.left >= 1 /\ e.page.tcp + e.page.left = e.page.base + FragWords
    BY <1>f DEF Placed
  <1>b. e.page.base \in Nat /\ f \in Nat
    BY <1>s, <1>f, Cache
  <1>lo. e.page.base + FragWords <= f
    BY <1>d, <1>f, <1>s, <1>b, Cache
  <1>hi. ~(e.page.base + FragWords + FragWords <= f)
    <2> DEFINE t == e.page.tcp
               l == e.page.left
               b == e.page.base
    <2>1. f - t < Near
      OBVIOUS
    <2>2. t + l = b + FragWords /\ l >= 1
      BY <1>d
    <2>3. f \in Nat /\ t \in Nat /\ l \in Nat /\ b \in Nat /\ FragWords \in Nat
      BY <1>b, <1>s, Cache
    <2> HIDE DEF t, l, b
    <2>4. ~(b + FragWords + FragWords <= f)
      BY <2>1, <2>2, <2>3, <1>n
    <2> QED  BY <2>4 DEF b
  <1>next. PICK n \in 0 .. (NumFrags - 1) : e.page.base = n * FragWords
    BY <1>s DEF Bases
  <1>nf. PICK m \in 0 .. (NumFrags - 1) : f = m * FragWords
    BY <1>f DEF Bases
  <1>num. FragWords \in Nat /\ NumFrags \in Nat /\ n \in Nat /\ m \in Nat
    BY EmitterAssumption
  <1>mono. ASSUME NEW x \in Nat, NEW y \in Nat, x <= y
           PROVE  x * FragWords <= y * FragWords
    <2>a. y * FragWords = x * FragWords + (y - x) * FragWords /\ y - x \in Nat
      BY <1>num, <1>mono
    <2>b. (y - x) * FragWords \in Nat /\ x * FragWords \in Nat
      BY <2>a, <1>num
    <2> QED  BY <2>a, <2>b
  <1>one. (n + 1) * FragWords = n * FragWords + FragWords
          /\ (n + 2) * FragWords = n * FragWords + FragWords + FragWords
    BY <1>num
  <1>ge. ~(m <= n)
    <2>1. m <= n => m * FragWords <= n * FragWords
      BY <1>num, <1>mono
    <2> QED  BY <2>1, <1>lo, <1>next, <1>nf, <1>b, Cache
  <1>le. ~(n + 2 <= m)
    <2>1. n + 2 <= m => (n + 2) * FragWords <= m * FragWords
      BY <1>num, <1>mono
    <2> QED  BY <2>1, <1>hi, <1>one, <1>next, <1>nf
  <1>m. m = n + 1
    BY <1>ge, <1>le, <1>num
  <1> QED  BY <1>m, <1>one, <1>next, <1>nf, <1>f

-----------------------------------------------------------------------------
(***************************************************************************)
(* An address that a fixup emitted at tcp may be given: tcp itself, or     *)
(* that of the linking branch that has just been emitted and leads there.  *)
(***************************************************************************)
Handed(e, at) ==
    \/ at = e.page.tcp
    \/ /\ at \in Addresses /\ e.mem[at] = B(e.page.tcp)
       /\ \A j \in 1 .. Len(e.prog) : at # e.prog[j].where
       /\ \A j \in 2 .. Len(e.prog) : at # entry(e, j)
       /\ Len(e.prog) > 0 => at = entry(e, End(e))
       /\ \A k \in 1 .. Len(e.prog) :
            e.prog[k].kind = "fixup" /\ e.prog[k].target = End(e) =>
                e.mem[e.prog[k].at] = B(entry(e, End(e)))

Follows(e) == Head(e.free) >= e.page.tcp /\ Head(e.free) - e.page.tcp < Near

\* what jitcEmitNextFragment does, field by field
LEMMA NextFields ==
  ASSUME NEW e, Placed(e), e.free # <<>>, NEW r, r = jitcEmitNextFragment(e),
         NEW f, f = Head(e.free)
  PROVE  /\ f \in Bases /\ f = e.free[1] /\ Len(e.free) \in Nat \ {0}
         /\ r.free = Tail(e.free) /\ r.prog = e.prog /\ r.page.base = f
         /\ Follows(e) => /\ r.page.tcp = e.page.tcp /\ r.mem = e.mem
                          /\ r.page.left = e.page.left + FragWords
         /\ ~Follows(e) => /\ r.page.tcp = f /\ r.page.left = FragWords
                           /\ r.mem = [e.mem EXCEPT ![e.page.tcp] = B(f)]
         /\ e.page.left < FragWords => r \in Emissions
  <1>s. e \in Emissions /\ e.free \in Seq(Bases) /\ e.mem \in [Addresses -> Words]
        /\ e.prog \in Seq(Entries)
        /\ e.page \in [tcp : Addresses, left : 0 .. (2 * FragWords), base : Bases]
    BY DEF Placed, Emissions
  <1>f. f \in Bases /\ f = e.free[1] /\ Len(e.free) \in Nat \ {0} /\ Tail(e.free) \in Seq(Bases)
    BY <1>s
  <1>fa. f \in Addresses
    BY <1>f, Cache
  <1>w. B(f) \in Words
    BY <1>fa DEF B, Words
  <1>n. FragWords \in Nat /\ e.page.left \in 0 .. (2 * FragWords) /\ e.page.tcp \in Addresses
    BY <1>s, Cache
  <1>e. /\ e = [page |-> e.page, free |-> e.free, mem |-> e.mem, prog |-> e.prog]
        /\ e.page = [tcp |-> e.page.tcp, left |-> e.page.left, base |-> e.page.base]
    BY <1>s DEF Emissions
  <1>yes. CASE Follows(e)
    <2>d. r = [e EXCEPT !.page.left = @ + FragWords, !.page.base = f, !.free = Tail(@)]
      BY <1>yes DEF jitcEmitNextFragment, Follows
    <2>r. r = [page |-> [tcp |-> e.page.tcp, left |-> e.page.left + FragWords, base |-> f],
               free |-> Tail(e.free), mem |-> e.mem, prog |-> e.prog]
      BY <2>d, <1>e
    <2>l. e.page.left < FragWords => e.page.left + FragWords \in 0 .. (2 * FragWords)
      BY <1>n
    <2>t. e.page.left < FragWords => r \in Emissions
      BY <2>r, <2>l, <1>s, <1>f, <1>n DEF Emissions
    <2> QED  BY <2>r, <2>t, <1>f, <1>yes
  <1>no. CASE ~Follows(e)
    <2>d. r = [e EXCEPT !.page = [tcp |-> f, left |-> FragWords, base |-> f],
                        !.free = Tail(@), !.mem[e.page.tcp] = [op |-> "B", to |-> f]]
      BY <1>no DEF jitcEmitNextFragment, Follows
    <2>r. r = [page |-> [tcp |-> f, left |-> FragWords, base |-> f],
               free |-> Tail(e.free), mem |-> [e.mem EXCEPT ![e.page.tcp] = B(f)],
               prog |-> e.prog]
      BY <2>d, <1>e DEF B
    <2>l. FragWords \in 0 .. (2 * FragWords)
      BY <1>n
    <2>m. [e.mem EXCEPT ![e.page.tcp] = B(f)] \in [Addresses -> Words]
      BY <1>s, <1>w
    <2>t. r \in Emissions
      BY <2>r, <2>l, <2>m, <1>s, <1>f, <1>fa DEF Emissions
    <2> QED  BY <2>r, <2>t, <1>f, <1>no
  <1> QED  BY <1>yes, <1>no

\* the next fragment is the current one's neighbour or lies apart from it
LEMMA NextPlaced ==
  ASSUME NEW e, Placed(e), Blank(e), e.free # <<>>, e.page.left < FragWords,
         NEW r, r = jitcEmitNextFragment(e)
  PROVE  Placed(r) /\ Blank(r) /\ r.page.left >= FragWords /\ r.prog = e.prog
  <1>f. PICK f : f = Head(e.free)
    OBVIOUS
  <1> DEFINE t == e.page.tcp
             n == e.page.left
             b == e.page.base
  <1>r. /\ f \in Bases /\ f = e.free[1] /\ Len(e.free) \in Nat \ {0}
        /\ r.free = Tail(e.free) /\ r.prog = e.prog /\ r.page.base = f
        /\ Follows(e) => /\ r.page.tcp = t /\ r.mem = e.mem
                         /\ r.page.left = n + FragWords
        /\ ~Follows(e) => /\ r.page.tcp = f /\ r.page.left = FragWords
                          /\ r.mem = [e.mem EXCEPT ![t] = B(f)]
        /\ r \in Emissions
    BY <1>f, NextFields
  <1>s. /\ t \in Nat /\ n \in Nat /\ b \in Bases
        /\ t \in Addresses /\ t + n <= Top
        /\ e.mem \in [Addresses -> Words] /\ e.free \in Seq(Bases)
    BY Space
  <1>p. /\ n >= 1 /\ t + n = b + FragWords
        /\ \A j \in 1 .. Len(e.free) :
             /\ e.free[j] + FragWords <= t \/ b + FragWords <= e.free[j]
             /\ \A l \in 1 .. Len(e.free) : j # l => e.free[j] # e.free[l]
    BY DEF Placed
  <1>c. /\ FragWords \in Nat /\ FragWords > 2 /\ Top \in Nat /\ Addresses = 0 .. (Top - 1)
        /\ \A a \in Bases : a \in Nat /\ a + FragWords <= Top
        /\ \A a, c \in Bases : a = c \/ a + FragWords <= c \/ c + FragWords <= a
    BY Cache
  <1>low. n < FragWords
    OBVIOUS
  <1>blank. \A a \in t .. (t + n - 1) : e.mem[a].op = "none"
    BY DEF Blank
  <1>follows. Follows(e) => f = b + FragWords
    BY <1>f, Merges DEF Follows
  <1> HIDE DEF t, n, b
  <1>nat. f \in Nat /\ b \in Nat
    BY <1>r, <1>s, <1>c
  <1>t. \A j \in 1 .. Len(r.free) :
          /\ j + 1 \in 2 .. Len(e.free) /\ r.free[j] = e.free[j + 1] /\ r.free[j] \in Bases
    BY <1>r, <1>s
  <1>sep. \A j \in 1 .. Len(r.free) :
            /\ r.free[j] + FragWords <= f \/ f + FragWords <= r.free[j]
            /\ r.free[j] + FragWords <= t \/ b + FragWords <= r.free[j]
            /\ \A l \in 1 .. Len(r.free) : j # l => r.free[j] # r.free[l]
    <2> SUFFICES ASSUME NEW j \in 1 .. Len(r.free)
                 PROVE  /\ r.free[j] + FragWords <= f \/ f + FragWords <= r.free[j]
                        /\ \/ r.free[j] + FragWords <= t
                           \/ b + FragWords <= r.free[j]
                        /\ \A l \in 1 .. Len(r.free) : j # l => r.free[j] # r.free[l]
      OBVIOUS
    <2>j. j + 1 \in 1 .. Len(e.free) /\ 1 \in 1 .. Len(e.free) /\ j + 1 # 1
      BY <1>t, <1>r
    <2>1. e.free[j + 1] # e.free[1]
      BY <2>j, <1>p
    <2>2. ASSUME NEW l \in 1 .. Len(r.free), j # l PROVE r.free[j] # r.free[l]
      <3>1. l + 1 \in 1 .. Len(e.free) /\ l + 1 # j + 1 /\ r.free[l] = e.free[l + 1]
        BY <1>t, <2>2
      <3> QED  BY <3>1, <2>j, <1>p, <1>t
    <2>3. r.free[j] = e.free[j + 1] /\ r.free[j] \in Bases /\ r.free[j] # f
      BY <1>t, <1>r, <2>1
    <2>4. r.free[j] + FragWords <= f \/ f + FragWords <= r.free[j]
      BY <2>3, <1>c, <1>r
    <2>5. \/ r.free[j] + FragWords <= t
          \/ b + FragWords <= r.free[j]
      BY <2>3, <2>j, <1>p
    <2> QED  BY <2>2, <2>4, <2>5
  <1>yes. CASE Follows(e)
    <2>f. f = b + FragWords
      BY <1>yes, <1>follows
    <2>u. f + FragWords = t + (n + FragWords) /\ n + FragWords >= 1
      BY <2>f, <1>nat, <1>s, <1>p, <1>c
    <2>v. r.page.tcp = t /\ r.page.left = n + FragWords /\ r.page.base = f
      BY <1>yes, <1>r
    <2>w. \A j \in 1 .. Len(r.free) : r.free[j] + FragWords <= t \/ f + FragWords <= r.free[j]
      <3> SUFFICES ASSUME NEW j \in 1 .. Len(r.free)
                   PROVE  r.free[j] + FragWords <= t \/ f + FragWords <= r.free[j]
        OBVIOUS
      <3>1. PICK x \in Bases : x = r.free[j]
        BY <1>t
      <3>2. x \in Nat /\ (x + FragWords <= f \/ f + FragWords <= x)
            /\ (x + FragWords <= t \/ b + FragWords <= x)
        BY <3>1, <1>sep, <1>c
      <3> QED  BY <3>1, <3>2, <2>f, <1>nat, <1>s, <1>c
    <2>p. Placed(r)
      BY <2>u, <2>v, <2>w, <1>r, <1>sep DEF Placed
    <2>b. Blank(r)
      <3>2. \A a \in f .. (f + FragWords - 1) : e.mem[a].op = "none"
        BY <1>r DEF Blank
      <3>3. \A j \in 1 .. Len(r.free) :
              \A a \in r.free[j] .. (r.free[j] + FragWords - 1) : r.mem[a].op = "none"
        BY <1>t, <1>yes, <1>r DEF Blank
      <3>4. f \in Nat /\ r.page.tcp + r.page.left - 1 = f + FragWords - 1
            /\ f = t + n
        <4>1. f = t + n
          BY <2>f, <1>nat, <1>s, <1>p, <1>c
        <4>2. t + (n + FragWords) - 1 = f + FragWords - 1
          BY <4>1, <1>nat, <1>s, <1>c
        <4> QED  BY <4>1, <4>2, <2>v, <1>nat
      <3>5. \A a \in t .. (f + FragWords - 1) : e.mem[a].op = "none"
        BY <1>blank, <3>2, <3>4, <1>s, <1>c
      <3> QED  BY <3>3, <3>4, <3>5, <1>yes, <1>r DEF Blank
    <2> QED  BY <2>p, <2>b, <1>yes, <1>r, <1>s, <1>c
  <1>no. CASE ~Follows(e)
    <2>u. FragWords >= 1
      BY <1>c
    <2>v. r.page.tcp = f /\ r.page.left = FragWords /\ r.page.base = f
      BY <1>no, <1>r
    <2>p. Placed(r)
      BY <2>u, <2>v, <1>r, <1>sep DEF Placed
    <2>m. \A a \in Addresses : a # t => r.mem[a] = e.mem[a]
      BY <1>no, <1>r, <1>s
    <2>1. \A j \in 1 .. Len(e.free) :
            \A a \in e.free[j] .. (e.free[j] + FragWords - 1) :
               a \in Addresses /\ a # t
      <3> SUFFICES ASSUME NEW j \in 1 .. Len(e.free),
                          NEW a \in e.free[j] .. (e.free[j] + FragWords - 1)
                   PROVE  a \in Addresses /\ a # t
        OBVIOUS
      <3>1. e.free[j] \in Bases
        BY <1>s
      <3>2. e.free[j] \in Nat /\ e.free[j] + FragWords <= Top
        BY <3>1, <1>c
      <3>3. e.free[j] + FragWords <= t \/ b + FragWords <= e.free[j]
        BY <1>p
      <3>4. b \in Nat
        BY <1>s, <1>c
      <3> QED  BY <3>2, <3>3, <3>4, <1>s, <1>p, <1>c
    <2>2. \A j \in 1 .. Len(e.free) :
            \A a \in e.free[j] .. (e.free[j] + FragWords - 1) : r.mem[a].op = "none"
      BY <2>1, <2>m DEF Blank
    <2>3. \A a \in f .. (f + FragWords - 1) : r.mem[a].op = "none"
      BY <2>2, <1>r
    <2>4. \A j \in 1 .. Len(r.free) :
            \A a \in r.free[j] .. (r.free[j] + FragWords - 1) : r.mem[a].op = "none"
      BY <2>2, <1>t
    <2>b. Blank(r)
      BY <2>3, <2>4, <1>no, <1>r DEF Blank
    <2> QED  BY <2>p, <2>b, <1>no, <1>r, <1>c
  <1> QED  BY <1>yes, <1>no

-----------------------------------------------------------------------------
Used(e) == {a \in Addresses : e.mem[a].op # "none"}

(***************************************************************************)
(* Everything the chain is made of has been written.                       *)
(***************************************************************************)
LEMMA ChainUsed ==
  ASSUME NEW e, Placed(e), Blank(e), Chained(e)
  PROVE  /\ \A k \in 1 .. Len(e.prog) :
              /\ e.prog[k] \in Entries
              /\ e.prog[k].where \in Used(e)
              /\ e.prog[k].kind = "fixup" => e.prog[k].at \in Used(e)
              /\ dest(e, k) \in Used(e)
         /\ \A k \in 2 .. Len(e.prog) : entry(e, k) \in Used(e)
         /\ e.page.tcp \notin Used(e)
         /\ \A a \in e.page.tcp .. (e.page.tcp + e.page.left - 1) : a \notin Used(e)
  <1>s. /\ e.page.tcp \in Nat /\ e.page.left \in Nat /\ e.page.left >= 1
        /\ e.prog \in Seq(Entries) /\ Len(e.prog) \in Nat
    BY Space DEF Placed
  <1>blank. \A a \in e.page.tcp .. (e.page.tcp + e.page.left - 1) : a \notin Used(e)
    BY DEF Blank, Used
  <1>tcp. e.page.tcp \notin Used(e)
    BY <1>blank, <1>s
  <1>op. \A x : B(x).op # "none"
    BY DEF B
  <1>k. ASSUME NEW k \in 1 .. Len(e.prog)
        PROVE  /\ e.prog[k] \in Entries
               /\ e.prog[k].where \in Used(e)
               /\ e.prog[k].kind = "fixup" => e.prog[k].at \in Used(e)
               /\ dest(e, k) \in Used(e)
    <2>p. e.prog[k] \in Entries
      BY <1>s
    <2>w. e.prog[k].where \in Addresses
          /\ (e.prog[k].kind = "fixup" => e.prog[k].at \in Addresses)
      BY <2>p DEF Entries
    <2>u. e.prog[k].where \in Used(e)
      BY <2>w DEF Chained, Used
    <2>at. ASSUME e.prog[k].kind = "fixup" PROVE e.prog[k].at \in Used(e)
      <3>f. FixupPut(e, k)
        BY DEF Chained
      <3>1. CASE e.prog[k].target = 0
        <4>1. e.prog[k].at = e.prog[k].where \/ e.mem[e.prog[k].at] = B(e.prog[k].where)
          BY <3>f, <3>1, <2>at DEF FixupPut
        <4> QED  BY <4>1, <2>u, <2>w, <2>at, <1>op DEF Used
      <3>2. CASE e.prog[k].target # 0
        <4>1. \E x : e.mem[e.prog[k].at] = B(x)
          BY <3>f, <3>2, <2>at DEF FixupPut
        <4> QED  BY <4>1, <2>w, <2>at, <1>op DEF Used
      <3> QED  BY <3>1, <3>2
    <2>n. k # End(e)
      BY <1>s DEF End
    <2> QED  BY <2>p, <2>u, <2>at, <2>n DEF dest
  <1>e. ASSUME NEW k \in 2 .. Len(e.prog) PROVE entry(e, k) \in Used(e)
    <2>k. k \in 1 .. Len(e.prog) /\ k \in 2 .. End(e)
      BY <1>s DEF End
    <2>l. Linked(e, k)
      BY <2>k DEF Chained
    <2> QED  BY <2>l, <2>k, <1>k, <1>op DEF Linked, Used
  <1> QED  BY <1>k, <1>e, <1>tcp, <1>blank

(***************************************************************************)
(* Going on in the next fragment keeps the chain: the linking branch is    *)
(* at the place where flow arrives, and leads to the new one.              *)
(***************************************************************************)
LEMMA NextChained ==
  ASSUME NEW e, Placed(e), Blank(e), Chained(e), e.free # <<>>, e.page.left < FragWords,
         NEW r, r = jitcEmitNextFragment(e)
  PROVE  Chained(r) /\ Handed(r, e.page.tcp)
  <1> DEFINE t == e.page.tcp
  <1>f. PICK f : f = Head(e.free)
    OBVIOUS
  <1>r. /\ f \in Bases
        /\ r.prog = e.prog
        /\ Follows(e) => r.page.tcp = t /\ r.mem = e.mem
        /\ ~Follows(e) => r.page.tcp = f /\ r.mem = [e.mem EXCEPT ![t] = B(f)]
    BY <1>f, NextFields
  <1>left. Placed(r) /\ r.page.left >= FragWords
    BY NextPlaced
  <1>s. /\ t \in Addresses /\ e.mem \in [Addresses -> Words]
        /\ Len(e.prog) \in Nat /\ Addresses \subseteq Nat
        /\ e.page.left \in Nat /\ FragWords \in Nat
    BY Space, Cache
  <1>e. /\ End(r) = End(e) /\ \A k : entry(r, k) = entry(e, k)
    BY <1>r DEF End, entry
  <1>end. Len(e.prog) > 0 => entry(e, End(e)) = t
    BY <1>s DEF Chained
  <1>u. /\ \A k \in 1 .. Len(e.prog) :
             /\ e.prog[k].where \in Used(e)
             /\ e.prog[k].kind = "fixup" => e.prog[k].at \in Used(e)
        /\ \A k \in 2 .. Len(e.prog) : entry(e, k) \in Used(e)
        /\ t \notin Used(e)
    BY ChainUsed
  <1>yes. CASE Follows(e)
    <2>1. \A k : dest(r, k) = dest(e, k)
      BY <1>yes, <1>r, <1>e DEF dest
    <2>2. r.mem = e.mem /\ r.prog = e.prog /\ r.page.tcp = t
      BY <1>yes, <1>r
    <2>3. Chained(r)
      <3>1. /\ \A k : (InsnPut(e, k) => InsnPut(r, k)) /\ (FixupPut(e, k) => FixupPut(r, k))
            /\ \A k : (Alone(e, k) => Alone(r, k)) /\ (CondPut(e, k) => CondPut(r, k))
            /\ \A k : Linked(e, k) => Linked(r, k)
        BY <2>1, <2>2, <1>e, Zenon DEF InsnPut, FixupPut, Alone, CondPut, Linked
      <3> QED  BY <3>1, <2>2, <1>e, <1>left DEF Chained
    <2> QED  BY <2>2, <2>3 DEF Handed
  <1>no. CASE ~Follows(e)
    <2>m. /\ r.mem[t] = B(f) /\ \A a \in Used(e) : r.mem[a] = e.mem[a]
      BY <1>no, <1>r, <1>s, <1>u DEF Used
    <2>d. /\ \A k \in 1 .. Len(e.prog) : dest(r, k) = dest(e, k)
          /\ dest(r, End(e)) = f
      BY <1>no, <1>r, <1>e, <1>s DEF dest, End
    <2> HIDE DEF t
    <2>k. ASSUME NEW k \in 1 .. Len(e.prog)
          PROVE  /\ r.mem[r.prog[k].where].op # "none"
                 /\ InsnPut(r, k) /\ FixupPut(r, k) /\ Alone(r, k) /\ CondPut(r, k)
                 /\ r.prog[k].kind = "fixup" /\ r.prog[k].target = End(e) =>
                      r.mem[r.prog[k].at] = B(entry(e, End(e)))
      <3>w. r.prog[k] = e.prog[k] /\ r.mem[e.prog[k].where] = e.mem[e.prog[k].where]
            /\ (e.prog[k].kind = "fixup" => r.mem[e.prog[k].at] = e.mem[e.prog[k].at])
        BY <1>r, <1>u, <2>m
      <3>c. /\ e.mem[e.prog[k].where].op # "none"
            /\ InsnPut(e, k) /\ FixupPut(e, k) /\ Alone(e, k) /\ CondPut(e, k)
        BY DEF Chained
      <3>i. r.mem[r.prog[k].where].op # "none" /\ InsnPut(r, k)
        BY <3>w, <3>c DEF InsnPut
      <3>a. Alone(r, k) /\ CondPut(r, k)
        BY <3>c, <1>r, <1>e DEF Alone, CondPut
      <3>f. ASSUME e.prog[k].kind = "fixup", e.prog[k].target # 0
            PROVE  /\ e.prog[k].target \in (k + 1) .. End(e)
                   /\ \E x \in {entry(r, e.prog[k].target), dest(r, e.prog[k].target)} :
                        r.mem[e.prog[k].at] = B(x)
                   /\ e.prog[k].target = End(e) => r.mem[e.prog[k].at] = B(entry(e, End(e)))
        <4>1. PICK x \in {entry(e, e.prog[k].target), dest(e, e.prog[k].target)} :
                 e.mem[e.prog[k].at] = B(x)
          BY <3>c, <3>f DEF FixupPut
        <4>2. e.prog[k].target \in (k + 1) .. End(e)
          BY <3>c, <3>f DEF FixupPut
        <4>3. CASE e.prog[k].target = End(e)
          <5>1. dest(e, End(e)) = t /\ entry(e, End(e)) = t
            BY <1>end, <1>s DEF dest, t
          <5> QED  BY <5>1, <4>1, <4>2, <4>3, <3>w, <3>f, <1>e
        <4>4. CASE e.prog[k].target # End(e)
          <5>n. \A m \in Nat : \A n \in (k + 1) .. (m + 1) : n # m + 1 => n \in 1 .. m
            OBVIOUS
          <5>1. e.prog[k].target \in 1 .. Len(e.prog)
            BY <5>n, <4>2, <4>4, <1>s DEF End
          <5> QED  BY <5>1, <4>1, <4>2, <4>4, <3>w, <3>f, <1>e, <2>d
        <4> QED  BY <4>3, <4>4
      <3>g. FixupPut(r, k)
        BY <3>c, <3>w, <3>f, <1>e DEF FixupPut
      <3>h. 0 # End(e)
        BY <1>s DEF End
      <3> QED  BY <3>i, <3>a, <3>g, <3>f, <3>w, <3>h
    <2>l. ASSUME NEW k \in 2 .. End(e) PROVE Linked(r, k)
      <3>1. CASE k = End(e)
        <4>1. entry(r, k) = t /\ dest(r, k) = f
          BY <3>1, <1>end, <1>e, <1>s, <2>d DEF End
        <4> QED  BY <4>1, <2>m, <1>s DEF Linked, t
      <3>2. CASE k # End(e)
        <4>1. k \in 2 .. Len(e.prog) /\ k \in 1 .. Len(e.prog)
          BY <3>2, <1>s DEF End
        <4>2. Linked(e, k)
          BY DEF Chained
        <4> QED  BY <4>1, <4>2, <1>e, <1>u, <2>d, <2>m DEF Linked
      <3> QED  BY <3>1, <3>2
    <2>a. \A k \in 2 .. Len(r.prog) :
            r.prog[k].kind = "fixup" => r.prog[k].at \in {entry(r, k), r.prog[k].where}
      BY <1>r, <1>e DEF Chained
    <2>c. Chained(r)
      BY <2>k, <2>l, <2>a, <1>r, <1>e, <1>left DEF Chained
    <2>h. Handed(r, t)
      <3>1. \A j \in 1 .. Len(e.prog) : t # e.prog[j].where
        BY <1>u
      <3>2. \A j \in 2 .. Len(e.prog) : t # entry(e, j)
        BY <1>u
      <3>3. r.mem[t] = B(r.page.tcp)
        BY <2>m, <1>no, <1>r
      <3> QED  BY <3>1, <3>2, <3>3, <2>k, <1>end, <1>e, <1>r, <1>s DEF Handed
    <2> QED  BY <2>c, <2>h DEF t
  <1> QED  BY <1>yes, <1>no

-----------------------------------------------------------------------------
(***************************************************************************)
(* What emitting n words at tcp does: nothing is left out and nothing that *)
(* was there changes.  A conditional branch or a fixup comes alone.        *)
(***************************************************************************)
Placeholder(e, r, at) ==
    LET p == r.prog[End(e)] IN
    /\ p.kind = "fixup" /\ p.target = 0 /\ p.at = at
    /\ r.mem[e.page.tcp] = B(e.page.tcp)

Grown(e, r, n) ==
    /\ r \in Emissions
    /\ r.page.tcp = e.page.tcp + n /\ r.page.left = e.page.left - n
    /\ r.page.base = e.page.base /\ r.free = e.free
    /\ Len(r.prog) = Len(e.prog) + n
    /\ \A k \in 1 .. Len(e.prog) : r.prog[k] = e.prog[k]
    /\ \A i \in 1 .. n : r.prog[Len(e.prog) + i].where = e.page.tcp + i - 1
    /\ \A a \in Addresses : a \notin e.page.tcp .. (e.page.tcp + n - 1) => r.mem[a] = e.mem[a]
    /\ \/ \A i \in 1 .. n : /\ r.prog[Len(e.prog) + i].kind = "insn"
                            /\ r.mem[e.page.tcp + i - 1] = [op |-> "insn"]
       \/ n = 1 /\ r.prog[End(e)].kind = "cond" /\ r.mem[e.page.tcp] = [op |-> "insn"]
       \/ n = 1 /\ \E at \in Addresses : Handed(e, at) /\ Placeholder(e, r, at)

\* the last instruction is not a conditional branch that waits for its fixup
Whole(e) == Len(e.prog) > 0 => e.prog[Len(e.prog)].kind # "cond"

\* it is one, and the fixup comes directly behind it
Paired(e, r) ==
    /\ Len(e.prog) > 0 /\ e.prog[Len(e.prog)].where + 1 = e.page.tcp
    /\ Len(r.prog) = End(e) /\ r.prog[End(e)].kind = "fixup"

LEMMA GrownPlaced ==
  ASSUME NEW e, Placed(e), Blank(e), NEW n \in Nat, n < e.page.left,
         NEW r, Grown(e, r, n)
  PROVE  Placed(r) /\ Blank(r)
  <1> DEFINE t == e.page.tcp
             l == e.page.left
             b == e.page.base
             u == r.page.tcp
             v == r.page.left
  <1>s. /\ t \in Nat /\ l \in Nat /\ b \in Bases /\ e.free \in Seq(Bases)
        /\ l >= 1 /\ t + l = b + FragWords
        /\ \A j \in 1 .. Len(e.free) :
             /\ e.free[j] + FragWords <= t \/ b + FragWords <= e.free[j]
             /\ \A k \in 1 .. Len(e.free) : j # k => e.free[j] # e.free[k]
    BY Space DEF Placed
  <1>r. /\ u = t + n /\ v = l - n /\ r.page.base = b /\ r.free = e.free /\ r \in Emissions
        /\ \A a \in Addresses : a \notin t .. (t + n - 1) => r.mem[a] = e.mem[a]
    BY DEF Grown
  <1>blank. /\ \A a \in t .. (t + l - 1) : e.mem[a].op = "none"
            /\ \A j \in 1 .. Len(e.free) :
                 \A a \in e.free[j] .. (e.free[j] + FragWords - 1) : e.mem[a].op = "none"
    BY DEF Blank
  <1>n. n < l
    OBVIOUS
  <1>top. t + l <= Top
    BY Space
  <1> HIDE DEF t, l, b, u, v
  <1>c. /\ FragWords \in Nat /\ Top \in Nat /\ Addresses = 0 .. (Top - 1) /\ b \in Nat
        /\ \A a \in Bases : a \in Nat /\ a + FragWords <= Top
    BY <1>s, Cache
  <1>1. v >= 1 /\ u + v = b + FragWords
    BY <1>s, <1>r, <1>n, <1>c
  <1>2. \A j \in 1 .. Len(e.free) : e.free[j] + FragWords <= u \/ b + FragWords <= e.free[j]
    <2> SUFFICES ASSUME NEW j \in 1 .. Len(e.free)
                 PROVE  e.free[j] + FragWords <= u \/ b + FragWords <= e.free[j]
      OBVIOUS
    <2>1. PICK x \in Bases : x = e.free[j]
      BY <1>s
    <2>2. x \in Nat /\ (x + FragWords <= t \/ b + FragWords <= x)
      BY <2>1, <1>s, <1>c
    <2>3. x + FragWords <= u \/ b + FragWords <= x
      BY <2>2, <1>r, <1>s, <1>c
    <2> QED  BY <2>1, <2>3
  <1>3. Placed(r)
    BY <1>1, <1>2, <1>r, <1>s DEF Placed, u, v
  <1>4. \A a \in u .. (u + v - 1) : r.mem[a].op = "none"
    <2> SUFFICES ASSUME NEW a \in u .. (u + v - 1) PROVE r.mem[a].op = "none"
      OBVIOUS
    <2>1. a \in t .. (t + l - 1) /\ a \notin t .. (t + n - 1) /\ a \in Addresses
      BY <1>r, <1>s, <1>n, <1>c, <1>top
    <2> QED  BY <2>1, <1>r, <1>blank
  <1>5. ASSUME NEW j \in 1 .. Len(e.free),
               NEW a \in e.free[j] .. (e.free[j] + FragWords - 1)
        PROVE  r.mem[a].op = "none"
    <2>1. PICK x \in Bases : x = e.free[j]
      BY <1>s
    <2>2. x \in Nat /\ x + FragWords <= Top /\ (x + FragWords <= t \/ b + FragWords <= x)
      BY <2>1, <1>s, <1>c
    <2>3. a \in x .. (x + FragWords - 1)
      BY <2>1
    <2>4. a \in Addresses /\ a \notin t .. (t + n - 1)
      BY <2>2, <2>3, <1>s, <1>n, <1>c
    <2> QED  BY <2>4, <1>r, <1>blank
  <1>6. Blank(r)
    BY <1>4, <1>5, <1>r DEF Blank, u, v
  <1> QED  BY <1>3, <1>6

(***************************************************************************)
(* Emission keeps the chain.                                               *)
(***************************************************************************)
LEMMA GrownChained ==
  ASSUME NEW e, Placed(e), Blank(e), Chained(e), NEW n \in Nat, n < e.page.left,
         NEW r, Grown(e, r, n), Whole(e) \/ Paired(e, r)
  PROVE  Chained(r)
  <1> DEFINE t == e.page.tcp
             l == e.page.left
             m == Len(e.prog)
  <1>s. t \in Nat /\ l \in Nat /\ m \in Nat /\ l >= 1 /\ n < l /\ t \in Addresses
    BY Space DEF Placed
  <1>end. End(e) = m + 1
    BY DEF End
  <1>r. /\ r.page.tcp = t + n /\ r.page.left = l - n
        /\ Len(r.prog) = m + n /\ End(r) = m + n + 1
        /\ \A k \in 1 .. m : r.prog[k] = e.prog[k]
        /\ \A i \in 1 .. n : r.prog[m + i].where = t + i - 1
        /\ \A a \in Addresses : a \notin t .. (t + n - 1) => r.mem[a] = e.mem[a]
    BY DEF Grown, End
  <1>kinds. \/ \A i \in 1 .. n : /\ r.prog[m + i].kind = "insn"
                                 /\ r.mem[t + i - 1] = [op |-> "insn"]
            \/ n = 1 /\ r.prog[m + 1].kind = "cond" /\ r.mem[t] = [op |-> "insn"]
            \/ n = 1 /\ \E at \in Addresses : Handed(e, at) /\ Placeholder(e, r, at)
    BY <1>end DEF Grown
  <1>u. /\ \A k \in 1 .. m : /\ e.prog[k].where \in Used(e)
                             /\ e.prog[k].kind = "fixup" => e.prog[k].at \in Used(e)
        /\ \A k \in 2 .. m : entry(e, k) \in Used(e)
        /\ \A a \in t .. (t + l - 1) : a \notin Used(e)
        /\ Used(e) \subseteq Addresses
    BY ChainUsed DEF Used
  <1>tcp. e.page.tcp = t
    OBVIOUS
  <1>chain. /\ \A k \in 1 .. m : /\ e.mem[e.prog[k].where].op # "none"
                                 /\ InsnPut(e, k) /\ FixupPut(e, k)
                                 /\ Alone(e, k) /\ CondPut(e, k)
            /\ \A k \in 2 .. (m + 1) : Linked(e, k)
            /\ \A k \in 2 .. m :
                 e.prog[k].kind = "fixup" => e.prog[k].at \in {entry(e, k), e.prog[k].where}
            /\ m > 0 /\ entry(e, m + 1) # t => l >= FragWords
    BY <1>end DEF Chained
  <1>pair. \/ m > 0 => e.prog[m].kind # "cond"
           \/ e.prog[m].where + 1 = t /\ m + n = m + 1 /\ r.prog[m + 1].kind = "fixup"
    BY <1>r, <1>end DEF Whole, Paired
  <1> HIDE DEF t, l, m
  <1>mem. \A a \in Used(e) : r.mem[a] = e.mem[a]
    <2> SUFFICES ASSUME NEW a \in Used(e) PROVE r.mem[a] = e.mem[a]
      OBVIOUS
    <2>1. a \in t .. (t + n - 1) => a \in t .. (t + l - 1)
      BY <1>s
    <2> QED  BY <2>1, <1>r, <1>u
  <1>new. ASSUME NEW k \in (m + 1) .. (m + n)
          PROVE  /\ r.prog[k].where = t + (k - m) - 1
                 /\ r.prog[k].where \in t .. (t + n - 1)
    <2>1. k - m \in 1 .. n /\ m + (k - m) = k
      BY <1>s
    <2>2. r.prog[m + (k - m)].where = t + (k - m) - 1
      BY <2>1, <1>r
    <2>3. t + (k - m) - 1 \in t .. (t + n - 1)
      BY <2>1, <1>s
    <2> QED  BY <2>1, <2>2, <2>3
  <1>entry. \A k \in 2 .. (m + 1) : entry(r, k) = entry(e, k)
    <2>1. \A k \in 2 .. (m + 1) : k - 1 \in 1 .. m
      BY <1>s
    <2> QED  BY <2>1, <1>r DEF entry
  <1>newentry. ASSUME NEW k \in (m + 2) .. (m + n + 1)
               PROVE  entry(r, k) = t + (k - m - 1) /\ entry(r, k) \in (t + 1) .. (t + n)
    <2>1. k - 1 \in (m + 1) .. (m + n)
      BY <1>s
    <2>2. r.prog[k - 1].where = t + ((k - 1) - m) - 1
      BY <2>1, <1>new
    <2> QED  BY <2>2, <1>s DEF entry
  <1>dest. \A k \in 1 .. m : dest(r, k) = dest(e, k)
    <2>1. \A k \in 1 .. m : k # End(e) /\ k # End(r)
      BY <1>s, <1>end, <1>r
    <2> QED  BY <2>1, <1>r DEF dest
  \* flow arrives at the next instruction as it arrived at tcp
  <1>next. /\ dest(r, m + 1) = t \/ (m > 0 => dest(r, m + 1) = entry(e, m + 1))
           /\ \A k \in 1 .. m :
                e.prog[k].kind = "fixup" /\ e.prog[k].target = m + 1 =>
                  \E x \in {entry(e, m + 1), dest(r, m + 1)} : e.mem[e.prog[k].at] = B(x)
    <2>t. dest(e, m + 1) = t
      BY <1>end, <1>tcp DEF dest
    <2>same. ASSUME dest(r, m + 1) = t
             PROVE  \A k \in 1 .. m :
                      e.prog[k].kind = "fixup" /\ e.prog[k].target = m + 1 =>
                        \E x \in {entry(e, m + 1), dest(r, m + 1)} : e.mem[e.prog[k].at] = B(x)
      <3>1. m + 1 # 0
        BY <1>s
      <3> QED  BY <3>1, <2>same, <2>t, <1>chain DEF FixupPut
    <2>none. CASE n = 0
      <3>1. dest(r, m + 1) = t
        BY <2>none, <1>r, <1>s DEF dest
      <3> QED  BY <3>1, <2>same
    <2>some. CASE n >= 1
      <3>1. m + 1 # End(r) /\ m + 1 \in (m + 1) .. (m + n)
        BY <2>some, <1>r, <1>s
      <3>2. r.prog[m + 1].where = t
        BY <3>1, <1>new, <1>s
      <3>3. CASE r.prog[m + 1].kind # "fixup"
        BY <3>1, <3>2, <3>3, <2>same DEF dest
      <3>4. CASE r.prog[m + 1].kind = "fixup"
        <4>1. 1 \in 1 .. n
          BY <2>some
        <4>2. PICK at \in Addresses : Handed(e, at) /\ Placeholder(e, r, at)
          BY <1>kinds, <4>1, <3>4
        <4>3. dest(r, m + 1) = at
          BY <4>2, <3>1, <3>4, <1>end DEF dest, Placeholder
        <4>4. CASE at = t
          BY <4>3, <4>4, <2>same
        <4>5. CASE at # t
          BY <4>2, <4>3, <4>5, <1>end, <1>tcp DEF Handed, m
        <4> QED  BY <4>4, <4>5
      <3> QED  BY <3>3, <3>4
    <2> QED  BY <2>none, <2>some
  <1>old. ASSUME NEW k \in 1 .. m
          PROVE  /\ r.mem[r.prog[k].where].op # "none"
                 /\ InsnPut(r, k) /\ FixupPut(r, k) /\ Alone(r, k) /\ CondPut(r, k)
    <2>w. r.prog[k] = e.prog[k] /\ r.mem[e.prog[k].where] = e.mem[e.prog[k].where]
          /\ (e.prog[k].kind = "fixup" => r.mem[e.prog[k].at] = e.mem[e.prog[k].at])
      BY <1>r, <1>u, <1>mem
    <2>c. /\ e.mem[e.prog[k].where].op # "none"
          /\ InsnPut(e, k) /\ FixupPut(e, k) /\ Alone(e, k) /\ CondPut(e, k)
      BY <1>chain
    <2>i. r.mem[r.prog[k].where].op # "none" /\ InsnPut(r, k)
      BY <2>w, <2>c DEF InsnPut
    <2>f. ASSUME e.prog[k].kind = "fixup", e.prog[k].target # 0
          PROVE  /\ e.prog[k].target \in (k + 1) .. End(r)
                 /\ \E x \in {entry(r, e.prog[k].target), dest(r, e.prog[k].target)} :
                      r.mem[e.prog[k].at] = B(x)
      <3>1. PICK x \in {entry(e, e.prog[k].target), dest(e, e.prog[k].target)} :
               e.mem[e.prog[k].at] = B(x)
        BY <2>c, <2>f DEF FixupPut
      <3>2. e.prog[k].target \in (k + 1) .. (m + 1)
        BY <2>c, <2>f, <1>end DEF FixupPut
      <3>n. \A j \in (k + 1) .. (m + 1) :
              /\ j \in 2 .. (m + 1) /\ j \in (k + 1) .. (m + n + 1)
              /\ j # m + 1 => j \in 1 .. m
        BY <1>s
      <3>3. CASE e.prog[k].target = m + 1
        <4>1. m + 1 \in 2 .. (m + 1) /\ m + 1 \in (k + 1) .. (m + n + 1)
          BY <3>2, <3>3, <3>n
        <4>2. PICK y \in {entry(e, m + 1), dest(r, m + 1)} : e.mem[e.prog[k].at] = B(y)
          BY <3>3, <2>f, <1>next
        <4>3. y \in {entry(r, m + 1), dest(r, m + 1)}
          BY <4>1, <4>2, <1>entry
        <4> QED  BY <3>3, <4>1, <4>2, <4>3, <2>f, <2>w, <1>r
      <3>4. CASE e.prog[k].target # m + 1
        <4>1. /\ e.prog[k].target \in 2 .. (m + 1) /\ e.prog[k].target \in 1 .. m
              /\ e.prog[k].target \in (k + 1) .. (m + n + 1)
          BY <3>2, <3>4, <3>n
        <4>2. x \in {entry(r, e.prog[k].target), dest(r, e.prog[k].target)}
          BY <4>1, <3>1, <1>entry, <1>dest
        <4> QED  BY <4>1, <4>2, <3>1, <2>f, <2>w, <1>r
      <3> QED  BY <3>3, <3>4
    <2>g. FixupPut(r, k)
      BY <2>c, <2>w, <2>f DEF FixupPut
    <2>a. ASSUME e.prog[k].kind = "fixup"
          PROVE  /\ \A j \in 1 .. (m + n) : j # k => e.prog[k].at # r.prog[j].where
                 /\ \A j \in 2 .. (m + n + 1) : j # k => e.prog[k].at # entry(r, j)
      <3>1. e.prog[k].at \in Used(e)
        BY <2>a, <1>u
      <3>2. ASSUME NEW j \in 1 .. (m + n), j # k PROVE e.prog[k].at # r.prog[j].where
        <4>1. CASE j \in 1 .. m
          BY <4>1, <3>2, <2>c, <2>a, <1>r DEF Alone, m
        <4>2. CASE j \in (m + 1) .. (m + n)
          <5>1. r.prog[j].where \in t .. (t + l - 1)
            BY <4>2, <1>new, <1>s
          <5> QED  BY <5>1, <3>1, <1>u
        <4> QED  BY <4>1, <4>2, <1>s
      <3>3. ASSUME NEW j \in 2 .. (m + n + 1), j # k PROVE e.prog[k].at # entry(r, j)
        <4>1. CASE j \in 2 .. (m + 1)
          BY <4>1, <3>3, <2>c, <2>a, <1>entry, <1>end DEF Alone
        <4>2. CASE j \in (m + 2) .. (m + n + 1)
          <5>1. entry(r, j) \in t .. (t + l - 1)
            BY <4>2, <1>newentry, <1>s
          <5> QED  BY <5>1, <3>1, <1>u
        <4> QED  BY <4>1, <4>2, <1>s
      <3> QED  BY <3>2, <3>3
    <2>b. Alone(r, k)
      BY <2>a, <2>w, <1>r DEF Alone
    <2>d. CondPut(r, k)
      <3>1. CASE k < m
        <4>1. k + 1 \in 1 .. m
          BY <3>1, <1>s
        <4> QED  BY <4>1, <3>1, <2>c, <2>w, <1>r DEF CondPut, m
      <3>2. CASE k = m
        <4>1. SUFFICES ASSUME e.prog[m].kind = "cond", m < m + n
                       PROVE  /\ r.prog[m + 1].kind = "fixup"
                              /\ r.prog[m + 1].where = e.prog[m].where + 1
          BY <3>2, <2>w, <1>r DEF CondPut
        <4>2. e.prog[m].where + 1 = t /\ r.prog[m + 1].kind = "fixup"
          BY <4>1, <3>2, <1>pair, <1>s
        <4>3. m + 1 \in (m + 1) .. (m + n)
          BY <4>1, <1>s
        <4> QED  BY <4>2, <4>3, <1>new, <1>s
      <3> QED  BY <3>1, <3>2, <1>s
    <2> QED  BY <2>i, <2>g, <2>b, <2>d
  <1>placed. ASSUME NEW k \in (m + 1) .. (m + n)
             PROVE  /\ r.mem[r.prog[k].where].op # "none"
                    /\ InsnPut(r, k) /\ FixupPut(r, k) /\ Alone(r, k) /\ CondPut(r, k)
                    /\ r.prog[k].kind = "fixup" /\ k > 1 =>
                         r.prog[k].at \in {entry(r, k), r.prog[k].where}
    <2>k. k - m \in 1 .. n /\ m + (k - m) = k
      BY <1>s
    <2>w. r.prog[k].where = t + (k - m) - 1
      BY <1>new
    <2>1. CASE \A i \in 1 .. n : /\ r.prog[m + i].kind = "insn"
                                 /\ r.mem[t + i - 1] = [op |-> "insn"]
      <3>1. r.prog[k].kind = "insn" /\ r.mem[r.prog[k].where] = [op |-> "insn"]
        BY <2>1, <2>k, <2>w
      <3> QED  BY <3>1 DEF InsnPut, FixupPut, Alone, CondPut
    <2>2. CASE n = 1 /\ r.prog[m + 1].kind = "cond" /\ r.mem[t] = [op |-> "insn"]
      <3>1. k = m + 1 /\ r.prog[k].where = t /\ ~(k < Len(r.prog))
        BY <2>2, <2>w, <1>s, <1>r
      <3> QED  BY <3>1, <2>2 DEF InsnPut, FixupPut, Alone, CondPut
    <2>3. CASE n = 1 /\ \E at \in Addresses : Handed(e, at) /\ Placeholder(e, r, at)
      <3>1. k = m + 1 /\ r.prog[k].where = t /\ k \in Nat /\ (k > 1 => m > 0)
        BY <2>3, <2>w, <1>s
      <3>2. PICK at \in Addresses : Handed(e, at) /\ Placeholder(e, r, at)
        BY <2>3
      <3>3. /\ r.prog[k].kind = "fixup" /\ r.prog[k].target = 0 /\ r.prog[k].at = at
            /\ r.mem[t] = B(t)
        BY <3>1, <3>2, <1>end, <1>tcp DEF Placeholder
      <3>4. \/ at = t
            \/ /\ at \in Used(e) /\ e.mem[at] = B(t) /\ at # t
               /\ \A j \in 1 .. m : at # e.prog[j].where
               /\ \A j \in 2 .. m : at # entry(e, j)
               /\ m > 0 => at = entry(e, m + 1)
        <4>1. t \in t .. (t + l - 1)
          BY <1>s
        <4> QED  BY <4>1, <3>2, <1>end, <1>tcp, <1>u DEF Handed, m, Used, B
      <3>5. FixupPut(r, k)
        BY <3>1, <3>3, <3>4, <1>mem DEF FixupPut
      <3>6. InsnPut(r, k) /\ CondPut(r, k) /\ r.mem[r.prog[k].where].op # "none"
        BY <3>1, <3>3 DEF InsnPut, CondPut, B
      <3>7. ASSUME NEW j \in 1 .. (m + n), j # k PROVE at # r.prog[j].where
        <4>1. j \in 1 .. m /\ t \in t .. (t + l - 1)
          BY <3>1, <3>7, <2>3, <1>s
        <4> QED  BY <4>1, <3>4, <1>r, <1>u
      <3>8. ASSUME NEW j \in 2 .. (m + n + 1), j # k PROVE at # entry(r, j)
        <4>1. CASE j \in 2 .. m
          <5>1. j \in 2 .. (m + 1) /\ t \in t .. (t + l - 1)
            BY <4>1, <1>s
          <5> QED  BY <5>1, <4>1, <3>4, <1>entry, <1>u
        <4>2. CASE j = m + 2
          <5>1. j \in (m + 2) .. (m + n + 1) /\ t + 1 \in t .. (t + l - 1) /\ t + 1 # t
            BY <4>2, <2>3, <1>s
          <5>2. entry(r, j) = t + (j - m - 1)
            BY <5>1, <1>newentry
          <5>3. entry(r, j) = t + 1
            BY <5>2, <4>2, <1>s
          <5> QED  BY <5>1, <5>3, <3>4, <1>u
        <4> QED  BY <4>1, <4>2, <3>1, <3>8, <2>3, <1>s
      <3>9. Alone(r, k)
        BY <3>3, <3>7, <3>8, <1>r DEF Alone
      <3>10. k > 1 => r.prog[k].at \in {entry(r, k), r.prog[k].where}
        <4>1. k > 1 => k \in 2 .. (m + 1)
          BY <3>1, <1>s
        <4> QED  BY <4>1, <3>1, <3>3, <3>4, <1>entry
      <3> QED  BY <3>3, <3>5, <3>6, <3>9, <3>10
    <2> QED  BY <1>kinds, <2>1, <2>2, <2>3
  <1>linked. ASSUME NEW k \in 2 .. (m + n + 1) PROVE Linked(r, k)
    <2>1. CASE k \in 2 .. m
      <3>1. k \in 2 .. (m + 1) /\ k \in 1 .. m
        BY <2>1, <1>s
      <3>2. Linked(e, k)
        BY <3>1, <1>chain
      <3> QED  BY <2>1, <3>1, <3>2, <1>u, <1>mem, <1>entry, <1>dest DEF Linked
    <2>2. CASE k = m + 1
      <3>1. k \in 2 .. (m + 1) /\ m > 0
        BY <2>2, <1>s
      <3>2. Linked(e, k) /\ dest(e, k) = t
        BY <2>2, <3>1, <1>chain, <1>end, <1>tcp DEF dest
      <3>3. entry(e, k) # t => /\ entry(e, k) \in Used(e)
                               /\ e.mem[entry(e, k)] = B(t)
        BY <3>2 DEF Linked, Used, B
      <3> QED  BY <2>2, <3>1, <3>3, <1>next, <1>entry, <1>mem, <1>u DEF Linked
    <2>3. CASE k \in (m + 2) .. (m + n + 1)
      <3>1. entry(r, k) = t + (k - m - 1)
        BY <2>3, <1>newentry
      <3>2. CASE k = m + n + 1
        BY <3>1, <3>2, <1>r, <1>s DEF Linked, dest
      <3>3. CASE k # m + n + 1
        <4>1. k \in (m + 1) .. (m + n) /\ k - m \in 1 .. n /\ m + (k - m) = k /\ n # 1
          BY <2>3, <3>3, <1>s
        <4>2. r.prog[k].where = t + (k - m) - 1
          BY <4>1, <1>new
        <4>3. r.prog[k].where = t + (k - m - 1)
          BY <4>1, <4>2, <1>s
        <4>4. r.prog[k].kind = "insn"
          BY <4>1, <1>kinds
        <4> QED  BY <3>1, <3>3, <4>3, <4>4, <1>r DEF Linked, dest
      <3> QED  BY <3>2, <3>3
    <2> QED  BY <2>1, <2>2, <2>3, <1>s
  <1>at. ASSUME NEW k \in 2 .. (m + n), r.prog[k].kind = "fixup"
         PROVE  r.prog[k].at \in {entry(r, k), r.prog[k].where}
    <2>1. CASE k \in 2 .. m
      <3>1. k \in 1 .. m /\ k \in 2 .. (m + 1)
        BY <2>1, <1>s
      <3> QED  BY <2>1, <3>1, <1>at, <1>r, <1>chain, <1>entry
    <2>2. CASE k \in (m + 1) .. (m + n)
      BY <2>2, <1>at, <1>placed
    <2> QED  BY <2>1, <2>2, <1>s
  <1>far. m + n > 0 /\ entry(r, m + n + 1) # t + n => l - n >= FragWords
    <2>1. CASE n = 0
      <3>1. m + n = m /\ t + n = t /\ l - n = l /\ (m > 0 => m + 1 \in 2 .. (m + 1))
        BY <2>1, <1>s
      <3> QED  BY <3>1, <1>chain, <1>entry
    <2>2. CASE n >= 1
      <3>1. m + n + 1 \in (m + 2) .. (m + n + 1)
        BY <2>2, <1>s
      <3>2. entry(r, m + n + 1) = t + ((m + n + 1) - m - 1)
        BY <3>1, <1>newentry
      <3>3. (m + n + 1) - m - 1 = n
        BY <1>s
      <3> QED  BY <3>2, <3>3
    <2> QED  BY <2>1, <2>2
  <1>all. \A k \in 1 .. (m + n) :
            /\ r.mem[r.prog[k].where].op # "none"
            /\ InsnPut(r, k) /\ FixupPut(r, k) /\ Alone(r, k) /\ CondPut(r, k)
    <2>1. \A k \in 1 .. (m + n) : k \in 1 .. m \/ k \in (m + 1) .. (m + n)
      BY <1>s
    <2> QED  BY <2>1, <1>old, <1>placed
  <1> QED  BY <1>all, <1>linked, <1>at, <1>far, <1>r DEF Chained

-----------------------------------------------------------------------------
Good(e) == Placed(e) /\ Blank(e) /\ Chained(e)

\* what put does, field by field
LEMMA PutFields ==
  ASSUME NEW e, Placed(e), e.page.left > 1, NEW word \in Words, NEW p \in Entries,
         NEW r, r = put(e, word, p)
  PROVE  /\ r \in Emissions
         /\ r.page.tcp = e.page.tcp + 1 /\ r.page.left = e.page.left - 1
         /\ r.page.base = e.page.base /\ r.free = e.free
         /\ r.mem = [e.mem EXCEPT ![e.page.tcp] = word]
         /\ r.prog = Append(e.prog, p)
  <1>s. e \in Emissions /\ e.free \in Seq(Bases) /\ e.mem \in [Addresses -> Words]
        /\ e.prog \in Seq(Entries)
        /\ e.page \in [tcp : Addresses, left : 0 .. (2 * FragWords), base : Bases]
    BY DEF Placed, Emissions
  <1>e. /\ e = [page |-> e.page, free |-> e.free, mem |-> e.mem, prog |-> e.prog]
        /\ e.page = [tcp |-> e.page.tcp, left |-> e.page.left, base |-> e.page.base]
    BY <1>s DEF Emissions
  <1>d. r = [page |-> [tcp |-> e.page.tcp + 1, left |-> e.page.left - 1, base |-> e.page.base],
             free |-> e.free, mem |-> [e.mem EXCEPT ![e.page.tcp] = word],
             prog |-> Append(e.prog, p)]
    BY <1>e DEF put
  <1>a. e.page.tcp + 1 \in Addresses /\ e.page.left - 1 \in 0 .. (2 * FragWords)
    <2> DEFINE t == e.page.tcp
               l == e.page.left
    <2>1. t \in Nat /\ l \in Nat /\ t + l <= Top /\ l > 1 /\ l \in 0 .. (2 * FragWords)
      BY Space, <1>s
    <2>2. Top \in Nat /\ Addresses = 0 .. (Top - 1) /\ FragWords \in Nat
      BY Cache
    <2> HIDE DEF t, l
    <2>3. t + 1 \in Addresses /\ l - 1 \in 0 .. (2 * FragWords)
      BY <2>1, <2>2
    <2> QED  BY <2>3 DEF t, l
  <1>m. [e.mem EXCEPT ![e.page.tcp] = word] \in [Addresses -> Words]
    BY <1>s
  <1>p. Append(e.prog, p) \in Seq(Entries)
    BY <1>s
  <1>t. r \in Emissions
    BY <1>d, <1>a, <1>m, <1>p, <1>s DEF Emissions
  <1> QED  BY <1>d, <1>t

\* a word put at tcp is emission of one word
LEMMA PutGrown ==
  ASSUME NEW e, Placed(e), e.page.left > 1, NEW word \in Words, NEW p \in Entries,
         p.where = e.page.tcp,
         \/ word = [op |-> "insn"] /\ p.kind \in {"insn", "cond"}
         \/ /\ word = B(e.page.tcp) /\ p.kind = "fixup" /\ p.target = 0
            /\ p.at \in Addresses /\ Handed(e, p.at),
         NEW r, r = put(e, word, p)
  PROVE  /\ Grown(e, r, 1)
         /\ r.prog = Append(e.prog, p) /\ Len(r.prog) = End(e) /\ r.prog[End(e)] = p
  <1>f. /\ r \in Emissions
        /\ r.page.tcp = e.page.tcp + 1 /\ r.page.left = e.page.left - 1
        /\ r.page.base = e.page.base /\ r.free = e.free
        /\ r.mem = [e.mem EXCEPT ![e.page.tcp] = word]
        /\ r.prog = Append(e.prog, p)
    BY PutFields
  <1>s. /\ e.page.tcp \in Nat /\ e.page.tcp \in Addresses /\ e.mem \in [Addresses -> Words]
        /\ e.prog \in Seq(Entries) /\ Len(e.prog) \in Nat
    BY Space
  <1>p. /\ Len(r.prog) = Len(e.prog) + 1 /\ r.prog[Len(e.prog) + 1] = p
        /\ \A k \in 1 .. Len(e.prog) : r.prog[k] = e.prog[k]
    BY <1>f, <1>s
  <1>m. /\ r.mem[e.page.tcp] = word
        /\ \A a \in Addresses : a # e.page.tcp => r.mem[a] = e.mem[a]
    BY <1>f, <1>s
  <1>t. /\ \A i \in 1 .. 1 : i = 1
        /\ e.page.tcp + 1 - 1 = e.page.tcp
        /\ \A a : a \notin e.page.tcp .. (e.page.tcp + 1 - 1) => a # e.page.tcp
    BY <1>s
  <1>k. \/ \A i \in 1 .. 1 : /\ r.prog[Len(e.prog) + i].kind = "insn"
                             /\ r.mem[e.page.tcp + i - 1] = [op |-> "insn"]
        \/ 1 = 1 /\ r.prog[End(e)].kind = "cond" /\ r.mem[e.page.tcp] = [op |-> "insn"]
        \/ 1 = 1 /\ \E at \in Addresses : Handed(e, at) /\ Placeholder(e, r, at)
    <2>1. CASE word = [op |-> "insn"] /\ p.kind = "insn"
      BY <2>1, <1>t, <1>p, <1>m
    <2>2. CASE word = [op |-> "insn"] /\ p.kind = "cond"
      BY <2>2, <1>p, <1>m DEF End
    <2>3. CASE /\ word = B(e.page.tcp) /\ p.kind = "fixup" /\ p.target = 0
               /\ p.at \in Addresses /\ Handed(e, p.at)
      BY <2>3, <1>p, <1>m DEF End, Placeholder
    <2> QED  BY <2>1, <2>2, <2>3
  <1>w. \A i \in 1 .. 1 : r.prog[Len(e.prog) + i].where = e.page.tcp + i - 1
    BY <1>t, <1>p
  <1>a. \A a \in Addresses : a \notin e.page.tcp .. (e.page.tcp + 1 - 1) => r.mem[a] = e.mem[a]
    BY <1>t, <1>m
  <1> QED  BY <1>f, <1>p, <1>k, <1>w, <1>a DEF Grown, End

LEMMA Concat ==
  ASSUME NEW s \in Seq(Entries), NEW q \in Seq(Entries)
  PROVE  /\ s \o q \in Seq(Entries) /\ Len(s \o q) = Len(s) + Len(q)
         /\ \A k \in 1 .. Len(s) : (s \o q)[k] = s[k]
         /\ \A i \in 1 .. Len(q) : (s \o q)[Len(s) + i] = q[i]
  <1>1. /\ s \o q \in Seq(Entries) /\ Len(s \o q) = Len(s) + Len(q)
        /\ \A k \in 1 .. Len(s) : (s \o q)[k] = s[k]
    OBVIOUS
  <1>2. ASSUME NEW i \in 1 .. Len(q) PROVE (s \o q)[Len(s) + i] = q[i]
    <2>1. Len(s) + i \in 1 .. (Len(s) + Len(q)) /\ Len(s) + i > Len(s)
          /\ (Len(s) + i) - Len(s) = i
      OBVIOUS
    <2> QED  BY <2>1
  <1> QED  BY <1>1, <1>2

\* padding is emission of n words
LEMMA PadsGrown ==
  ASSUME NEW e, Placed(e), NEW n \in Nat, n < e.page.left, NEW r, r = pads(e, n)
  PROVE  /\ Grown(e, r, n)
         /\ \A i \in 1 .. n : r.prog[Len(e.prog) + i].kind = "insn"
  <1> DEFINE t == e.page.tcp
             l == e.page.left
             q == [k \in 1 .. n |-> Insn(e.page.tcp + k - 1)]
             w == [a \in Addresses |-> IF a \in t .. (t + n - 1) THEN [op |-> "insn"]
                                       ELSE e.mem[a]]
  <1>s. e \in Emissions /\ e.free \in Seq(Bases) /\ e.mem \in [Addresses -> Words]
        /\ e.prog \in Seq(Entries)
        /\ e.page \in [tcp : Addresses, left : 0 .. (2 * FragWords), base : Bases]
    BY DEF Placed, Emissions
  <1>e. /\ e = [page |-> e.page, free |-> e.free, mem |-> e.mem, prog |-> e.prog]
        /\ e.page = [tcp |-> t, left |-> l, base |-> e.page.base]
    BY <1>s DEF Emissions
  <1>d. r = [page |-> [tcp |-> t + n, left |-> l - n, base |-> e.page.base],
             free |-> e.free, mem |-> w, prog |-> e.prog \o q]
    BY <1>e DEF pads
  <1>t. /\ t \in Nat /\ l \in Nat /\ t + l <= Top /\ n < l /\ l \in 0 .. (2 * FragWords)
        /\ Len(e.prog) \in Nat
    BY Space, <1>s
  <1>base. e.page.base \in Bases
    BY <1>s
  <1>c. Top \in Nat /\ Addresses = 0 .. (Top - 1) /\ FragWords \in Nat
    BY Cache
  <1>q. q \in Seq(Entries) /\ Len(q) = n /\ \A i \in 1 .. n : q[i] = Insn(t + i - 1)
    <2>1. ASSUME NEW i \in 1 .. n PROVE Insn(t + i - 1) \in Entries
      <3> HIDE DEF t, l
      <3>1. t + i - 1 \in Addresses
        BY <1>t, <1>c
      <3> QED  BY <3>1 DEF Insn, Entries
    <2>2. q \in [1 .. n -> Entries]
      BY <2>1
    <2>3. q \in Seq(Entries)
      BY <2>2
    <2> QED  BY <2>2, <2>3
  <1>w. w \in [Addresses -> Words]
    BY <1>s DEF Words
  <1>wf. /\ \A a \in Addresses : a \notin t .. (t + n - 1) => w[a] = e.mem[a]
         /\ \A a \in Addresses : a \in t .. (t + n - 1) => w[a] = [op |-> "insn"]
    OBVIOUS
  <1> HIDE DEF t, l, q, w
  <1>a. t + n \in Addresses /\ l - n \in 0 .. (2 * FragWords)
        /\ \A i \in 1 .. n : t + i - 1 \in Addresses /\ t + i - 1 \in t .. (t + n - 1)
    BY <1>t, <1>c
  <1>p. /\ e.prog \o q \in Seq(Entries) /\ Len(e.prog \o q) = Len(e.prog) + n
        /\ \A k \in 1 .. Len(e.prog) : (e.prog \o q)[k] = e.prog[k]
        /\ \A i \in 1 .. n : (e.prog \o q)[Len(e.prog) + i] = q[i]
    <2>1. e.prog \in Seq(Entries) /\ q \in Seq(Entries)
      BY <1>s, <1>q
    <2>2. /\ e.prog \o q \in Seq(Entries) /\ Len(e.prog \o q) = Len(e.prog) + Len(q)
          /\ \A k \in 1 .. Len(e.prog) : (e.prog \o q)[k] = e.prog[k]
          /\ \A i \in 1 .. Len(q) : (e.prog \o q)[Len(e.prog) + i] = q[i]
      BY <2>1, Concat
    <2>3. Len(q) = n
      BY <1>q
    <2> QED  BY <2>2, <2>3
  <1>r. r \in Emissions
    BY <1>d, <1>a, <1>w, <1>p, <1>s, <1>base DEF Emissions
  <1>f. /\ r.page.tcp = t + n /\ r.page.left = l - n
        /\ r.page.base = e.page.base /\ r.free = e.free
        /\ r.mem = w /\ r.prog = e.prog \o q
    BY <1>d
  <1>i. \A i \in 1 .. n : /\ r.prog[Len(e.prog) + i].kind = "insn"
                          /\ r.prog[Len(e.prog) + i].where = t + i - 1
                          /\ r.mem[t + i - 1] = [op |-> "insn"]
    BY <1>f, <1>p, <1>q, <1>a, <1>wf DEF Insn
  <1> QED  BY <1>r, <1>f, <1>p, <1>i, <1>wf DEF Grown, t, l

-----------------------------------------------------------------------------
(***************************************************************************)
(* The operations.  Going on in the next fragment makes room ...           *)
(***************************************************************************)
LEMMA NextGood ==
  ASSUME NEW e, Good(e), e.free # <<>>, e.page.left < FragWords,
         NEW r, r = jitcEmitNextFragment(e)
  PROVE  /\ Good(r) /\ r.prog = e.prog /\ r.page.left \in Nat /\ r.page.left >= FragWords
         /\ Handed(r, e.page.tcp)
  <1>1. Placed(r) /\ Blank(r) /\ r.page.left >= FragWords /\ r.prog = e.prog
    BY NextPlaced DEF Good
  <1>2. Chained(r) /\ Handed(r, e.page.tcp)
    BY NextChained DEF Good
  <1>3. r.page.left \in Nat
    BY <1>1, Space
  <1> QED  BY <1>1, <1>2, <1>3 DEF Good

LEMMA RoomGood ==
  ASSUME NEW e, Good(e), e.free # <<>> \/ e.page.left > 1, NEW r, r = emitRoom(e)
  PROVE  /\ Good(r) /\ r.prog = e.prog /\ r.page.left \in Nat /\ r.page.left > 1
         /\ Handed(r, e.page.tcp)
         /\ e.page.left > 1 => r = e
  <1>s. e.page.left \in Nat
    BY Space DEF Good
  <1>1. CASE e.page.left <= 1
    <2>1. e.page.left < FragWords /\ ~(e.page.left > 1) /\ e.free # <<>>
      BY <1>1, <1>s, Cache
    <2>2. r = jitcEmitNextFragment(e)
      BY <1>1 DEF emitRoom
    <2>3. \A n \in Nat : n >= FragWords => n > 1
      BY Cache
    <2> QED  BY <2>1, <2>2, <2>3, NextGood
  <1>2. CASE ~(e.page.left <= 1)
    <2>1. r = e /\ e.page.left > 1
      BY <1>2, <1>s DEF emitRoom
    <2> QED  BY <2>1, <1>s DEF Handed
  <1> QED  BY <1>1, <1>2

LEMMA AssureGood ==
  ASSUME NEW e, Good(e), e.free # <<>>, NEW size \in 1 .. (FragWords - 1),
         NEW r, r = emitAssure(e, size)
  PROVE  Good(r) /\ r.prog = e.prog /\ r.page.left \in Nat /\ r.page.left > size
  <1>s. e.page.left \in Nat /\ FragWords \in Nat
    BY Space, Cache DEF Good
  <1>1. CASE e.page.left < size + 1
    <2>1. e.page.left < FragWords
      BY <1>1, <1>s
    <2>2. r = jitcEmitNextFragment(e)
      BY <1>1 DEF emitAssure
    <2>3. \A n \in Nat : n >= FragWords => n > size
      BY <1>s
    <2> QED  BY <2>1, <2>2, <2>3, NextGood
  <1>2. CASE ~(e.page.left < size + 1)
    <2>1. r = e /\ e.page.left > size
      BY <1>2, <1>s DEF emitAssure
    <2> QED  BY <2>1, <1>s
  <1> QED  BY <1>1, <1>2

\* ... and an instruction, a condition or a placeholder is put where there is
LEMMA PutGood ==
  ASSUME NEW e, Good(e), e.page.left > 1, NEW word \in Words, NEW p \in Entries,
         p.where = e.page.tcp,
         \/ word = [op |-> "insn"] /\ p.kind \in {"insn", "cond"}
         \/ /\ word = B(e.page.tcp) /\ p.kind = "fixup" /\ p.target = 0
            /\ p.at \in Addresses /\ Handed(e, p.at),
         Whole(e) \/ (Len(e.prog) > 0 /\ e.prog[Len(e.prog)].where + 1 = e.page.tcp
                                      /\ p.kind = "fixup"),
         NEW r, r = put(e, word, p)
  PROVE  /\ Good(r) /\ r.page.left = e.page.left - 1 /\ r.page.left \in Nat
         /\ r.page.tcp = e.page.tcp + 1
         /\ Len(r.prog) \in Nat /\ Len(r.prog) > 0 /\ r.prog[Len(r.prog)] = p
         /\ r.free = e.free
  <1>g. Grown(e, r, 1) /\ Len(r.prog) = End(e) /\ r.prog[End(e)] = p
    BY PutGrown DEF Good
  <1>p. Placed(r) /\ Blank(r)
    BY <1>g, GrownPlaced DEF Good
  <1>w. Whole(e) \/ Paired(e, r)
    BY <1>g DEF Paired
  <1>c. Chained(r)
    BY <1>g, <1>w, GrownChained DEF Good
  <1>s. Len(e.prog) \in Nat /\ r.page.left \in Nat
    BY <1>p, Space DEF Good
  <1> QED  BY <1>g, <1>p, <1>c, <1>s DEF Good, Grown, End

LEMMA Emit32Good ==
  ASSUME NEW e, Good(e), Whole(e), e.free # <<>>, NEW r, r = emit32(e)
  PROVE  /\ Good(r) /\ Whole(r) /\ r.page.left \in Nat /\ r.page.left >= 1
         /\ e.page.left > 1 => r.page.left = e.page.left - 1
  <1>e. PICK q : q = emitRoom(e)
    OBVIOUS
  <1>q. /\ Good(q) /\ q.prog = e.prog /\ q.page.left \in Nat /\ q.page.left > 1
        /\ e.page.left > 1 => q = e
    BY <1>e, RoomGood
  <1>t. q.page.tcp \in Addresses
    BY <1>q, Space DEF Good
  <1>p. /\ [op |-> "insn"] \in Words /\ Insn(q.page.tcp) \in Entries
        /\ Insn(q.page.tcp).where = q.page.tcp /\ Insn(q.page.tcp).kind = "insn"
    BY <1>t DEF Words, Insn, Entries
  <1>w. Whole(q)
    BY <1>q DEF Whole
  <1>r. r = put(q, [op |-> "insn"], Insn(q.page.tcp))
    BY <1>e DEF emit32
  <1>g. /\ Good(r) /\ r.page.left = q.page.left - 1 /\ r.page.left \in Nat
        /\ Len(r.prog) > 0 /\ r.prog[Len(r.prog)] = Insn(q.page.tcp)
    BY <1>q, <1>p, <1>w, <1>r, PutGood
  <1>o. Whole(r)
    BY <1>g, <1>p DEF Whole
  <1> QED  BY <1>g, <1>o, <1>q

LEMMA EmitBGood ==
  ASSUME NEW e, Good(e), e.free # <<>> \/ e.page.left > 1,
         Whole(e) \/ (Len(e.prog) > 0 /\ e.prog[Len(e.prog)].where + 1 = e.page.tcp
                                      /\ e.page.left > 1),
         NEW r, r = emitB(e, e.page.tcp)
  PROVE  Good(r) /\ Whole(r) /\ r.page.left \in Nat /\ r.page.left >= 1
  <1>e. PICK q : q = emitRoom(e)
    OBVIOUS
  <1>q. /\ Good(q) /\ q.prog = e.prog /\ q.page.left \in Nat /\ q.page.left > 1
        /\ Handed(q, e.page.tcp)
        /\ e.page.left > 1 => q = e
    BY <1>e, RoomGood
  <1>t. q.page.tcp \in Addresses /\ e.page.tcp \in Addresses
    BY <1>q, Space DEF Good
  <1> DEFINE p == Fixup(q.page.tcp, e.page.tcp)
  <1>p. /\ B(q.page.tcp) \in Words /\ p \in Entries
        /\ p.where = q.page.tcp /\ p.kind = "fixup" /\ p.at = e.page.tcp /\ p.target = 0
    BY <1>t DEF Words, B, Fixup, Entries
  <1>w. Whole(q) \/ (Len(q.prog) > 0 /\ q.prog[Len(q.prog)].where + 1 = q.page.tcp)
    BY <1>q DEF Whole
  <1>r. r = put(q, B(q.page.tcp), p)
    BY <1>e DEF emitB, B
  <1> HIDE DEF p
  <1>g. /\ Good(r) /\ r.page.left = q.page.left - 1 /\ r.page.left \in Nat
        /\ Len(r.prog) > 0 /\ r.prog[Len(r.prog)] = p
    BY <1>q, <1>p, <1>t, <1>w, <1>r, PutGood
  <1>o. Whole(r)
    BY <1>g, <1>p DEF Whole
  <1> QED  BY <1>g, <1>o, <1>q

LEMMA CondGood ==
  ASSUME NEW e, Good(e), Whole(e), e.free # <<>>, NEW r, r = condFixup(e)
  PROVE  Good(r) /\ Whole(r) /\ r.page.left \in Nat /\ r.page.left >= 1
  <1>a. PICK a : a = emitAssure(e, 2)
    OBVIOUS
  <1>q. PICK q : q = emitRoom(a)
    OBVIOUS
  <1>c. PICK c : c = put(q, [op |-> "insn"], Cond(q.page.tcp))
    OBVIOUS
  <1>2. 2 \in 1 .. (FragWords - 1)
    BY Cache
  <1>ga. Good(a) /\ a.prog = e.prog /\ a.page.left \in Nat /\ a.page.left > 2
    BY <1>a, <1>2, AssureGood
  <1>gq. q = a
    BY <1>q, <1>ga DEF emitRoom
  <1>t. q.page.tcp \in Addresses
    BY <1>ga, <1>gq, Space DEF Good
  <1>p. /\ [op |-> "insn"] \in Words /\ Cond(q.page.tcp) \in Entries
        /\ Cond(q.page.tcp).where = q.page.tcp /\ Cond(q.page.tcp).kind = "cond"
    BY <1>t DEF Words, Cond, Entries
  <1>w. Whole(q) /\ q.page.left > 1
    BY <1>ga, <1>gq DEF Whole
  <1>gc. /\ Good(c) /\ c.page.left = q.page.left - 1 /\ c.page.left \in Nat
         /\ c.page.tcp = q.page.tcp + 1 /\ c.free = q.free
         /\ Len(c.prog) > 0 /\ c.prog[Len(c.prog)] = Cond(q.page.tcp)
    BY <1>c, <1>p, <1>w, <1>ga, <1>gq, PutGood
  <1>m. c.page.left > 1 /\ c.prog[Len(c.prog)].where + 1 = c.page.tcp
    BY <1>gc, <1>gq, <1>ga, <1>p
  <1>r. r = emitB(c, c.page.tcp)
    BY <1>a, <1>q, <1>c DEF condFixup, asmHERE
  <1> QED  BY <1>gc, <1>m, <1>r, EmitBGood

\* padding stays in what is left; a fragment that is branched to needs none
LEMMA PadsGood ==
  ASSUME NEW e, Good(e), Whole(e), NEW n \in Nat, n < e.page.left, NEW r, r = pads(e, n)
  PROVE  Good(r) /\ Whole(r) /\ r.page.left \in Nat /\ r.page.left >= 1
  <1>g. Grown(e, r, n) /\ \A i \in 1 .. n : r.prog[Len(e.prog) + i].kind = "insn"
    BY PadsGrown DEF Good
  <1>p. Placed(r) /\ Blank(r)
    BY <1>g, GrownPlaced DEF Good
  <1>c. Chained(r)
    BY <1>g, GrownChained DEF Good
  <1>s. Len(e.prog) \in Nat /\ r.page.left \in Nat /\ r.page.left >= 1
    BY <1>p, Space DEF Good, Placed
  <1>l. /\ Len(r.prog) = Len(e.prog) + n
        /\ \A k \in 1 .. Len(e.prog) : r.prog[k] = e.prog[k]
    BY <1>g DEF Grown
  <1>w. Whole(r)
    <2>1. CASE n = 0
      <3>1. Len(r.prog) = Len(e.prog)
        BY <2>1, <1>l, <1>s
      <3>2. Len(e.prog) > 0 => Len(e.prog) \in 1 .. Len(e.prog)
        BY <1>s
      <3> QED  BY <3>1, <3>2, <1>l DEF Whole
    <2>2. CASE n # 0
      BY <2>2, <1>l, <1>g DEF Whole
    <2> QED  BY <2>1, <2>2
  <1> QED  BY <1>p, <1>c, <1>w, <1>s DEF Good

LEMMA AlignGood ==
  ASSUME NEW e, Good(e), Whole(e), e.free # <<>>, NEW r, r = jitcEmitAlign(e)
  PROVE  Good(r) /\ Whole(r) /\ r.page.left \in Nat /\ r.page.left >= 1
  <1> DEFINE n == (AlignWords - (e.page.tcp % AlignWords)) % AlignWords
  <1>q. PICK q : q = jitcEmitNextFragment(e)
    OBVIOUS
  <1>s. e.page.tcp \in Nat /\ e.page.left \in Nat /\ e.page.left >= 1
    BY Space DEF Good, Placed
  <1>n. n \in 0 .. (AlignWords - 1)
    <2>1. AlignWords \in Nat \ {0}
      BY EmitterAssumption
    <2>2. e.page.tcp % AlignWords \in Int
      BY <2>1, <1>s
    <2>3. AlignWords - (e.page.tcp % AlignWords) \in Int
      BY <2>1, <2>2
    <2> QED  BY <2>1, <2>3
  <1>f. n \in Nat /\ n + 1 < FragWords /\ FragWords \in Nat
    <2>1. AlignWords \in Nat \ {0} /\ AlignWords < FragWords
      BY EmitterAssumption
    <2> HIDE DEF n
    <2> QED  BY <2>1, <1>n, Cache
  <1>r. r = IF n = 0 THEN e
            ELSE IF e.page.left >= n + 1 THEN pads(e, n)
            ELSE IF q.page.tcp = e.page.tcp THEN pads(q, n)
            ELSE q
    BY <1>q DEF jitcEmitAlign
  <1> HIDE DEF n
  <1>1. CASE n = 0
    BY <1>1, <1>r, <1>s
  <1>2. CASE n # 0 /\ e.page.left >= n + 1
    <2>1. r = pads(e, n) /\ n < e.page.left
      BY <1>2, <1>r, <1>f, <1>s
    <2> QED  BY <2>1, <1>f, PadsGood
  <1>3. CASE n # 0 /\ ~(e.page.left >= n + 1)
    <2>1. e.page.left < FragWords
      BY <1>3, <1>f, <1>s
    <2>2. Good(q) /\ q.prog = e.prog /\ q.page.left \in Nat /\ q.page.left >= FragWords
      BY <1>q, <2>1, NextGood
    <2>3. Whole(q) /\ q.page.left >= 1 /\ n < q.page.left
      BY <2>2, <1>f DEF Whole
    <2>4. r = pads(q, n) \/ r = q
      BY <1>3, <1>r
    <2> QED  BY <2>2, <2>3, <2>4, <1>f, PadsGood
  <1> QED  BY <1>1, <1>2, <1>3

LEMMA Replaced ==
  ASSUME NEW s \in Seq(Entries), NEW k \in 1 .. Len(s), NEW p \in Entries,
         NEW q, q = [s EXCEPT ![k] = p]
  PROVE  /\ q \in Seq(Entries) /\ Len(q) = Len(s) /\ q[k] = p
         /\ \A j \in 1 .. Len(s) : j # k => q[j] = s[j]
  OBVIOUS

(***************************************************************************)
(* Resolving a fixup changes one word: the fixup's own, or the linking     *)
(* branch that leads to it and to nothing else.                            *)
(***************************************************************************)
LEMMA ResolveGood ==
  ASSUME NEW e, Good(e), Whole(e), NEW k \in 1 .. Len(e.prog),
         e.prog[k].kind = "fixup", e.prog[k].target = 0, NEW r,
         r = [page |-> e.page, free |-> e.free,
              mem |-> [e.mem EXCEPT ![e.prog[k].at] = B(e.page.tcp)],
              prog |-> [e.prog EXCEPT ![k].target = End(e)]]
  PROVE  Good(r) /\ Whole(r)
  <1> DEFINE at == e.prog[k].at
  <1>s. /\ e \in Emissions /\ e.page.tcp \in Addresses /\ e.mem \in [Addresses -> Words]
        /\ e.prog \in Seq(Entries) /\ Len(e.prog) \in Nat /\ k \in Nat
    BY Space DEF Good, Placed
  <1>good. Placed(e) /\ Blank(e) /\ Chained(e)
    BY DEF Good
  <1>u. at \in Used(e) /\ at \in Addresses
    BY <1>good, ChainUsed DEF Used
  <1>p. e.prog[k] \in [kind : {"fixup"}, where : Addresses, at : Addresses, target : Nat]
    <2>1. e.prog[k] \in Entries
      BY <1>s
    <2> QED  BY <2>1 DEF Entries
  <1>f. r.page = e.page /\ r.free = e.free
        /\ r.mem = [e.mem EXCEPT ![at] = B(e.page.tcp)]
        /\ r.prog = [e.prog EXCEPT ![k].target = End(e)]
    OBVIOUS
  <1>prog. /\ r.prog \in Seq(Entries) /\ Len(r.prog) = Len(e.prog)
           /\ \A j \in 1 .. Len(e.prog) : j # k => r.prog[j] = e.prog[j]
           /\ r.prog[k].kind = "fixup" /\ r.prog[k].where = e.prog[k].where
           /\ r.prog[k].at = at /\ r.prog[k].target = End(e)
    <2>0. PICK p : p = e.prog[k]
      OBVIOUS
    <2> DEFINE new == [kind |-> "fixup", where |-> p.where, at |-> p.at, target |-> End(e)]
    <2>p. p = [kind |-> "fixup", where |-> p.where, at |-> p.at, target |-> p.target]
          /\ p.where \in Addresses /\ p.at \in Addresses
      BY <1>p, <2>0
    <2>1. new = [p EXCEPT !.target = End(e)]
      BY <2>p
    <2>2. r.prog = [e.prog EXCEPT ![k] = new]
      BY <1>f, <2>0, <2>1
    <2>3. End(e) \in Nat
      BY <1>s DEF End
    <2>4. new \in Entries
      BY <2>p, <2>3 DEF Entries
    <2>5. new.kind = "fixup" /\ new.where = p.where /\ new.at = p.at /\ new.target = End(e)
      OBVIOUS
    <2> HIDE DEF new
    <2>6. /\ r.prog \in Seq(Entries) /\ Len(r.prog) = Len(e.prog)
          /\ r.prog[k] = new
          /\ \A j \in 1 .. Len(e.prog) : j # k => r.prog[j] = e.prog[j]
      <3>1. PICK s, q : s = e.prog /\ q = r.prog
        OBVIOUS
      <3>2. s \in Seq(Entries) /\ k \in 1 .. Len(s) /\ q = [s EXCEPT ![k] = new]
        BY <3>1, <2>2, <1>s
      <3>3. /\ q \in Seq(Entries) /\ Len(q) = Len(s) /\ q[k] = new
            /\ \A j \in 1 .. Len(s) : j # k => q[j] = s[j]
        BY <3>2, <2>4, Replaced
      <3> QED  BY <3>1, <3>3
    <2> QED  BY <2>0, <2>5, <2>6
  <1>mem. /\ r.mem \in [Addresses -> Words] /\ r.mem[at] = B(e.page.tcp)
          /\ \A a \in Addresses : a # at => r.mem[a] = e.mem[a]
    <2>1. B(e.page.tcp) \in Words
      BY <1>s DEF B, Words
    <2> QED  BY <2>1, <1>f, <1>s, <1>u
  <1>placed. Placed(r)
    <2>1. r \in Emissions
      BY <1>s, <1>mem, <1>prog DEF Emissions
    <2> QED  BY <2>1, <1>f, <1>good DEF Placed
  <1>blank. Blank(r)
    <2>1. \A a : e.mem[a].op = "none" => r.mem[a] = e.mem[a]
      BY <1>f, <1>u, <1>s DEF Used
    <2> QED  BY <2>1, <1>f, <1>good DEF Blank
  <1>same. ASSUME NEW j \in 1 .. Len(e.prog)
           PROVE  /\ r.prog[j].kind = e.prog[j].kind /\ r.prog[j].where = e.prog[j].where
                  /\ e.prog[j].kind = "fixup" => r.prog[j].at = e.prog[j].at
    BY <1>prog
  <1>e. /\ End(r) = End(e)
        /\ \A j \in 2 .. End(e) : entry(r, j) = entry(e, j)
        /\ \A j \in 1 .. End(e) : dest(r, j) = dest(e, j)
    <2>1. End(r) = End(e)
      BY <1>prog DEF End
    <2>2. ASSUME NEW j \in 2 .. End(e) PROVE entry(r, j) = entry(e, j)
      <3>1. j - 1 \in 1 .. Len(e.prog)
        BY <1>s DEF End
      <3> QED  BY <3>1, <1>same DEF entry
    <2>3. ASSUME NEW j \in 1 .. End(e) PROVE dest(r, j) = dest(e, j)
      <3>1. CASE j = End(e)
        BY <3>1, <2>1, <1>f DEF dest
      <3>2. CASE j # End(e)
        <4>1. j \in 1 .. Len(e.prog)
          BY <3>2, <1>s DEF End
        <4> QED  BY <4>1, <3>2, <2>1, <1>same DEF dest
      <3> QED  BY <3>1, <3>2
    <2> QED  BY <2>1, <2>2, <2>3
  <1>chain. /\ \A j \in 1 .. Len(e.prog) : /\ e.mem[e.prog[j].where].op # "none"
                                           /\ InsnPut(e, j) /\ FixupPut(e, j)
                                           /\ Alone(e, j) /\ CondPut(e, j)
            /\ \A j \in 2 .. End(e) : Linked(e, j)
            /\ \A j \in 2 .. Len(e.prog) :
                 e.prog[j].kind = "fixup" => e.prog[j].at \in {entry(e, j), e.prog[j].where}
            /\ Len(e.prog) > 0 /\ entry(e, End(e)) # e.page.tcp => e.page.left >= FragWords
    BY <1>good DEF Chained
  <1>alone. /\ \A j \in 1 .. Len(e.prog) : j # k => at # e.prog[j].where
            /\ \A j \in 2 .. End(e) : j # k => at # entry(e, j)
    BY <1>chain DEF Alone
  <1>used. \A j \in 1 .. Len(e.prog) : /\ e.prog[j].where \in Addresses
                                       /\ e.prog[j].kind = "fixup" => e.prog[j].at \in Addresses
    BY <1>good, ChainUsed DEF Used
  <1>other. ASSUME NEW j \in 1 .. Len(e.prog), j # k, e.prog[j].kind = "fixup"
            PROVE  at # e.prog[j].at
    <2>1. CASE j \in 2 .. Len(e.prog)
      <3>1. j \in 2 .. End(e)
        BY <2>1, <1>s DEF End
      <3> QED  BY <3>1, <2>1, <1>other, <1>chain, <1>alone
    <2>2. CASE j = 1
      <3>1. k \in 2 .. Len(e.prog) /\ k \in 2 .. End(e) /\ k # j
        BY <2>2, <1>other, <1>s DEF End
      <3>2. at \in {entry(e, k), e.prog[k].where}
        BY <3>1, <1>chain
      <3>3. e.prog[j].at # e.prog[k].where /\ e.prog[j].at # entry(e, k)
        BY <3>1, <1>chain, <1>other DEF Alone
      <3> QED  BY <3>2, <3>3
    <2> QED  BY <2>1, <2>2, <1>s
  <1> HIDE DEF at
  <1>k. ASSUME NEW j \in 1 .. Len(e.prog)
        PROVE  /\ r.mem[r.prog[j].where].op # "none"
               /\ InsnPut(r, j) /\ FixupPut(r, j) /\ Alone(r, j) /\ CondPut(r, j)
    <2>c. /\ e.mem[e.prog[j].where].op # "none"
          /\ InsnPut(e, j) /\ FixupPut(e, j) /\ Alone(e, j) /\ CondPut(e, j)
      BY <1>chain
    <2>w. r.mem[r.prog[j].where].op # "none"
      <3>1. CASE e.prog[j].where = at
        BY <3>1, <1>same, <1>mem DEF B
      <3>2. CASE e.prog[j].where # at
        BY <3>2, <1>same, <1>mem, <1>used, <2>c
      <3> QED  BY <3>1, <3>2
    <2>i. InsnPut(r, j)
      <3>1. CASE j = k
        BY <3>1, <1>prog DEF InsnPut
      <3>2. CASE j # k
        BY <3>2, <1>same, <1>alone, <1>mem, <1>used, <2>c DEF InsnPut
      <3> QED  BY <3>1, <3>2
    <2>a. Alone(r, j)
      <3>1. ASSUME e.prog[j].kind = "fixup"
            PROVE  /\ \A l \in 1 .. Len(e.prog) : l # j => e.prog[j].at # r.prog[l].where
                   /\ \A l \in 2 .. End(e) : l # j => e.prog[j].at # entry(r, l)
        BY <3>1, <2>c, <1>same, <1>e DEF Alone
      <3>2. /\ Len(r.prog) = Len(e.prog) /\ End(r) = End(e)
            /\ r.prog[j].kind = e.prog[j].kind
            /\ e.prog[j].kind = "fixup" => r.prog[j].at = e.prog[j].at
        BY <1>same, <1>e, <1>prog
      <3> QED  BY <3>1, <3>2 DEF Alone
    <2>d. CondPut(r, j)
      <3>1. ASSUME j < Len(e.prog)
            PROVE  /\ r.prog[j + 1].kind = e.prog[j + 1].kind
                   /\ r.prog[j + 1].where = e.prog[j + 1].where
        <4>1. j + 1 \in 1 .. Len(e.prog)
          BY <3>1, <1>s
        <4> QED  BY <4>1, <1>same
      <3> QED  BY <3>1, <2>c, <1>same, <1>prog DEF CondPut
    <2>f. FixupPut(r, j)
      <3>1. CASE j = k
        <4>1. End(e) \in (k + 1) .. End(e) /\ End(e) # 0 /\ End(e) \in 1 .. End(e)
          BY <1>s DEF End
        <4>2. dest(r, End(e)) = e.page.tcp
          BY <4>1, <1>e DEF dest
        <4> QED  BY <3>1, <4>1, <4>2, <1>prog, <1>mem, <1>e DEF FixupPut
      <3>2. CASE j # k
        <4>1. r.prog[j] = e.prog[j]
          BY <3>2, <1>prog
        <4>2. CASE e.prog[j].kind = "fixup"
          <5>1. /\ r.mem[e.prog[j].at] = e.mem[e.prog[j].at]
                /\ r.mem[e.prog[j].where] = e.mem[e.prog[j].where]
            BY <3>2, <4>2, <1>other, <1>alone, <1>mem, <1>used
          <5>2. ASSUME e.prog[j].target # 0
                PROVE  /\ e.prog[j].target \in (j + 1) .. End(e)
                       /\ \E x \in {entry(r, e.prog[j].target), dest(r, e.prog[j].target)} :
                            r.mem[e.prog[j].at] = B(x)
            <6>1. /\ e.prog[j].target \in (j + 1) .. End(e)
                  /\ \E x \in {entry(e, e.prog[j].target), dest(e, e.prog[j].target)} :
                       e.mem[e.prog[j].at] = B(x)
              BY <2>c, <4>2, <5>2 DEF FixupPut
            <6>2. e.prog[j].target \in 2 .. End(e) /\ e.prog[j].target \in 1 .. End(e)
              BY <6>1, <1>s DEF End
            <6> QED  BY <6>1, <6>2, <5>1, <1>e
          <5> QED  BY <2>c, <4>1, <4>2, <5>1, <5>2, <1>e DEF FixupPut
        <4>3. CASE e.prog[j].kind # "fixup"
          BY <4>1, <4>3 DEF FixupPut
        <4> QED  BY <4>2, <4>3
      <3> QED  BY <3>1, <3>2
    <2> QED  BY <2>w, <2>i, <2>a, <2>d, <2>f
  <1>l. ASSUME NEW j \in 2 .. End(e) PROVE Linked(r, j)
    <2>1. j \in 1 .. End(e) /\ Linked(e, j)
      BY <1>chain, <1>s DEF End
    <2>2. entry(e, j) # dest(e, j) => entry(e, j) # at
      <3>1. CASE j = k
        <4>1. dest(e, j) = at
          BY <3>1, <1>s DEF dest, End, at
        <4> QED  BY <4>1
      <3>2. CASE j # k
        BY <3>2, <1>alone
      <3> QED  BY <3>1, <3>2
    <2> QED  BY <2>1, <2>2, <1>e, <1>mem DEF Linked
  <1>a. ASSUME NEW j \in 2 .. Len(e.prog), r.prog[j].kind = "fixup"
        PROVE  r.prog[j].at \in {entry(r, j), r.prog[j].where}
    <2>1. j \in 1 .. Len(e.prog) /\ j \in 2 .. End(e)
      BY <1>s DEF End
    <2> QED  BY <2>1, <1>a, <1>chain, <1>same, <1>e
  <1>far. Len(r.prog) > 0 /\ entry(r, End(r)) # r.page.tcp => r.page.left >= FragWords
    <2>1. Len(e.prog) > 0 => End(e) \in 2 .. End(e)
      BY <1>s DEF End
    <2> QED  BY <2>1, <1>chain, <1>e, <1>prog, <1>f
  <1>chained. Chained(r)
    BY <1>k, <1>l, <1>a, <1>far, <1>e, <1>prog DEF Chained
  <1>whole. Whole(r)
    <2>1. Len(e.prog) > 0 => Len(e.prog) \in 1 .. Len(e.prog)
      BY <1>s
    <2> QED  BY <2>1, <1>same, <1>prog DEF Whole
  <1> QED  BY <1>placed, <1>blank, <1>chained, <1>whole DEF Good

-----------------------------------------------------------------------------
(***************************************************************************)
(* The invariant: the space is sound, the chain of instructions is whole,  *)
(* and there is more left than has been promised.                          *)
(***************************************************************************)
EmitInv ==
    /\ Good(State) /\ Whole(State)
    /\ assured \in 0 .. FragWords
    /\ page.left > assured

LEMMA InitGood ==
  ASSUME NEW b \in Bases, NEW n \in 0 .. (FragWords - 1), NEW s \in Orders,
         \A k \in DOMAIN s : s[k] # b, NEW e,
         e = [page |-> [tcp |-> b + n, left |-> FragWords - n, base |-> b],
              free |-> s, mem |-> [a \in Addresses |-> [op |-> "none"]], prog |-> <<>>]
  PROVE  Good(e) /\ Whole(e)
  <1>c. /\ FragWords \in Nat /\ FragWords > 2 /\ Top \in Nat /\ Addresses = 0 .. (Top - 1)
        /\ \A a \in Bases : a \in Nat /\ a + FragWords <= Top
        /\ \A a, d \in Bases : a = d \/ a + FragWords <= d \/ d + FragWords <= a
    BY Cache
  <1>n. NumFrags - 1 \in Nat
    BY EmitterAssumption
  <1>s. /\ s \in Seq(Bases) /\ Len(s) = NumFrags - 1
        /\ \A j \in 1 .. Len(s) : s[j] # b /\ \A l \in 1 .. Len(s) : j # l => s[j] # s[l]
    <2>1. s \in [1 .. (NumFrags - 1) -> Bases] /\ DOMAIN s = 1 .. (NumFrags - 1)
          /\ \A a, d \in DOMAIN s : a # d => s[a] # s[d]
      BY DEF Orders
    <2>2. s \in Seq(Bases) /\ Len(s) = NumFrags - 1
      BY <2>1, <1>n
    <2> QED  BY <2>1, <2>2
  <1>f. /\ e.page = [tcp |-> b + n, left |-> FragWords - n, base |-> b] /\ e.free = s
        /\ e.mem = [a \in Addresses |-> [op |-> "none"]] /\ e.prog = <<>>
        /\ e.page.tcp = b + n /\ e.page.left = FragWords - n /\ e.page.base = b
        /\ Len(e.prog) = 0 /\ End(e) = 1
    BY DEF End
  <1>b. b \in Nat /\ b + n \in Addresses /\ FragWords - n \in 0 .. (2 * FragWords)
        /\ FragWords - n >= 1 /\ (b + n) + (FragWords - n) = b + FragWords
        /\ b + n >= b /\ b + n \in Nat /\ FragWords - n \in Nat
    BY <1>c
  <1>t. e \in Emissions
    <2>1. [a \in Addresses |-> [op |-> "none"]] \in [Addresses -> Words]
      BY DEF Words
    <2>2. <<>> \in Seq(Entries)
      OBVIOUS
    <2> QED  BY <2>1, <2>2, <1>s, <1>b DEF Emissions
  <1>p. \A j \in 1 .. Len(s) : s[j] + FragWords <= b + n \/ b + FragWords <= s[j]
    <2> SUFFICES ASSUME NEW j \in 1 .. Len(s)
                 PROVE  s[j] + FragWords <= b + n \/ b + FragWords <= s[j]
      OBVIOUS
    <2>1. PICK x \in Bases : x = s[j]
      BY <1>s
    <2>2. x # b /\ x \in Nat
      BY <2>1, <1>s, <1>c
    <2>3. x + FragWords <= b \/ b + FragWords <= x
      BY <2>2, <1>c
    <2> QED  BY <2>1, <2>2, <2>3, <1>b, <1>c
  <1>placed. Placed(e)
    BY <1>t, <1>b, <1>p, <1>s, <1>f DEF Placed
  <1>m. \A a \in Addresses : e.mem[a].op = "none"
    BY <1>f
  <1>blank. Blank(e)
    <2>1. \A a \in (b + n) .. ((b + n) + (FragWords - n) - 1) : a \in Addresses
      <3>1. b + FragWords <= Top
        BY <1>c
      <3> QED  BY <3>1, <1>b, <1>c
    <2>2. ASSUME NEW j \in 1 .. Len(s), NEW a \in s[j] .. (s[j] + FragWords - 1)
          PROVE  a \in Addresses
      <3>1. PICK x \in Bases : x = s[j]
        BY <1>s
      <3>2. x \in Nat /\ x + FragWords <= Top /\ a \in x .. (x + FragWords - 1)
        BY <3>1, <1>c
      <3> QED  BY <3>2, <1>c
    <2> QED  BY <2>1, <2>2, <1>m, <1>f DEF Blank
  <1>chained. Chained(e)
    BY <1>f DEF Chained
  <1> QED  BY <1>placed, <1>blank, <1>chained, <1>f DEF Good, Whole

LEMMA EmitStart == Init => EmitInv
  <1> SUFFICES ASSUME Init PROVE EmitInv
    OBVIOUS
  <1>1. PICK b \in Bases, n \in 0 .. (FragWords - 1) :
          /\ page = [tcp |-> b + n, left |-> FragWords - n, base |-> b]
          /\ free \in {s \in Orders : \A k \in DOMAIN s : s[k] # b}
    BY DEF Init
  <1>2. /\ free \in Orders /\ \A k \in DOMAIN free : free[k] # b
        /\ State = [page |-> [tcp |-> b + n, left |-> FragWords - n, base |-> b],
                    free |-> free, mem |-> [a \in Addresses |-> [op |-> "none"]],
                    prog |-> <<>>]
        /\ assured = 0
    BY <1>1 DEF Init, State
  <1>3. Good(State) /\ Whole(State)
    BY <1>2, InitGood
  <1>4. page.left > assured /\ assured \in 0 .. FragWords
    BY <1>1, <1>2, Cache
  <1> QED  BY <1>3, <1>4 DEF EmitInv

LEMMA EmitKept == EmitInv /\ [Next]_vars => EmitInv'
  <1> SUFFICES ASSUME EmitInv, [Next]_vars PROVE EmitInv'
    OBVIOUS
  <1>s. /\ State.page = page /\ State.free = free /\ State.mem = mem /\ State.prog = prog
        /\ Good(State) /\ Whole(State) /\ assured \in 0 .. FragWords /\ page.left > assured
        /\ page.left \in Nat /\ FragWords \in Nat /\ FragWords > 2
    BY Space, Cache DEF State, EmitInv, Good
  \* the state after an operation
  <1>b. ASSUME NEW e, Good(e), Becomes(e) PROVE State' = e /\ page'.left = e.page.left
    <2>1. e \in Emissions
      BY <1>b DEF Good, Placed
    <2>2. e = [page |-> e.page, free |-> e.free, mem |-> e.mem, prog |-> e.prog]
      BY <2>1 DEF Emissions
    <2> QED  BY <2>2, <1>b DEF Becomes, State
  <1>emit. CASE Emit
    <2>1. PICK e : e = emit32(State)
      OBVIOUS
    <2>2. State.free # <<>> /\ Becomes(e)
      BY <1>emit, <2>1, <1>s DEF Emit, Room
    <2>3. /\ Good(e) /\ Whole(e) /\ e.page.left \in Nat /\ e.page.left >= 1
          /\ page.left > 1 => e.page.left = page.left - 1
      BY <2>1, <2>2, <1>s, Emit32Good
    <2>4. State' = e /\ page'.left = e.page.left
      BY <2>2, <2>3, <1>b
    <2>5. assured' = IF assured > 0 THEN assured - 1 ELSE 0
      BY <1>emit DEF Emit
    <2>6. assured' \in 0 .. FragWords /\ e.page.left > assured'
      BY <2>3, <2>5, <1>s
    <2> QED  BY <2>3, <2>4, <2>6 DEF EmitInv
  <1>assure. ASSUME NEW size \in Sizes, Assure(size) PROVE EmitInv'
    <2>1. PICK e : e = emitAssure(State, size)
      OBVIOUS
    <2>2. State.free # <<>> /\ Becomes(e) /\ assured' = size
      BY <1>assure, <2>1, <1>s DEF Assure, Room
    <2>3. size \in 1 .. (FragWords - 1)
      BY EmitterAssumption
    <2>4. Good(e) /\ e.prog = State.prog /\ e.page.left \in Nat /\ e.page.left > size
      BY <2>1, <2>2, <2>3, <1>s, AssureGood
    <2>5. State' = e /\ page'.left = e.page.left
      BY <2>2, <2>4, <1>b
    <2>6. Whole(e)
      BY <2>4, <1>s DEF Whole
    <2> QED  BY <2>2, <2>3, <2>4, <2>5, <2>6, <1>s DEF EmitInv
  <1>three. ASSUME NEW e, Becomes(e), Good(e), Whole(e), e.page.left \in Nat, e.page.left >= 1,
                   assured' = 0
            PROVE  EmitInv'
    <2>1. State' = e /\ page'.left = e.page.left
      BY <1>three, <1>b
    <2> QED  BY <2>1, <1>three, <1>s DEF EmitInv
  <1>cond. CASE CondFixup
    <2>1. PICK e : e = condFixup(State)
      OBVIOUS
    <2>2. State.free # <<>> /\ Becomes(e) /\ assured' = 0
      BY <1>cond, <2>1, <1>s DEF CondFixup, Room
    <2> QED  BY <2>1, <2>2, <1>s, <1>three, CondGood
  <1>fixup. CASE BFixup
    <2>1. PICK e : e = emitB(State, State.page.tcp)
      OBVIOUS
    <2>2. State.free # <<>> /\ Becomes(e) /\ assured' = 0
      BY <1>fixup, <2>1, <1>s DEF BFixup, Room, asmBFixup, asmHERE
    <2> QED  BY <2>1, <2>2, <1>s, <1>three, EmitBGood
  <1>entrypoint. CASE NewEntrypoint
    <2>1. PICK e : e = jitcEmitAlign(State)
      OBVIOUS
    <2>2. State.free # <<>> /\ Becomes(e) /\ assured' = 0
      BY <1>entrypoint, <2>1, <1>s DEF NewEntrypoint, Room
    <2> QED  BY <2>1, <2>2, <1>s, <1>three, AlignGood
  <1>resolve. ASSUME NEW k \in 1 .. Len(prog), asmResolveFixup(k) PROVE EmitInv'
    <2> DEFINE e == [page |-> page, free |-> free,
                     mem |-> [mem EXCEPT ![prog[k].at] = B(page.tcp)],
                     prog |-> [prog EXCEPT ![k].target = End(State)]]
    <2>1. State' = e /\ assured' = assured /\ page' = page
      BY <1>resolve, <1>s DEF asmResolveFixup, State, asmHERE, B, End
    <2>2. prog[k].kind = "fixup" /\ prog[k].target = 0
      BY <1>resolve DEF asmResolveFixup
    <2>3. Good(e) /\ Whole(e)
      BY <2>2, <1>s, ResolveGood
    <2> HIDE DEF e
    <2> QED  BY <2>1, <2>3, <1>s DEF EmitInv
  <1>same. CASE UNCHANGED vars
    BY <1>same DEF vars, EmitInv, State
  <1> QED
    BY <1>emit, <1>assure, <1>cond, <1>fixup, <1>entrypoint, <1>resolve, <1>same DEF Next

(***************************************************************************)
(* Whatever is emitted, in whatever order the fragments come: there is     *)
(* always a word left for the linking branch behind what emitAssure has    *)
(* promised, and what is left is the page's own.                           *)
(***************************************************************************)
THEOREM RoomIsKept == Spec => []RoomForLink
  <1>inv. EmitInv => RoomForLink
    <2> SUFFICES ASSUME EmitInv PROVE RoomForLink
      OBVIOUS
    <2>s. /\ State.page = page /\ State.free = free /\ State.mem = mem /\ State.prog = prog
          /\ Placed(State) /\ assured \in 0 .. FragWords /\ page.left > assured
      BY DEF State, EmitInv, Good
    <2>e. /\ page \in [tcp : Addresses, left : 0 .. (2 * FragWords), base : Bases]
          /\ free \in Seq(Bases) /\ mem \in [Addresses -> Words] /\ prog \in Seq(Entries)
      BY <2>s DEF Placed, Emissions
    <2>t. TypeOK
      <3>1. \A k \in 1 .. Len(prog) : prog[k] \in Entries
        BY <2>e
      <3>2. \A p \in Entries : p.kind \in {"insn", "cond", "fixup"} /\ p.where \in Addresses
        BY DEF Entries
      <3> QED  BY <2>e, <2>s, <3>1, <3>2 DEF TypeOK
    <2>o. page.base \in Owned
      <3>1. page.base \in Bases /\ page.base \in Nat /\ page.left \in Nat /\ page.tcp \in Nat
            /\ FragWords \in Nat /\ FragWords > 2
        BY <2>s, Space, Cache
      <3>2. ASSUME NEW j \in 1 .. Len(free) PROVE free[j] # page.base
        <4>1. free[j] + FragWords <= page.tcp \/ page.base + FragWords <= free[j]
          BY <2>s DEF Placed
        <4>2. page.tcp + page.left = page.base + FragWords /\ page.left >= 1
          BY <2>s DEF Placed
        <4> QED  BY <4>1, <4>2, <3>1
      <3> QED  BY <3>1, <3>2 DEF Owned
    <2> QED  BY <2>s, <2>t, <2>o DEF RoomForLink, Placed
  <1> QED  BY <1>inv, EmitStart, EmitKept, PTL DEF Spec

-----------------------------------------------------------------------------
(***************************************************************************)
(* FlowPreserved compares two recursive functions.  That there are such    *)
(* functions is shown by extending one for a shorter domain by a value;    *)
(* least elements stand for induction.                                     *)
(***************************************************************************)
LEMMA LeastElement ==
  ASSUME NEW T, T \subseteq Nat, T # {}
  PROVE  \E m \in T : \A n \in T : m <= n
  <1>well. IsWellFoundedOn(OpToRel(<, Nat), Nat)
    BY NatLessThanWellFounded
  <1>min. PICK m \in T : \A n \in T : ~(<<n, m>> \in OpToRel(<, Nat))
    BY <1>well, WFMin
  <1>less. \A n \in T : ~(n < m)
    BY <1>min DEF OpToRel
  <1> QED  BY <1>less

\* one word further, given what is reached from the next one
Hop(f, i) ==
    [x \in Addresses |->
        IF i = 0 THEN "lost"
        ELSE IF x = page.tcp THEN "end"
        ELSE IF mem[x].op = "none" THEN "lost"
        ELSE IF mem[x].op = "insn" THEN x
        ELSE IF mem[x].to = x THEN "open"
        ELSE f[i - 1][mem[x].to]]

LEMMA WalkExists ==
  ASSUME NEW n \in Nat
  PROVE  \E w : w = [i \in 0 .. n |-> Hop(w, i)]
  <1> DEFINE T == {m \in Nat : ~\E w : w = [i \in 0 .. m |-> Hop(w, i)]}
  <1>local. \A f, g, i : (i # 0 => f[i - 1] = g[i - 1]) => Hop(f, i) = Hop(g, i)
    BY DEF Hop
  <1>none. T = {}
    <2> SUFFICES ASSUME T # {} PROVE FALSE
      OBVIOUS
    <2>m. PICK m \in T : \A l \in T : m <= l
      <3>1. T \subseteq Nat
        OBVIOUS
      <3> HIDE DEF T
      <3> QED  BY <3>1, LeastElement
    <2>n. m \in Nat /\ ~\E w : w = [i \in 0 .. m |-> Hop(w, i)]
      OBVIOUS
    <2>0. CASE m = 0
      <3> DEFINE w == [i \in 0 .. m |-> Hop(<<>>, i)]
      <3>1. \A i \in 0 .. m : i = 0
        BY <2>0
      <3>2. \A i \in 0 .. m : Hop(<<>>, i) = Hop(w, i)
        BY <3>1, <1>local
      <3>3. w = [i \in 0 .. m |-> Hop(w, i)]
        BY <3>2
      <3> QED  BY <3>3, <2>n
    <2>1. CASE m # 0
      <3>1. m - 1 \in Nat /\ ~(m <= m - 1)
        BY <2>1, <2>n
      <3>2. PICK v : v = [i \in 0 .. (m - 1) |-> Hop(v, i)]
        BY <3>1, <2>m
      <3> DEFINE w == [i \in 0 .. m |-> IF i = m THEN Hop(v, i) ELSE v[i]]
      <3>3. \A i \in 0 .. m : i # m => i \in 0 .. (m - 1)
        BY <2>n
      <3>4. \A i \in 0 .. m : i # 0 => i - 1 \in 0 .. m /\ i - 1 # m
        BY <2>n
      <3>5. \A i \in 0 .. m : i # m => w[i] = v[i]
        OBVIOUS
      <3>6. \A i \in 0 .. m : Hop(v, i) = Hop(w, i)
        BY <3>4, <3>5, <1>local
      <3>7. \A i \in 0 .. m : i # m => v[i] = Hop(v, i)
        BY <3>2, <3>3
      <3>8. w = [i \in 0 .. m |-> Hop(w, i)]
        BY <3>6, <3>7
      <3> QED  BY <3>8, <2>n
    <2> QED  BY <2>0, <2>1
  <1> QED  BY <1>none

LEMMA WalkDef ==
  ASSUME prog \in Seq(Entries)
  PROVE  walk = [i \in 0 .. (2 * Len(prog)) |-> Hop(walk, i)]
  <1>1. 2 * Len(prog) \in Nat
    OBVIOUS
  <1>2. PICK w : w = [i \in 0 .. (2 * Len(prog)) |-> Hop(w, i)]
    BY <1>1, WalkExists
  <1> QED  BY <1>2, Zenon DEF walk, Hop

Turn(f, k) ==
    IF k = Len(prog) + 1 THEN "end"
    ELSE IF prog[k].kind # "fixup" THEN prog[k].where
    ELSE IF prog[k].target = 0 THEN "open"
    ELSE f[prog[k].target]

Forward ==
    /\ prog \in Seq(Entries)
    /\ \A k \in 1 .. Len(prog) :
         prog[k].kind = "fixup" /\ prog[k].target # 0 =>
             prog[k].target \in (k + 1) .. (Len(prog) + 1)

LEMMA IntendedExists ==
  ASSUME Forward
  PROVE  \E f : f = [k \in 1 .. (Len(prog) + 1) |-> Turn(f, k)]
  <1> DEFINE top == Len(prog) + 1
             T == {m \in Nat : /\ m <= Len(prog)
                                /\ ~\E f : f = [k \in (top - m) .. top |-> Turn(f, k)]}
  <1>len. Len(prog) \in Nat
    BY DEF Forward
  <1>local. ASSUME NEW f, NEW g, NEW k \in 1 .. top,
                   \A j \in (k + 1) .. top : f[j] = g[j]
            PROVE  Turn(f, k) = Turn(g, k)
    <2>1. k # top => k \in 1 .. Len(prog)
      BY <1>len
    <2> QED  BY <2>1, <1>local DEF Turn, Forward
  <1>none. T = {}
    <2> SUFFICES ASSUME T # {} PROVE FALSE
      OBVIOUS
    <2>m. PICK m \in T : \A l \in T : m <= l
      <3>1. T \subseteq Nat
        OBVIOUS
      <3> HIDE DEF T
      <3> QED  BY <3>1, LeastElement
    <2>n. m \in Nat /\ m <= Len(prog) /\ ~\E f : f = [k \in (top - m) .. top |-> Turn(f, k)]
      OBVIOUS
    <2>0. CASE m = 0
      <3> DEFINE f == [k \in (top - m) .. top |-> Turn(<<>>, k)]
      <3>1. \A k \in (top - m) .. top : k = top
        BY <2>0, <1>len
      <3>2. \A k \in (top - m) .. top : Turn(<<>>, k) = Turn(f, k)
        BY <3>1 DEF Turn
      <3>3. f = [k \in (top - m) .. top |-> Turn(f, k)]
        BY <3>2
      <3> QED  BY <3>3, <2>n
    <2>1. CASE m # 0
      <3>1. m - 1 \in Nat /\ ~(m <= m - 1) /\ m - 1 <= Len(prog)
        BY <2>1, <2>n, <1>len
      <3>2. PICK g : g = [k \in (top - (m - 1)) .. top |-> Turn(g, k)]
        BY <3>1, <2>m
      <3> DEFINE b == top - m
                 f == [k \in b .. top |-> IF k = b THEN Turn(g, k) ELSE g[k]]
      <3>3. /\ b \in 1 .. top
            /\ \A k \in b .. top : k # b => k \in (top - (m - 1)) .. top
            /\ \A k \in b .. top : k \in 1 .. top /\ k \in Nat
            /\ \A k \in b .. top : \A j \in (k + 1) .. top : j \in b .. top /\ j # b
        BY <2>n, <1>len
      <3> HIDE DEF b, top
      <3>5. \A k \in b .. top : k # b => f[k] = g[k]
        OBVIOUS
      <3>6. \A k \in b .. top : Turn(g, k) = Turn(f, k)
        BY <3>3, <3>5, <1>local
      <3>7. \A k \in b .. top : k # b => g[k] = Turn(g, k)
        BY <3>2, <3>3
      <3>8. f = [k \in b .. top |-> Turn(f, k)]
        BY <3>6, <3>7
      <3> QED  BY <3>8, <2>n DEF b
    <2> QED  BY <2>0, <2>1
  <1>in. Len(prog) \notin T
    BY <1>none
  <1>last. top - Len(prog) = 1
    BY <1>len
  <1> QED  BY <1>in, <1>len, <1>last

LEMMA IntendedDef ==
  ASSUME Forward
  PROVE  intended = [k \in 1 .. (Len(prog) + 1) |-> Turn(intended, k)]
  <1>1. PICK f : f = [k \in 1 .. (Len(prog) + 1) |-> Turn(f, k)]
    BY IntendedExists
  <1> QED  BY <1>1, Zenon DEF intended, Turn

(***************************************************************************)
(* From where the instruction before the k-th leads to, and from the k-th  *)
(* itself, native execution gets to where it should, in at most two words  *)
(* for each instruction that follows.                                      *)
(***************************************************************************)
LEMMA Arrives ==
  ASSUME Good(State), NEW k \in 2 .. (Len(prog) + 1), NEW i \in 0 .. (2 * Len(prog))
  PROVE  /\ i >= 2 * (Len(prog) + 2 - k) => walk[i][entry(State, k)] = intended[k]
         /\ i >= 2 * (Len(prog) + 2 - k) - 1 => walk[i][dest(State, k)] = intended[k]
  <1> DEFINE e == State
             n == Len(prog)
             Arrived(j) == \A l \in 0 .. (2 * n) :
                /\ l >= 2 * (n + 2 - j) => walk[l][entry(e, j)] = intended[j]
                /\ l >= 2 * (n + 2 - j) - 1 => walk[l][dest(e, j)] = intended[j]
             T == {m \in 0 .. n : m + 2 <= n + 1 /\ ~Arrived(n + 1 - m)}
  <1>g. Placed(e) /\ Blank(e) /\ Chained(e)
    BY DEF Good
  <1>s. /\ e.page = page /\ e.mem = mem /\ e.prog = prog /\ End(e) = n + 1
        /\ prog \in Seq(Entries) /\ n \in Nat
        /\ page.tcp \in Addresses /\ mem \in [Addresses -> Words]
    BY <1>g, Space DEF State, End
  <1>u. /\ \A j \in 1 .. n : /\ prog[j].where \in Used(e)
                             /\ prog[j].kind = "fixup" => prog[j].at \in Used(e)
        /\ \A j \in 2 .. n : entry(e, j) \in Used(e)
        /\ page.tcp \notin Used(e)
        /\ \A a \in Used(e) : a \in Addresses /\ a # page.tcp
    BY <1>g, <1>s, ChainUsed DEF Used
  <1>chain. /\ \A j \in 1 .. n : InsnPut(e, j) /\ FixupPut(e, j) /\ Alone(e, j)
            /\ \A j \in 2 .. (n + 1) : Linked(e, j)
            /\ \A j \in 2 .. n :
                 prog[j].kind = "fixup" => prog[j].at \in {entry(e, j), prog[j].where}
    BY <1>g, <1>s DEF Chained
  <1>forward. Forward
    BY <1>chain, <1>s DEF Forward, FixupPut
  <1>dest. /\ dest(e, n + 1) = page.tcp
           /\ \A j \in 1 .. n : dest(e, j) = IF prog[j].kind = "fixup" THEN prog[j].at
                                                                     ELSE prog[j].where
    <2>1. \A j \in 1 .. n : j # n + 1
      BY <1>s
    <2> QED  BY <2>1, <1>s DEF dest
  <1>walk. ASSUME NEW l \in 0 .. (2 * n), l # 0, NEW x \in Addresses
           PROVE  walk[l][x] = IF x = page.tcp THEN "end"
                               ELSE IF mem[x].op = "none" THEN "lost"
                               ELSE IF mem[x].op = "insn" THEN x
                               ELSE IF mem[x].to = x THEN "open"
                               ELSE walk[l - 1][mem[x].to]
    <2>1. walk[l] = Hop(walk, l)
      BY <1>s, WalkDef
    <2> QED  BY <2>1, <1>walk DEF Hop
  <1>branch. ASSUME NEW l \in 0 .. (2 * n), l # 0, NEW x \in Addresses, x # page.tcp,
                    NEW y, mem[x] = B(y)
             PROVE  walk[l][x] = IF y = x THEN "open" ELSE walk[l - 1][y]
    <2>1. mem[x].op = "B" /\ mem[x].to = y
      BY <1>branch DEF B
    <2> QED  BY <2>1, <1>branch, <1>walk
  <1>intended. \A j \in 1 .. (n + 1) : intended[j] = Turn(intended, j)
    BY <1>forward, IntendedDef
  <1> HIDE DEF e
  <1>step. ASSUME NEW j \in 2 .. (n + 1), \A t \in (j + 1) .. (n + 1) : Arrived(t)
           PROVE  Arrived(j)
    <2>d. ASSUME NEW l \in 0 .. (2 * n), l >= 2 * (n + 2 - j) - 1
          PROVE  walk[l][dest(e, j)] = intended[j]
      <3>l. l # 0 /\ l - 1 \in 0 .. (2 * n)
        BY <2>d, <1>s
      <3>1. CASE j = n + 1
        <4>1. intended[j] = "end"
          BY <3>1, <1>intended DEF Turn
        <4> QED  BY <4>1, <3>1, <3>l, <1>walk, <1>dest, <1>s
      <3>2. CASE j # n + 1
        <4>j. j \in 1 .. n /\ j \in 1 .. (n + 1)
          BY <3>2, <1>s
        <4>t. intended[j] = IF prog[j].kind # "fixup" THEN prog[j].where
                            ELSE IF prog[j].target = 0 THEN "open"
                            ELSE intended[prog[j].target]
          BY <4>j, <3>2, <1>intended DEF Turn
        <4>1. CASE prog[j].kind # "fixup"
          <5>1. dest(e, j) = prog[j].where /\ mem[prog[j].where].op = "insn"
            BY <4>1, <4>j, <1>dest, <1>chain, <1>s DEF InsnPut
          <5> QED  BY <5>1, <4>1, <4>t, <4>j, <3>l, <1>walk, <1>u
        <4>2. CASE prog[j].kind = "fixup" /\ prog[j].target = 0
          <5>f. /\ dest(e, j) = prog[j].at /\ mem[prog[j].where] = B(prog[j].where)
                /\ prog[j].at # prog[j].where => mem[prog[j].at] = B(prog[j].where)
            BY <4>2, <4>j, <1>dest, <1>chain, <1>s DEF FixupPut
          <5>u. /\ prog[j].at \in Addresses /\ prog[j].at # page.tcp
                /\ prog[j].where \in Addresses /\ prog[j].where # page.tcp
            BY <4>2, <4>j, <1>u
          <5>l. l - 1 # 0
            BY <4>j, <2>d, <1>s
          <5>1. CASE prog[j].at = prog[j].where
            BY <5>1, <5>f, <5>u, <4>2, <4>t, <3>l, <1>branch
          <5>2. CASE prog[j].at # prog[j].where
            <6>1. walk[l][prog[j].at] = walk[l - 1][prog[j].where]
              BY <5>2, <5>f, <5>u, <3>l, <1>branch
            <6>2. walk[l - 1][prog[j].where] = "open"
              BY <5>f, <5>u, <5>l, <3>l, <1>branch
            <6> QED  BY <6>1, <6>2, <5>f, <4>2, <4>t
          <5> QED  BY <5>1, <5>2
        <4>3. CASE prog[j].kind = "fixup" /\ prog[j].target # 0
          <5>t. PICK t : t = prog[j].target
            OBVIOUS
          <5>f. /\ dest(e, j) = prog[j].at /\ t \in (j + 1) .. (n + 1)
                /\ \E x \in {entry(e, t), dest(e, t)} : mem[prog[j].at] = B(x)
            BY <5>t, <4>3, <4>j, <1>dest, <1>chain, <1>s DEF FixupPut
          <5>x. PICK x \in {entry(e, t), dest(e, t)} : mem[prog[j].at] = B(x)
            BY <5>f
          <5>u. prog[j].at \in Used(e) /\ prog[j].at \in Addresses /\ prog[j].at # page.tcp
            BY <4>3, <4>j, <1>u
          <5>n. t \in 2 .. (n + 1) /\ t # j /\ (t # n + 1 => t \in 2 .. n /\ t \in 1 .. n)
            BY <5>f, <4>j, <1>s
          <5>a. /\ \A m \in 1 .. n : m # j => prog[j].at # prog[m].where
                /\ \A m \in 2 .. (n + 1) : m # j => prog[j].at # entry(e, m)
            BY <4>3, <4>j, <1>chain, <1>s DEF Alone
          <5>o. x # prog[j].at
            <6>1. entry(e, t) # prog[j].at
              BY <5>a, <5>n
            <6>2. dest(e, t) # prog[j].at
              <7>1. CASE t = n + 1
                BY <7>1, <5>u, <1>dest
              <7>2. CASE t # n + 1
                <8>1. prog[t].where # prog[j].at
                  BY <7>2, <5>n, <5>a
                <8>2. prog[t].kind = "fixup" => prog[t].at \in {entry(e, t), prog[t].where}
                  BY <7>2, <5>n, <1>chain
                <8> QED  BY <8>1, <8>2, <6>1, <7>2, <5>n, <1>dest
              <7> QED  BY <7>1, <7>2
            <6> QED  BY <5>x, <6>1, <6>2
          <5>w. walk[l][prog[j].at] = walk[l - 1][x]
            BY <5>x, <5>u, <5>o, <3>l, <1>branch
          <5>l. l - 1 >= 2 * (n + 2 - t) /\ l - 1 >= 2 * (n + 2 - t) - 1
            <6>1. t >= j + 1 /\ t \in Nat /\ j \in Nat /\ l \in Nat
              BY <5>f, <4>j, <1>s
            <6> HIDE DEF n
            <6> QED  BY <6>1, <2>d, <1>s
          <5>i. walk[l - 1][x] = intended[t]
            <6>1. Arrived(t)
              BY <5>f, <1>step
            <6> QED  BY <6>1, <5>x, <5>l, <3>l
          <5> QED  BY <5>f, <5>w, <5>i, <5>t, <4>3, <4>t
        <4> QED  BY <4>1, <4>2, <4>3
      <3> QED  BY <3>1, <3>2
    <2>e. ASSUME NEW l \in 0 .. (2 * n), l >= 2 * (n + 2 - j)
          PROVE  walk[l][entry(e, j)] = intended[j]
      <3>l. /\ l # 0 /\ l - 1 \in 0 .. (2 * n) /\ l - 1 >= 2 * (n + 2 - j) - 1
            /\ l >= 2 * (n + 2 - j) - 1
        BY <2>e, <1>s
      <3>1. CASE entry(e, j) = dest(e, j)
        BY <3>1, <3>l, <2>d
      <3>2. CASE entry(e, j) # dest(e, j)
        <4>1. entry(e, j) \in Addresses /\ mem[entry(e, j)] = B(dest(e, j))
          BY <3>2, <1>chain, <1>s DEF Linked
        <4>2. entry(e, j) # page.tcp
          <5>1. CASE j = n + 1
            BY <5>1, <3>2, <1>dest
          <5>2. CASE j # n + 1
            <6>1. j \in 2 .. n
              BY <5>2, <1>s
            <6> QED  BY <6>1, <1>u
          <5> QED  BY <5>1, <5>2
        <4>3. walk[l][entry(e, j)] = walk[l - 1][dest(e, j)]
          BY <4>1, <4>2, <3>2, <3>l, <1>branch
        <4> QED  BY <4>3, <3>l, <2>d
      <3> QED  BY <3>1, <3>2
    <2> QED  BY <2>d, <2>e
  <1> HIDE DEF Arrived
  <1>none. T = {}
    <2> SUFFICES ASSUME T # {} PROVE FALSE
      OBVIOUS
    <2>m. PICK m \in T : \A l \in T : m <= l
      <3>1. T \subseteq Nat
        BY <1>s
      <3> HIDE DEF T
      <3> QED  BY <3>1, LeastElement
    <2>n. m \in 0 .. n /\ m + 2 <= n + 1 /\ ~Arrived(n + 1 - m)
      BY <2>m
    <2>j. n + 1 - m \in 2 .. (n + 1)
      BY <2>n, <1>s
    <2>1. ASSUME NEW t \in ((n + 1 - m) + 1) .. (n + 1) PROVE Arrived(t)
      <3>1. /\ n + 1 - t \in 0 .. n /\ (n + 1 - t) + 2 <= n + 1 /\ ~(m <= n + 1 - t)
            /\ n + 1 - (n + 1 - t) = t
        BY <2>n, <1>s
      <3> QED  BY <3>1, <2>m
    <2> QED  BY <2>j, <2>1, <2>n, <1>step
  <1>k. /\ n + 1 - k \in 0 .. n /\ (n + 1 - k) + 2 <= n + 1
        /\ n + 1 - (n + 1 - k) = k
    BY <1>s
  <1>a. Arrived(k)
    BY <1>k, <1>none
  <1> QED  BY <1>a DEF Arrived, e

(***************************************************************************)
(* Control flow survives the fragments, whatever is emitted and resolved   *)
(* in whatever order: each instruction is followed by the next one emitted *)
(* or by the one its fixup was resolved to, although a resolved fixup may  *)
(* have overwritten a linking branch.                                      *)
(***************************************************************************)
THEOREM FlowIsPreserved == Spec => []FlowPreserved
  <1>inv. EmitInv => FlowPreserved
    <2> SUFFICES ASSUME EmitInv, NEW k \in 1 .. Len(prog)
                 PROVE  /\ prog[k].kind # "fixup" =>
                             native(prog[k].where + 1) = intended[k + 1]
                        /\ prog[k].kind = "cond" =>
                             native(prog[k].where + 2) = intended[k + 2]
      BY DEF FlowPreserved
    <2>g. Good(State) /\ Whole(State) /\ State.prog = prog
      BY DEF EmitInv, State
    <2>n. Len(prog) \in Nat /\ prog \in Seq(Entries)
      BY <2>g, Space DEF Good
    <2>a. ASSUME NEW j \in 2 .. (Len(prog) + 1)
          PROVE  native(prog[j - 1].where + 1) = intended[j]
      <3>1. 2 * Len(prog) \in 0 .. (2 * Len(prog)) /\ 2 * Len(prog) >= 2 * (Len(prog) + 2 - j)
        BY <2>n
      <3>2. walk[2 * Len(prog)][entry(State, j)] = intended[j]
        BY <3>1, <2>g, Arrives
      <3> QED  BY <3>2, <2>g DEF native, entry
    <2>1. native(prog[k].where + 1) = intended[k + 1]
      <3>1. k + 1 \in 2 .. (Len(prog) + 1) /\ (k + 1) - 1 = k
        BY <2>n
      <3> QED  BY <3>1, <2>a
    <2>2. ASSUME prog[k].kind = "cond" PROVE native(prog[k].where + 2) = intended[k + 2]
      <3>1. k # Len(prog)
        BY <2>2, <2>g, <2>n DEF Whole
      <3>2. k + 2 \in 2 .. (Len(prog) + 1) /\ (k + 2) - 1 = k + 1 /\ k < Len(prog)
        BY <3>1, <2>n
      <3>3. prog[k + 1].where = prog[k].where + 1
        BY <3>2, <2>2, <2>g DEF Good, Chained, CondPut
      <3>4. (prog[k].where + 1) + 1 = prog[k].where + 2
        <4>1. prog[k] \in Entries
          BY <2>n
        <4>2. prog[k].where \in Nat
          BY <4>1, Cache DEF Entries
        <4> QED  BY <4>2
      <3>5. native(prog[(k + 2) - 1].where + 1) = intended[k + 2]
        BY <3>2, <2>a
      <3> QED  BY <3>2, <3>3, <3>4, <3>5
    <2> QED  BY <2>1, <2>2
  <1> QED  BY <1>inv, EmitStart, EmitKept, PTL DEF Spec
=============================================================================
