---------------------------- MODULE PoolsProofs -----------------------------
(***************************************************************************)
(* Proofs about the lists that processes are kept on, for every number of  *)
(* queues, keys, pages and structures to a slice: the links of queues.c    *)
(* make queues, whatever the order of spawns, failures and cleanups, and   *)
(* no node, PCB or stack is lost or has two owners.                        *)
(***************************************************************************)
EXTENDS Pools, QueueLemmas

(* A list threaded through links: s is what is on it.                      *)
IsList(link, first, s) ==
    /\ first = IF s = <<>> THEN 0 ELSE s[1]
    /\ \A k \in 1 .. Len(s) : link[s[k]] = IF k = Len(s) THEN 0 ELSE s[k + 1]

(* s is on the free list of a pool.                                        *)
FreeList(pool, N, s) ==
    /\ pool \in PoolOf(1 .. N)
    /\ s \in Seq(1 .. pool.made) /\ IsInjective(s)
    /\ IsList(pool.link, pool.free, s)

PoolSound(pool, N) == N \in Nat /\ \E s : FreeList(pool, N, s)

(* The structures that are not free.                                       *)
InUse(pool) == (1 .. pool.made) \ FreeOnes(pool)

-----------------------------------------------------------------------------
(* Walking along a list.                                                   *)

Walks(pool, first, n, at) ==
    at = [k \in 1 .. n |-> IF k = 1 THEN first
                           ELSE IF at[k - 1] = 0 THEN 0 ELSE pool.link[at[k - 1]]]

(* What a walk of n steps along the list s comes by.                       *)
WalkOf(s, n) == [k \in 1 .. n |-> IF k <= Len(s) THEN s[k] ELSE 0]

LEMMA WalkIs ==
    ASSUME NEW pool, NEW first, NEW s \in Seq(Nat \ {0}), NEW n \in Nat,
           IsList(pool.link, first, s)
    PROVE  Walks(pool, first, n, WalkOf(s, n))
  <1> DEFINE f == WalkOf(s, n)
  <1>1. Len(s) \in Nat /\ \A k \in 1 .. Len(s) : s[k] \in Nat \ {0}
    BY LenProperties, ElementOfSeq
  <1>2. \A k \in 1 .. n : f[k] = IF k <= Len(s) THEN s[k] ELSE 0
    BY DEF WalkOf
  <1>3. f = [k \in 1 .. n |-> f[k]]
    BY DEF WalkOf
  <1> HIDE DEF f
  <1>4. ASSUME NEW k \in 1 .. n
        PROVE  f[k] = IF k = 1 THEN first
                      ELSE IF f[k - 1] = 0 THEN 0 ELSE pool.link[f[k - 1]]
    <2>1. CASE k = 1
      <3>1. s = <<>> <=> Len(s) = 0
        BY EmptySeq
      <3> QED  BY <1>1, <1>2, <2>1, <3>1 DEF IsList
    <2>2. CASE k # 1
      <3>1. k - 1 \in 1 .. n /\ f[k - 1] = IF k - 1 <= Len(s) THEN s[k - 1] ELSE 0
        BY <1>2, <2>2
      <3>2. CASE k - 1 <= Len(s)
        <4>1. k - 1 \in 1 .. Len(s) /\ (k - 1) + 1 = k
          BY <1>1, <2>2, <3>2
        <4>2. pool.link[s[k - 1]] = IF k - 1 = Len(s) THEN 0 ELSE s[k]
          BY <4>1 DEF IsList
        <4>3. f[k - 1] = s[k - 1] /\ s[k - 1] # 0
          BY <1>1, <3>1, <4>1, <3>2
        <4>4. k <= Len(s) <=> ~(k - 1 = Len(s))
          BY <1>1, <3>2
        <4> QED  BY <1>2, <2>2, <4>2, <4>3, <4>4
      <3>3. CASE ~(k - 1 <= Len(s))
        <4>1. f[k] = 0 /\ f[k - 1] = 0
          BY <1>1, <1>2, <3>1, <3>3
        <4> QED  BY <2>2, <4>1
      <3> QED  BY <3>2, <3>3
    <2> QED  BY <2>1, <2>2
  <1> QED  BY <1>3, <1>4 DEF Walks, f

LEMMA OneWalk ==
    ASSUME NEW pool, NEW first, NEW n \in Nat, NEW f, NEW g,
           Walks(pool, first, n, f), Walks(pool, first, n, g)
    PROVE  f = g
  <1> DEFINE S == {k \in 1 .. n : f[k] # g[k]}
  <1>1. \A k \in 1 .. n : f[k] = IF k = 1 THEN first
                      ELSE IF f[k - 1] = 0 THEN 0 ELSE pool.link[f[k - 1]]
    BY DEF Walks
  <1>2. \A k \in 1 .. n : g[k] = IF k = 1 THEN first
                      ELSE IF g[k - 1] = 0 THEN 0 ELSE pool.link[g[k - 1]]
    BY DEF Walks
  <1>3. S = {}
    <2> SUFFICES ASSUME S # {} PROVE FALSE
      OBVIOUS
    <2>1. PICK m \in S : \A k \in S : m <= k
      <3>1. S \in SUBSET Nat
        OBVIOUS
      <3> HIDE DEF S
      <3> QED  BY <3>1, LeastOf
    <2>2. m \in 1 .. n /\ f[m] # g[m]
      OBVIOUS
    <2>3. CASE m = 1
      BY <1>1, <1>2, <2>2, <2>3
    <2>4. CASE m # 1
      <3>1. m - 1 \in 1 .. n /\ ~(m <= m - 1)
        BY <2>2, <2>4
      <3>2. f[m - 1] = g[m - 1]
        BY <2>1, <3>1
      <3> QED  BY <1>1, <1>2, <2>2, <2>4, <3>2
    <2> QED  BY <2>3, <2>4
  <1>4. \A k \in 1 .. n : f[k] = g[k]
    BY <1>3
  <1>5. f = [k \in 1 .. n |-> f[k]] /\ g = [k \in 1 .. n |-> g[k]]
    BY DEF Walks
  <1> HIDE DEF S
  <1> QED  BY <1>4, <1>5

LEMMA ChainIs ==
    ASSUME NEW pool, NEW first, NEW s \in Seq(Nat \ {0}), NEW n \in Nat,
           IsList(pool.link, first, s)
    PROVE  /\ Chain(pool, first, n) = WalkOf(s, n)
           /\ n = Len(s) => Chain(pool, first, n) = s
  <1>1. Walks(pool, first, n, WalkOf(s, n))
    BY WalkIs
  <1>2. Walks(pool, first, n, Chain(pool, first, n))
    BY <1>1 DEF Walks, Chain
  <1>3. Chain(pool, first, n) = WalkOf(s, n)
    BY <1>1, <1>2, OneWalk
  <1>4. ASSUME n = Len(s)  PROVE WalkOf(s, n) = s
    <2>1. s \in [1 .. n -> Nat \ {0}]
      BY <1>4, LenProperties
    <2>2. WalkOf(s, n) = [k \in 1 .. n |-> s[k]]
      BY <1>4 DEF WalkOf
    <2> QED  BY <2>1, <2>2
  <1> QED  BY <1>3, <1>4

-----------------------------------------------------------------------------
(* Pools.                                                                  *)

LEMMA PoolIs ==
    ASSUME NEW N \in Nat, NEW pool \in PoolOf(1 .. N)
    PROVE  /\ pool.free \in 0 .. N /\ pool.made \in 0 .. N
           /\ pool.link \in [1 .. N -> 0 .. N]
           /\ 1 .. pool.made \subseteq 1 .. N
  <1>1. (1 .. N) \cup {0} = 0 .. N
    OBVIOUS
  <1>2. /\ pool.free \in 0 .. N /\ pool.made \in 0 .. N
        /\ pool.link \in [1 .. N -> 0 .. N]
    BY <1>1 DEF PoolOf
  <1> QED  BY <1>2

(* A free list has no more members than there are structures.              *)
LEMMA FreeLength ==
    ASSUME NEW m \in Nat, NEW s \in Seq(1 .. m), IsInjective(s)
    PROVE  Len(s) \in 0 .. m
  <1>1. Len(s) \in Nat /\ s \in [1 .. Len(s) -> 1 .. m]
    BY LenProperties
  <1>2. s \in Injection(1 .. Len(s), 1 .. m)
    BY <1>1 DEF Injection
  <1>3. IsFiniteSet(1 .. m) /\ Cardinality(1 .. m) = m
    BY FS_Interval
  <1>4. Cardinality(1 .. Len(s)) = Len(s)
    <2>1. Len(s) \in Int /\ 1 \in Int
      BY <1>1
    <2>2. Cardinality(1 .. Len(s)) = IF 1 > Len(s) THEN 0 ELSE Len(s) - 1 + 1
      BY <2>1, FS_Interval
    <2> QED  BY <1>1, <2>2
  <1>5. Cardinality(1 .. Len(s)) <= Cardinality(1 .. m)
    BY <1>2, <1>3, FS_Injection
  <1> QED  BY <1>1, <1>3, <1>4, <1>5

LEMMA FreeOnesIs ==
    ASSUME NEW N \in Nat, NEW pool, NEW s, FreeList(pool, N, s)
    PROVE  FreeOnes(pool) = ToSet(s) /\ FreeListEnds(pool)
  <1> DEFINE m == pool.made
             f == WalkOf(s, m + 1)
  <1>1. pool \in PoolOf(1 .. N) /\ s \in Seq(1 .. m) /\ IsInjective(s)
        /\ IsList(pool.link, pool.free, s)
    BY DEF FreeList
  <1>2. m \in Nat
    BY <1>1, PoolIs
  <1>3. Len(s) \in 0 .. m /\ DOMAIN s = 1 .. Len(s) /\ \A k \in 1 .. Len(s) : s[k] \in 1 .. m
    BY <1>1, <1>2, FreeLength, LenProperties, ElementOfSeq
  <1>4. s \in Seq(Nat \ {0})
    <2>1. 1 .. m \subseteq Nat \ {0}
      OBVIOUS
    <2> HIDE DEF m
    <2> QED  BY <1>1, <2>1, SeqMonotonic
  <1>5. Chain(pool, pool.free, m + 1) = f
    <2>1. m + 1 \in Nat
      BY <1>2
    <2> QED  BY <1>1, <1>4, <2>1, ChainIs
  <1>6. \A k \in 1 .. m + 1 : f[k] = IF k <= Len(s) THEN s[k] ELSE 0
    BY DEF WalkOf
  <1> HIDE DEF f, m
  <1>7. f[m + 1] = 0
    BY <1>2, <1>3, <1>6
  <1>8. {f[k] : k \in 1 .. m + 1} \ {0} = ToSet(s)
    <2>1. \A k \in 1 .. m + 1 : f[k] # 0 => f[k] \in ToSet(s)
      BY <1>2, <1>3, <1>6 DEF ToSet
    <2>2. \A k \in 1 .. Len(s) : k \in 1 .. m + 1 /\ f[k] = s[k] /\ s[k] # 0
      BY <1>2, <1>3, <1>6
    <2> QED  BY <1>3, <2>1, <2>2 DEF ToSet
  <1> QED  BY <1>5, <1>7, <1>8 DEF FreeOnes, FreeListEnds, m

LEMMA SoundIs ==
    ASSUME NEW N, NEW pool, PoolSound(pool, N)
    PROVE  /\ N \in Nat /\ pool \in PoolOf(1 .. N) /\ pool.made \in 0 .. N
           /\ FreeListEnds(pool)
           /\ FreeOnes(pool) \subseteq 1 .. pool.made
           /\ FreeOnes(pool) \cup InUse(pool) = 1 .. pool.made
           /\ FreeOnes(pool) \cap InUse(pool) = {}
  <1>1. PICK s : FreeList(pool, N, s)
    BY DEF PoolSound
  <1>2. N \in Nat
    BY DEF PoolSound
  <1>3. FreeOnes(pool) = ToSet(s) /\ FreeListEnds(pool)
    BY <1>1, <1>2, FreeOnesIs
  <1>4. pool \in PoolOf(1 .. N) /\ s \in Seq(1 .. pool.made)
    BY <1>1 DEF FreeList
  <1>5. ToSet(s) \subseteq 1 .. pool.made
    <2>1. DOMAIN s = 1 .. Len(s) /\ \A k \in 1 .. Len(s) : s[k] \in 1 .. pool.made
      BY <1>4, LenProperties, ElementOfSeq
    <2> QED  BY Zenon, <2>1 DEF ToSet
  <1> QED  BY <1>2, <1>3, <1>4, <1>5, PoolIs DEF InUse

(* The pool that f is of its free list, with the rest of its links.        *)
LEMMA EmptyFree ==
    ASSUME NEW N \in Nat, NEW pool, NEW s, FreeList(pool, N, s)
    PROVE  /\ pool.free = 0 => s = <<>>
           /\ pool.free # 0 => s # <<>> /\ pool.free = Head(s) /\ pool.free \in 1 .. pool.made
  <1>1. s \in Seq(1 .. pool.made) /\ pool.free = IF s = <<>> THEN 0 ELSE s[1]
    BY DEF FreeList, IsList
  <1>2. Head(s) = s[1]
    OBVIOUS
  <1>3. s # <<>> => Head(s) \in 1 .. pool.made
    BY <1>1, HeadTailProperties
  <1>4. s # <<>> => s[1] # 0
    BY <1>2, <1>3
  <1> QED  BY <1>1, <1>2, <1>3, <1>4

LEMMA CarvedList ==
    ASSUME NEW N \in Nat, NEW pool, NEW s, FreeList(pool, N, s), pool.free = 0,
           NEW n \in Nat \ {0}, pool.made + n <= N
    PROVE  FreeList(Carved(pool, n), N, [k \in 1 .. n |-> pool.made + n + 1 - k])
  <1> DEFINE m == pool.made
             t == [k \in 1 .. n |-> m + n + 1 - k]
             c == Carved(pool, n)
  <1>1. pool \in PoolOf(1 .. N)
    BY DEF FreeList
  <1>2. m \in 0 .. N /\ pool.link \in [1 .. N -> 0 .. N] /\ DOMAIN pool.link = 1 .. N
    BY <1>1, PoolIs
  <1>3. /\ c.free = m + n /\ c.made = m + n
        /\ c.link = [i \in 1 .. N |-> IF i = m + 1 THEN 0
                       ELSE IF i \in m + 2 .. m + n THEN i - 1 ELSE pool.link[i]]
        /\ c = [free |-> c.free, made |-> c.made, link |-> c.link]
    BY <1>2 DEF Carved
  <1>0. m + n <= N
    OBVIOUS
  <1> HIDE DEF c, m
  <1>4. c \in PoolOf(1 .. N)
    <2>1. m + n \in 1 .. N
      BY <1>0, <1>2
    <2>2. c.link \in [1 .. N -> (1 .. N) \cup {0}]
      BY SMTT(30), <1>2, <1>3, <2>1
    <2> QED  BY <1>3, <2>1, <2>2 DEF PoolOf
  <1>5. t \in Seq(1 .. m + n) /\ Len(t) = n /\ \A k \in 1 .. n : t[k] = m + n + 1 - k
    <2>1. t \in [1 .. n -> 1 .. m + n]
      BY <1>2
    <2> QED  BY <2>1, SeqDef, LenProperties
  <1>6. DOMAIN t = 1 .. n /\ t # <<>>
    BY <1>5, EmptySeq
  <1> HIDE DEF t
  <1>7. IsInjective(t)
    <2>1. \A j, k \in 1 .. n : t[j] = t[k] => j = k
      BY <1>2, <1>5
    <2> QED  BY <1>6, <2>1 DEF IsInjective
  <1>8. c.free = t[1]
    <2>1. 1 \in 1 .. n /\ m + n + 1 - 1 = m + n
      BY <1>2
    <2> QED  BY <1>3, <1>5, <2>1
  <1>9. ASSUME NEW k \in 1 .. n  PROVE c.link[t[k]] = IF k = n THEN 0 ELSE t[k + 1]
    <2>1. t[k] = m + n + 1 - k /\ t[k] \in 1 .. N
      BY SMTT(30), <1>0, <1>2, <1>5
    <2>2. CASE k = n
      BY <1>2, <1>3, <2>1, <2>2
    <2>3. CASE k # n
      <3>1. t[k] \in m + 2 .. m + n /\ t[k] # m + 1
        BY <1>2, <2>1, <2>3
      <3>2. t[k + 1] = t[k] - 1
        BY <1>2, <1>5, <2>1, <2>3
      <3> QED  BY <1>3, <2>1, <2>3, <3>1, <3>2
    <2> QED  BY <2>2, <2>3
  <1>10. IsList(c.link, c.free, t)
    BY <1>5, <1>6, <1>8, <1>9 DEF IsList
  <1>11. FreeList(c, N, t)
    BY <1>3, <1>4, <1>5, <1>7, <1>10 DEF FreeList
  <1> QED  BY <1>11 DEF c, t, m

LEMMA TakenList ==
    ASSUME NEW N \in Nat, NEW pool, NEW s, FreeList(pool, N, s), pool.free # 0
    PROVE  /\ FreeList(Taken(pool), N, Tail(s))
           /\ Taken(pool).made = pool.made
           /\ \A i \in 1 .. N :
                Taken(pool).link[i] = IF i = pool.free THEN 0 ELSE pool.link[i]
  <1> DEFINE m == pool.made
             x == pool.free
             c == Taken(pool)
             t == Tail(s)
  <1>1. /\ pool \in PoolOf(1 .. N) /\ s \in Seq(1 .. m) /\ IsInjective(s)
        /\ IsList(pool.link, pool.free, s)
    BY DEF FreeList
  <1>2. m \in 0 .. N /\ pool.link \in [1 .. N -> 0 .. N] /\ 1 .. m \subseteq 1 .. N
    BY <1>1, PoolIs
  <1>3. s # <<>> /\ x = s[1] /\ x \in 1 .. m
    BY EmptyFree, <1>1 DEF IsList
  <1>4. /\ c.free = pool.link[x] /\ c.made = m
        /\ c.link = [i \in 1 .. N |-> IF i = x THEN 0 ELSE pool.link[i]]
        /\ c = [free |-> c.free, made |-> c.made, link |-> c.link]
    <2>1. [pool.link EXCEPT ![x] = 0] = [i \in 1 .. N |-> IF i = x THEN 0 ELSE pool.link[i]]
      BY <1>2
    <2> QED  BY <2>1 DEF Taken
  <1>5. \A i \in 1 .. N : c.link[i] = IF i = x THEN 0 ELSE pool.link[i]
    BY <1>2, <1>3, <1>4
  <1>6. /\ Len(s) \in Nat \ {0} /\ DOMAIN s = 1 .. Len(s)
        /\ \A k \in 1 .. Len(s) : s[k] \in 1 .. m
    BY <1>1, <1>3, EmptySeq, LenProperties, ElementOfSeq
  <1>7. /\ t \in Seq(1 .. m) /\ Len(t) = Len(s) - 1
        /\ \A i \in 1 .. Len(t) : t[i] = s[i + 1]
    BY <1>1, <1>3, HeadTailProperties
  <1>8. IsInjective(t)
    BY <1>1, <1>3, TailMembers
  <1> HIDE DEF c, m, x, t
  <1>9. c \in PoolOf(1 .. N)
    <2>1. pool.link[x] \in 0 .. N /\ m \in 0 .. N
      BY <1>2, <1>3
    <2>2. c.link \in [1 .. N -> 0 .. N]
      BY <1>2, <1>4
    <2>3. (1 .. N) \cup {0} = 0 .. N
      OBVIOUS
    <2> QED  BY <1>4, <2>1, <2>2, <2>3 DEF PoolOf
  <1>10. \A k \in 1 .. Len(s) : pool.link[s[k]] = IF k = Len(s) THEN 0 ELSE s[k + 1]
    BY <1>1 DEF IsList
  <1>11. c.free = IF t = <<>> THEN 0 ELSE t[1]
    <2>1. t = <<>> <=> Len(t) = 0
      BY <1>7, EmptySeq
    <2>2. 1 \in 1 .. Len(s) /\ (Len(s) # 1 => 1 \in 1 .. Len(t) /\ t[1] = s[2])
      BY <1>6, <1>7
    <2> QED  BY <1>3, <1>4, <1>6, <1>7, <1>10, <2>1, <2>2
  <1>12. ASSUME NEW k \in 1 .. Len(t)  PROVE c.link[t[k]] = IF k = Len(t) THEN 0 ELSE t[k + 1]
    <2>1. k + 1 \in 1 .. Len(s) /\ t[k] = s[k + 1] /\ k + 1 # 1 /\ 1 \in 1 .. Len(s)
      BY <1>6, <1>7
    <2>2. s[k + 1] # x
      BY <1>1, <1>3, <1>6, <2>1 DEF IsInjective
    <2>3. s[k + 1] \in 1 .. N
      BY <1>2, <1>6, <2>1
    <2>4. c.link[t[k]] = pool.link[s[k + 1]]
      BY <1>5, <2>1, <2>2, <2>3
    <2>5. pool.link[s[k + 1]] = IF k + 1 = Len(s) THEN 0 ELSE s[(k + 1) + 1]
      BY <1>10, <2>1
    <2>6. CASE k = Len(t)
      BY <1>6, <1>7, <2>4, <2>5, <2>6
    <2>7. CASE k # Len(t)
      <3>1. k + 1 \in 1 .. Len(t) /\ k + 1 # Len(s)
        <4> DEFINE l == Len(s)
        <4>1. l \in Nat \ {0} /\ Len(t) = l - 1 /\ k \in 1 .. Len(t)
          BY <1>6, <1>7
        <4> HIDE DEF l
        <4>2. k + 1 \in 1 .. Len(t) /\ k + 1 # l
          BY <2>7, <4>1
        <4> QED  BY <4>2 DEF l
      <3> QED  BY <1>7, <2>4, <2>5, <2>7, <3>1
    <2> QED  BY <2>6, <2>7
  <1>13. FreeList(c, N, t)
    BY <1>4, <1>7, <1>8, <1>9, <1>11, <1>12 DEF FreeList, IsList
  <1> QED  BY <1>4, <1>5, <1>13 DEF c, m, t, x

LEMMA FreedList ==
    ASSUME NEW N \in Nat, NEW pool, NEW s, FreeList(pool, N, s),
           NEW x \in 1 .. pool.made, x \notin ToSet(s)
    PROVE  /\ FreeList(Freed(pool, x), N, <<x>> \o s)
           /\ Freed(pool, x).made = pool.made
           /\ \A i \in 1 .. N :
                Freed(pool, x).link[i] = IF i = x THEN pool.free ELSE pool.link[i]
  <1> DEFINE m == pool.made
             c == Freed(pool, x)
             t == <<x>> \o s
  <1>1. /\ pool \in PoolOf(1 .. N) /\ s \in Seq(1 .. m) /\ IsInjective(s)
        /\ IsList(pool.link, pool.free, s)
    BY DEF FreeList
  <1>2. /\ m \in 0 .. N /\ pool.link \in [1 .. N -> 0 .. N]
        /\ pool.free \in 0 .. N /\ x \in 1 .. N
    BY <1>1, PoolIs
  <1>3. /\ c.free = x /\ c.made = m
        /\ c.link = [i \in 1 .. N |-> IF i = x THEN pool.free ELSE pool.link[i]]
        /\ c = [free |-> c.free, made |-> c.made, link |-> c.link]
    <2>1. [pool.link EXCEPT ![x] = pool.free] =
             [i \in 1 .. N |-> IF i = x THEN pool.free ELSE pool.link[i]]
      BY <1>2
    <2> QED  BY <2>1 DEF Freed
  <1>4. \A i \in 1 .. N : c.link[i] = IF i = x THEN pool.free ELSE pool.link[i]
    BY <1>2, <1>3
  <1>5. /\ Len(s) \in Nat /\ DOMAIN s = 1 .. Len(s)
        /\ \A k \in 1 .. Len(s) : s[k] \in 1 .. m
    BY <1>1, LenProperties, ElementOfSeq
  <1>6. t \in Seq(1 .. m) /\ IsInjective(t)
    <2> HIDE DEF m
    <2>1. x \in 1 .. m
      BY DEF m
    <2> QED  BY <1>1, <2>1, ConsMembers
  <1>7. Len(t) = 1 + Len(s) /\ \A k \in 1 .. 1 + Len(s) : t[k] = IF k <= 1 THEN x ELSE s[k - 1]
    <2>1. <<x>> \in Seq(1 .. m) /\ Len(<<x>>) = 1 /\ <<x>>[1] = x
      OBVIOUS
    <2> QED  BY <1>1, <2>1, ConcatProperties
  <1> HIDE DEF c, t
  <1>8. c \in PoolOf(1 .. N)
    <2>1. c.link \in [1 .. N -> 0 .. N]
      BY <1>2, <1>3
    <2>2. (1 .. N) \cup {0} = 0 .. N
      OBVIOUS
    <2> HIDE DEF m
    <2> QED  BY <1>2, <1>3, <2>1, <2>2 DEF PoolOf
  <1>9. c.free = IF t = <<>> THEN 0 ELSE t[1]
    <2>1. t # <<>>
      BY <1>5, <1>6, <1>7, EmptySeq
    <2> QED  BY <1>3, <1>5, <1>7, <2>1
  <1>10. ASSUME NEW k \in 1 .. Len(t)  PROVE c.link[t[k]] = IF k = Len(t) THEN 0 ELSE t[k + 1]
    <2>1. CASE k = 1
      <3>0. 1 \in 1 .. 1 + Len(s)
        BY <1>5
      <3>5. t[k] = x /\ c.link[x] = pool.free
        BY <1>2, <1>4, <1>7, <2>1, <3>0
      <3>1. /\ t[k] = x /\ c.link[x] = pool.free
            /\ pool.free = IF s = <<>> THEN 0 ELSE s[1]
        BY <1>1, <3>5 DEF IsList
      <3>2. s = <<>> <=> Len(s) = 0
        BY <1>1, EmptySeq
      <3>3. Len(s) # 0 => t[2] = s[1]
        BY <1>5, <1>7
      <3>4. k = Len(t) <=> Len(s) = 0
        BY <1>5, <1>7, <2>1
      <3> QED  BY <2>1, <3>1, <3>2, <3>3, <3>4
    <2>2. CASE k # 1
      <3>1. k - 1 \in 1 .. Len(s) /\ t[k] = s[k - 1] /\ (k - 1) + 1 = k
        BY <1>5, <1>7, <2>2
      <3>2. s[k - 1] # x /\ s[k - 1] \in 1 .. N
        BY SMTT(30), <1>2, <1>5, <3>1 DEF ToSet
      <3>3. c.link[t[k]] = IF k - 1 = Len(s) THEN 0 ELSE s[k]
        BY <1>1, <1>4, <3>1, <3>2 DEF IsList
      <3>4. k = Len(t) <=> k - 1 = Len(s)
        BY <1>5, <1>7
      <3>5. k # Len(t) => t[k + 1] = s[k]
        BY SMTT(30), <1>5, <1>7, <2>2
      <3> QED  BY <3>3, <3>4, <3>5
    <2> QED  BY <2>1, <2>2
  <1>11. FreeList(c, N, t)
    <2> HIDE DEF m
    <2> QED  BY <1>3, <1>6, <1>8, <1>9, <1>10 DEF FreeList, IsList
  <1> QED  BY <1>3, <1>4, <1>11 DEF c, m, t

(* What each operation on a pool does to the structures in use.            *)
LEMMA EmptySound ==
    ASSUME NEW N \in Nat
    PROVE  /\ PoolSound(EmptyPool(1 .. N), N) /\ InUse(EmptyPool(1 .. N)) = {}
           /\ EmptyPool(1 .. N).free = 0 /\ EmptyPool(1 .. N).made = 0
  <1> DEFINE pool == EmptyPool(1 .. N)
  <1>1. pool.free = 0 /\ pool.made = 0 /\ pool \in PoolOf(1 .. N)
    BY DEF EmptyPool, PoolOf
  <1>2. <<>> \in Seq(1 .. pool.made) /\ Len(<<>>) = 0 /\ DOMAIN <<>> = {}
    OBVIOUS
  <1>3. FreeList(pool, N, <<>>)
    <2> HIDE DEF pool
    <2>1. IsInjective(<<>>)
      BY <1>2 DEF IsInjective
    <2>2. IsList(pool.link, pool.free, <<>>)
      BY <1>1, <1>2 DEF IsList
    <2> QED  BY <1>1, <1>2, <2>1, <2>2 DEF FreeList
  <1>4. PoolSound(pool, N)
    BY <1>3 DEF PoolSound
  <1>5. InUse(pool) = {}
    BY <1>1 DEF InUse
  <1> QED  BY <1>1, <1>4, <1>5

LEMMA StockedSound ==
    ASSUME NEW N, NEW pool, PoolSound(pool, N), NEW n \in Nat \ {0},
           pool.free = 0 => pool.made + n <= N
    PROVE  /\ PoolSound(Stocked(pool, n), N)
           /\ Stocked(pool, n).free # 0
           /\ InUse(Stocked(pool, n)) = InUse(pool)
           /\ Stocked(pool, n).made = IF pool.free = 0 THEN pool.made + n ELSE pool.made
           /\ \A i \in InUse(pool) : Stocked(pool, n).link[i] = pool.link[i]
  <1>1. CASE pool.free # 0
    BY <1>1 DEF Stocked
  <1>2. CASE pool.free = 0
    <2> DEFINE c == Carved(pool, n)
               t == [k \in 1 .. n |-> pool.made + n + 1 - k]
               m == pool.made
    <2>1. N \in Nat /\ pool \in PoolOf(1 .. N) /\ m \in 0 .. N
      BY SoundIs
    <2>2. PICK s : FreeList(pool, N, s)
      BY DEF PoolSound
    <2>3. s = <<>> /\ FreeOnes(pool) = ToSet(s)
      BY <1>2, <2>1, <2>2, EmptyFree, FreeOnesIs
    <2>4. InUse(pool) = 1 .. m
      <3>1. ToSet(<<>>) = {}
        BY DEF ToSet
      <3> QED  BY <2>3, <3>1 DEF InUse
    <2>5. FreeList(c, N, t)
      BY <1>2, <2>1, <2>2, CarvedList
    <2>6. c.free = m + n /\ c.made = m + n
      BY DEF Carved
    <2>7. \A i \in 1 .. m : c.link[i] = pool.link[i]
      <3>1. 1 .. m \subseteq 1 .. N /\ DOMAIN pool.link = 1 .. N
        BY <2>1, PoolIs
      <3>2. c.link = [i \in DOMAIN pool.link |->
                        IF i = m + 1 THEN pool.free
                        ELSE IF i \in m + 2 .. m + n THEN i - 1 ELSE pool.link[i]]
        BY DEF Carved
      <3> HIDE DEF c, m
      <3>3. \A i \in 1 .. m : i # m + 1 /\ i \notin m + 2 .. m + n
        BY <2>1
      <3> QED  BY <3>1, <3>2, <3>3
    <2>8. FreeOnes(c) = ToSet(t)
      BY <2>1, <2>5, FreeOnesIs
    <2>9. ToSet(t) = m + 1 .. m + n
      <3> HIDE DEF m
      <3>1. DOMAIN t = 1 .. n /\ \A k \in 1 .. n : t[k] = m + n + 1 - k
        BY DEF m
      <3> HIDE DEF t
      <3>2. \A k \in 1 .. n : m + n + 1 - k \in m + 1 .. m + n
        BY <2>1
      <3>3. \A i \in m + 1 .. m + n : m + n + 1 - i \in 1 .. n /\ m + n + 1 - (m + n + 1 - i) = i
        BY <2>1
      <3> QED  BY <3>1, <3>2, <3>3 DEF ToSet
    <2>10. InUse(c) = 1 .. m
      <3> HIDE DEF c, m, t
      <3>1. (1 .. m + n) \ (m + 1 .. m + n) = 1 .. m
        BY <2>1
      <3> QED  BY <2>6, <2>8, <2>9, <3>1 DEF InUse
    <2>11. PoolSound(c, N)
      BY <2>1, <2>5 DEF PoolSound
    <2>12. c.free # 0
      BY <2>1, <2>6
    <2>13. Stocked(pool, n) = c
      BY <1>2 DEF Stocked
    <2> QED  BY <1>2, <2>4, <2>6, <2>7, <2>10, <2>11, <2>12, <2>13
  <1> QED  BY <1>1, <1>2

LEMMA TakenSound ==
    ASSUME NEW N, NEW pool, PoolSound(pool, N), pool.free # 0
    PROVE  /\ PoolSound(Taken(pool), N)
           /\ pool.free \in (1 .. pool.made) \ InUse(pool)
           /\ InUse(Taken(pool)) = InUse(pool) \cup {pool.free}
           /\ Taken(pool).made = pool.made
           /\ \A i \in 1 .. N :
                Taken(pool).link[i] = IF i = pool.free THEN 0 ELSE pool.link[i]
  <1>1. N \in Nat
    BY SoundIs
  <1>2. PICK s : FreeList(pool, N, s)
    BY DEF PoolSound
  <1>3. /\ FreeList(Taken(pool), N, Tail(s)) /\ Taken(pool).made = pool.made
        /\ \A i \in 1 .. N :
             Taken(pool).link[i] = IF i = pool.free THEN 0 ELSE pool.link[i]
    BY <1>1, <1>2, TakenList
  <1>4. FreeOnes(pool) = ToSet(s) /\ FreeOnes(Taken(pool)) = ToSet(Tail(s))
    BY <1>1, <1>2, <1>3, FreeOnesIs
  <1>5. s # <<>> /\ pool.free = Head(s) /\ pool.free \in 1 .. pool.made
    BY <1>1, <1>2, EmptyFree
  <1>6. Head(s) \in ToSet(s) /\ ToSet(Tail(s)) = ToSet(s) \ {Head(s)}
    <2>1. s \in Seq(1 .. pool.made) /\ IsInjective(s)
      BY <1>2 DEF FreeList
    <2> QED  BY <1>5, <2>1, TailMembers
  <1>7. PoolSound(Taken(pool), N)
    BY <1>1, <1>3 DEF PoolSound
  <1> QED  BY <1>3, <1>4, <1>5, <1>6, <1>7 DEF InUse

LEMMA FreedSound ==
    ASSUME NEW N, NEW pool, PoolSound(pool, N), NEW x \in InUse(pool)
    PROVE  /\ PoolSound(Freed(pool, x), N)
           /\ InUse(Freed(pool, x)) = InUse(pool) \ {x}
           /\ Freed(pool, x).made = pool.made
           /\ \A i \in 1 .. N :
                Freed(pool, x).link[i] = IF i = x THEN pool.free ELSE pool.link[i]
  <1>1. N \in Nat
    BY SoundIs
  <1>2. PICK s : FreeList(pool, N, s)
    BY DEF PoolSound
  <1>3. FreeOnes(pool) = ToSet(s)
    BY <1>1, <1>2, FreeOnesIs
  <1>4. x \in 1 .. pool.made /\ x \notin ToSet(s)
    BY <1>3 DEF InUse
  <1>5. /\ FreeList(Freed(pool, x), N, <<x>> \o s) /\ Freed(pool, x).made = pool.made
        /\ \A i \in 1 .. N :
             Freed(pool, x).link[i] = IF i = x THEN pool.free ELSE pool.link[i]
    BY <1>1, <1>2, <1>4, FreedList
  <1>6. FreeOnes(Freed(pool, x)) = ToSet(<<x>> \o s)
    BY <1>1, <1>5, FreeOnesIs
  <1>7. ToSet(<<x>> \o s) = {x} \cup ToSet(s)
    <2>1. s \in Seq(1 .. pool.made)
      BY <1>2 DEF FreeList
    <2> QED  BY <1>4, <2>1, ConsMembers
  <1>8. PoolSound(Freed(pool, x), N)
    BY <1>1, <1>5 DEF PoolSound
  <1> QED  BY <1>3, <1>5, <1>6, <1>7, <1>8 DEF InUse

(* Links of structures in use are not of the free list.                    *)
LEMMA RelinkedSound ==
    ASSUME NEW N, NEW pool, PoolSound(pool, N), NEW c \in PoolOf(1 .. N),
           c.free = pool.free, c.made = pool.made,
           \A i \in FreeOnes(pool) : c.link[i] = pool.link[i]
    PROVE  PoolSound(c, N) /\ InUse(c) = InUse(pool)
  <1>1. N \in Nat
    BY SoundIs
  <1>2. PICK s : FreeList(pool, N, s)
    BY DEF PoolSound
  <1>3. FreeOnes(pool) = ToSet(s)
    BY <1>1, <1>2, FreeOnesIs
  <1>4. s \in Seq(1 .. pool.made) /\ IsInjective(s) /\ IsList(pool.link, pool.free, s)
    BY <1>2 DEF FreeList
  <1>5. \A k \in 1 .. Len(s) : s[k] \in FreeOnes(pool)
    <2>1. DOMAIN s = 1 .. Len(s)
      BY <1>4, LenProperties
    <2> QED  BY <1>3, <2>1 DEF ToSet
  <1>6. IsList(c.link, c.free, s)
    BY <1>4, <1>5 DEF IsList
  <1>7. FreeList(c, N, s)
    BY <1>4, <1>6 DEF FreeList
  <1>8. FreeOnes(c) = ToSet(s)
    BY <1>1, <1>7, FreeOnesIs
  <1> QED  BY <1>1, <1>3, <1>7, <1>8 DEF PoolSound, InUse

-----------------------------------------------------------------------------
(* Queues: c is the nodes of a queue in their order.                       *)

QueueIs(link, prv, rec, c) ==
    /\ IsInjective(c)
    /\ rec.length = Len(c)
    /\ IsList(link, rec.head, c)
    /\ rec.tail = IF Len(c) = 0 THEN 0 ELSE c[Len(c)]
    /\ \A k \in 1 .. Len(c) : prv[c[k]] = IF k = 1 THEN 0 ELSE c[k - 1]

(* The links of one queue are nothing to another.                          *)
LEMMA FrameList ==
    ASSUME NEW S, NEW c \in Seq(S), NEW link, NEW prv, NEW rec,
           QueueIs(link, prv, rec, c), NEW link2, NEW prv2,
           \A x \in ToSet(c) : link2[x] = link[x] /\ prv2[x] = prv[x]
    PROVE  QueueIs(link2, prv2, rec, c)
  <1>1. \A k \in 1 .. Len(c) : c[k] \in ToSet(c)
    <2>1. DOMAIN c = 1 .. Len(c)
      BY LenProperties
    <2> QED  BY <2>1 DEF ToSet
  <1> QED  BY <1>1 DEF QueueIs, IsList

(* new is put between what b and a are, whichever the direction.           *)
PutBetween(S, link, link2, b, new, a) ==
    \A x \in S : link2[x] = IF x = new THEN a ELSE IF x = b THEN new ELSE link[x]

(* The new node comes before the i-th one, or at the end.                  *)
LEMMA EnqueList ==
    ASSUME NEW S \in SUBSET (Nat \ {0}), NEW c \in Seq(S), NEW new \in S, new \notin ToSet(c),
           NEW link, NEW prv, NEW rec, QueueIs(link, prv, rec, c),
           NEW i \in 1 .. Len(c) + 1,
           NEW next, next = IF i = Len(c) + 1 THEN 0 ELSE c[i],
           NEW before, before = IF next = 0 THEN rec.tail ELSE prv[next],
           NEW link2, PutBetween(S, link, link2, before, new, next),
           NEW prv2, PutBetween(S, prv, prv2, next, new, before),
           NEW rec2,
           rec2 = [head   |-> IF before = 0 THEN new ELSE rec.head,
                   tail   |-> IF next = 0 THEN new ELSE rec.tail,
                   length |-> rec.length + 1]
    PROVE  QueueIs(link2, prv2, rec2, InsertAt(c, i, new))
  <1> DEFINE n == Len(c)
             d == InsertAt(c, i, new)
  <1>1. /\ n \in Nat /\ DOMAIN c = 1 .. n
        /\ \A k \in 1 .. n : c[k] \in S /\ c[k] # new /\ c[k] \in Nat \ {0}
    <2>1. n \in Nat /\ DOMAIN c = 1 .. n /\ \A k \in 1 .. n : c[k] \in S
      BY LenProperties, ElementOfSeq
    <2> QED  BY <2>1 DEF ToSet
  <1>2. /\ rec.length = n
        /\ rec.head = IF n = 0 THEN 0 ELSE c[1]
        /\ rec.tail = IF n = 0 THEN 0 ELSE c[n]
        /\ \A k \in 1 .. n : link[c[k]] = IF k = n THEN 0 ELSE c[k + 1]
        /\ \A k \in 1 .. n : prv[c[k]] = IF k = 1 THEN 0 ELSE c[k - 1]
        /\ \A j, k \in 1 .. n : c[j] = c[k] => j = k
    <2>1. c = <<>> <=> n = 0
      BY EmptySeq
    <2> QED  BY <1>1, <2>1 DEF QueueIs, IsList, IsInjective
  <1>3. /\ d \in Seq(S) /\ Len(d) = n + 1 /\ IsInjective(d)
        /\ \A k \in 1 .. n + 1 : d[k] = IF k < i THEN c[k] ELSE IF k = i THEN new ELSE c[k - 1]
    <2>1. IsInjective(c)
      BY DEF QueueIs
    <2> QED  BY <2>1, InsertMembers DEF Inserted
  <1>4. i \in 1 .. n + 1 /\ new \in Nat \ {0}
    OBVIOUS
  <1>5. /\ next = IF i = n + 1 THEN 0 ELSE c[i]
        /\ \A x \in S : link2[x] = IF x = new THEN next ELSE IF x = before THEN new ELSE link[x]
        /\ \A x \in S : prv2[x] = IF x = new THEN before ELSE IF x = next THEN new ELSE prv[x]
    BY DEF PutBetween
  <1> HIDE DEF n, d
  <1>6. before = IF i = 1 THEN 0 ELSE c[i - 1]
    <2>1. CASE i = n + 1
      <3>1. next = 0 /\ before = rec.tail
        BY <1>5, <2>1
      <3> QED  BY <1>1, <1>2, <2>1, <3>1
    <2>2. CASE i # n + 1
      <3>1. i \in 1 .. n /\ next = c[i] /\ next # 0
        BY <1>1, <1>4, <1>5, <2>2
      <3> QED  BY <1>2, <3>1
    <2> QED  BY <2>1, <2>2
  <1>7. IsList(link2, rec2.head, d)
    <2>1. ASSUME NEW k \in 1 .. n + 1
          PROVE  link2[d[k]] = IF k = n + 1 THEN 0 ELSE d[k + 1]
      <3>1. CASE k < i
        <4>1. k \in 1 .. n /\ d[k] = c[k] /\ i # 1 /\ k + 1 \in 1 .. n + 1 /\ k # n + 1
          BY <1>1, <1>3, <1>4, <3>1
        <4>2. link2[c[k]] = IF c[k] = before THEN new ELSE link[c[k]]
          BY <1>1, <1>5, <4>1
        <4>3. CASE k = i - 1
          <5>1. c[k] = before /\ d[k + 1] = new
            BY <1>3, <1>4, <1>6, <4>1, <4>3
          <5> QED  BY <4>1, <4>2, <5>1
        <4>4. CASE k # i - 1
          <5>1. i - 1 \in 1 .. n /\ k + 1 < i /\ k # n
            BY <1>1, <1>4, <3>1, <4>1, <4>4
          <5>2. c[k] # before
            BY <1>2, <1>6, <4>1, <4>4, <5>1
          <5>3. d[k + 1] = c[k + 1]
            BY <1>3, <4>1, <5>1
          <5> QED  BY <1>2, <4>1, <4>2, <5>1, <5>2, <5>3
        <4> QED  BY <4>3, <4>4
      <3>2. CASE k = i
        <4>1. d[k] = new /\ link2[new] = next
          BY <1>3, <1>4, <1>5, <3>2
        <4>2. i # n + 1 => d[k + 1] = c[i]
          <5> SUFFICES ASSUME i # n + 1 PROVE d[k + 1] = c[i]
            OBVIOUS
          <5>1. k + 1 \in 1 .. n + 1 /\ ~(k + 1 < i) /\ k + 1 # i /\ (k + 1) - 1 = i
            BY <1>1, <1>4, <3>2
          <5> QED  BY <1>3, <5>1
        <4> QED  BY <1>5, <3>2, <4>1, <4>2
      <3>3. CASE k > i
        <4>1. k - 1 \in 1 .. n /\ d[k] = c[k - 1] /\ (k - 1) + 1 = k
          BY <1>1, <1>3, <1>4, <3>3
        <4>2. c[k - 1] # before
          <5>1. i # 1 => i - 1 \in 1 .. n /\ i - 1 # k - 1
            BY <1>1, <1>4, <3>3
          <5> QED  BY <1>1, <1>2, <1>6, <4>1, <5>1
        <4>3. link2[c[k - 1]] = IF k - 1 = n THEN 0 ELSE c[k]
          <5>1. c[k - 1] \in S /\ c[k - 1] # new
            BY <1>1, <4>1
          <5>2. link2[c[k - 1]] = link[c[k - 1]]
            BY <1>5, <4>2, <5>1
          <5>3. link[c[k - 1]] = IF k - 1 = n THEN 0 ELSE c[(k - 1) + 1]
            BY <1>2, <4>1
          <5> QED  BY <4>1, <5>2, <5>3
        <4>4. k # n + 1 => d[k + 1] = c[k]
          <5> SUFFICES ASSUME k # n + 1 PROVE d[k + 1] = c[k]
            OBVIOUS
          <5>1. k + 1 \in 1 .. n + 1 /\ ~(k + 1 < i) /\ k + 1 # i /\ (k + 1) - 1 = k
            BY <1>1, <1>4, <3>3
          <5> QED  BY <1>3, <5>1
        <4>5. k - 1 = n <=> k = n + 1
          BY <1>1
        <4> QED  BY <4>1, <4>3, <4>4, <4>5
      <3> QED  BY <1>1, <1>4, <3>1, <3>2, <3>3
    <2>2. rec2.head = d[1]
      <3>1. 1 \in 1 .. n + 1 /\ (i # 1 => n # 0 /\ 1 < i /\ i - 1 \in 1 .. n)
        BY <1>1, <1>4
      <3>2. i # 1 => d[1] = c[1] /\ rec.head = c[1] /\ before # 0
        BY <1>1, <1>2, <1>3, <1>6, <3>1
      <3>3. i = 1 => d[1] = new /\ before = 0
        BY <1>3, <1>6, <3>1
      <3> QED  BY <3>2, <3>3
    <2>3. d # <<>>
      BY <1>1, <1>3, EmptySeq
    <2> QED  BY <1>3, <2>1, <2>2, <2>3 DEF IsList
  <1>8. rec2.tail = d[n + 1]
    <2>1. n + 1 \in 1 .. n + 1
      BY <1>1
    <2>2. CASE i = n + 1
      BY <1>3, <1>5, <2>1, <2>2
    <2>3. CASE i # n + 1
      <3>1. next # 0 /\ n # 0
        BY <1>1, <1>4, <1>5, <2>3
      <3>2. d[n + 1] = c[n]
        <4>1. ~(n + 1 < i) /\ n + 1 # i /\ (n + 1) - 1 = n
          BY <1>1, <1>4, <2>3
        <4> QED  BY <1>3, <2>1, <4>1
      <3> QED  BY <1>2, <3>1, <3>2
    <2> QED  BY <2>2, <2>3
  <1>9. ASSUME NEW k \in 1 .. n + 1  PROVE prv2[d[k]] = IF k = 1 THEN 0 ELSE d[k - 1]
    <2>1. CASE k < i
      <3>1. k \in 1 .. n /\ d[k] = c[k]
        BY <1>1, <1>3, <1>4, <2>1
      <3>2. c[k] # next
        <4>1. i # n + 1 => i \in 1 .. n /\ i # k
          BY <1>1, <1>4, <2>1
        <4> QED  BY <1>1, <1>2, <1>5, <3>1, <4>1
      <3>3. k # 1 => d[k - 1] = c[k - 1]
        <4> SUFFICES ASSUME k # 1 PROVE d[k - 1] = c[k - 1]
          OBVIOUS
        <4>1. k - 1 \in 1 .. n + 1 /\ k - 1 < i
          BY <1>1, <1>4, <2>1
        <4> QED  BY <1>3, <4>1
      <3>4. c[k] \in S /\ c[k] # new
        BY <1>1, <3>1
      <3>5. prv2[c[k]] = prv[c[k]]
        BY <1>5, <3>2, <3>4
      <3>6. prv[c[k]] = IF k = 1 THEN 0 ELSE c[k - 1]
        BY <1>2, <3>1
      <3> QED  BY <3>1, <3>3, <3>5, <3>6
    <2>2. CASE k = i
      <3>1. d[k] = new /\ prv2[new] = before
        BY <1>3, <1>4, <1>5, <2>2
      <3>2. k # 1 => d[k - 1] = c[k - 1]
        <4> SUFFICES ASSUME k # 1 PROVE d[k - 1] = c[k - 1]
          OBVIOUS
        <4>1. k - 1 \in 1 .. n + 1 /\ k - 1 < i
          BY <1>1, <1>4, <2>2
        <4> QED  BY <1>3, <4>1
      <3> QED  BY <1>6, <2>2, <3>1, <3>2
    <2>3. CASE k > i
      <3>1. k - 1 \in 1 .. n /\ d[k] = c[k - 1] /\ k # 1 /\ i # n + 1 /\ i \in 1 .. n
        BY <1>1, <1>3, <1>4, <2>3
      <3>2. CASE k - 1 = i
        <4>1. d[k] = next /\ d[k - 1] = new
          BY <1>3, <1>4, <1>5, <3>1, <3>2
        <4>2. next \in S /\ next # new
          BY <1>1, <1>5, <3>1
        <4> QED  BY <1>5, <3>1, <4>1, <4>2
      <3>3. CASE k - 1 # i
        <4>1. c[k - 1] # next
          BY <1>2, <1>5, <3>1, <3>3
        <4>2. prv2[c[k - 1]] = prv[c[k - 1]]
          BY <1>1, <1>5, <3>1, <4>1
        <4>3. k - 1 # 1 /\ (k - 1) - 1 = k - 2
          BY <1>4, <2>3, <3>1, <3>3
        <4>4. prv[c[k - 1]] = c[k - 2]
          BY <1>2, <3>1, <4>3
        <4>5. d[k - 1] = c[k - 2]
          <5>1. k - 1 \in 1 .. n + 1 /\ ~(k - 1 < i) /\ k - 1 # i /\ (k - 1) - 1 = k - 2
            BY <1>1, <1>4, <2>3, <3>1, <3>3
          <5> QED  BY <1>3, <5>1
        <4> QED  BY <3>1, <4>2, <4>4, <4>5
      <3> QED  BY <3>2, <3>3
    <2> QED  BY <1>1, <1>4, <2>1, <2>2, <2>3
  <1>10. rec2.length = Len(d)
    BY <1>2, <1>3
  <1>11. Len(d) # 0
    BY <1>1, <1>3
  <1> QED  BY <1>3, <1>7, <1>8, <1>9, <1>10, <1>11 DEF QueueIs, d

SameButAt(S, link, link2, x) == \A y \in S : y # x => link2[y] = link[y]
ClearedAt(S, link, link2, x) == \A y \in S : link2[y] = IF y = x THEN 0 ELSE link[y]

(* The head goes, and the one behind it has nothing before it.             *)
LEMMA DequeList ==
    ASSUME NEW S \in SUBSET (Nat \ {0}), NEW c \in Seq(S),
           NEW link, NEW prv, NEW rec, QueueIs(link, prv, rec, c), rec.length # 0,
           NEW head, head = link[rec.head],
           NEW link2, SameButAt(S, link, link2, rec.head),
           NEW first, first = IF head = 0 THEN rec.head ELSE head,
           NEW prv2, ClearedAt(S, prv, prv2, first),
           NEW rec2,
           rec2 = [head   |-> head,
                   tail   |-> IF head = 0 THEN 0 ELSE rec.tail,
                   length |-> rec.length - 1]
    PROVE  c # <<>> /\ Head(c) = rec.head /\ QueueIs(link2, prv2, rec2, Tail(c))
  <1> DEFINE n == Len(c)
             d == Tail(c)
  <1>1. n \in Nat \ {0} /\ DOMAIN c = 1 .. n /\ \A k \in 1 .. n : c[k] \in S /\ c[k] \in Nat \ {0}
    <2>1. n \in Nat /\ DOMAIN c = 1 .. n /\ \A k \in 1 .. n : c[k] \in S
      BY LenProperties, ElementOfSeq
    <2>2. n # 0
      BY DEF QueueIs
    <2> QED  BY <2>1, <2>2
  <1>2. c # <<>>
    BY <1>1, EmptySeq
  <1>3. /\ rec.length = n
        /\ rec.head = c[1]
        /\ rec.tail = c[n]
        /\ \A k \in 1 .. n : link[c[k]] = IF k = n THEN 0 ELSE c[k + 1]
        /\ \A k \in 1 .. n : prv[c[k]] = IF k = 1 THEN 0 ELSE c[k - 1]
        /\ \A j, k \in 1 .. n : c[j] = c[k] => j = k
    BY <1>1, <1>2 DEF QueueIs, IsList, IsInjective
  <1>4. Head(c) = c[1]
    OBVIOUS
  <1>5. d \in Seq(S) /\ Len(d) = n - 1 /\ \A k \in 1 .. Len(d) : d[k] = c[k + 1]
    BY <1>2, HeadTailProperties
  <1>6. IsInjective(d)
    <2>1. IsInjective(c)
      BY DEF QueueIs
    <2> QED  BY <1>2, <2>1, TailMembers
  <1> HIDE DEF n, d
  <1>7. head = IF n = 1 THEN 0 ELSE c[2]
    <2>1. 1 \in 1 .. n /\ 1 + 1 = 2
      BY <1>1
    <2> QED  BY <1>3, <2>1
  <1>8. n # 1 => 2 \in 1 .. n /\ 1 \in 1 .. n /\ head = c[2] /\ head # 0 /\ head # c[1] /\ d[1] = c[2] /\ 1 \in 1 .. Len(d)
    BY <1>1, <1>3, <1>5, <1>7
  <1>9. \A k \in 1 .. Len(d) : k + 1 \in 1 .. n /\ k + 1 # 1 /\ c[k + 1] # c[1] /\ n # 1
    BY <1>1, <1>3, <1>5
  <1>10. IsList(link2, head, d)
    <2>1. d = <<>> <=> n = 1
      BY <1>1, <1>5, EmptySeq
    <2>2. ASSUME NEW k \in 1 .. Len(d)
          PROVE  link2[d[k]] = IF k = Len(d) THEN 0 ELSE d[k + 1]
      <3>4. k + 1 \in 1 .. n /\ c[k + 1] # rec.head /\ d[k] = c[k + 1]
        BY <1>3, <1>5, <1>9
      <3>5. link2[c[k + 1]] = link[c[k + 1]]
        BY <1>1, <3>4 DEF SameButAt
      <3>6. link[c[k + 1]] = IF k + 1 = n THEN 0 ELSE c[(k + 1) + 1]
        BY <1>3, <3>4
      <3>1. link2[d[k]] = IF k + 1 = n THEN 0 ELSE c[(k + 1) + 1]
        BY <3>4, <3>5, <3>6
      <3>2. k + 1 = n <=> k = Len(d)
        BY <1>1, <1>5
      <3>3. k # Len(d) => k + 1 \in 1 .. Len(d)
        BY <1>1, <1>5
      <3> QED  BY <1>5, <3>1, <3>2, <3>3
    <2> QED  BY <1>7, <1>8, <2>1, <2>2 DEF IsList
  <1>11. rec2.tail = IF Len(d) = 0 THEN 0 ELSE d[Len(d)]
    <2>1. CASE n = 1
      BY <1>5, <1>7, <2>1
    <2>2. CASE n # 1
      <3>1. Len(d) # 0 /\ Len(d) \in 1 .. Len(d) /\ Len(d) + 1 = n
        BY <1>1, <1>5, <2>2
      <3> QED  BY <1>3, <1>5, <1>8, <2>2, <3>1
    <2> QED  BY <2>1, <2>2
  <1>12. ASSUME NEW k \in 1 .. Len(d)  PROVE prv2[d[k]] = IF k = 1 THEN 0 ELSE d[k - 1]
    <2>1. n # 1 /\ k + 1 \in 1 .. n /\ d[k] = c[k + 1] /\ head = c[2] /\ head # 0 /\ 2 \in 1 .. n
      BY <1>5, <1>8, <1>9
    <2>2. c[k + 1] \in S /\ (c[k + 1] = head <=> k + 1 = 2)
      BY <1>1, <1>3, <2>1
    <2>5. \A x \in S : prv2[x] = IF x = head THEN 0 ELSE prv[x]
      BY <2>1 DEF ClearedAt
    <2>6. prv2[c[k + 1]] = IF k + 1 = 2 THEN 0 ELSE prv[c[k + 1]]
      BY <2>2, <2>5
    <2>3. CASE k = 1
      <3>1. k + 1 = 2
        BY <2>3
      <3> QED  BY <2>1, <2>3, <2>6, <3>1
    <2>4. CASE k # 1
      <3>1. k + 1 # 2 /\ k + 1 # 1 /\ (k + 1) - 1 = k /\ k - 1 \in 1 .. Len(d) /\ (k - 1) + 1 = k
        BY <1>1, <1>5, <2>4
      <3>4. prv[c[k + 1]] = IF k + 1 = 1 THEN 0 ELSE c[(k + 1) - 1]
        BY <1>3, <2>1
      <3>2. prv2[c[k + 1]] = c[k]
        BY <2>6, <3>1, <3>4
      <3>3. d[k - 1] = c[k]
        BY <1>5, <3>1
      <3> QED  BY <2>1, <2>4, <3>2, <3>3
    <2> QED  BY <2>3, <2>4
  <1>13. rec2.length = Len(d) /\ rec2.head = head
    BY <1>3, <1>5
  <1> QED  BY <1>2, <1>3, <1>4, <1>6, <1>10, <1>11, <1>12, <1>13 DEF QueueIs, d

-----------------------------------------------------------------------------
(* The inductive invariant.                                                *)

NNodes  == Cardinality(Stacks) + NodesPerSlice
NPcbs   == Cardinality(Stacks) + PcbsPerSlice
NStacks == Pages \div StackPages

OnNodes(q) == ToSet(OnQueue(q))

QueuesLinked ==
    \A q \in Queues : /\ OnQueue(q) \in Seq(InUse(nodes))
                      /\ QueueIs(nodes.link, prev, que[q], OnQueue(q))

(* Each node in use is on one queue.                                       *)
NodesOwned ==
    /\ \A q, r \in Queues : q # r => OnNodes(q) \cap OnNodes(r) = {}
    /\ InUse(nodes) = UNION {OnNodes(q) : q \in Queues}

(* Each stands for a process of its own.                                   *)
EntriesSound ==
    /\ \A x \in InUse(nodes) : entry[x].data \in live /\ entry[x].key \in Keys
    /\ \A x, y \in InUse(nodes) : entry[x].data = entry[y].data => x = y

SortedBy(e, c) == \A j, k \in 1 .. Len(c) : j < k => e[c[j]].key <= e[c[k]].key

QueuesSorted == \A q \in Queues \cap Ordered : SortedBy(entry, OnQueue(q))

OwnedStacks == {stack[p] : p \in live}

ProcessesOwn ==
    /\ InUse(pcbs) = live
    /\ \A p, r \in live : stack[p] = stack[r] => p = r
    /\ InUse(stacks) = {1} \cup OwnedStacks /\ 1 \notin OwnedStacks

(* Memory that became stacks is no longer among the free pages.            *)
StacksPaid == pages + (StackPages * stacks.made) <= Pages

ListsInv == PoolSound(nodes, NNodes) /\ QueuesLinked /\ NodesOwned /\ QueuesSorted

IInv ==
    /\ TypeOK
    /\ ListsInv /\ EntriesSound
    /\ PoolSound(pcbs, NPcbs) /\ PoolSound(stacks, NStacks)
    /\ ProcessesOwn /\ StacksPaid

-----------------------------------------------------------------------------
(* Constants, and what the invariant says of one queue.                    *)

LEMMA ConstantsAre ==
    /\ NStacks \in Nat \ {0} /\ Stacks = 1 .. NStacks /\ Cardinality(Stacks) = NStacks
    /\ NNodes \in Nat /\ Nodes = 1 .. NNodes /\ NNodes = NStacks + NodesPerSlice
    /\ NPcbs \in Nat /\ Pcbs = 1 .. NPcbs /\ NPcbs = NStacks + PcbsPerSlice
    /\ NodesPerSlice \in Nat \ {0} /\ PcbsPerSlice \in Nat \ {0}
    /\ StackPages \in Nat \ {0} /\ Pages \in Nat /\ SlicesPerPage \in Nat
    /\ SlicesPerPage >= 3 /\ Pages >= 1 + StackPages
    /\ Keys \subseteq Nat /\ Ordered \subseteq Queues
  <1>1. /\ NodesPerSlice \in Nat \ {0} /\ PcbsPerSlice \in Nat \ {0}
        /\ StackPages \in Nat \ {0} /\ Pages \in Nat /\ SlicesPerPage \in Nat
        /\ SlicesPerPage >= 3 /\ Pages >= 1 + StackPages
        /\ Keys \subseteq Nat /\ Ordered \subseteq Queues
    BY PoolsAssumption
  <1>2. NStacks \in Nat \ {0} /\ Stacks = 1 .. NStacks
    <2>1. NStacks \in Nat /\ (1 <= NStacks <=> 1 * StackPages <= Pages)
      BY <1>1, WholePages DEF NStacks
    <2>2. 1 * StackPages <= Pages
      BY <1>1
    <2> QED  BY <2>1, <2>2 DEF Stacks, NStacks
  <1>3. Cardinality(Stacks) = NStacks
    <2> HIDE DEF Stacks
    <2>1. 1 \in Int /\ NStacks \in Int /\ ~(1 > NStacks)
      BY <1>2
    <2>2. Cardinality(1 .. NStacks) = IF 1 > NStacks THEN 0 ELSE NStacks - 1 + 1
      BY <2>1, FS_Interval
    <2> QED  BY <1>2, <2>1, <2>2
  <1> QED  BY <1>1, <1>2, <1>3 DEF NNodes, NPcbs, Nodes, Pcbs

LEMMA QueueChain ==
    ASSUME NEW pool, NEW prv, NEW rec, NEW c \in Seq(Nat \ {0}),
           QueueIs(pool.link, prv, rec, c)
    PROVE  Chain(pool, rec.head, rec.length) = c
  <1>1. Len(c) \in Nat
    BY LenProperties
  <1>2. IsList(pool.link, rec.head, c) /\ rec.length = Len(c)
    BY DEF QueueIs
  <1>3. /\ Chain(pool, rec.head, Len(c)) = WalkOf(c, Len(c))
        /\ Len(c) = Len(c) => Chain(pool, rec.head, Len(c)) = c
    <2> DEFINE n == Len(c)
    <2>1. n \in Nat /\ IsList(pool.link, rec.head, c)
      BY <1>1, <1>2
    <2> HIDE DEF n
    <2>2. Chain(pool, rec.head, n) = WalkOf(c, n) /\ (n = Len(c) => Chain(pool, rec.head, n) = c)
      BY <2>1, ChainIs
    <2> QED  BY <2>2 DEF n
  <1> QED  BY <1>2, <1>3

LEMMA OneQueue ==
    ASSUME TypeOK, ListsInv, NEW q \in Queues
    PROVE  /\ OnQueue(q) \in Seq(InUse(nodes)) /\ Len(OnQueue(q)) \in Nat
           /\ que[q].length = Len(OnQueue(q))
           /\ QueueIs(nodes.link, prev, que[q], OnQueue(q))
           /\ OnNodes(q) \subseteq InUse(nodes)
           /\ \A k \in 1 .. Len(OnQueue(q)) :
                 OnQueue(q)[k] \in InUse(nodes) /\ OnQueue(q)[k] \in OnNodes(q)
  <1>1. OnQueue(q) \in Seq(InUse(nodes)) /\ QueueIs(nodes.link, prev, que[q], OnQueue(q))
    BY DEF ListsInv, QueuesLinked
  <1>2. /\ Len(OnQueue(q)) \in Nat /\ DOMAIN OnQueue(q) = 1 .. Len(OnQueue(q))
        /\ \A k \in 1 .. Len(OnQueue(q)) : OnQueue(q)[k] \in InUse(nodes)
    BY <1>1, LenProperties, ElementOfSeq
  <1> HIDE DEF OnQueue
  <1> QED  BY <1>1, <1>2 DEF QueueIs, OnNodes, ToSet

(* A process is on a queue if one of the nodes in use stands for it.       *)
LEMMA QueuedIs ==
    ASSUME NodesOwned
    PROVE  Queued = {entry[x].data : x \in InUse(nodes)}
  BY DEF NodesOwned, Queued, OnNodes

(* Where a new entry goes: behind all that came before, of those with the  *)
(* same key at most.                                                       *)
PlaceOf(i, q, key) ==
    /\ i \in 1 .. Len(OnQueue(q)) + 1
    /\ \A j \in 1 .. i - 1 : q \in Ordered => entry[OnQueue(q)[j]].key <= key
    /\ \A j \in i .. Len(OnQueue(q)) : q \in Ordered /\ entry[OnQueue(q)[j]].key > key

LEMMA SuccessorIs ==
    ASSUME TypeOK, ListsInv, EntriesSound, NEW q \in Queues, NEW key \in Keys
    PROVE  \E i \in 1 .. Len(OnQueue(q)) + 1 :
              /\ PlaceOf(i, q, key)
              /\ Successor(q, key) = IF i = Len(OnQueue(q)) + 1 THEN 0 ELSE OnQueue(q)[i]
  <1> DEFINE c == OnQueue(q)
             n == Len(c)
             k(j) == entry[c[j]].key
             later == {j \in 1 .. n : q \in Ordered /\ k(j) > key}
  <1>1. n \in Nat /\ que[q].length = n /\ \A j \in 1 .. n : c[j] \in InUse(nodes)
    BY OneQueue
  <1>2. key \in Nat /\ \A j \in 1 .. n : k(j) \in Nat
    BY <1>1, ConstantsAre DEF EntriesSound
  <1>3. q \in Ordered => \A j, l \in 1 .. n : j < l => k(j) <= k(l)
    BY DEF ListsInv, QueuesSorted, SortedBy
  <1>4. Successor(q, key) = IF later = {} THEN 0 ELSE c[Min(later)]
    BY <1>1 DEF Successor
  <1>5. PlaceOf(n + 1, q, key) <=> \A j \in 1 .. n : q \in Ordered => k(j) <= key
    <2>1. n + 1 \in 1 .. n + 1 /\ (n + 1) - 1 = n /\ n + 1 .. n = {}
      BY <1>1
    <2> QED  BY <2>1 DEF PlaceOf
  <1> HIDE DEF c, k
  <1>6. CASE later = {}
    <2>1. \A j \in 1 .. n : q \in Ordered => k(j) <= key
      BY <1>2, <1>6
    <2>2. n + 1 \in 1 .. n + 1
      BY <1>1
    <2> QED  BY <1>4, <1>5, <1>6, <2>1, <2>2 DEF c
  <1>7. CASE later # {}
    <2> DEFINE i == Min(later)
    <2>1. i \in later /\ \A j \in later : i <= j
      <3>1. later \in SUBSET Nat
        OBVIOUS
      <3> HIDE DEF later
      <3>2. \E x \in later : \A y \in later : x <= y
        BY <1>7, <3>1, LeastOf
      <3> QED  BY <3>2 DEF Min
    <2> HIDE DEF i
    <2>2. i \in 1 .. n /\ q \in Ordered /\ k(i) > key
      BY <2>1
    <2>3. \A j \in 1 .. i - 1 : k(j) <= key
      <3>1. ASSUME NEW j \in 1 .. i - 1  PROVE k(j) <= key
        <4>1. j \in 1 .. n /\ ~(i <= j)
          BY <1>1, <2>2
        <4>2. j \notin later
          BY <2>1, <4>1
        <4> QED  BY <1>2, <2>2, <4>1, <4>2
      <3> QED  BY <3>1
    <2>4. \A j \in i .. n : k(j) > key
      <3>1. ASSUME NEW j \in i .. n  PROVE k(j) > key
        <4>1. j \in 1 .. n /\ (j = i \/ i < j)
          BY <1>1, <2>2
        <4>2. k(i) <= k(j)
          <5>1. CASE j = i
            BY <1>2, <4>1, <5>1
          <5>2. CASE i < j
            BY <1>3, <2>2, <4>1, <5>2
          <5> QED  BY <4>1, <5>1, <5>2
        <4> QED  BY <1>2, <2>2, <4>1, <4>2
      <3> QED  BY <3>1
    <2>5. i \in 1 .. n + 1 /\ i # n + 1
      BY <1>1, <2>2
    <2>6. PlaceOf(i, q, key)
      BY <2>2, <2>3, <2>4, <2>5 DEF PlaceOf, c, k
    <2>7. Successor(q, key) = c[i]
      BY <1>4, <1>7 DEF i
    <2> QED  BY <2>5, <2>6, <2>7 DEF c
  <1> QED  BY <1>6, <1>7

-----------------------------------------------------------------------------
(* _que_enque: the node of a new entry is linked between two others.       *)

ListsTyped ==
    /\ nodes \in PoolOf(Nodes)
    /\ prev \in [Nodes -> Nodes \cup {0}]
    /\ que \in [Queues -> [head : Nodes \cup {0}, tail : Nodes \cup {0}, length : Nat]]

Entered(q, p, key, i, new) ==
    /\ new \in Nodes \ InUse(nodes)
    /\ InUse(nodes') = InUse(nodes) \cup {new}
    /\ PlaceOf(i, q, key)
    /\ OnQueue(q)' = InsertAt(OnQueue(q), i, new)
    /\ \A r \in Queues \ {q} : OnQueue(r)' = OnQueue(r)
    /\ entry' = [entry EXCEPT ![new] = [data |-> p, key |-> key]]

(* The link that a queue changes is of a node on it.                       *)
LEMMA NeighbourIs ==
    ASSUME NEW S \in SUBSET (Nat \ {0}), NEW c \in Seq(S), NEW link, NEW prv, NEW rec,
           QueueIs(link, prv, rec, c), NEW i \in 1 .. Len(c) + 1,
           NEW next, next = IF i = Len(c) + 1 THEN 0 ELSE c[i],
           NEW before, before = IF next = 0 THEN rec.tail ELSE prv[next]
    PROVE  next \in ToSet(c) \cup {0} /\ before \in ToSet(c) \cup {0}
  <1> DEFINE n == Len(c)
  <1>1. /\ n \in Nat /\ DOMAIN c = 1 .. n
        /\ \A k \in 1 .. n : c[k] \in Nat \ {0}
    BY LenProperties, ElementOfSeq
  <1>2. \A k \in 1 .. n : c[k] \in ToSet(c)
    BY <1>1 DEF ToSet
  <1>3. /\ rec.tail = IF n = 0 THEN 0 ELSE c[n]
        /\ \A k \in 1 .. n : prv[c[k]] = IF k = 1 THEN 0 ELSE c[k - 1]
    BY DEF QueueIs
  <1>4. i \in 1 .. n + 1 /\ next = IF i = n + 1 THEN 0 ELSE c[i]
    OBVIOUS
  <1> HIDE DEF n
  <1>5. CASE i = n + 1
    <2>1. n # 0 => n \in 1 .. n
      BY <1>1
    <2> QED  BY <1>2, <1>3, <1>4, <1>5, <2>1
  <1>6. CASE i # n + 1
    <2>1. i \in 1 .. n /\ (i # 1 => i - 1 \in 1 .. n)
      BY <1>1, <1>4, <1>6
    <2>2. next = c[i] /\ next # 0
      BY <1>1, <1>4, <1>6, <2>1
    <2>3. before = IF i = 1 THEN 0 ELSE c[i - 1]
      BY <1>3, <2>1, <2>2
    <2> QED  BY <1>2, <2>1, <2>2, <2>3
  <1> QED  BY <1>5, <1>6

LEMMA LinkedStep ==
    ASSUME TypeOK, ListsInv, EntriesSound,
           nodes.free = 0 => nodes.made + NodesPerSlice <= NNodes,
           NEW q \in Queues, NEW p, NEW key \in Keys,
           Linked(Stocked(nodes, NodesPerSlice), q, p, key)
    PROVE  /\ ListsTyped' /\ PoolSound(nodes', NNodes) /\ QueuesLinked' /\ NodesOwned'
           /\ \E i, new : Entered(q, p, key, i, new)
  <1> DEFINE N == NNodes
             pool == Stocked(nodes, NodesPerSlice)
             new == pool.free
             tp == Taken(pool)
             next == Successor(q, key)
             before == Before(q, next)
             c == OnQueue(q)
             S == InUse(nodes) \cup {new}
  <1>0. /\ N \in Nat /\ Nodes = 1 .. N /\ NodesPerSlice \in Nat \ {0}
        /\ (1 .. N) \cup {0} = 0 .. N
    BY ConstantsAre
  <1>1. /\ PoolSound(pool, N) /\ new # 0 /\ InUse(pool) = InUse(nodes)
        /\ \A x \in InUse(nodes) : pool.link[x] = nodes.link[x]
    BY <1>0, StockedSound DEF ListsInv
  <1> HIDE DEF pool
  <1>2. /\ PoolSound(tp, N) /\ new \in (1 .. pool.made) \ InUse(nodes)
        /\ InUse(tp) = S /\ tp.made = pool.made
        /\ \A x \in 1 .. N : tp.link[x] = IF x = new THEN 0 ELSE pool.link[x]
    <2>1. /\ PoolSound(tp, N) /\ new \in (1 .. pool.made) \ InUse(pool)
          /\ InUse(tp) = InUse(pool) \cup {new} /\ tp.made = pool.made
          /\ \A x \in 1 .. N : tp.link[x] = IF x = new THEN 0 ELSE pool.link[x]
      <3> HIDE DEF N
      <3>1. PoolSound(pool, N) /\ pool.free # 0
        BY <1>1
      <3> QED  BY ZenonT(30), <3>1, TakenSound
    <2> HIDE DEF tp
    <2> QED  BY <1>1, <2>1
  <1>3. /\ pool \in PoolOf(1 .. N) /\ tp \in PoolOf(1 .. N) /\ pool.made \in 0 .. N
        /\ FreeOnes(tp) \cap S = {} /\ S \subseteq 1 .. tp.made
    <2>1. /\ tp \in PoolOf(1 .. N) /\ FreeOnes(tp) \cup InUse(tp) = 1 .. tp.made
          /\ FreeOnes(tp) \cap InUse(tp) = {}
      BY <1>2, SoundIs
    <2>2. pool \in PoolOf(1 .. N) /\ pool.made \in 0 .. N
      BY <1>1, SoundIs
    <2> QED  BY <1>2, <2>1, <2>2
  <1>4. S \subseteq 1 .. N /\ S \subseteq Nat \ {0} /\ new \in 1 .. N
    BY <1>0, <1>2, <1>3
  <1> HIDE DEF tp
  <1>5. \A r \in Queues : /\ OnQueue(r) \in Seq(InUse(nodes)) /\ OnQueue(r) \in Seq(S)
                          /\ OnNodes(r) \subseteq InUse(nodes)
                          /\ QueueIs(tp.link, prev, que[r], OnQueue(r))
    <2> TAKE r \in Queues
    <2>1. /\ OnQueue(r) \in Seq(InUse(nodes)) /\ OnNodes(r) \subseteq InUse(nodes)
          /\ QueueIs(nodes.link, prev, que[r], OnQueue(r))
      BY OneQueue
    <2>2. \A x \in InUse(nodes) : tp.link[x] = nodes.link[x]
      <3>1. \A x \in InUse(nodes) : x # new /\ x \in 1 .. N
        BY <1>2, <1>4
      <3> HIDE DEF new
      <3> QED  BY <1>1, <1>2, <3>1
    <2>3. \A x \in ToSet(OnQueue(r)) : tp.link[x] = nodes.link[x] /\ prev[x] = prev[x]
      BY <2>1, <2>2 DEF OnNodes
    <2> HIDE DEF S, new
    <2>4. QueueIs(tp.link, prev, que[r], OnQueue(r))
      BY <2>1, <2>3, FrameList
    <2>5. OnQueue(r) \in Seq(S)
      <3>1. InUse(nodes) \subseteq S
        BY DEF S
      <3> QED  BY <2>1, <3>1, SeqMonotonic
    <2> QED  BY <2>1, <2>4, <2>5
  <1>6. PICK i \in 1 .. Len(c) + 1 :
           /\ PlaceOf(i, q, key)
           /\ next = IF i = Len(c) + 1 THEN 0 ELSE c[i]
    BY SuccessorIs
  <1>7. before = IF next = 0 THEN que[q].tail ELSE prev[next]
    BY DEF Before
  <1>8. /\ nodes' = NextLinks(tp, new, before, next)
        /\ prev' = PrevLinks(new, before, next)
        /\ entry' = [entry EXCEPT ![new] = [data |-> p, key |-> key]]
        /\ que' = [que EXCEPT ![q] = [head   |-> IF before = 0 THEN new ELSE que[q].head,
                                      tail   |-> IF next = 0 THEN new ELSE que[q].tail,
                                      length |-> que[q].length + 1]]
    <2>1. que \in [Queues -> [head : Nodes \cup {0}, tail : Nodes \cup {0}, length : Nat]]
      BY DEF TypeOK
    <2> QED  BY <2>1 DEF Linked, tp, pool
  <1> HIDE DEF new, next, before, S
  <1>9. next \in OnNodes(q) \cup {0} /\ before \in OnNodes(q) \cup {0}
    BY <1>4, <1>5, <1>6, <1>7, NeighbourIs DEF OnNodes
  <1>10. /\ InUse(nodes) \subseteq S /\ new \in S /\ new \notin InUse(nodes)
         /\ OnNodes(q) \subseteq InUse(nodes)
    BY <1>2, <1>5 DEF S
  <1>11. /\ nodes' \in PoolOf(1 .. N) /\ nodes'.free = tp.free /\ nodes'.made = tp.made
         /\ \A x \in 1 .. N : nodes'.link[x] =
               IF x = new THEN next ELSE IF x = before THEN new ELSE tp.link[x]
    <2>1. tp.link \in [1 .. N -> 0 .. N]
      BY <1>0, <1>3, PoolIs
    <2>2. next \in 0 .. N /\ new \in 0 .. N
      BY <1>0, <1>4, <1>9, <1>10
    <2> DEFINE l == [x \in 1 .. N |->
                        IF x = new THEN next ELSE IF x = before THEN new ELSE tp.link[x]]
    <2>3. l \in [1 .. N -> 0 .. N]
      BY <2>1, <2>2
    <2>4. nodes' = [tp EXCEPT !.link = l]
      BY <1>8, <2>1 DEF NextLinks
    <2>5. \A x \in 1 .. N : l[x] = IF x = new THEN next ELSE IF x = before THEN new ELSE tp.link[x]
      OBVIOUS
    <2> HIDE DEF l, N
    <2>6. nodes' \in PoolOf(1 .. N) /\ nodes'.free = tp.free /\ nodes'.made = tp.made /\ nodes'.link = l
      BY <1>0, <1>3, <2>3, <2>4 DEF PoolOf
    <2> QED  BY <2>5, <2>6
  <1>12. PoolSound(nodes', N) /\ InUse(nodes') = S
    <2>1. ASSUME NEW x \in FreeOnes(tp)  PROVE nodes'.link[x] = tp.link[x]
      <3>1. x \in 1 .. N /\ x # new /\ x # before
        <4>1. FreeOnes(tp) \subseteq 1 .. tp.made /\ tp.made \in 0 .. N
          BY <1>2, SoundIs
        <4>2. x \in 1 .. N
          BY <1>0, <4>1
        <4>3. x \notin S /\ x # 0
          BY <1>3, <4>2
        <4> QED  BY <1>9, <1>10, <4>2, <4>3
      <3> QED  BY <1>11, <3>1
    <2> HIDE DEF N
    <2>2. PoolSound(nodes', N) /\ InUse(nodes') = InUse(tp)
      BY <1>2, <1>11, <2>1, RelinkedSound
    <2> QED  BY <1>2, <2>2
  <1>13. /\ prev' \in [Nodes -> Nodes \cup {0}]
         /\ \A x \in 1 .. N :
               prev'[x] = IF x = new THEN before ELSE IF x = next THEN new ELSE prev[x]
    <2>1. prev \in [1 .. N -> 0 .. N]
      BY <1>0 DEF TypeOK
    <2>2. before \in 0 .. N /\ new \in 0 .. N
      BY <1>0, <1>4, <1>9, <1>10
    <2>3. prev' = [x \in 1 .. N |-> IF x = new THEN before ELSE IF x = next THEN new ELSE prev[x]]
      BY <1>0, <1>8 DEF PrevLinks
    <2> HIDE DEF N
    <2> QED  BY <1>0, <2>1, <2>2, <2>3
  <1> DEFINE rec2 == [head   |-> IF before = 0 THEN new ELSE que[q].head,
                      tail   |-> IF next = 0 THEN new ELSE que[q].tail,
                      length |-> que[q].length + 1]
             d == InsertAt(c, i, new)
  <1>14. QueueIs(nodes'.link, prev', rec2, d)
    <2>1. new \notin ToSet(c)
      BY <1>10 DEF OnNodes
    <2>2. PutBetween(S, tp.link, nodes'.link, before, new, next)
      BY <1>4, <1>11 DEF PutBetween
    <2>3. PutBetween(S, prev, prev', next, new, before)
      BY <1>4, <1>13 DEF PutBetween
    <2>4. c \in Seq(S) /\ QueueIs(tp.link, prev, que[q], c)
      BY <1>5
    <2> HIDE DEF c, N
    <2> QED  BY SMTT(30), <1>4, <1>6, <1>7, <1>10, <2>1, <2>2, <2>3, <2>4, EnqueList
  <1>15. d \in Seq(S) /\ ToSet(d) = OnNodes(q) \cup {new}
    <2>1. c \in Seq(S)
      BY <1>5
    <2> HIDE DEF c
    <2> QED  BY <1>6, <1>10, <2>1, InsertMembers DEF OnNodes, c
  <1> HIDE DEF c, d, rec2
  <1>16. que' = [que EXCEPT ![q] = rec2]
    BY <1>8 DEF rec2
  <1>17. que' \in [Queues -> [head : Nodes \cup {0}, tail : Nodes \cup {0}, length : Nat]]
    <2>1. que \in [Queues -> [head : Nodes \cup {0}, tail : Nodes \cup {0}, length : Nat]]
      BY DEF TypeOK
    <2>2. que[q].head \in Nodes \cup {0} /\ que[q].tail \in Nodes \cup {0} /\ que[q].length + 1 \in Nat
      BY <2>1
    <2>3. rec2 \in [head : Nodes \cup {0}, tail : Nodes \cup {0}, length : Nat]
      BY <1>0, <1>4, <2>2 DEF rec2
    <2> QED  BY <1>16, <2>1, <2>3
  <1>18. que'[q] = rec2 /\ \A r \in Queues \ {q} : que'[r] = que[r]
    BY <1>16 DEF TypeOK
  <1>19. S \subseteq Nat \ {0}
    BY <1>4
  <1>20. OnQueue(q)' = d
    <2>1. d \in Seq(Nat \ {0})
      BY <1>15, <1>19, SeqMonotonic
    <2>2. Chain(nodes', rec2.head, rec2.length) = d
      BY <1>14, <2>1, QueueChain
    <2> QED  BY <1>18, <2>2 DEF OnQueue
  <1>21. ASSUME NEW r \in Queues \ {q}
         PROVE  OnQueue(r)' = OnQueue(r) /\ QueueIs(nodes'.link, prev', que'[r], OnQueue(r))
    <2>1. OnNodes(r) \subseteq InUse(nodes) /\ OnNodes(r) \cap OnNodes(q) = {}
      BY <1>5 DEF ListsInv, NodesOwned
    <2>2. \A x \in OnNodes(r) : x \in 1 .. N /\ x # new /\ x # before /\ x # next
      BY <1>4, <1>9, <1>10, <2>1
    <2>3. \A x \in OnNodes(r) : nodes'.link[x] = tp.link[x] /\ prev'[x] = prev[x]
      BY <1>11, <1>13, <2>2
    <2>4. QueueIs(tp.link, prev, que[r], OnQueue(r)) /\ OnQueue(r) \in Seq(S)
      BY <1>5
    <2>5. QueueIs(nodes'.link, prev', que[r], OnQueue(r))
      <3> HIDE DEF OnQueue
      <3> QED  BY <2>3, <2>4, FrameList DEF OnNodes
    <2>6. Chain(nodes', que[r].head, que[r].length) = OnQueue(r)
      <3>1. OnQueue(r) \in Seq(Nat \ {0})
        BY <1>19, <2>4, SeqMonotonic
      <3> HIDE DEF OnQueue
      <3> QED  BY <2>5, <3>1, QueueChain
    <2> QED  BY <1>18, <2>5, <2>6 DEF OnQueue
  <1>22. QueuesLinked'
    <2> SUFFICES ASSUME NEW r \in Queues
                 PROVE  /\ OnQueue(r)' \in Seq(InUse(nodes'))
                        /\ QueueIs(nodes'.link, prev', que'[r], OnQueue(r)')
      BY DEF QueuesLinked
    <2>1. CASE r = q
      BY <1>12, <1>14, <1>15, <1>18, <1>20, <2>1
    <2>2. CASE r # q
      <3>1. OnQueue(r)' = OnQueue(r) /\ QueueIs(nodes'.link, prev', que'[r], OnQueue(r)) /\ OnQueue(r) \in Seq(S)
        BY <1>5, <1>21, <2>2
      <3> QED  BY <1>12, <3>1
    <2> QED  BY <2>1, <2>2
  <1>23. /\ OnNodes(q)' = OnNodes(q) \cup {new}
         /\ \A r \in Queues \ {q} : OnNodes(r)' = OnNodes(r)
    BY <1>15, <1>20, <1>21 DEF OnNodes
  <1>24. NodesOwned'
    <2>1. /\ \A r, t \in Queues : r # t => OnNodes(r) \cap OnNodes(t) = {}
          /\ InUse(nodes) = UNION {OnNodes(r) : r \in Queues}
      BY DEF ListsInv, NodesOwned
    <2>2. \A r \in Queues : new \notin OnNodes(r)
      BY <1>10, <2>1
    <2>3. \A r, t \in Queues : r # t => OnNodes(r)' \cap OnNodes(t)' = {}
      <3> TAKE r \in Queues, t \in Queues
      <3>1. CASE r = q /\ t # q
        BY <1>23, <2>1, <2>2, <3>1
      <3>2. CASE t = q /\ r # q
        BY <1>23, <2>1, <2>2, <3>2
      <3>3. CASE r # q /\ t # q
        BY <1>23, <2>1, <3>3
      <3> QED  BY <3>1, <3>2, <3>3
    <2>4. UNION {OnNodes(r)' : r \in Queues} = S
      BY <1>23, <2>1 DEF S
    <2> QED  BY <1>12, <2>3, <2>4 DEF NodesOwned
  <1>25. Entered(q, p, key, i, new)
    <2>1. new \in Nodes \ InUse(nodes)
      BY <1>0, <1>4, <1>10
    <2> QED  BY <1>6, <1>8, <1>12, <1>20, <1>21, <2>1 DEF Entered, S, d, c
  <1>26. ListsTyped'
    BY <1>0, <1>11, <1>13, <1>17 DEF ListsTyped
  <1> QED  BY <1>12, <1>22, <1>24, <1>25, <1>26

EntryTyped == entry \in [Nodes \cup {0} -> [data : Pcbs \cup {0}, key : Keys \cup {0}]]

(* The new entry is in its place by key, and of a process that has no other*)
LEMMA EnteredStep ==
    ASSUME TypeOK, ListsInv, EntriesSound,
           NEW q \in Queues, NEW p \in Pcbs, NEW key \in Keys, NEW i, NEW new,
           Entered(q, p, key, i, new), p \notin Queued, live \cup {p} \subseteq live'
    PROVE  EntryTyped' /\ EntriesSound' /\ QueuesSorted'
  <1> DEFINE S == InUse(nodes)
             c == OnQueue(q)
             n == Len(c)
             d == InsertAt(c, i, new)
             e == [data |-> p, key |-> key]
  <1>1. /\ new \in Nodes \ S /\ InUse(nodes') = S \cup {new}
        /\ PlaceOf(i, q, key)
        /\ OnQueue(q)' = d /\ \A r \in Queues \ {q} : OnQueue(r)' = OnQueue(r)
        /\ entry' = [entry EXCEPT ![new] = e]
    BY DEF Entered
  <1>2. EntryTyped
    BY DEF TypeOK, EntryTyped
  <1>3. \A x \in Nodes \cup {0} : entry'[x] = IF x = new THEN e ELSE entry[x]
    BY <1>1, <1>2 DEF EntryTyped
  <1>4. EntryTyped'
    BY <1>1, <1>2 DEF EntryTyped
  <1>5. S \subseteq Nodes
    <2>1. nodes.made \in 0 .. NNodes
      BY SoundIs DEF ListsInv
    <2>2. S \subseteq 1 .. nodes.made
      BY DEF InUse
    <2> QED  BY <2>1, <2>2, ConstantsAre
  <1>6. e.data = p /\ e.key = key /\ key \in Nat
    BY ConstantsAre
  <1>7. \A x \in S : entry'[x] = entry[x] /\ entry[x].data # p
    <2>1. \A x \in S : entry[x].data # p
      BY QueuedIs DEF ListsInv
    <2> QED  BY <1>1, <1>3, <1>5, <2>1
  <1>8. entry'[new] = e
    BY <1>1, <1>3
  <1> HIDE DEF S, e, c, n, d
  <1>9. EntriesSound'
    <2>1. /\ \A x \in S : entry[x].data \in live /\ entry[x].key \in Keys
          /\ \A x, y \in S : entry[x].data = entry[y].data => x = y
      BY DEF EntriesSound, S
    <2>2. \A x \in S \cup {new} : entry'[x].data \in live' /\ entry'[x].key \in Keys
      BY <1>6, <1>7, <1>8, <2>1
    <2>3. \A x, y \in S \cup {new} : entry'[x].data = entry'[y].data => x = y
      BY <1>6, <1>7, <1>8, <2>1
    <2> QED  BY <1>1, <2>2, <2>3 DEF EntriesSound
  <1>10. QueuesSorted'
    <2> SUFFICES ASSUME NEW r \in Queues \cap Ordered PROVE SortedBy(entry', OnQueue(r)')
      BY DEF QueuesSorted
    <2>1. SortedBy(entry, OnQueue(r))
      BY DEF ListsInv, QueuesSorted
    <2>2. CASE r # q
      <3>1. OnQueue(r)' = OnQueue(r)
        BY <1>1, <2>2
      <3>2. \A k \in 1 .. Len(OnQueue(r)) : OnQueue(r)[k] \in S
        BY OneQueue DEF S
      <3> QED  BY <1>7, <2>1, <3>1, <3>2 DEF SortedBy
    <2>3. CASE r = q
      <3>1. n \in Nat /\ c \in Seq(S) /\ \A k \in 1 .. n : c[k] \in S
        BY OneQueue DEF S, c, n
      <3>2. \A j, k \in 1 .. n : j < k => entry[c[j]].key <= entry[c[k]].key
        BY <2>1, <2>3 DEF SortedBy, c, n
      <3>3. /\ i \in 1 .. n + 1
            /\ \A j \in 1 .. i - 1 : entry[c[j]].key <= key
            /\ \A j \in i .. n : entry[c[j]].key > key
        BY <1>1, <2>3 DEF PlaceOf, c, n
      <3>4. /\ Len(d) = n + 1
            /\ \A k \in 1 .. n + 1 : d[k] = IF k < i THEN c[k] ELSE IF k = i THEN new ELSE c[k - 1]
        <4>1. c \in Seq(S \cup {new})
          BY <3>1, SeqMonotonic
        <4>2. Inserted(d, c, i, new)
          BY ZenonT(30), <3>3, <4>1, InsertMembers DEF d, n
        <4> QED  BY <4>2 DEF Inserted, n
      <3> DEFINE key1(k) == entry[c[k]].key
                 key2(k) == entry'[d[k]].key
      <3>5. \A k \in 1 .. n : key1(k) \in Nat
        <4>1. \A x \in S : entry[x].key \in Keys
          BY DEF EntriesSound, S
        <4> QED  BY <3>1, <4>1, ConstantsAre
      <3>6. ASSUME NEW k \in 1 .. n + 1
            PROVE  key2(k) = IF k < i THEN key1(k) ELSE IF k = i THEN key ELSE key1(k - 1)
        <4>1. CASE k < i
          <5>1. k \in 1 .. n
            BY <3>1, <3>3, <4>1
          <5> QED  BY <1>7, <3>1, <3>4, <4>1, <5>1
        <4>2. CASE k = i
          BY <1>6, <1>8, <3>3, <3>4, <4>2
        <4>3. CASE k > i
          <5>1. k - 1 \in 1 .. n /\ d[k] = c[k - 1] /\ ~(k < i) /\ k # i
            BY <3>1, <3>3, <3>4, <4>3
          <5>2. entry'[c[k - 1]] = entry[c[k - 1]]
            BY <1>7, <3>1, <5>1
          <5> QED  BY <5>1, <5>2
        <4> QED  BY <3>3, <4>1, <4>2, <4>3
      <3>7. /\ \A j, k \in 1 .. n : j < k => key1(j) <= key1(k)
            /\ \A j \in 1 .. i - 1 : key1(j) <= key
            /\ \A j \in i .. n : key1(j) > key
        BY <3>2, <3>3
      <3> HIDE DEF key1, key2
      <3>8. ASSUME NEW j \in 1 .. n + 1, NEW k \in 1 .. n + 1, j < k  PROVE key2(j) <= key2(k)
        <4>1. key2(j) = IF j < i THEN key1(j) ELSE IF j = i THEN key ELSE key1(j - 1)
          BY <3>6
        <4>2. key2(k) = IF k < i THEN key1(k) ELSE IF k = i THEN key ELSE key1(k - 1)
          BY <3>6
        <4>3. CASE k < i
          <5>1. j \in 1 .. n /\ k \in 1 .. n /\ j < i
            BY <3>1, <3>3, <3>8, <4>3
          <5> QED  BY <3>7, <3>8, <4>1, <4>2, <4>3, <5>1
        <4>4. CASE k = i
          <5>1. j \in 1 .. i - 1 /\ j < i /\ ~(k < i)
            BY <3>3, <3>8, <4>4
          <5> QED  BY <3>7, <4>1, <4>2, <4>4, <5>1
        <4>5. CASE k > i /\ j < i
          <5>1. j \in 1 .. i - 1 /\ k - 1 \in i .. n /\ k - 1 \in 1 .. n /\ j \in 1 .. n /\ ~(k < i) /\ k # i
            BY <3>1, <3>3, <4>5
          <5>2. key1(j) <= key /\ key1(k - 1) > key
            BY <3>7, <5>1
          <5>3. key1(j) \in Nat /\ key1(k - 1) \in Nat
            BY <3>5, <5>1
          <5> QED  BY <1>6, <4>1, <4>2, <4>5, <5>1, <5>2, <5>3
        <4>6. CASE k > i /\ j = i
          <5>1. k - 1 \in i .. n /\ k - 1 \in 1 .. n /\ ~(k < i) /\ k # i /\ ~(j < i)
            BY <3>1, <3>3, <4>6
          <5>2. key1(k - 1) > key /\ key1(k - 1) \in Nat
            BY <3>5, <3>7, <5>1
          <5> QED  BY <1>6, <4>1, <4>2, <4>6, <5>1, <5>2
        <4>7. CASE j > i
          <5>1. k - 1 \in 1 .. n /\ j - 1 \in 1 .. n /\ j - 1 < k - 1
            BY <3>1, <3>3, <3>8, <4>7
          <5>2. ~(k < i) /\ k # i /\ ~(j < i) /\ j # i
            BY <3>3, <3>8, <4>7
          <5>3. key1(j - 1) <= key1(k - 1)
            BY <3>7, <5>1
          <5> QED  BY <4>1, <4>2, <5>2, <5>3
        <4> QED  BY <3>3, <3>8, <4>3, <4>4, <4>5, <4>6, <4>7
      <3>9. SortedBy(entry', d)
        BY <3>4, <3>8 DEF SortedBy, key2
      <3> QED  BY <1>1, <2>3, <3>9 DEF d, c
    <2> QED  BY <2>2, <2>3
  <1> QED  BY <1>4, <1>9, <1>10

-----------------------------------------------------------------------------
(* _que_deque: the first node is unlinked and freed.                       *)

Left(q) ==
    /\ OnQueue(q) # <<>>
    /\ OnQueue(q)' = Tail(OnQueue(q))
    /\ \A r \in Queues \ {q} : OnQueue(r)' = OnQueue(r)
    /\ InUse(nodes') = InUse(nodes) \ {Head(OnQueue(q))}
    /\ entry' = [entry EXCEPT ![Head(OnQueue(q))] = NoEntry]

LEMMA DequeStep ==
    ASSUME TypeOK, ListsInv, EntriesSound, NEW q \in Queues, Deque(q)
    PROVE  /\ ListsTyped' /\ EntryTyped' /\ PoolSound(nodes', NNodes)
           /\ QueuesLinked' /\ NodesOwned' /\ EntriesSound' /\ QueuesSorted'
           /\ Left(q)
  <1> DEFINE N == NNodes
             S == InUse(nodes)
             c == OnQueue(q)
             old == que[q].head
             head == nodes.link[old]
             d == Tail(c)
             rec2 == [head   |-> head,
                      tail   |-> IF head = 0 THEN 0 ELSE que[q].tail,
                      length |-> que[q].length - 1]
  <1>0. /\ N \in Nat /\ Nodes = 1 .. N /\ (1 .. N) \cup {0} = 0 .. N
    BY ConstantsAre
  <1>1. /\ que[q].length # 0
        /\ que' = [que EXCEPT ![q] = rec2]
        /\ prev' = [prev EXCEPT ![IF head = 0 THEN old ELSE head] = 0]
        /\ nodes' = Freed(nodes, old)
        /\ entry' = [entry EXCEPT ![old] = NoEntry]
        /\ live' = live
    <2>1. que \in [Queues -> [head : Nodes \cup {0}, tail : Nodes \cup {0}, length : Nat]]
      BY DEF TypeOK
    <2> QED  BY <2>1 DEF Deque
  <1>2. /\ PoolSound(nodes, N) /\ nodes \in PoolOf(1 .. N)
        /\ nodes.link \in [1 .. N -> 0 .. N] /\ S \subseteq 1 .. N
    <2>1. PoolSound(nodes, N)
      BY DEF ListsInv
    <2>2. nodes \in PoolOf(1 .. N) /\ FreeOnes(nodes) \cup S = 1 .. nodes.made /\ nodes.made \in 0 .. N
      BY <2>1, SoundIs
    <2>3. 1 .. nodes.made \subseteq 1 .. N
      BY <1>0, <2>2
    <2> QED  BY <1>0, <2>1, <2>2, <2>3, PoolIs
  <1>3. S \subseteq Nat \ {0}
    BY <1>2
  <1>4. \A r \in Queues : /\ OnQueue(r) \in Seq(S) /\ OnNodes(r) \subseteq S
                          /\ QueueIs(nodes.link, prev, que[r], OnQueue(r))
    BY OneQueue
  <1> HIDE DEF S, N, c
  <1>5. c \in Seq(S) /\ QueueIs(nodes.link, prev, que[q], c) /\ c # <<>> /\ Head(c) = old
    <2>1. c \in Seq(S) /\ QueueIs(nodes.link, prev, que[q], c)
      BY <1>4 DEF c
    <2>2. c # <<>> /\ que[q].head = c[1]
      <3>1. Len(c) # 0 /\ que[q].head = IF c = <<>> THEN 0 ELSE c[1]
        BY <1>1, <2>1 DEF QueueIs, IsList
      <3> QED  BY <2>1, <3>1, EmptySeq
    <2>3. Head(c) = c[1]
      OBVIOUS
    <2> QED  BY <2>1, <2>2, <2>3
  <1>6. old \in S /\ old \in OnNodes(q) /\ d \in Seq(S) /\ ToSet(d) = OnNodes(q) \ {old}
    <2>1. IsInjective(c)
      BY <1>5 DEF QueueIs
    <2>2. Head(c) \in S /\ Head(c) \in ToSet(c) /\ d \in Seq(S) /\ ToSet(d) = ToSet(c) \ {Head(c)}
      BY <1>5, <2>1, TailMembers
    <2> QED  BY <1>5, <2>2 DEF OnNodes, c
  <1>7. /\ PoolSound(nodes', N) /\ InUse(nodes') = S \ {old} /\ nodes' \in PoolOf(1 .. N)
        /\ \A x \in 1 .. N : x # old => nodes'.link[x] = nodes.link[x]
    <2>1. /\ PoolSound(Freed(nodes, old), N)
          /\ InUse(Freed(nodes, old)) = InUse(nodes) \ {old}
          /\ Freed(nodes, old).made = nodes.made
          /\ \A x \in 1 .. N :
               Freed(nodes, old).link[x] = IF x = old THEN nodes.free ELSE nodes.link[x]
      <3>1. old \in InUse(nodes)
        BY <1>6 DEF S
      <3>2. PoolSound(nodes, N)
        BY <1>2
      <3> HIDE DEF old
      <3> QED  BY <3>1, <3>2, FreedSound
    <2>2. nodes' \in PoolOf(1 .. N)
      BY <1>1, <2>1, SoundIs
    <2> QED  BY <1>1, <2>1, <2>2 DEF S
  <1>8. head \in OnNodes(q) \cup {0}
    <2>1. /\ Len(c) \in Nat /\ DOMAIN c = 1 .. Len(c) /\ 1 \in 1 .. Len(c)
      <3>1. Len(c) \in Nat /\ DOMAIN c = 1 .. Len(c) /\ Len(c) # 0
        BY <1>5, LenProperties, EmptySeq
      <3> QED  BY <3>1
    <2>2. old = c[1] /\ nodes.link[c[1]] = IF 1 = Len(c) THEN 0 ELSE c[1 + 1]
      <3>1. old = IF c = <<>> THEN 0 ELSE c[1]
        BY <1>5 DEF QueueIs, IsList
      <3> QED  BY <1>5, <2>1, <3>1 DEF QueueIs, IsList
    <2>3. 1 # Len(c) => 1 + 1 \in 1 .. Len(c)
      BY <2>1
    <2>4. \A k \in 1 .. Len(c) : c[k] \in OnNodes(q)
      BY <2>1 DEF OnNodes, ToSet, c
    <2> QED  BY <2>2, <2>3, <2>4
  <1>9. /\ prev' \in [Nodes -> Nodes \cup {0}]
        /\ \A x \in 1 .. N : prev'[x] = IF x = IF head = 0 THEN old ELSE head THEN 0 ELSE prev[x]
    <2>1. prev \in [1 .. N -> 0 .. N]
      BY <1>0 DEF TypeOK
    <2> HIDE DEF old, head
    <2> QED  BY <1>0, <1>1, <2>1
  <1>10. QueueIs(nodes'.link, prev', rec2, d)
    <2>1. SameButAt(S, nodes.link, nodes'.link, old)
      BY <1>2, <1>7 DEF SameButAt
    <2> DEFINE first == IF head = 0 THEN old ELSE head
    <2>2. ClearedAt(S, prev, prev', first)
      BY <1>2, <1>9 DEF ClearedAt
    <2>3. /\ S \in SUBSET (Nat \ {0}) /\ c \in Seq(S) /\ que[q].length # 0
          /\ QueueIs(nodes.link, prev, que[q], c)
      BY <1>1, <1>3, <1>5
    <2>4. /\ head = nodes.link[que[q].head]
          /\ first = IF head = 0 THEN que[q].head ELSE head
          /\ SameButAt(S, nodes.link, nodes'.link, que[q].head)
      BY <2>1
    <2>5. rec2 = [head   |-> head,
                  tail   |-> IF head = 0 THEN 0 ELSE que[q].tail,
                  length |-> que[q].length - 1]
      OBVIOUS
    <2> HIDE DEF old, head, first, rec2, d
    <2>6. QueueIs(nodes'.link, prev', rec2, Tail(c))
      BY <2>2, <2>3, <2>4, <2>5, DequeList
    <2> QED  BY <2>6 DEF d
  <1>11. que' \in [Queues -> [head : Nodes \cup {0}, tail : Nodes \cup {0}, length : Nat]]
    <2>1. que \in [Queues -> [head : Nodes \cup {0}, tail : Nodes \cup {0}, length : Nat]]
      BY DEF TypeOK
    <2>2. que[q].tail \in Nodes \cup {0} /\ que[q].length - 1 \in Nat
      BY <1>1, <2>1
    <2>3. head \in Nodes \cup {0}
      BY <1>0, <1>2, <1>4, <1>8
    <2> HIDE DEF head
    <2>4. rec2 \in [head : Nodes \cup {0}, tail : Nodes \cup {0}, length : Nat]
      BY <2>2, <2>3
    <2> HIDE DEF rec2
    <2> QED  BY <1>1, <2>1, <2>4
  <1> HIDE DEF old, head, d, rec2
  <1>12. que'[q] = rec2 /\ \A r \in Queues \ {q} : que'[r] = que[r]
    BY <1>1 DEF TypeOK
  <1>13. OnQueue(q)' = d
    <2>1. d \in Seq(Nat \ {0})
      BY <1>3, <1>6, SeqMonotonic
    <2>2. Chain(nodes', rec2.head, rec2.length) = d
      BY <1>10, <2>1, QueueChain
    <2> QED  BY <1>12, <2>2 DEF OnQueue
  <1>14. ASSUME NEW r \in Queues \ {q}
         PROVE  OnQueue(r)' = OnQueue(r) /\ QueueIs(nodes'.link, prev', que'[r], OnQueue(r))
    <2>1. OnNodes(r) \subseteq S /\ OnNodes(r) \cap OnNodes(q) = {}
      BY <1>4 DEF ListsInv, NodesOwned
    <2>2. \A x \in OnNodes(r) : x \in 1 .. N /\ x # old /\ x # head
      BY <1>2, <1>3, <1>6, <1>8, <2>1
    <2>3. \A x \in OnNodes(r) : nodes'.link[x] = nodes.link[x] /\ prev'[x] = prev[x]
      BY <1>7, <1>9, <2>2
    <2>4. QueueIs(nodes.link, prev, que[r], OnQueue(r)) /\ OnQueue(r) \in Seq(S)
      BY <1>4
    <2>5. QueueIs(nodes'.link, prev', que[r], OnQueue(r))
      <3> HIDE DEF OnQueue
      <3> QED  BY <2>3, <2>4, FrameList DEF OnNodes
    <2>6. Chain(nodes', que[r].head, que[r].length) = OnQueue(r)
      <3>1. OnQueue(r) \in Seq(Nat \ {0})
        BY <1>3, <2>4, SeqMonotonic
      <3> HIDE DEF OnQueue
      <3> QED  BY <2>5, <3>1, QueueChain
    <2> QED  BY <1>12, <2>5, <2>6 DEF OnQueue
  <1>15. /\ OnNodes(q)' = OnNodes(q) \ {old}
         /\ \A r \in Queues \ {q} : OnNodes(r)' = OnNodes(r)
    BY <1>6, <1>13, <1>14 DEF OnNodes
  <1>16. QueuesLinked'
    <2> SUFFICES ASSUME NEW r \in Queues
                 PROVE  /\ OnQueue(r)' \in Seq(InUse(nodes'))
                        /\ QueueIs(nodes'.link, prev', que'[r], OnQueue(r)')
      BY DEF QueuesLinked
    <2>1. \A s \in Seq(S) : old \notin ToSet(s) => s \in Seq(S \ {old})
      <3> SUFFICES ASSUME NEW s \in Seq(S), old \notin ToSet(s)  PROVE s \in Seq(S \ {old})
        OBVIOUS
      <3>1. /\ Len(s) \in Nat /\ DOMAIN s = 1 .. Len(s) /\ s \in [1 .. Len(s) -> S]
            /\ \A k \in 1 .. Len(s) : s[k] # old
        BY LenProperties DEF ToSet
      <3>2. s \in [1 .. Len(s) -> S \ {old}]
        BY <3>1
      <3> QED  BY <3>1, <3>2, SeqDef
    <2>2. CASE r = q
      <3>1. d \in Seq(S \ {old})
        BY <1>6, <2>1
      <3> QED  BY <1>7, <1>10, <1>12, <1>13, <2>2, <3>1
    <2>3. CASE r # q
      <3>1. OnQueue(r)' = OnQueue(r) /\ QueueIs(nodes'.link, prev', que'[r], OnQueue(r)) /\ OnQueue(r) \in Seq(S)
        BY <1>4, <1>14, <2>3
      <3>2. old \notin ToSet(OnQueue(r))
        BY <1>6, <2>3 DEF ListsInv, NodesOwned, OnNodes
      <3>3. OnQueue(r) \in Seq(S \ {old})
        BY <2>1, <3>1, <3>2
      <3> QED  BY <1>7, <3>1, <3>3
    <2> QED  BY <2>2, <2>3
  <1>17. NodesOwned'
    <2>1. /\ \A r, t \in Queues : r # t => OnNodes(r) \cap OnNodes(t) = {}
          /\ S = UNION {OnNodes(r) : r \in Queues}
      BY DEF ListsInv, NodesOwned, S
    <2>2. \A r \in Queues : OnNodes(r)' = OnNodes(r) \ {old}
      BY <1>6, <1>15, <2>1
    <2>3. \A r, t \in Queues : r # t => OnNodes(r)' \cap OnNodes(t)' = {}
      BY <2>1, <2>2
    <2>4. UNION {OnNodes(r)' : r \in Queues} = S \ {old}
      BY <2>1, <2>2
    <2> QED  BY <1>7, <2>3, <2>4 DEF NodesOwned
  <1>18. EntryTyped
    BY DEF TypeOK, EntryTyped
  <1>19. \A x \in S \ {old} : entry'[x] = entry[x]
    BY <1>0, <1>1, <1>2, <1>18 DEF EntryTyped
  <1>20. EntryTyped'
    BY <1>1, <1>18 DEF EntryTyped, NoEntry
  <1>21. EntriesSound'
    <2>1. /\ \A x \in S : entry[x].data \in live /\ entry[x].key \in Keys
          /\ \A x, y \in S : entry[x].data = entry[y].data => x = y
      BY DEF EntriesSound, S
    <2> QED  BY <1>1, <1>7, <1>19, <2>1 DEF EntriesSound
  <1>22. QueuesSorted'
    <2> SUFFICES ASSUME NEW r \in Queues \cap Ordered PROVE SortedBy(entry', OnQueue(r)')
      BY DEF QueuesSorted
    <2>1. SortedBy(entry, OnQueue(r))
      BY DEF ListsInv, QueuesSorted
    <2>2. \A k \in 1 .. Len(OnQueue(r)') : OnQueue(r)'[k] \in S \ {old}
      <3>1. OnQueue(r)' \in Seq(S \ {old})
        BY <1>7, <1>16 DEF QueuesLinked
      <3> QED  BY <3>1, ElementOfSeq
    <2>3. CASE r # q
      <3>1. OnQueue(r)' = OnQueue(r)
        BY <1>14, <2>3
      <3> QED  BY <1>19, <2>1, <2>2, <3>1 DEF SortedBy
    <2>4. CASE r = q
      <3>1. /\ Len(d) = Len(c) - 1 /\ Len(c) \in Nat
            /\ \A k \in 1 .. Len(d) : d[k] = c[k + 1]
        BY <1>5, HeadTailProperties, LenProperties DEF d
      <3>2. \A j, k \in 1 .. Len(c) : j < k => entry[c[j]].key <= entry[c[k]].key
        BY <2>1, <2>4 DEF SortedBy, c
      <3>3. \A k \in 1 .. Len(d) : k + 1 \in 1 .. Len(c)
        BY <3>1
      <3>4. \A k \in 1 .. Len(d) : entry'[d[k]] = entry[c[k + 1]]
        BY <1>13, <1>19, <2>2, <2>4, <3>1
      <3>5. \A j, k \in 1 .. Len(d) : j < k => entry'[d[j]].key <= entry'[d[k]].key
        <4> TAKE j \in 1 .. Len(d), k \in 1 .. Len(d)
        <4> HAVE j < k
        <4>1. j + 1 < k + 1 /\ j + 1 \in 1 .. Len(c) /\ k + 1 \in 1 .. Len(c)
          BY <3>1, <3>3
        <4> QED  BY <3>2, <3>4, <4>1
      <3> QED  BY <1>13, <2>4, <3>5 DEF SortedBy
    <2> QED  BY <2>3, <2>4
  <1>23. Left(q)
    BY <1>1, <1>5, <1>7, <1>13, <1>14 DEF Left, S, d, c
  <1>24. ListsTyped'
    BY <1>0, <1>7, <1>9, <1>11 DEF ListsTyped
  <1> QED  BY <1>7, <1>16, <1>17, <1>20, <1>21, <1>22, <1>23, <1>24 DEF N

-----------------------------------------------------------------------------
(* Memory, and how many structures there can be.                           *)

Memories == [pages : 0 .. Pages, slices : 0 .. SlicesPerPage]

LEMMA SliceIs ==
    ASSUME NEW mem \in Memories, ~NoSlice(mem)
    PROVE  SliceTaken(mem) \in Memories /\ SliceTaken(mem).pages <= mem.pages
  <1>1. mem.pages \in 0 .. Pages /\ mem.slices \in 0 .. SlicesPerPage
    BY DEF Memories
  <1>2. Pages \in Nat /\ SlicesPerPage \in Nat /\ SlicesPerPage >= 3
    BY ConstantsAre
  <1>3. CASE mem.slices # 0
    <2>1. mem = [pages |-> mem.pages, slices |-> mem.slices]
      BY DEF Memories
    <2>2. SliceTaken(mem) = [pages |-> mem.pages, slices |-> mem.slices - 1]
      BY <1>3, <2>1 DEF SliceTaken
    <2>3. mem.slices - 1 \in 0 .. SlicesPerPage
      BY <1>1, <1>2, <1>3
    <2> QED  BY <1>1, <2>2, <2>3 DEF Memories
  <1>4. CASE mem.slices = 0
    <2>1. mem.pages # 0
      BY <1>4 DEF NoSlice
    <2>2. SliceTaken(mem) = [pages |-> mem.pages - 1, slices |-> SlicesPerPage - 1]
      BY <1>4 DEF SliceTaken
    <2>3. mem.pages - 1 \in 0 .. Pages /\ SlicesPerPage - 1 \in 0 .. SlicesPerPage
          /\ mem.pages - 1 <= mem.pages
      BY <1>1, <1>2, <2>1
    <2> QED  BY <2>2, <2>3 DEF Memories
  <1> QED  BY <1>3, <1>4

LEMMA MemoryIs ==
    ASSUME TypeOK
    PROVE  /\ Memory \in Memories /\ Memory.pages = pages /\ Memory.slices = slices
           /\ ~SpawnPanics => PcbMemory \in Memories /\ PcbMemory.pages <= pages
  <1>1. Memory \in Memories /\ Memory.pages = pages /\ Memory.slices = slices
    BY DEF TypeOK, Memory, Memories
  <1>2. pages \in Nat
    BY ConstantsAre DEF TypeOK
  <1> QED  BY <1>1, <1>2, SliceIs DEF SpawnPanics, PcbMemory

LEMMA StackMemory ==
    ASSUME NEW mem \in Memories, ~NoStack(mem)
    PROVE  /\ StackTaken(mem) \in Memories
           /\ StackTaken(mem).pages <= mem.pages
           /\ stacks.free = 0 => StackTaken(mem).pages + StackPages <= mem.pages
  <1>1. mem.pages \in 0 .. Pages /\ Pages \in Nat /\ StackPages \in Nat \ {0}
    BY ConstantsAre DEF Memories
  <1>2. CASE stacks.free # 0
    <2>1. StackTaken(mem) = mem
      BY <1>2 DEF StackTaken
    <2> QED  BY <1>1, <1>2, <2>1
  <1>3. CASE stacks.free = 0
    <2>1. mem = [pages |-> mem.pages, slices |-> mem.slices]
      BY DEF Memories
    <2>2. StackTaken(mem) = [pages |-> mem.pages - StackPages, slices |-> mem.slices]
      BY <1>3, <2>1 DEF StackTaken
    <2>3. mem.pages - StackPages \in 0 .. Pages
      BY <1>1, <1>3 DEF NoStack
    <2>4. mem.slices \in 0 .. SlicesPerPage
      BY DEF Memories
    <2> QED  BY <1>1, <2>2, <2>3, <2>4 DEF Memories
  <1> QED  BY <1>2, <1>3

LEMMA NoneFree ==
    ASSUME NEW N, NEW pool, PoolSound(pool, N), pool.free = 0
    PROVE  /\ InUse(pool) = 1 .. pool.made /\ pool.made \in Nat
           /\ IsFiniteSet(InUse(pool)) /\ Cardinality(InUse(pool)) = pool.made
  <1>1. N \in Nat /\ pool.made \in 0 .. N
    BY SoundIs
  <1>2. PICK s : FreeList(pool, N, s)
    BY DEF PoolSound
  <1>3. FreeOnes(pool) = ToSet(<<>>)
    BY <1>1, <1>2, EmptyFree, FreeOnesIs
  <1>4. InUse(pool) = 1 .. pool.made
    <2>1. ToSet(<<>>) = {}
      BY DEF ToSet
    <2> QED  BY <1>3, <2>1 DEF InUse
  <1> DEFINE m == pool.made
  <1> HIDE DEF m
  <1>5. m \in Nat /\ m \in Int /\ 1 \in Int
    BY <1>1 DEF m
  <1>6. IsFiniteSet(1 .. m) /\ Cardinality(1 .. m) = IF 1 > m THEN 0 ELSE m - 1 + 1
    BY <1>5, FS_Interval
  <1>7. Cardinality(1 .. m) = m
    BY <1>5, <1>6
  <1> QED  BY <1>4, <1>5, <1>6, <1>7 DEF m

(* No more processes than stacks, and no more nodes in use than processes. *)
LEMMA Room ==
    ASSUME IInv
    PROVE  /\ nodes.free = 0 => nodes.made + NodesPerSlice <= NNodes
           /\ pcbs.free = 0 => pcbs.made + PcbsPerSlice <= NPcbs
           /\ stacks.free = 0 /\ pages >= StackPages => stacks.made + 1 <= NStacks
  <1>1. /\ PoolSound(nodes, NNodes) /\ PoolSound(pcbs, NPcbs) /\ PoolSound(stacks, NStacks)
        /\ TypeOK /\ EntriesSound /\ ProcessesOwn /\ StacksPaid
    BY DEF IInv, ListsInv
  <1>2. /\ NStacks \in Nat \ {0} /\ Stacks = 1 .. NStacks /\ Cardinality(Stacks) = NStacks
        /\ NNodes = NStacks + NodesPerSlice /\ NPcbs = NStacks + PcbsPerSlice
        /\ NodesPerSlice \in Nat \ {0} /\ PcbsPerSlice \in Nat \ {0}
        /\ StackPages \in Nat \ {0} /\ Pages \in Nat
    BY ConstantsAre
  <1>3. IsFiniteSet(Stacks)
    <2> HIDE DEF Stacks
    <2>1. 1 \in Int /\ NStacks \in Int
      BY <1>2
    <2> QED  BY <1>2, <2>1, FS_Interval
  <1>4. IsFiniteSet(live) /\ Cardinality(live) \in Nat /\ Cardinality(live) <= NStacks
    <2> DEFINE f == [p \in live |-> stack[p]]
    <2>1. InUse(stacks) \subseteq 1 .. NStacks
      <3>1. stacks.made \in 0 .. NStacks /\ FreeOnes(stacks) \cup InUse(stacks) = 1 .. stacks.made
        BY <1>1, SoundIs
      <3> QED  BY <1>2, <3>1
    <2>2. \A p \in live : stack[p] \in Stacks
      BY <1>1, <1>2, <2>1 DEF ProcessesOwn, OwnedStacks
    <2>3. f \in [live -> Stacks] /\ \A p, r \in live : f[p] = f[r] => p = r
      BY <1>1, <2>2 DEF ProcessesOwn
    <2> HIDE DEF f
    <2>4. f \in Injection(live, Stacks)
      BY <2>3 DEF Injection, IsInjective
    <2> QED  BY <1>2, <1>3, <2>4, FS_Injection, FS_CardinalityType
  <1>5. ASSUME nodes.free = 0  PROVE nodes.made \in Nat /\ nodes.made <= NStacks
    <2> DEFINE S == InUse(nodes)
               f == [x \in S |-> entry[x].data]
    <2>1. Cardinality(S) = nodes.made /\ nodes.made \in Nat
      BY <1>1, <1>5, NoneFree
    <2>2. f \in [S -> live] /\ \A x, y \in S : f[x] = f[y] => x = y
      BY <1>1 DEF EntriesSound
    <2> HIDE DEF f, S
    <2>3. f \in Injection(S, live)
      BY <2>2 DEF Injection, IsInjective
    <2>4. Cardinality(S) <= Cardinality(live)
      BY <1>4, <2>3, FS_Injection
    <2> QED  BY <1>2, <1>4, <2>1, <2>4
  <1>6. ASSUME pcbs.free = 0  PROVE pcbs.made \in Nat /\ pcbs.made <= NStacks
    <2>1. Cardinality(InUse(pcbs)) = pcbs.made /\ pcbs.made \in Nat
      BY <1>1, <1>6, NoneFree
    <2>2. InUse(pcbs) = live
      BY <1>1 DEF ProcessesOwn
    <2> QED  BY <1>4, <2>1, <2>2
  <1>7. ASSUME pages >= StackPages  PROVE stacks.made + 1 <= NStacks
    <2> DEFINE m == stacks.made
    <2>1. m \in Nat /\ pages \in Nat
      BY <1>1, <1>2, SoundIs DEF TypeOK
    <2>2. pages + (StackPages * m) <= Pages
      BY <1>1 DEF StacksPaid
    <2> HIDE DEF m
    <2>3. (m + 1) * StackPages = (StackPages * m) + StackPages /\ StackPages * m \in Nat
      BY <1>2, <2>1
    <2>4. (m + 1) * StackPages <= Pages
      <3> DEFINE x == StackPages * m
      <3>1. x \in Nat /\ pages + x <= Pages /\ (m + 1) * StackPages = x + StackPages
        BY <2>2, <2>3
      <3> HIDE DEF x
      <3> QED  BY <1>2, <1>7, <2>1, <3>1
    <2>5. m + 1 \in Nat
      BY <2>1
    <2>6. m + 1 <= Pages \div StackPages
      BY <1>2, <2>4, <2>5, WholePages
    <2> QED  BY <2>6 DEF NStacks, m
  <1> QED  BY <1>2, <1>5, <1>6, <1>7

-----------------------------------------------------------------------------
(* The steps keep the invariant.                                           *)

MemoryTyped == pages \in 0 .. Pages /\ slices \in 0 .. SlicesPerPage

LEMMA NodeForStep ==
    ASSUME IInv, NEW q \in Queues, NEW p \in Pcbs, NEW key \in Keys, NEW mem \in Memories,
           ~(nodes.free = 0 /\ NoSlice(mem)), NodeFor(mem, q, p, key),
           p \notin Queued, live \cup {p} \subseteq live'
    PROVE  /\ ListsTyped' /\ EntryTyped' /\ ListsInv' /\ EntriesSound'
           /\ MemoryTyped' /\ pages' <= mem.pages
           /\ \E i, new : Entered(q, p, key, i, new)
  <1>1. /\ TypeOK /\ ListsInv /\ EntriesSound
        /\ nodes.free = 0 => nodes.made + NodesPerSlice <= NNodes
    BY Room DEF IInv
  <1>2. Linked(Stocked(nodes, NodesPerSlice), q, p, key)
    <2>1. CASE nodes.free # 0
      BY <2>1 DEF NodeFor, Stocked
    <2>2. CASE nodes.free = 0
      BY <2>2 DEF NodeFor, Stocked
    <2> QED  BY <2>1, <2>2
  <1>3. /\ ListsTyped' /\ PoolSound(nodes', NNodes) /\ QueuesLinked' /\ NodesOwned'
        /\ \E i, new : Entered(q, p, key, i, new)
    BY <1>1, <1>2, LinkedStep
  <1>4. EntryTyped' /\ EntriesSound' /\ QueuesSorted'
    BY <1>1, <1>3, EnteredStep
  <1>5. MemoryTyped' /\ pages' <= mem.pages
    <2>1. CASE nodes.free # 0
      <3>1. pages' = mem.pages /\ slices' = mem.slices
        BY <2>1 DEF NodeFor
      <3>2. pages' \in 0 .. Pages /\ slices' \in 0 .. SlicesPerPage
        BY <3>1 DEF Memories
      <3> QED  BY <3>1, <3>2, ConstantsAre DEF MemoryTyped
    <2>2. CASE nodes.free = 0
      <3>1. pages' = SliceTaken(mem).pages /\ slices' = SliceTaken(mem).slices
        BY <2>2 DEF NodeFor
      <3>2. SliceTaken(mem) \in Memories /\ SliceTaken(mem).pages <= mem.pages
        BY <2>2, SliceIs
      <3> QED  BY <3>1, <3>2 DEF MemoryTyped, Memories
    <2> QED  BY <2>1, <2>2
  <1> QED  BY <1>3, <1>4, <1>5 DEF ListsInv

ListsKept == UNCHANGED <<nodes, prev, entry, que>>

LEMMA ListsKeep ==
    ASSUME IInv, ListsKept
    PROVE  ListsTyped' /\ EntryTyped' /\ ListsInv'
  <1>1. ListsTyped /\ EntryTyped /\ ListsInv
    BY DEF IInv, TypeOK, ListsTyped, EntryTyped
  <1>2. \A q \in Queues : OnQueue(q)' = OnQueue(q)
    BY DEF ListsKept, OnQueue
  <1>3. ListsTyped' /\ EntryTyped'
    BY <1>1 DEF ListsKept, ListsTyped, EntryTyped
  <1>4. PoolSound(nodes', NNodes) /\ QueuesLinked'
    BY <1>1, <1>2 DEF ListsInv, QueuesLinked, ListsKept
  <1>5. NodesOwned'
    <2>1. \A q \in Queues : OnNodes(q)' = OnNodes(q)
      BY <1>2 DEF OnNodes
    <2> QED  BY <1>1, <2>1 DEF ListsInv, NodesOwned, ListsKept
  <1>6. QueuesSorted'
    BY <1>1, <1>2 DEF ListsInv, QueuesSorted, ListsKept
  <1> QED  BY <1>3, <1>4, <1>5, <1>6 DEF ListsInv

(* The rest of TypeOK.                                                     *)
ProcessesTyped ==
    /\ pcbs \in PoolOf(Pcbs) /\ stacks \in PoolOf(Stacks)
    /\ stack \in [Pcbs -> Stacks \cup {0}]
    /\ live \subseteq Pcbs
    /\ panic \in BOOLEAN

LEMMA TypeParts ==
    /\ TypeOK <=> ListsTyped /\ EntryTyped /\ MemoryTyped /\ ProcessesTyped
    /\ TypeOK' <=> ListsTyped' /\ EntryTyped' /\ MemoryTyped' /\ ProcessesTyped'
  BY DEF TypeOK, ListsTyped, EntryTyped, MemoryTyped, ProcessesTyped

ProcessesKept == UNCHANGED <<pcbs, stack, live, stacks>>

LEMMA FewerPages ==
    ASSUME NEW a \in Nat, NEW b \in Nat, NEW x \in Nat, NEW c \in Nat, a + x <= c, b <= a
    PROVE  b + x <= c
  OBVIOUS

LEMMA ProcessesKeep ==
    ASSUME IInv, ProcessesKept, panic' \in BOOLEAN, MemoryTyped', pages' <= pages
    PROVE  /\ ProcessesTyped' /\ ProcessesOwn' /\ StacksPaid'
           /\ PoolSound(pcbs', NPcbs) /\ PoolSound(stacks', NStacks)
  <1>1. ProcessesTyped'
    BY DEF IInv, TypeOK, ProcessesTyped, ProcessesKept
  <1>2. ProcessesOwn'
    BY DEF IInv, ProcessesOwn, OwnedStacks, ProcessesKept
  <1>3. PoolSound(pcbs', NPcbs) /\ PoolSound(stacks', NStacks)
    BY DEF IInv, ProcessesKept
  <1>4. StacksPaid'
    <2> DEFINE x == StackPages * stacks.made
    <2>1. StackPages * stacks.made' = x /\ pages + x <= Pages
      BY DEF IInv, StacksPaid, ProcessesKept
    <2>2. x \in Nat /\ pages \in Nat /\ pages' \in Nat /\ Pages \in Nat
      <3>1. stacks.made \in Nat /\ StackPages \in Nat /\ Pages \in Nat
        BY ConstantsAre, SoundIs DEF IInv
      <3> QED  BY <3>1 DEF IInv, TypeOK, MemoryTyped
    <2> HIDE DEF x
    <2>3. pages' + x <= Pages
      BY <2>1, <2>2, FewerPages
    <2> QED  BY <2>1, <2>3 DEF StacksPaid, ProcessesKept
  <1> QED  BY <1>1, <1>2, <1>3, <1>4

(* A failed assertion stops everything.                                    *)
LEMMA PanicStep ==
    ASSUME IInv, Panic
    PROVE  IInv'
  <1>1. ListsTyped' /\ EntryTyped' /\ ListsInv'
    BY ListsKeep DEF Panic, ListsKept
  <1>2. EntriesSound'
    BY DEF IInv, EntriesSound, Panic
  <1>3. MemoryTyped' /\ pages' <= pages
    BY ConstantsAre DEF IInv, TypeOK, MemoryTyped, Panic
  <1>4. /\ ProcessesTyped' /\ ProcessesOwn' /\ StacksPaid'
        /\ PoolSound(pcbs', NPcbs) /\ PoolSound(stacks', NStacks)
    BY <1>3, ProcessesKeep DEF Panic, ProcessesKept
  <1> QED  BY <1>1, <1>2, <1>3, <1>4, TypeParts DEF IInv

LEMMA EnqueStep ==
    ASSUME IInv, NEW q \in Queues, NEW p \in live, NEW key \in Keys, Enque(q, p, key)
    PROVE  IInv' /\ (Panic \/ ((\E i, new : Entered(q, p, key, i, new)) /\ live' = live))
  <1>1. CASE nodes.free = 0 /\ NoSlice(Memory)
    <2>1. Panic
      BY <1>1 DEF Enque
    <2> QED  BY <2>1, PanicStep
  <1>2. CASE ~(nodes.free = 0 /\ NoSlice(Memory))
    <2>1. /\ NodeFor(Memory, q, p, key) /\ p \notin Queued
          /\ UNCHANGED <<pcbs, stack, live, stacks, panic>>
      BY <1>2 DEF Enque
    <2>2. p \in Pcbs /\ Memory \in Memories /\ Memory.pages = pages /\ TypeOK
      BY MemoryIs DEF IInv, TypeOK
    <2>3. /\ ListsTyped' /\ EntryTyped' /\ ListsInv' /\ EntriesSound'
          /\ MemoryTyped' /\ pages' <= pages
          /\ \E i, new : Entered(q, p, key, i, new)
      BY <1>2, <2>1, <2>2, NodeForStep
    <2>4. /\ ProcessesTyped' /\ ProcessesOwn' /\ StacksPaid'
          /\ PoolSound(pcbs', NPcbs) /\ PoolSound(stacks', NStacks)
      <3>1. ProcessesKept /\ panic' \in BOOLEAN
        BY <2>1, <2>2 DEF ProcessesKept, TypeOK
      <3> QED  BY <2>3, <3>1, ProcessesKeep
    <2> QED  BY <2>1, <2>3, <2>4, TypeParts DEF IInv
  <1> QED  BY <1>1, <1>2

LEMMA DequeKeeps ==
    ASSUME IInv, NEW q \in Queues, Deque(q)
    PROVE  IInv' /\ Left(q) /\ live' = live
  <1>1. /\ ListsTyped' /\ EntryTyped' /\ PoolSound(nodes', NNodes)
        /\ QueuesLinked' /\ NodesOwned' /\ EntriesSound' /\ QueuesSorted'
        /\ Left(q)
    BY DequeStep DEF IInv
  <1>2. UNCHANGED <<pages, slices, pcbs, stack, live, stacks, panic>>
    BY DEF Deque
  <1>3. MemoryTyped' /\ pages' <= pages /\ panic' \in BOOLEAN
    BY <1>2, ConstantsAre DEF IInv, TypeOK, MemoryTyped
  <1>4. /\ ProcessesTyped' /\ ProcessesOwn' /\ StacksPaid'
        /\ PoolSound(pcbs', NPcbs) /\ PoolSound(stacks', NStacks)
    BY <1>2, <1>3, ProcessesKeep DEF ProcessesKept
  <1> QED  BY <1>1, <1>2, <1>3, <1>4, TypeParts DEF IInv, ListsInv

(* The PCB that is given back leaves the list as long as it was.           *)
LEMMA SpawnFailsStep ==
    ASSUME IInv, SpawnFails
    PROVE  IInv' /\ ListsKept /\ live' = live
  <1>1. /\ ListsKept /\ UNCHANGED <<stack, live, stacks, panic>>
        /\ pages' = PcbMemory.pages /\ slices' = PcbMemory.slices /\ ~SpawnPanics
        /\ pcbs' = Freed(Taken(PcbPool), PcbPool.free)
    BY DEF SpawnFails, ListsKept
  <1>2. ListsTyped' /\ EntryTyped' /\ ListsInv'
    BY <1>1, ListsKeep
  <1>3. EntriesSound'
    BY <1>1 DEF IInv, EntriesSound, ListsKept
  <1>4. MemoryTyped' /\ pages' <= pages
    <2>1. PcbMemory \in Memories /\ PcbMemory.pages <= pages
      BY <1>1, MemoryIs DEF IInv
    <2> QED  BY <1>1, <2>1 DEF MemoryTyped, Memories
  <1>5. PoolSound(pcbs', NPcbs) /\ InUse(pcbs') = InUse(pcbs)
    <2> DEFINE p == PcbPool.free
    <2>1. PoolSound(PcbPool, NPcbs) /\ p # 0 /\ InUse(PcbPool) = InUse(pcbs)
      <3>1. pcbs.free = 0 => pcbs.made + PcbsPerSlice <= NPcbs
        BY Room
      <3>2. PoolSound(pcbs, NPcbs) /\ PcbsPerSlice \in Nat \ {0}
        BY ConstantsAre DEF IInv
      <3> QED  BY <3>1, <3>2, StockedSound DEF PcbPool
    <2>2. /\ PoolSound(Taken(PcbPool), NPcbs) /\ p \notin InUse(PcbPool)
          /\ InUse(Taken(PcbPool)) = InUse(PcbPool) \cup {p}
      BY <2>1, TakenSound
    <2>3. p \in InUse(Taken(PcbPool))
      BY <2>2
    <2> HIDE DEF p
    <2>4. /\ PoolSound(Freed(Taken(PcbPool), p), NPcbs)
          /\ InUse(Freed(Taken(PcbPool), p)) = InUse(Taken(PcbPool)) \ {p}
      BY <2>2, <2>3, FreedSound
    <2> QED  BY <1>1, <2>1, <2>2, <2>4 DEF p
  <1>6. ProcessesTyped'
    <2>1. pcbs' \in PoolOf(Pcbs)
      BY <1>5, SoundIs, ConstantsAre
    <2> QED  BY <1>1, <2>1 DEF IInv, TypeOK, ProcessesTyped
  <1>7. ProcessesOwn'
    BY <1>1, <1>5 DEF IInv, ProcessesOwn, OwnedStacks
  <1>8. PoolSound(stacks', NStacks) /\ StacksPaid'
    <2> DEFINE x == StackPages * stacks.made
    <2>1. stacks' = stacks /\ pages + x <= Pages /\ PoolSound(stacks, NStacks)
      BY <1>1 DEF IInv, StacksPaid
    <2>2. x \in Nat /\ pages \in Nat /\ pages' \in Nat /\ Pages \in Nat
      <3>1. stacks.made \in Nat /\ StackPages \in Nat /\ Pages \in Nat
        BY <2>1, ConstantsAre, SoundIs
      <3> QED  BY <1>4, <3>1 DEF IInv, TypeOK, MemoryTyped
    <2>3. StackPages * stacks.made' = x
      BY <2>1
    <2> HIDE DEF x
    <2>4. pages' + x <= Pages
      BY <1>4, <2>1, <2>2, FewerPages
    <2> QED  BY <2>1, <2>3, <2>4 DEF StacksPaid
  <1> QED  BY <1>1, <1>2, <1>3, <1>4, <1>5, <1>6, <1>7, <1>8, TypeParts DEF IInv

(* A new process has a PCB and a stack that nobody had.                    *)
Created(q, p, key) ==
    /\ p \in Pcbs \ live
    /\ live' = live \cup {p}
    /\ \E i, new : Entered(q, p, key, i, new)

LEMMA SpawnStep ==
    ASSUME IInv, NEW q \in Queues, NEW key \in Keys, Spawn(q, key)
    PROVE  IInv' /\ (Panic \/ (\E p : Created(q, p, key)))
  <1> DEFINE mem == StackTaken(PcbMemory)
             p == PcbPool.free
             pool == Stocked(stacks, 1)
             k == pool.free
  <1>1. CASE nodes.free = 0 /\ NoSlice(mem)
    <2>1. Panic
      BY <1>1 DEF Spawn
    <2> QED  BY <2>1, PanicStep
  <1>2. CASE ~(nodes.free = 0 /\ NoSlice(mem))
    <2>1. /\ NodeFor(mem, q, p, key)
          /\ pcbs' = Taken(PcbPool) /\ stacks' = Taken(pool)
          /\ stack' = [stack EXCEPT ![p] = k]
          /\ live' = live \cup {p} /\ panic' = panic
          /\ ~SpawnPanics /\ ~NoStack(PcbMemory)
      BY <1>2 DEF Spawn
    <2>2. PcbMemory \in Memories /\ PcbMemory.pages <= pages
      BY <2>1, MemoryIs DEF IInv
    <2>3. /\ mem \in Memories /\ mem.pages <= PcbMemory.pages
          /\ stacks.free = 0 => mem.pages + StackPages <= PcbMemory.pages
      BY <2>1, <2>2, StackMemory
    <2>4. /\ PoolSound(PcbPool, NPcbs) /\ p # 0 /\ InUse(PcbPool) = live
      <3>1. pcbs.free = 0 => pcbs.made + PcbsPerSlice <= NPcbs
        BY Room
      <3>2. PoolSound(pcbs, NPcbs) /\ PcbsPerSlice \in Nat \ {0} /\ InUse(pcbs) = live
        BY ConstantsAre DEF IInv, ProcessesOwn
      <3> QED  BY <3>1, <3>2, StockedSound DEF PcbPool
    <2>5. /\ PoolSound(pcbs', NPcbs) /\ InUse(pcbs') = live'
          /\ p \in Pcbs \ live /\ pcbs' \in PoolOf(Pcbs)
      <3>1. /\ PoolSound(Taken(PcbPool), NPcbs) /\ p \in (1 .. PcbPool.made) \ InUse(PcbPool)
            /\ InUse(Taken(PcbPool)) = InUse(PcbPool) \cup {p}
        BY <2>4, TakenSound
      <3>2. PcbPool.made \in 0 .. NPcbs /\ NPcbs \in Nat /\ pcbs' \in PoolOf(1 .. NPcbs)
        BY <2>1, <2>4, <3>1, SoundIs
      <3>3. p \in 1 .. NPcbs
        BY <3>1, <3>2
      <3> QED  BY <2>1, <2>4, <3>1, <3>2, <3>3, ConstantsAre
    <2>6. /\ PoolSound(pool, NStacks) /\ k # 0 /\ InUse(pool) = InUse(stacks)
          /\ pool.made = IF stacks.free = 0 THEN stacks.made + 1 ELSE stacks.made
      <3>1. pages >= StackPages /\ stacks.free = 0 => stacks.made + 1 <= NStacks
        BY Room
      <3>2. stacks.free = 0 => pages >= StackPages
        <4>1. stacks.free = 0 => PcbMemory.pages >= StackPages
          <5>1. PcbMemory.pages \in 0 .. Pages /\ StackPages \in Nat /\ Pages \in Nat
            BY <2>2, ConstantsAre DEF Memories
          <5> QED  BY <2>1, <5>1 DEF NoStack
        <4>2. PcbMemory.pages \in Nat /\ pages \in Nat /\ StackPages \in Nat
          BY <2>2, ConstantsAre DEF IInv, TypeOK, Memories
        <4> QED  BY <2>2, <4>1, <4>2
      <3>3. PoolSound(stacks, NStacks) /\ 1 \in Nat \ {0}
        BY DEF IInv
      <3> QED  BY <3>1, <3>2, <3>3, StockedSound
    <2>7. /\ PoolSound(stacks', NStacks) /\ InUse(stacks') = InUse(stacks) \cup {k}
          /\ k \in Stacks \ InUse(stacks) /\ stacks' \in PoolOf(Stacks)
          /\ stacks'.made = pool.made
      <3> HIDE DEF pool
      <3>1. /\ PoolSound(Taken(pool), NStacks) /\ k \in (1 .. pool.made) \ InUse(pool)
            /\ InUse(Taken(pool)) = InUse(pool) \cup {k} /\ Taken(pool).made = pool.made
        BY <2>6, TakenSound
      <3>2. pool.made \in 0 .. NStacks /\ NStacks \in Nat /\ stacks' \in PoolOf(1 .. NStacks)
        BY <2>1, <2>6, <3>1, SoundIs
      <3>3. k \in 1 .. NStacks
        BY <3>1, <3>2
      <3> QED  BY <2>1, <2>6, <3>1, <3>2, <3>3, ConstantsAre
    <2> HIDE DEF p, k
    <2>8. p \notin Queued /\ live \cup {p} \subseteq live'
      <3>1. \A x \in InUse(nodes) : entry[x].data \in live
        BY DEF IInv, EntriesSound
      <3>2. Queued = {entry[x].data : x \in InUse(nodes)}
        BY QueuedIs DEF IInv, ListsInv
      <3> QED  BY <2>1, <2>5, <3>1, <3>2
    <2>9. /\ ListsTyped' /\ EntryTyped' /\ ListsInv' /\ EntriesSound'
          /\ MemoryTyped' /\ pages' <= mem.pages
          /\ \E i, new : Entered(q, p, key, i, new)
      <3> HIDE DEF mem
      <3> QED  BY <1>2, <2>1, <2>3, <2>5, <2>8, NodeForStep
    <2>10. \A r \in Pcbs : stack'[r] = IF r = p THEN k ELSE stack[r]
      BY <2>1, <2>5 DEF IInv, TypeOK
    <2>11. ProcessesTyped'
      <3>1. stack' \in [Pcbs -> Stacks \cup {0}]
        BY <2>1, <2>7 DEF IInv, TypeOK
      <3> QED  BY <2>1, <2>5, <2>7, <3>1 DEF IInv, TypeOK, ProcessesTyped
    <2>12. ProcessesOwn'
      <3>1. /\ \A r, t \in live : stack[r] = stack[t] => r = t
            /\ InUse(stacks) = {1} \cup OwnedStacks /\ 1 \notin OwnedStacks
            /\ live \subseteq Pcbs
        BY DEF IInv, ProcessesOwn, TypeOK
      <3>2. \A r \in live : stack'[r] = stack[r] /\ stack[r] # k /\ r # p
        BY <2>5, <2>7, <2>10, <3>1 DEF OwnedStacks
      <3>3. stack'[p] = k /\ k # 1
        BY <2>5, <2>7, <2>10, <3>1
      <3>4. OwnedStacks' = OwnedStacks \cup {k}
        BY <2>1, <3>2, <3>3 DEF OwnedStacks
      <3>5. \A r, t \in live' : stack'[r] = stack'[t] => r = t
        BY <2>1, <3>1, <3>2, <3>3
      <3> QED  BY <2>5, <2>7, <3>1, <3>3, <3>4, <3>5 DEF ProcessesOwn
    <2>13. StacksPaid'
      <3> DEFINE m == stacks.made
                 x == StackPages * m
      <3>1. m \in Nat /\ StackPages \in Nat /\ Pages \in Nat /\ pages + x <= Pages
        BY ConstantsAre, SoundIs DEF IInv, StacksPaid
      <3>2. /\ x \in Nat /\ pages \in Nat /\ pages' \in Nat /\ PcbMemory.pages \in Nat
            /\ mem.pages \in Nat
        <4>1. pages \in Nat /\ pages' \in Nat
          BY <2>9, ConstantsAre DEF IInv, TypeOK, MemoryTyped
        <4>2. PcbMemory.pages \in Nat /\ mem.pages \in Nat
          BY <2>2, <2>3, ConstantsAre DEF Memories
        <4> HIDE DEF m
        <4>3. x \in Nat
          BY <3>1
        <4> QED  BY <4>1, <4>2, <4>3
      <3>3. CASE stacks.free # 0
        <4>1. stacks'.made = m
          BY <2>6, <2>7, <3>3
        <4>2. pages' <= pages
          BY <2>2, <2>3, <2>9, <3>2
        <4>3. pages' + x <= Pages
          <5> HIDE DEF x
          <5> QED  BY <3>1, <3>2, <4>2, FewerPages
        <4> QED  BY <4>1, <4>3 DEF StacksPaid
      <3>4. CASE stacks.free = 0
        <4>1. stacks'.made = m + 1
          BY <2>6, <2>7, <3>4
        <4> DEFINE a == pages
                   b == pages'
                   c == mem.pages
                   d == PcbMemory.pages
        <4>2. b <= c /\ c + StackPages <= d /\ d <= a
          BY <2>2, <2>3, <2>9, <3>4
        <4>3. a \in Nat /\ b \in Nat /\ c \in Nat /\ d \in Nat
          BY <3>2
        <4>4. StackPages * (m + 1) = x + StackPages
          <5> HIDE DEF m
          <5> QED  BY <3>1
        <4>5. a + x <= Pages /\ x \in Nat /\ StackPages \in Nat /\ Pages \in Nat
          BY <3>1, <3>2
        <4>6. b + (x + StackPages) <= Pages
          <5> HIDE DEF a, b, c, d, x
          <5> QED  BY <4>2, <4>3, <4>5
        <4>7. pages' + (StackPages * (m + 1)) <= Pages
          <5> HIDE DEF x
          <5> QED  BY <4>4, <4>6
        <4> QED  BY <4>1, <4>7 DEF StacksPaid
      <3> QED  BY <3>3, <3>4
    <2>14. Created(q, p, key)
      BY <2>1, <2>5, <2>9 DEF Created
    <2> QED  BY <2>5, <2>7, <2>9, <2>11, <2>12, <2>13, <2>14, TypeParts DEF IInv
  <1> QED  BY <1>1, <1>2

(* What a process had goes back to the pools.                              *)
LEMMA CleanupStep ==
    ASSUME IInv, NEW p \in live, Cleanup(p)
    PROVE  IInv' /\ ListsKept /\ p \notin Queued /\ live' = live \ {p}
  <1>1. /\ ListsKept /\ UNCHANGED <<pages, slices, panic>>
        /\ p \notin Queued /\ live' = live \ {p}
        /\ stacks' = Freed(stacks, stack[p]) /\ pcbs' = Freed(pcbs, p)
        /\ stack' = [stack EXCEPT ![p] = 0]
    BY DEF Cleanup, ListsKept
  <1>2. ListsTyped' /\ EntryTyped' /\ ListsInv'
    BY <1>1, ListsKeep
  <1>3. EntriesSound'
    <2>1. Queued = {entry[x].data : x \in InUse(nodes)}
      BY QueuedIs DEF IInv, ListsInv
    <2> QED  BY <1>1, <2>1 DEF IInv, EntriesSound, ListsKept
  <1>4. MemoryTyped' /\ panic' \in BOOLEAN
    BY <1>1 DEF IInv, TypeOK, MemoryTyped
  <1>5. /\ PoolSound(pcbs, NPcbs) /\ PoolSound(stacks, NStacks)
        /\ InUse(pcbs) = live /\ stack[p] \in InUse(stacks) /\ p \in Pcbs
        /\ \A r, t \in live : stack[r] = stack[t] => r = t
        /\ InUse(stacks) = {1} \cup OwnedStacks /\ 1 \notin OwnedStacks
        /\ live \subseteq Pcbs /\ stack \in [Pcbs -> Stacks \cup {0}]
    BY DEF IInv, ProcessesOwn, OwnedStacks, TypeOK
  <1>6. PoolSound(pcbs', NPcbs) /\ InUse(pcbs') = live' /\ pcbs' \in PoolOf(Pcbs)
    <2>1. PoolSound(pcbs', NPcbs) /\ InUse(pcbs') = InUse(pcbs) \ {p}
      BY <1>1, <1>5, FreedSound
    <2> QED  BY <1>1, <1>5, <2>1, SoundIs, ConstantsAre
  <1>7. /\ PoolSound(stacks', NStacks) /\ InUse(stacks') = InUse(stacks) \ {stack[p]}
        /\ stacks' \in PoolOf(Stacks) /\ stacks'.made = stacks.made
    <2> DEFINE k == stack[p]
    <2>1. PoolSound(stacks, NStacks) /\ k \in InUse(stacks) /\ stacks' = Freed(stacks, k)
      BY <1>1, <1>5
    <2> HIDE DEF k
    <2>2. /\ PoolSound(stacks', NStacks) /\ InUse(stacks') = InUse(stacks) \ {k}
          /\ stacks'.made = stacks.made
      BY <2>1, FreedSound
    <2> QED  BY <2>2, SoundIs, ConstantsAre DEF k
  <1>8. ProcessesTyped'
    <2>1. stack' \in [Pcbs -> Stacks \cup {0}]
      BY <1>1, <1>5
    <2> QED  BY <1>1, <1>4, <1>5, <1>6, <1>7, <2>1 DEF ProcessesTyped
  <1>9. ProcessesOwn'
    <2>1. \A r \in live' : r \in live /\ stack'[r] = stack[r] /\ stack[r] # stack[p]
      BY <1>1, <1>5
    <2>2. OwnedStacks' = OwnedStacks \ {stack[p]}
      <3>1. \A r \in live : r = p \/ r \in live'
        BY <1>1
      <3> QED  BY <2>1, <3>1 DEF OwnedStacks
    <2>3. stack[p] # 1
      BY <1>5 DEF OwnedStacks
    <2>4. \A r, t \in live' : stack'[r] = stack'[t] => r = t
      BY <1>5, <2>1
    <2> QED  BY <1>5, <1>6, <1>7, <2>2, <2>3, <2>4 DEF ProcessesOwn
  <1>10. StacksPaid'
    BY <1>1, <1>7 DEF IInv, StacksPaid
  <1> QED  BY <1>1, <1>2, <1>3, <1>4, <1>6, <1>7, <1>8, <1>9, <1>10, TypeParts DEF IInv

LEMMA InitInv == Init => IInv
  <1> SUFFICES ASSUME Init PROVE IInv
    OBVIOUS
  <1>1. /\ nodes = Carved(EmptyPool(Nodes), NodesPerSlice)
        /\ pcbs = Carved(EmptyPool(Pcbs), PcbsPerSlice)
        /\ stacks = Taken(Carved(EmptyPool(Stacks), 1))
        /\ prev = [x \in Nodes |-> 0] /\ entry = [x \in Nodes \cup {0} |-> NoEntry]
        /\ que = [q \in Queues |-> [head |-> 0, tail |-> 0, length |-> 0]]
        /\ stack = [p \in Pcbs |-> 0] /\ live = {} /\ panic = FALSE
        /\ pages = Pages - 1 - StackPages /\ slices = SlicesPerPage - 3
    BY DEF Init
  <1>2. /\ NStacks \in Nat \ {0} /\ Stacks = 1 .. NStacks
        /\ NNodes \in Nat /\ Nodes = 1 .. NNodes /\ NNodes = NStacks + NodesPerSlice
        /\ NPcbs \in Nat /\ Pcbs = 1 .. NPcbs /\ NPcbs = NStacks + PcbsPerSlice
        /\ NodesPerSlice \in Nat \ {0} /\ PcbsPerSlice \in Nat \ {0}
        /\ StackPages \in Nat \ {0} /\ Pages \in Nat /\ SlicesPerPage \in Nat
        /\ SlicesPerPage >= 3 /\ Pages >= 1 + StackPages
    BY ConstantsAre
  <1>3. ASSUME NEW N \in Nat, NEW n \in Nat \ {0}, n <= N
        PROVE  /\ PoolSound(Carved(EmptyPool(1 .. N), n), N)
               /\ InUse(Carved(EmptyPool(1 .. N), n)) = {}
               /\ Carved(EmptyPool(1 .. N), n).free = n
               /\ Carved(EmptyPool(1 .. N), n).made = n
    <2> DEFINE pool == EmptyPool(1 .. N)
    <2>1. PoolSound(pool, N) /\ InUse(pool) = {} /\ pool.free = 0 /\ pool.made = 0
      BY EmptySound
    <2> HIDE DEF pool
    <2>2. Stocked(pool, n) = Carved(pool, n)
      BY <2>1 DEF Stocked
    <2>3. PoolSound(Stocked(pool, n), N) /\ InUse(Stocked(pool, n)) = InUse(pool)
      <3>1. pool.made + n <= N
        BY <1>3, <2>1
      <3> QED  BY <2>1, <3>1, StockedSound
    <2>4. Carved(pool, n).free = n /\ Carved(pool, n).made = n
      BY <2>1 DEF Carved
    <2> QED  BY <2>1, <2>2, <2>3, <2>4 DEF pool
  <1>4. PoolSound(nodes, NNodes) /\ InUse(nodes) = {} /\ nodes \in PoolOf(Nodes)
    <2>1. NodesPerSlice <= NNodes
      BY <1>2
    <2> QED  BY <1>1, <1>2, <1>3, <2>1, SoundIs
  <1>5. PoolSound(pcbs, NPcbs) /\ InUse(pcbs) = {} /\ pcbs \in PoolOf(Pcbs)
    <2>1. PcbsPerSlice <= NPcbs
      BY <1>2
    <2> QED  BY <1>1, <1>2, <1>3, <2>1, SoundIs
  <1>6. PoolSound(stacks, NStacks) /\ InUse(stacks) = {1} /\ stacks \in PoolOf(Stacks) /\ stacks.made = 1
    <2> DEFINE pool == Carved(EmptyPool(Stacks), 1)
    <2>1. PoolSound(pool, NStacks) /\ InUse(pool) = {} /\ pool.free = 1 /\ pool.made = 1
      <3>1. 1 \in Nat \ {0} /\ 1 <= NStacks /\ NStacks \in Nat
        BY <1>2
      <3> QED  BY <1>2, <1>3, <3>1
    <2>2. stacks = Taken(pool)
      BY <1>1
    <2> HIDE DEF pool
    <2>3. PoolSound(stacks, NStacks) /\ InUse(stacks) = InUse(pool) \cup {pool.free} /\ stacks.made = pool.made
      <3>1. pool.free # 0
        BY <2>1
      <3> QED  BY <2>1, <2>2, <3>1, TakenSound
    <2> QED  BY <1>2, <2>1, <2>3, SoundIs
  <1>7. \A q \in Queues : OnQueue(q) = <<>> /\ QueueIs(nodes.link, prev, que[q], OnQueue(q))
    <2> TAKE q \in Queues
    <2>1. que[q] = [head |-> 0, tail |-> 0, length |-> 0]
      BY <1>1
    <2>2. Len(<<>>) = 0 /\ DOMAIN <<>> = {} /\ <<>> \in Seq(Nat \ {0})
      OBVIOUS
    <2>3. IsInjective(<<>>)
      BY <2>2 DEF IsInjective
    <2>4. QueueIs(nodes.link, prev, que[q], <<>>)
      BY <2>1, <2>2, <2>3 DEF QueueIs, IsList
    <2>5. Chain(nodes, que[q].head, que[q].length) = <<>>
      BY <2>2, <2>4, QueueChain
    <2> QED  BY <2>4, <2>5 DEF OnQueue
  <1>8. QueuesLinked
    <2>1. <<>> \in Seq(InUse(nodes))
      BY EmptySeq
    <2> QED  BY <1>7, <2>1 DEF QueuesLinked
  <1>9. NodesOwned
    <2>1. \A q \in Queues : OnNodes(q) = {}
      BY <1>7 DEF OnNodes, ToSet
    <2> QED  BY <1>4, <2>1 DEF NodesOwned
  <1>10. QueuesSorted
    BY <1>7 DEF QueuesSorted, SortedBy
  <1>11. EntriesSound
    BY <1>4 DEF EntriesSound
  <1>12. ListsTyped
    <2>1. que \in [Queues -> [head : Nodes \cup {0}, tail : Nodes \cup {0}, length : Nat]]
      BY <1>1
    <2>2. prev \in [Nodes -> Nodes \cup {0}]
      BY <1>1
    <2> QED  BY <1>4, <2>1, <2>2 DEF ListsTyped
  <1>13. EntryTyped
    BY <1>1 DEF EntryTyped, NoEntry
  <1>14. MemoryTyped
    BY <1>1, <1>2 DEF MemoryTyped
  <1>15. ProcessesTyped
    <2>1. stack \in [Pcbs -> Stacks \cup {0}]
      BY <1>1
    <2> QED  BY <1>1, <1>5, <1>6, <2>1 DEF ProcessesTyped
  <1>16. ProcessesOwn
    BY <1>1, <1>5, <1>6 DEF ProcessesOwn, OwnedStacks
  <1>17. StacksPaid
    BY <1>1, <1>2, <1>6 DEF StacksPaid
  <1> QED  BY <1>4, <1>5, <1>6, <1>8, <1>9, <1>10, <1>11, <1>12, <1>13, <1>14, <1>15, <1>16, <1>17,
              TypeParts DEF IInv, ListsInv

LEMMA StutterStep ==
    ASSUME IInv, UNCHANGED vars
    PROVE  IInv'
  <1>1. ListsTyped' /\ EntryTyped' /\ ListsInv'
    BY ListsKeep DEF vars, ListsKept
  <1>2. EntriesSound'
    BY DEF IInv, EntriesSound, vars
  <1>3. MemoryTyped' /\ pages' <= pages /\ panic' \in BOOLEAN
    BY ConstantsAre DEF IInv, TypeOK, MemoryTyped, vars
  <1>4. /\ ProcessesTyped' /\ ProcessesOwn' /\ StacksPaid'
        /\ PoolSound(pcbs', NPcbs) /\ PoolSound(stacks', NStacks)
    BY <1>3, ProcessesKeep DEF vars, ProcessesKept
  <1> QED  BY <1>1, <1>2, <1>3, <1>4, TypeParts DEF IInv

LEMMA NextInv == IInv /\ [Next]_vars => IInv'
  <1> SUFFICES ASSUME IInv, [Next]_vars PROVE IInv'
    OBVIOUS
  <1>1. ASSUME NEW q \in Queues, NEW key \in Keys, Spawn(q, key)  PROVE IInv'
    BY <1>1, SpawnStep
  <1>2. ASSUME NEW q \in Queues, NEW key \in Keys, NEW p \in live, Enque(q, p, key)  PROVE IInv'
    BY <1>2, EnqueStep
  <1>3. ASSUME NEW q \in Queues, Deque(q)  PROVE IInv'
    BY <1>3, DequeKeeps
  <1>4. ASSUME NEW p \in live, Cleanup(p)  PROVE IInv'
    BY <1>4, CleanupStep
  <1>5. CASE SpawnFails
    BY <1>5, SpawnFailsStep
  <1>6. CASE Panic
    BY <1>6, PanicStep
  <1>7. CASE UNCHANGED vars
    BY <1>7, StutterStep
  <1> QED  BY <1>1, <1>2, <1>3, <1>4, <1>5, <1>6, <1>7 DEF Next

LEMMA Invariance == Spec => []IInv
  <1>1. Init => IInv
    BY InitInv
  <1>2. IInv /\ [Next]_vars => IInv'
    BY NextInv
  <1> QED  BY <1>1, <1>2, PTL DEF Spec

-----------------------------------------------------------------------------
(* Queues are the same from both ends.                                     *)
LEMMA LinkedBothWays ==
    ASSUME IInv
    PROVE  BothWays
  <1> SUFFICES ASSUME NEW q \in Queues
               PROVE  LET chain == OnQueue(q)  n == que[q].length
                      IN  IF n = 0 THEN que[q].head = 0 /\ que[q].tail = 0
                          ELSE /\ que[q].tail = chain[n] /\ nodes.link[chain[n]] = 0
                               /\ \A k \in 1 .. n : prev[chain[k]] = IF k = 1 THEN 0 ELSE chain[k - 1]
    BY DEF BothWays
  <1> DEFINE c == OnQueue(q)
  <1>1. /\ Len(c) \in Nat /\ que[q].length = Len(c) /\ c \in Seq(InUse(nodes))
        /\ QueueIs(nodes.link, prev, que[q], c)
    BY OneQueue DEF IInv
  <1> HIDE DEF c
  <1>2. CASE Len(c) = 0
    <2>1. que[q].head = 0 /\ que[q].tail = 0
      <3>1. c = <<>>
        BY <1>1, <1>2, EmptySeq
      <3> QED  BY <1>1, <1>2, <3>1 DEF QueueIs, IsList
    <2> QED  BY <1>1, <1>2, <2>1 DEF c
  <1>3. CASE Len(c) # 0
    <2>1. Len(c) \in 1 .. Len(c)
      BY <1>1, <1>3
    <2>2. /\ que[q].tail = c[Len(c)] /\ nodes.link[c[Len(c)]] = 0
          /\ \A k \in 1 .. Len(c) : prev[c[k]] = IF k = 1 THEN 0 ELSE c[k - 1]
      BY <1>1, <1>3, <2>1 DEF QueueIs, IsList
    <2> QED  BY <1>1, <1>3, <2>2 DEF c
  <1> QED  BY <1>2, <1>3

(* Seen from its tail by prev a queue is what it is from its head by next, *)
(* and as long as it says (_que_enque, _que_deque).                        *)
THEOREM QueuesBothWays == Spec => []BothWays
  <1>1. IInv => BothWays
    BY LinkedBothWays
  <1> QED  BY <1>1, Invariance, PTL

LEMMA NothingLost ==
    ASSUME IInv
    PROVE  Conserved
  <1>1. /\ PoolSound(nodes, NNodes) /\ PoolSound(pcbs, NPcbs) /\ PoolSound(stacks, NStacks)
        /\ ProcessesOwn /\ NodesOwned
    BY DEF IInv, ListsInv
  <1>2. \A q \in Queues : IsInjective(OnQueue(q)) /\ OnNodes(q) \subseteq InUse(nodes)
    BY OneQueue DEF IInv, QueueIs
  <1>3. /\ FreeListEnds(nodes) /\ FreeListEnds(pcbs) /\ FreeListEnds(stacks)
    BY <1>1, SoundIs
  <1>4. /\ FreeOnes(nodes) \cup InUse(nodes) = 1 .. nodes.made
        /\ FreeOnes(nodes) \cap InUse(nodes) = {}
        /\ FreeOnes(pcbs) \cup InUse(pcbs) = 1 .. pcbs.made
        /\ FreeOnes(pcbs) \cap InUse(pcbs) = {}
        /\ FreeOnes(stacks) \cup InUse(stacks) = 1 .. stacks.made
        /\ FreeOnes(stacks) \cap InUse(stacks) = {}
    BY <1>1, SoundIs
  <1>5. /\ FreeOnes(nodes) \cup UNION {OnNodes(q) : q \in Queues} = 1 .. nodes.made
        /\ \A q \in Queues : /\ IsInjective(OnQueue(q)) /\ OnNodes(q) \cap FreeOnes(nodes) = {}
                             /\ \A r \in Queues \ {q} : OnNodes(q) \cap OnNodes(r) = {}
    BY <1>1, <1>2, <1>4 DEF NodesOwned
  <1>6. /\ FreeOnes(pcbs) \cap live = {} /\ FreeOnes(pcbs) \cup live = 1 .. pcbs.made
        /\ \A p, r \in live : stack[p] = stack[r] => p = r
        /\ FreeOnes(stacks) \cap ({1} \cup OwnedStacks) = {} /\ 1 \notin OwnedStacks
        /\ FreeOnes(stacks) \cup {1} \cup OwnedStacks = 1 .. stacks.made
    BY <1>1, <1>4 DEF ProcessesOwn
  <1> QED  BY <1>3, <1>5, <1>6 DEF Conserved, OnNodes, OwnedStacks

(* Each node, PCB and stack there is belongs to one list or one process,   *)
(* whatever failed on the way (queues.c, process.c, stacks.c).             *)
THEOREM PoolsAreConsistent == Spec => []PoolsConsistent
  <1>1. IInv => PoolsConsistent
    BY NothingLost DEF IInv, PoolsConsistent
  <1> QED  BY <1>1, Invariance, PTL

-----------------------------------------------------------------------------
(* The lists implement queues: the mapping of KeyedQueues.                 *)

EntriesAlong(q) == [k \in 1 .. que[q].length |-> entry[OnQueue(q)[k]]]

LEMMA AlongIs ==
    ASSUME IInv, NEW q \in Queues
    PROVE  /\ EntriesAlong(q) \in Seq([data : Nat, key : Nat])
           /\ Len(EntriesAlong(q)) = Len(OnQueue(q))
           /\ \A k \in 1 .. Len(OnQueue(q)) : EntriesAlong(q)[k] = entry[OnQueue(q)[k]]
           /\ \A k \in 1 .. Len(OnQueue(q)) : entry[OnQueue(q)[k]] \in [data : Nat, key : Nat]
  <1> DEFINE c == OnQueue(q)
             R == [data : Nat, key : Nat]
  <1>1. Len(c) \in Nat /\ que[q].length = Len(c) /\ \A k \in 1 .. Len(c) : c[k] \in InUse(nodes)
    BY OneQueue DEF IInv
  <1>2. \A x \in InUse(nodes) : x \in Nodes
    <2>1. nodes.made \in 0 .. NNodes /\ InUse(nodes) \subseteq 1 .. nodes.made
      BY SoundIs DEF IInv, ListsInv
    <2> QED  BY <2>1, ConstantsAre
  <1>3. \A x \in Nodes : entry[x] \in R
    <2>1. entry \in [Nodes \cup {0} -> [data : Pcbs \cup {0}, key : Keys \cup {0}]]
      BY DEF IInv, TypeOK
    <2>2. Pcbs \cup {0} \subseteq Nat /\ Keys \cup {0} \subseteq Nat
      BY ConstantsAre
    <2>3. [data : Pcbs \cup {0}, key : Keys \cup {0}] \subseteq R
      BY <2>2
    <2> QED  BY <2>1, <2>3
  <1> HIDE DEF c, R
  <1>4. \A k \in 1 .. Len(c) : entry[c[k]] \in R
    BY <1>1, <1>2, <1>3
  <1>5. EntriesAlong(q) = [k \in 1 .. Len(c) |-> entry[c[k]]]
    BY <1>1 DEF EntriesAlong, c
  <1>6. EntriesAlong(q) \in [1 .. Len(c) -> R]
    BY <1>4, <1>5
  <1>7. EntriesAlong(q) \in Seq(R) /\ Len(EntriesAlong(q)) = Len(c)
    BY <1>1, <1>6, SeqDef, LenProperties
  <1> QED  BY <1>4, <1>5, <1>7 DEF c, R

(* A step that changes no list and no entry changes no abstract queue.     *)
LEMMA AlongKept ==
    ASSUME NEW q \in Queues, ListsKept
    PROVE  EntriesAlong(q)' = EntriesAlong(q)
  BY DEF ListsKept, EntriesAlong, OnQueue

LEMMA MappedQueued ==
    ASSUME IInv
    PROVE  Lists!Queued = Queued
  <1>1. \A q \in Queues : \A x : x \in ToSet(EntriesAlong(q)) <=>
                             \E y \in OnNodes(q) : x = entry[y]
    <2> TAKE q \in Queues
    <2>1. /\ EntriesAlong(q) \in Seq([data : Nat, key : Nat])
          /\ Len(EntriesAlong(q)) = Len(OnQueue(q))
          /\ \A k \in 1 .. Len(OnQueue(q)) : EntriesAlong(q)[k] = entry[OnQueue(q)[k]]
      BY AlongIs
    <2>2. DOMAIN EntriesAlong(q) = 1 .. Len(OnQueue(q)) /\ DOMAIN OnQueue(q) = 1 .. Len(OnQueue(q))
      <3>1. OnQueue(q) \in Seq(InUse(nodes))
        BY OneQueue DEF IInv
      <3> QED  BY <2>1, <3>1, LenProperties
    <2> HIDE DEF EntriesAlong, OnQueue
    <2> QED  BY SMTT(30), <2>1, <2>2 DEF OnNodes, ToSet
  <1>2. Lists!Queued = {e.data : e \in UNION {ToSet(EntriesAlong(q)) : q \in Queues}}
    <2>1. \A s : Lists!ToSet(s) = ToSet(s)
      BY DEF Lists!ToSet, ToSet
    <2> DEFINE Q == [q \in Queues |-> EntriesAlong(q)]
    <2>2. Lists!Queued = {e.data : e \in UNION {Lists!ToSet(Q[q]) : q \in Queues}}
      BY DEF Lists!Queued, EntriesAlong
    <2>3. \A q \in Queues : Lists!ToSet(Q[q]) = ToSet(EntriesAlong(q))
      BY <2>1
    <2> HIDE DEF Q
    <2> QED  BY Zenon, <2>2, <2>3
  <1> HIDE DEF EntriesAlong
  <1> QED  BY <1>1, <1>2 DEF Queued, OnNodes

LEMMA AlongNext ==
    ASSUME IInv'
    PROVE  \A r \in Queues :
              EntriesAlong(r)' = [k \in 1 .. Len(OnQueue(r)') |-> entry'[OnQueue(r)'[k]]]
  <1> TAKE r \in Queues
  <1>1. que'[r].length = Len(OnQueue(r)')
    BY DEF IInv, ListsInv, QueuesLinked, QueueIs
  <1>2. EntriesAlong(r)' = [k \in 1 .. que'[r].length |-> entry'[OnQueue(r)'[k]]]
    BY DEF EntriesAlong
  <1> QED  BY <1>1, <1>2

(* An entry that is in no node on a queue changes nothing there.           *)
LEMMA AlongSame ==
    ASSUME IInv, IInv', NEW r \in Queues, OnQueue(r)' = OnQueue(r),
           \A x \in OnNodes(r) : entry'[x] = entry[x]
    PROVE  EntriesAlong(r)' = EntriesAlong(r)
  <1>1. \A k \in 1 .. Len(OnQueue(r)) : entry'[OnQueue(r)[k]] = entry[OnQueue(r)[k]]
    BY OneQueue DEF IInv
  <1>2. EntriesAlong(r) = [k \in 1 .. Len(OnQueue(r)) |-> entry[OnQueue(r)[k]]]
    <2>1. que[r].length = Len(OnQueue(r))
      BY OneQueue DEF IInv
    <2> QED  BY <2>1 DEF EntriesAlong
  <1>3. EntriesAlong(r)' = [k \in 1 .. Len(OnQueue(r)) |-> entry'[OnQueue(r)[k]]]
    BY AlongNext
  <1> QED  BY <1>1, <1>2, <1>3

LEMMA MappedEnter ==
    ASSUME IInv, IInv', NEW q \in Queues, NEW p, NEW key \in Keys, NEW i, NEW new,
           Entered(q, p, key, i, new), p \in Pcbs
    PROVE  Lists!Enter(q, p, key)
  <1> DEFINE e == [data |-> p, key |-> key]
             c == OnQueue(q)
             n == Len(c)
             R == [data : Nat, key : Nat]
             a == EntriesAlong(q)
             b == InsertAt(a, i, e)
             d == InsertAt(c, i, new)
  <1>1. /\ PlaceOf(i, q, key) /\ OnQueue(q)' = d
        /\ \A r \in Queues \ {q} : OnQueue(r)' = OnQueue(r)
        /\ entry' = [entry EXCEPT ![new] = e] /\ new \in Nodes \ InUse(nodes)
    BY DEF Entered
  <1>2. /\ a \in Seq(R) /\ Len(a) = n /\ n \in Nat
        /\ \A k \in 1 .. n : a[k] = entry[c[k]] /\ c[k] \in InUse(nodes)
        /\ c \in Seq(InUse(nodes))
    <2>1. n \in Nat /\ c \in Seq(InUse(nodes)) /\ \A k \in 1 .. n : c[k] \in InUse(nodes)
      BY OneQueue DEF IInv
    <2> QED  BY <2>1, AlongIs
  <1>3. e \in R
    BY ConstantsAre
  <1>4. i \in 1 .. n + 1
    BY <1>1 DEF PlaceOf
  <1>5. \A r \in Queues : EntriesAlong(r)' = [k \in 1 .. Len(OnQueue(r)') |-> entry'[OnQueue(r)'[k]]]
    BY AlongNext
  <1> HIDE DEF a, c, e, R
  <1>6. \A x \in InUse(nodes) : entry'[x] = entry[x]
    <2>1. entry \in [Nodes \cup {0} -> [data : Pcbs \cup {0}, key : Keys \cup {0}]]
      BY DEF IInv, TypeOK
    <2> QED  BY <1>1, <2>1
  <1>7. entry'[new] = e
    <2>1. entry \in [Nodes \cup {0} -> [data : Pcbs \cup {0}, key : Keys \cup {0}]]
      BY DEF IInv, TypeOK
    <2> QED  BY <1>1, <2>1
  <1>8. /\ b \in Seq(R) /\ Len(b) = n + 1
        /\ \A k \in 1 .. n + 1 : b[k] = IF k < i THEN a[k] ELSE IF k = i THEN e ELSE a[k - 1]
    <2>1. b \in Seq(R) /\ Inserted(b, a, i, e)
      BY <1>2, <1>3, <1>4, InsertMembers
    <2> QED  BY <1>2, <2>1 DEF Inserted
  <1>9. /\ Len(d) = n + 1
        /\ \A k \in 1 .. n + 1 : d[k] = IF k < i THEN c[k] ELSE IF k = i THEN new ELSE c[k - 1]
    <2> DEFINE S == InUse(nodes) \cup {new}
    <2>1. c \in Seq(S) /\ new \in S
      BY <1>2, SeqMonotonic
    <2> HIDE DEF S
    <2>2. Inserted(d, c, i, new)
      BY <1>4, <2>1, InsertMembers
    <2> QED  BY <2>2 DEF Inserted
  <1> HIDE DEF b, d, n
  <1>10. EntriesAlong(q)' = b
    <2>1. ASSUME NEW k \in 1 .. n + 1  PROVE entry'[d[k]] = b[k]
      <3>1. CASE k < i
        <4>1. k \in 1 .. n
          BY <1>2, <1>4, <3>1
        <4> QED  BY <1>2, <1>6, <1>8, <1>9, <3>1, <4>1
      <3>2. CASE k = i
        BY <1>4, <1>7, <1>8, <1>9, <3>2
      <3>3. CASE k > i
        <4>1. k - 1 \in 1 .. n /\ ~(k < i) /\ k # i
          BY <1>2, <1>4, <3>3
        <4>2. b[k] = a[k - 1] /\ d[k] = c[k - 1]
          BY <1>8, <1>9, <4>1
        <4>3. a[k - 1] = entry[c[k - 1]] /\ c[k - 1] \in InUse(nodes)
          BY <1>2, <4>1
        <4> QED  BY <1>6, <4>2, <4>3
      <3> QED  BY <1>2, <1>4, <3>1, <3>2, <3>3
    <2>2. b = [k \in 1 .. n + 1 |-> b[k]]
      <3>1. b \in [1 .. n + 1 -> R]
        BY <1>8, LenProperties
      <3> QED  BY <3>1
    <2>3. EntriesAlong(q)' = [k \in 1 .. n + 1 |-> entry'[d[k]]]
      BY <1>1, <1>5, <1>9
    <2> QED  BY <2>1, <2>2, <2>3
  <1>11. \A r \in Queues \ {q} : EntriesAlong(r)' = EntriesAlong(r)
    <2> TAKE r \in Queues \ {q}
    <2>1. OnQueue(r)' = OnQueue(r) /\ OnNodes(r) \subseteq InUse(nodes)
      BY <1>1, OneQueue DEF IInv
    <2> QED  BY <1>6, <2>1, AlongSame
  <1> DEFINE Q == [r \in Queues |-> EntriesAlong(r)]
             Q2 == [r \in Queues |-> EntriesAlong(r)']
  <1>12. Q2 = [Q EXCEPT ![q] = b]
    BY <1>10, <1>11
  <1>13. /\ Q[q] = a
         /\ \A j \in 1 .. i - 1 : q \in Ordered => a[j].key <= key
         /\ \A j \in i .. n : q \in Ordered /\ a[j].key > key
    <2>1. Q[q] = a
      BY DEF a
    <2>2. /\ \A j \in 1 .. i - 1 : j \in 1 .. n
          /\ \A j \in i .. n : j \in 1 .. n
      BY <1>2, <1>4
    <2>3. /\ \A j \in 1 .. i - 1 : q \in Ordered => entry[c[j]].key <= key
          /\ \A j \in i .. n : q \in Ordered /\ entry[c[j]].key > key
      BY <1>1 DEF PlaceOf, c, n
    <2> QED  BY <1>2, <2>1, <2>2, <2>3
  <1>14. /\ i \in 1 .. Len(Q[q]) + 1
         /\ \A j \in 1 .. i - 1 : q \in Ordered => Q[q][j].key <= e.key
         /\ \A j \in i .. Len(Q[q]) : q \in Ordered /\ Q[q][j].key > e.key
         /\ Q2 = [Q EXCEPT ![q] = InsertAt(Q[q], i, e)]
    <2>1. e.key = key
      BY DEF e
    <2> HIDE DEF Q, Q2
    <2> QED  BY <1>2, <1>4, <1>12, <1>13, <2>1 DEF b
  <1>15. Q = [r \in Queues |-> [k \in 1 .. que[r].length |-> entry[OnQueue(r)[k]]]]
    BY DEF EntriesAlong
  <1>16. Q2 = [r \in Queues |-> [k \in 1 .. que[r].length |-> entry[OnQueue(r)[k]]]]'
    BY DEF EntriesAlong
  <1> HIDE DEF Q, Q2
  <1>17. Lists!InsertAt(Q[q], i, e) = InsertAt(Q[q], i, e)
    BY DEF Lists!InsertAt, InsertAt
  <1>18. Lists!Put(q, e, i)
    BY <1>14, <1>15, <1>16, <1>17 DEF Lists!Put
  <1> QED  BY <1>14, <1>15, <1>18 DEF Lists!Enter, e

LEMMA MappedLeave ==
    ASSUME IInv, IInv', NEW q \in Queues, Left(q), live' = live
    PROVE  Lists!Deque(q)
  <1> DEFINE c == OnQueue(q)
             n == Len(c)
             R == [data : Nat, key : Nat]
             a == EntriesAlong(q)
             old == Head(c)
             t == Tail(c)
  <1>1. /\ c # <<>> /\ OnQueue(q)' = t
        /\ \A r \in Queues \ {q} : OnQueue(r)' = OnQueue(r)
        /\ entry' = [entry EXCEPT ![old] = NoEntry]
    BY DEF Left
  <1>2. /\ a \in Seq(R) /\ Len(a) = n /\ n \in Nat
        /\ \A k \in 1 .. n : a[k] = entry[c[k]]
        /\ c \in Seq(InUse(nodes)) /\ IsInjective(c)
    <2>1. n \in Nat /\ c \in Seq(InUse(nodes)) /\ IsInjective(c)
      BY OneQueue DEF IInv, QueueIs
    <2> QED  BY <2>1, AlongIs
  <1>3. /\ n >= 1 /\ old = c[1] /\ t \in Seq(InUse(nodes)) /\ Len(t) = n - 1
        /\ \A k \in 1 .. n - 1 : t[k] = c[k + 1]
    <2> HIDE DEF c
    <2>1. n # 0
      BY <1>1, <1>2, EmptySeq
    <2> QED  BY <1>1, <1>2, <2>1
  <1>4. \A x \in InUse(nodes) \ {old} : entry'[x] = entry[x]
    <2>1. entry \in [Nodes \cup {0} -> [data : Pcbs \cup {0}, key : Keys \cup {0}]]
      BY DEF IInv, TypeOK
    <2>2. InUse(nodes) \subseteq Nodes
      <3>1. nodes.made \in 0 .. NNodes /\ InUse(nodes) \subseteq 1 .. nodes.made
        BY SoundIs DEF IInv, ListsInv
      <3> QED  BY <3>1, ConstantsAre
    <2> QED  BY <1>1, <2>1, <2>2
  <1>5. EntriesAlong(q)' = Tail(a)
    <2>1. EntriesAlong(q)' = [k \in 1 .. n - 1 |-> entry'[t[k]]]
      <3>1. EntriesAlong(q)' = [k \in 1 .. Len(OnQueue(q)') |-> entry'[OnQueue(q)'[k]]]
        BY AlongNext
      <3> QED  BY <1>1, <1>3, <3>1
    <2> HIDE DEF a, c, old, t, n, R
    <2>2. ASSUME NEW k \in 1 .. n - 1  PROVE entry'[t[k]] = a[k + 1]
      <3>1. k + 1 \in 1 .. n /\ k + 1 # 1 /\ 1 \in 1 .. n
        BY <1>2, <1>3
      <3>2. c[k + 1] \in InUse(nodes) /\ c[k + 1] # c[1]
        BY <1>2, <3>1, ElementOfSeq, LenProperties DEF n, IsInjective
      <3> QED  BY Zenon, <1>2, <1>3, <1>4, <3>1, <3>2
    <2>3. Tail(a) = [k \in 1 .. n - 1 |-> a[k + 1]]
      <3>1. a # <<>>
        BY <1>2, <1>3, EmptySeq
      <3>2. /\ Tail(a) \in Seq(R) /\ Len(Tail(a)) = n - 1
            /\ \A k \in 1 .. n - 1 : Tail(a)[k] = a[k + 1]
        BY <1>2, <1>3, <3>1, HeadTailProperties
      <3>3. Tail(a) \in [1 .. n - 1 -> R]
        BY <3>2, LenProperties
      <3> QED  BY <3>2, <3>3
    <2> QED  BY <2>1, <2>2, <2>3
  <1>6. \A r \in Queues \ {q} : EntriesAlong(r)' = EntriesAlong(r)
    <2> TAKE r \in Queues \ {q}
    <2>1. OnQueue(r)' = OnQueue(r) /\ OnNodes(r) \subseteq InUse(nodes)
      BY <1>1, OneQueue DEF IInv
    <2>2. old \in OnNodes(q)
      <3>1. 1 \in 1 .. n
        BY <1>2, <1>3
      <3>2. c[1] \in OnNodes(q)
        BY <3>1, OneQueue DEF IInv
      <3> QED  BY <1>3, <3>2
    <2>3. OnNodes(q) \cap OnNodes(r) = {}
      BY DEF IInv, ListsInv, NodesOwned
    <2> HIDE DEF old
    <2> QED  BY <1>4, <2>1, <2>2, <2>3, AlongSame
  <1> HIDE DEF c, old, t, R
  <1> DEFINE Q == [r \in Queues |-> EntriesAlong(r)]
             Q2 == [r \in Queues |-> EntriesAlong(r)']
  <1>7. Q[q] = a /\ a # <<>>
    <2>1. Q[q] = a
      OBVIOUS
    <2> HIDE DEF a, n
    <2> QED  BY <1>2, <1>3, <2>1, EmptySeq
  <1>8. Q2 = [Q EXCEPT ![q] = Tail(Q[q])]
    <2>1. \A r \in Queues : Q2[r] = IF r = q THEN Tail(a) ELSE Q[r]
      BY <1>5, <1>6
    <2> QED  BY <1>7, <2>1
  <1>9. Q = [r \in Queues |-> [k \in 1 .. que[r].length |-> entry[OnQueue(r)[k]]]]
    BY DEF EntriesAlong
  <1>10. Q2 = [r \in Queues |-> [k \in 1 .. que[r].length |-> entry[OnQueue(r)[k]]]]'
    BY DEF EntriesAlong
  <1> HIDE DEF Q, Q2, a
  <1> QED  BY <1>7, <1>8, <1>9, <1>10 DEF Lists!Deque

(* What is not about the lists.                                            *)
LEMMA MappedKept ==
    ASSUME ListsKept
    PROVE  UNCHANGED [q \in Queues |-> [k \in 1 .. que[q].length |-> entry[OnQueue(q)[k]]]]
  <1>1. \A q \in Queues : OnQueue(q)' = OnQueue(q)
    BY DEF ListsKept, OnQueue
  <1> QED  BY <1>1 DEF ListsKept

LEMMA MappedInit == Init => Lists!Init
  <1> SUFFICES ASSUME Init PROVE Lists!Init
    OBVIOUS
  <1>1. \A q \in Queues : que[q].length = 0
    BY DEF Init
  <1>2. \A q \in Queues : [k \in 1 .. que[q].length |-> entry[OnQueue(q)[k]]] = <<>>
    <2> TAKE q \in Queues
    <2>1. 1 .. que[q].length = {}
      BY <1>1
    <2> HIDE DEF OnQueue
    <2> QED  BY <2>1
  <1> QED  BY <1>2 DEF Init, Lists!Init

LEMMA MappedNext == IInv /\ [Next]_vars => [Lists!Next]_(Lists!vars)
  <1> SUFFICES ASSUME IInv, [Next]_vars PROVE Lists!Next \/ UNCHANGED Lists!vars
    OBVIOUS
  <1>1. ASSUME ListsKept, live' = live  PROVE UNCHANGED Lists!vars
    BY <1>1, MappedKept DEF Lists!vars
  <1>2. ASSUME Panic  PROVE UNCHANGED Lists!vars
    BY <1>1, <1>2 DEF Panic, ListsKept
  <1>3. ASSUME NEW q \in Queues, NEW key \in Keys, Spawn(q, key)
        PROVE  Lists!Next \/ UNCHANGED Lists!vars
    <2>1. CASE Panic
      BY <1>2, <2>1
    <2>2. ASSUME NEW p, Created(q, p, key)  PROVE Lists!Next
      <3>1. PICK i, new : Entered(q, p, key, i, new)
        BY <2>2 DEF Created
      <3>2. p \in Pcbs /\ p \notin live /\ live' = live \cup {p}
        BY <2>2 DEF Created
      <3>3. IInv'
        BY <1>3, SpawnStep
      <3>4. Lists!Enter(q, p, key)
        BY <3>1, <3>2, <3>3, MappedEnter
      <3> QED  BY <3>2, <3>4 DEF Lists!Next, Lists!Create
    <2> QED  BY <1>3, <2>1, <2>2, SpawnStep
  <1>4. ASSUME NEW q \in Queues, NEW key \in Keys, NEW p \in live, Enque(q, p, key)
        PROVE  Lists!Next \/ UNCHANGED Lists!vars
    <2>1. IInv' /\ (Panic \/ ((\E i, new : Entered(q, p, key, i, new)) /\ live' = live))
      BY <1>4, EnqueStep
    <2>2. p \in live \ Lists!Queued /\ p \in Pcbs
      BY <1>4, MappedQueued DEF Enque, IInv, TypeOK
    <2>3. ASSUME NEW i, NEW new, Entered(q, p, key, i, new), live' = live  PROVE Lists!Next
      <3>1. Lists!Enter(q, p, key)
        BY <2>1, <2>2, <2>3, MappedEnter
      <3> QED  BY <2>2, <2>3, <3>1 DEF Lists!Next, Lists!Enque
    <2> QED  BY <1>2, <2>1, <2>3
  <1>5. ASSUME NEW q \in Queues, Deque(q)  PROVE Lists!Next
    <2>1. Lists!Deque(q)
      BY <1>5, DequeKeeps, MappedLeave
    <2> QED  BY <2>1 DEF Lists!Next
  <1>6. ASSUME NEW p \in live, Cleanup(p)  PROVE Lists!Next
    <2>1. ListsKept /\ p \notin Lists!Queued /\ live' = live \ {p} /\ p \in Pcbs
      BY <1>6, CleanupStep, MappedQueued DEF IInv, TypeOK
    <2>2. Lists!Delete(p)
      BY <2>1, MappedKept DEF Lists!Delete
    <2> QED  BY <2>1, <2>2 DEF Lists!Next
  <1>7. ASSUME SpawnFails  PROVE UNCHANGED Lists!vars
    BY <1>1, <1>7, SpawnFailsStep
  <1>8. ASSUME UNCHANGED vars  PROVE UNCHANGED Lists!vars
    BY <1>1, <1>8 DEF vars, ListsKept
  <1> QED  BY <1>2, <1>3, <1>4, <1>5, <1>6, <1>7, <1>8 DEF Next

(* _que_enque and _que_deque, with all their links and free lists, are the *)
(* queues that the rest of the kernel knows: by arrival, or by wakeup time *)
(* and then by arrival, and no process on two of them.                     *)
THEOREM ListsAreQueues == Spec => ImplementsQueues
  <1>1. IInv /\ [Next]_vars => [Lists!Next]_(Lists!vars)
    BY MappedNext
  <1> QED  BY MappedInit, Invariance, <1>1, PTL DEF Spec, ImplementsQueues, Lists!Spec
=============================================================================
