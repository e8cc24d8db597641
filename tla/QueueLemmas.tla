---------------------------- MODULE QueueLemmas -----------------------------
(***************************************************************************)
(* Lemmas that the proofs about several components share: what the queue   *)
(* operations of queues.c do to the members of a queue seen as a sequence, *)
(* the cells of a ring, lists with an entry put in or taken out, and whole *)
(* blocks or pages of a length.                                            *)
(***************************************************************************)
EXTENDS Naturals, Sequences, SequencesExt, SequenceTheorems, FiniteSetTheorems, TLAPS

(* _que_enque on an unordered queue adds one member, at the end.           *)
LEMMA AppendMembers ==
    ASSUME NEW S, NEW s \in Seq(S), NEW e \in S
    PROVE  /\ Append(s, e) \in Seq(S)
           /\ ToSet(Append(s, e)) = ToSet(s) \cup {e}
           /\ IsInjective(s) /\ e \notin ToSet(s) => IsInjective(Append(s, e))
  <1> DEFINE t == Append(s, e)
  <1>1. /\ t \in Seq(S)
        /\ Len(t) = Len(s) + 1
        /\ \A i \in 1 .. Len(s) : t[i] = s[i]
        /\ t[Len(s) + 1] = e
    BY AppendProperties
  <1>2. Len(s) \in Nat /\ DOMAIN s = 1 .. Len(s) /\ DOMAIN t = 1 .. Len(s) + 1
    BY <1>1, LenProperties
  <1> HIDE DEF t
  <1>3. ToSet(t) = ToSet(s) \cup {e}
    BY <1>1, <1>2 DEF ToSet
  <1>4. IsInjective(s) /\ e \notin ToSet(s) => IsInjective(t)
    BY <1>1, <1>2 DEF ToSet, IsInjective
  <1> QED  BY <1>1, <1>3, <1>4 DEF t

(* _que_deque removes the head and nothing else.                           *)
LEMMA TailMembers ==
    ASSUME NEW S, NEW s \in Seq(S), s # <<>>, IsInjective(s)
    PROVE  /\ Head(s) \in S
           /\ Head(s) \in ToSet(s)
           /\ Tail(s) \in Seq(S)
           /\ ToSet(Tail(s)) = ToSet(s) \ {Head(s)}
           /\ IsInjective(Tail(s))
  <1> DEFINE t == Tail(s)
  <1>1. /\ Head(s) \in S
        /\ t \in Seq(S)
        /\ Len(t) = Len(s) - 1
        /\ \A i \in 1 .. Len(t) : t[i] = s[i + 1]
    BY HeadTailProperties
  <1>2. /\ Len(s) \in Nat \ {0}
        /\ DOMAIN s = 1 .. Len(s)
        /\ DOMAIN t = 1 .. Len(s) - 1
    BY <1>1, LenProperties, EmptySeq
  <1>3. Head(s) = s[1]
    OBVIOUS
  <1> HIDE DEF t
  <1>4. Head(s) \in ToSet(s)
    BY <1>2, <1>3 DEF ToSet
  <1>5. ToSet(t) = ToSet(s) \ {Head(s)}
    <2>1. \A i \in DOMAIN t : t[i] \in ToSet(s) /\ t[i] # s[1]
      BY <1>1, <1>2 DEF ToSet, IsInjective
    <2>2. ASSUME NEW i \in DOMAIN s, i # 1
          PROVE  \E j \in DOMAIN t : t[j] = s[i]
      <3>1. i \in 1 .. Len(s) /\ Len(t) = Len(s) - 1
        BY <1>1, <1>2
      <3>2. i - 1 \in 1 .. Len(t) /\ (i - 1) + 1 = i
        BY <1>2, <2>2, <3>1
      <3>3. t[i - 1] = s[i]
        BY <1>1, <3>2
      <3> QED  BY <1>2, <3>1, <3>2, <3>3
    <2> QED  BY <1>2, <1>3, <2>1, <2>2 DEF ToSet
  <1>6. IsInjective(t)
    <2> SUFFICES ASSUME NEW i \in DOMAIN t, NEW j \in DOMAIN t, i # j
                 PROVE  t[i] # t[j]
      BY DEF IsInjective
    <2>1. i + 1 \in DOMAIN s /\ j + 1 \in DOMAIN s /\ i + 1 # j + 1
      BY <1>2
    <2>2. s[i + 1] # s[j + 1]
      BY <2>1 DEF IsInjective
    <2>3. t[i] = s[i + 1] /\ t[j] = s[j + 1]
      BY <1>1, <1>2
    <2> QED  BY <2>2, <2>3
  <1> QED  BY <1>1, <1>4, <1>5, <1>6 DEF t

(* t is s with e as its k-th member.                                       *)
Inserted(t, s, k, e) ==
    /\ Len(t) = Len(s) + 1
    /\ \A i \in 1 .. Len(s) + 1 :
         t[i] = IF i < k THEN s[i] ELSE IF i = k THEN e ELSE s[i - 1]

(* _que_enque on an ordered queue adds one member, wherever it goes.       *)
LEMMA InsertMembers ==
    ASSUME NEW S, NEW s \in Seq(S), NEW e \in S, NEW k \in 1 .. Len(s) + 1
    PROVE  /\ InsertAt(s, k, e) \in Seq(S)
           /\ Inserted(InsertAt(s, k, e), s, k, e)
           /\ ToSet(InsertAt(s, k, e)) = ToSet(s) \cup {e}
           /\ IsInjective(s) /\ e \notin ToSet(s) => IsInjective(InsertAt(s, k, e))
  <1> DEFINE n == Len(s)
             a == SubSeq(s, 1, k - 1)
             b == SubSeq(s, k, n)
             u == a \o <<e>>
             t == u \o b
  <1>1. n \in Nat /\ DOMAIN s = 1 .. n /\ \A i \in 1 .. n : s[i] \in S
    BY LenProperties
  <1>2. /\ a \in Seq(S) /\ Len(a) = k - 1
        /\ \A i \in 1 .. k - 1 : a[i] = s[i]
    BY <1>1, SubSeqProperties
  <1>3. /\ b \in Seq(S) /\ Len(b) = n - k + 1
        /\ \A i \in 1 .. n - k + 1 : b[i] = s[k + i - 1]
    BY <1>1, SubSeqProperties
  <1> HIDE DEF a, b
  <1>4. <<e>> \in Seq(S) /\ Len(<<e>>) = 1 /\ <<e>>[1] = e
    OBVIOUS
  <1>5. /\ u \in Seq(S) /\ Len(u) = k
        /\ \A i \in 1 .. k : u[i] = IF i < k THEN s[i] ELSE e
    BY <1>1, <1>2, <1>4, ConcatProperties
  <1> HIDE DEF u
  <1>6. /\ t \in Seq(S) /\ Len(t) = n + 1
        /\ \A i \in 1 .. n + 1 :
             t[i] = IF i <= k THEN u[i] ELSE b[i - k]
    <2>1. /\ t \in Seq(S) /\ Len(t) = Len(u) + Len(b)
          /\ \A i \in 1 .. Len(u) + Len(b) :
               t[i] = IF i <= Len(u) THEN u[i] ELSE b[i - Len(u)]
      BY <1>3, <1>5, ConcatProperties
    <2>2. Len(u) = k /\ Len(u) + Len(b) = n + 1
      BY <1>1, <1>3, <1>5
    <2> QED  BY <2>1, <2>2
  <1>7. \A i \in 1 .. n + 1 :
           t[i] = IF i < k THEN s[i] ELSE IF i = k THEN e ELSE s[i - 1]
    BY <1>1, <1>3, <1>5, <1>6
  <1>8. DOMAIN t = 1 .. n + 1
    BY <1>6, LenProperties
  <1> HIDE DEF t
  <1>9. ToSet(t) = ToSet(s) \cup {e}
    <2>1. \A i \in DOMAIN t : t[i] \in ToSet(s) \cup {e}
      BY <1>1, <1>7, <1>8 DEF ToSet
    <2>2. e \in ToSet(t)
      BY <1>1, <1>7, <1>8 DEF ToSet
    <2>3. ASSUME NEW i \in 1 .. n  PROVE s[i] \in ToSet(t)
      <3>1. CASE i < k
        BY <1>1, <1>7, <1>8, <3>1 DEF ToSet
      <3>2. CASE i >= k
        <4>1. i + 1 \in DOMAIN t /\ t[i + 1] = s[i]
          BY <1>1, <1>7, <1>8, <3>2
        <4> QED  BY <4>1 DEF ToSet
      <3> QED  BY <1>1, <3>1, <3>2
    <2> QED  BY <1>1, <2>1, <2>2, <2>3 DEF ToSet
  <1>10. ASSUME IsInjective(s), e \notin ToSet(s)  PROVE IsInjective(t)
    <2>1. \A i \in 1 .. n : s[i] # e
      BY <1>1, <1>10 DEF ToSet
    <2>2. \A i, j \in 1 .. n : s[i] = s[j] => i = j
      BY <1>1, <1>10 DEF IsInjective
    <2> SUFFICES ASSUME NEW i \in 1 .. n + 1, NEW j \in 1 .. n + 1, i < j
                 PROVE  t[i] # t[j]
      BY <1>1, <1>8 DEF IsInjective
    <2> QED  BY <1>1, <1>7, <2>1, <2>2
  <1>11. t = InsertAt(s, k, e)
    BY DEF InsertAt, t, u, a, b, n
  <1> QED  BY <1>6, <1>7, <1>9, <1>10, <1>11 DEF n, Inserted

-----------------------------------------------------------------------------
(* Rings: positions in a buffer of n cells that wrap at its end.           *)

(* A position that moves on by no more than the size wraps at most once.   *)
LEMMA RingStep ==
    ASSUME NEW n \in Nat \ {0}, NEW from \in 0 .. n - 1, NEW k \in 0 .. n
    PROVE  /\ (from + k) % n = IF from + k < n THEN from + k ELSE from + k - n
           /\ (from + k) % n \in 0 .. n - 1
  <1>1. CASE from + k < n
    <2>1. from + k \in 0 .. n - 1
      BY <1>1
    <2> QED  BY <2>1
  <1>2. CASE from + k >= n
    <2>1. from + k \in n .. (n + n) - 1
      BY <1>2
    <2>2. (from + k) % n = (from + k) - n
      BY <2>1
    <2> QED  BY <1>2, <2>2
  <1> QED  BY <1>1, <1>2

(* Two positions less than the size apart are different cells.             *)
LEMMA RingCells ==
    ASSUME NEW n \in Nat \ {0}, NEW from \in 0 .. n - 1,
           NEW j \in 0 .. n - 1, NEW k \in 0 .. n - 1, j # k
    PROVE  (from + j) % n # (from + k) % n
  <1>1. j \in 0 .. n /\ k \in 0 .. n
    OBVIOUS
  <1>2. (from + j) % n = IF from + j < n THEN from + j ELSE from + j - n
    BY <1>1, RingStep
  <1>3. (from + k) % n = IF from + k < n THEN from + k ELSE from + k - n
    BY <1>1, RingStep
  <1> QED  BY <1>2, <1>3

(* Moving on twice is moving on by the sum.                                *)
LEMMA RingSum ==
    ASSUME NEW n \in Nat \ {0}, NEW from \in 0 .. n - 1,
           NEW j \in 0 .. n, NEW k \in 0 .. n, j + k <= n
    PROVE  (((from + j) % n) + k) % n = (from + (j + k)) % n
  <1>1. /\ (from + j) % n = IF from + j < n THEN from + j ELSE from + j - n
        /\ (from + j) % n \in 0 .. n - 1
    BY RingStep
  <1>2. (from + (j + k)) % n =
           IF from + (j + k) < n THEN from + (j + k) ELSE from + (j + k) - n
    <2>1. j + k \in 0 .. n
      OBVIOUS
    <2> QED  BY <2>1, RingStep
  <1>3. (((from + j) % n) + k) % n =
           IF ((from + j) % n) + k < n THEN ((from + j) % n) + k ELSE ((from + j) % n) + k - n
    BY <1>1, RingStep
  <1> QED  BY <1>1, <1>2, <1>3

-----------------------------------------------------------------------------
(* The lesser and the greater of two numbers, and sets without gaps.       *)

LEMMA MinOfTwo ==
    ASSUME NEW a \in Nat, NEW b \in Nat
    PROVE  Min({a, b}) = IF a <= b THEN a ELSE b
  <1>1. \A x \in {a, b} : (\A y \in {a, b} : x <= y) => x = IF a <= b THEN a ELSE b
    OBVIOUS
  <1>2. \E x \in {a, b} : \A y \in {a, b} : x <= y
    OBVIOUS
  <1> QED  BY <1>1, <1>2 DEF Min

LEMMA MaxOfTwo ==
    ASSUME NEW a \in Nat, NEW b \in Nat
    PROVE  Max({a, b}) = IF a >= b THEN a ELSE b
  <1>1. \A x \in {a, b} : (\A y \in {a, b} : x >= y) => x = IF a >= b THEN a ELSE b
    OBVIOUS
  <1>2. \E x \in {a, b} : \A y \in {a, b} : x >= y
    OBVIOUS
  <1> QED  BY <1>1, <1>2 DEF Max

(* Positions with every position before them are the first ones: there are *)
(* as many as the last of them says.                                       *)
LEMMA FirstPositions ==
    ASSUME NEW n \in Nat, NEW S \in SUBSET (1 .. n), \A i \in S : 1 .. i \subseteq S
    PROVE  Cardinality(S) \in 0 .. n /\ S = 1 .. Cardinality(S)
  <1> DEFINE R == OpToRel(<, Nat)
             T == (1 .. n + 1) \ S
  <1>1. IsWellFoundedOn(R, Nat)
    BY NatLessThanWellFounded
  <1>2. T \subseteq Nat /\ T # {}
    OBVIOUS
  <1>3. \E x \in T : \A y \in T : ~ (<<y, x>> \in R)
    <2> HIDE DEF R, T
    <2> QED  BY <1>1, <1>2, WFMin
  <1>4. PICK m \in T : \A k \in T : ~(k < m)
    BY <1>2, <1>3 DEF OpToRel
  <1>5. S = 1 .. m - 1
    <2>1. m \in 1 .. n + 1 /\ m \notin S
      OBVIOUS
    <2>2. ASSUME NEW k \in 1 .. n + 1, k < m  PROVE k \in S
      BY <1>4, <2>2
    <2>3. ASSUME NEW k \in S  PROVE k < m
      <3>1. k \in 1 .. n /\ 1 .. k \subseteq S
        OBVIOUS
      <3>2. m \notin 1 .. k
        BY <2>1, <3>1
      <3> QED  BY <2>1, <3>1, <3>2
    <2>4. \A k \in 1 .. m - 1 : k \in 1 .. n + 1 /\ k < m
      BY <2>1
    <2>5. \A k \in 1 .. n : k < m => k \in 1 .. m - 1
      BY <2>1
    <2>6. 1 .. m - 1 \subseteq S
      BY <2>2, <2>4
    <2>7. S \subseteq 1 .. m - 1
      BY <2>3, <2>5
    <2> QED  BY <2>6, <2>7
  <1>6. Cardinality(1 .. m - 1) = m - 1
    <2>1. m - 1 \in Int /\ 1 \in Int
      BY <1>4
    <2> QED  BY <1>4, <2>1, FS_Interval
  <1> QED  BY <1>4, <1>5, <1>6

-----------------------------------------------------------------------------
(* Lists from which a stretch is taken out, and replaced by one member.    *)

(* t is s with e in the place of what was behind lo and before hi.         *)
Spliced(t, s, lo, e, hi) ==
    /\ Len(t) = lo + 1 + Len(s) + 1 - hi
    /\ \A i \in 1 .. lo : t[i] = s[i]
    /\ t[lo + 1] = e
    /\ \A i \in lo + 2 .. Len(t) : t[i] = s[i - lo - 2 + hi]

LEMMA SplicedList ==
    ASSUME NEW S, NEW s \in Seq(S), NEW e \in S,
           NEW lo \in 0 .. Len(s), NEW hi \in lo + 1 .. Len(s) + 1
    PROVE  LET t == SubSeq(s, 1, lo) \o <<e>> \o SubSeq(s, hi, Len(s))
           IN  t \in Seq(S) /\ Spliced(t, s, lo, e, hi)
  <1> DEFINE n == Len(s)
             a == SubSeq(s, 1, lo)
             b == SubSeq(s, hi, n)
             u == a \o <<e>>
             t == u \o b
  <1>1. n \in Nat /\ DOMAIN s = 1 .. n /\ \A i \in 1 .. n : s[i] \in S
    BY LenProperties
  <1>2. /\ a \in Seq(S) /\ Len(a) = lo
        /\ \A i \in 1 .. lo : a[i] = s[i]
    BY <1>1, SubSeqProperties
  <1>3. /\ b \in Seq(S) /\ Len(b) = n + 1 - hi
        /\ \A i \in 1 .. n + 1 - hi : b[i] = s[hi + i - 1]
    BY <1>1, SubSeqProperties
  <1> HIDE DEF a, b
  <1>4. <<e>> \in Seq(S) /\ Len(<<e>>) = 1 /\ <<e>>[1] = e
    OBVIOUS
  <1>5. /\ u \in Seq(S) /\ Len(u) = lo + 1
        /\ \A i \in 1 .. lo + 1 : u[i] = IF i <= lo THEN s[i] ELSE e
    BY <1>1, <1>2, <1>4, ConcatProperties
  <1> HIDE DEF u
  <1>6. /\ t \in Seq(S) /\ Len(t) = lo + 1 + n + 1 - hi
        /\ \A i \in 1 .. lo + 1 + n + 1 - hi :
             t[i] = IF i <= lo + 1 THEN u[i] ELSE b[i - (lo + 1)]
    <2>1. /\ t \in Seq(S) /\ Len(t) = Len(u) + Len(b)
          /\ \A i \in 1 .. Len(u) + Len(b) :
               t[i] = IF i <= Len(u) THEN u[i] ELSE b[i - Len(u)]
      BY <1>3, <1>5, ConcatProperties
    <2>2. Len(u) = lo + 1 /\ Len(u) + Len(b) = lo + 1 + n + 1 - hi
      BY <1>1, <1>3, <1>5
    <2> QED  BY <2>1, <2>2
  <1> HIDE DEF t
  <1>7. \A i \in 1 .. lo : t[i] = s[i]
    BY SMTT(30), <1>1, <1>5, <1>6
  <1>8. t[lo + 1] = e
    BY <1>1, <1>5, <1>6
  <1>9. ASSUME NEW i \in lo + 2 .. Len(t)  PROVE t[i] = s[i - lo - 2 + hi]
    <2>1. i \in 1 .. lo + 1 + n + 1 - hi /\ ~(i <= lo + 1)
      BY <1>1, <1>6
    <2>2. t[i] = b[i - (lo + 1)]
      BY <1>6, <2>1
    <2>3. i - (lo + 1) \in 1 .. n + 1 - hi /\ hi + (i - (lo + 1)) - 1 = i - lo - 2 + hi
      BY <1>1, <1>6
    <2> QED  BY <1>3, <2>2, <2>3
  <1>10. Spliced(t, s, lo, e, hi)
    BY <1>6, <1>7, <1>8, <1>9 DEF Spliced, n
  <1> QED  BY <1>6, <1>10 DEF t, u, a, b, n

(* Its members are those of s outside of the stretch, and e.               *)
LEMMA SplicedMembers ==
    ASSUME NEW S, NEW s \in Seq(S), NEW e \in S, NEW t \in Seq(S),
           NEW lo \in 0 .. Len(s), NEW hi \in lo + 1 .. Len(s) + 1,
           Spliced(t, s, lo, e, hi)
    PROVE  ToSet(t) = {e} \cup {s[i] : i \in 1 .. lo} \cup {s[i] : i \in hi .. Len(s)}
  <1>1. /\ Len(s) \in Nat /\ Len(t) \in Nat
        /\ DOMAIN s = 1 .. Len(s) /\ DOMAIN t = 1 .. Len(t)
    BY LenProperties
  <1>2. ASSUME NEW i \in 1 .. Len(t)
        PROVE  t[i] \in {e} \cup {s[j] : j \in 1 .. lo} \cup {s[j] : j \in hi .. Len(s)}
    <2>1. CASE i <= lo + 1
      BY SMTT(30), <1>1, <2>1 DEF Spliced
    <2>2. CASE i > lo + 1
      <3>1. i \in lo + 2 .. Len(t) /\ i - lo - 2 + hi \in hi .. Len(s)
        BY <1>1, <2>2 DEF Spliced
      <3> QED  BY <3>1 DEF Spliced
    <2> QED  BY <1>1, <2>1, <2>2
  <1>3. ASSUME NEW i \in hi .. Len(s)  PROVE \E k \in 1 .. Len(t) : t[k] = s[i]
    <2> DEFINE k == i + lo + 2 - hi
    <2>1. k \in lo + 2 .. Len(t) /\ k - lo - 2 + hi = i /\ k \in 1 .. Len(t)
      BY <1>1 DEF Spliced
    <2> HIDE DEF k
    <2>2. t[k] = s[i]
      BY <2>1 DEF Spliced
    <2> QED  BY <2>1, <2>2
  <1>4. \A i \in 1 .. lo : i \in 1 .. Len(t) /\ t[i] = s[i]
    BY <1>1 DEF Spliced
  <1>5. lo + 1 \in 1 .. Len(t) /\ t[lo + 1] = e
    BY <1>1 DEF Spliced
  <1>6. ToSet(t) = {t[k] : k \in 1 .. Len(t)}
    BY <1>1 DEF ToSet
  <1>7. ToSet(t) \subseteq {e} \cup {s[i] : i \in 1 .. lo} \cup {s[i] : i \in hi .. Len(s)}
    BY <1>2, <1>6
  <1>8. {s[i] : i \in hi .. Len(s)} \subseteq ToSet(t)
    BY <1>3, <1>6
  <1>9. {s[i] : i \in 1 .. lo} \subseteq ToSet(t) /\ e \in ToSet(t)
    BY <1>4, <1>5, <1>6
  <1> QED  BY <1>7, <1>8, <1>9

(* RemoveAt takes out one position, and the rest stays in its order.       *)
LEMMA RemovedList ==
    ASSUME NEW S, NEW s \in Seq(S), NEW k \in 1 .. Len(s)
    PROVE  /\ RemoveAt(s, k) \in Seq(S)
           /\ Len(RemoveAt(s, k)) = Len(s) - 1
           /\ \A i \in 1 .. Len(s) - 1 :
                RemoveAt(s, k)[i] = IF i < k THEN s[i] ELSE s[i + 1]
           /\ ToSet(RemoveAt(s, k)) = {s[i] : i \in (1 .. Len(s)) \ {k}}
  <1> DEFINE n == Len(s)
             a == SubSeq(s, 1, k - 1)
             b == SubSeq(s, k + 1, n)
             t == a \o b
  <1>1. n \in Nat /\ DOMAIN s = 1 .. n /\ \A i \in 1 .. n : s[i] \in S
    BY LenProperties
  <1>0. n \in Nat /\ k \in 1 .. n
    BY <1>1
  <1>2. /\ a \in Seq(S) /\ Len(a) = k - 1
        /\ \A i \in 1 .. k - 1 : a[i] = s[i]
    BY <1>1, SubSeqProperties
  <1>3. /\ b \in Seq(S) /\ Len(b) = n - k
        /\ \A i \in 1 .. n - k : b[i] = s[k + i]
    <2>1. k + 1 \in Int /\ n \in Int /\ \A i \in k + 1 .. n : s[i] \in S
      BY <1>1
    <2>2. /\ b \in Seq(S)
          /\ Len(b) = IF k + 1 <= n THEN n - (k + 1) + 1 ELSE 0
          /\ \A i \in 1 .. n - (k + 1) + 1 : b[i] = s[k + 1 + i - 1]
      BY <2>1, SubSeqProperties
    <2>3. n - (k + 1) + 1 = n - k /\ \A i \in 1 .. n - k : k + 1 + i - 1 = k + i
      BY <1>1
    <2>4. CASE k = n
      BY <1>1, <2>2, <2>4
    <2>5. CASE k + 1 <= n
      BY <1>1, <2>2, <2>5
    <2>6. k = n \/ k + 1 <= n
      <3> HIDE DEF n
      <3> QED  BY <1>0
    <2> QED  BY <2>2, <2>3, <2>4, <2>5, <2>6
  <1> HIDE DEF a, b
  <1>4. /\ t \in Seq(S) /\ Len(t) = Len(a) + Len(b)
        /\ \A i \in 1 .. Len(a) + Len(b) :
             t[i] = IF i <= Len(a) THEN a[i] ELSE b[i - Len(a)]
    BY <1>2, <1>3, ConcatProperties
  <1> HIDE DEF t
  <1>5. Len(t) = n - 1
    BY <1>1, <1>2, <1>3, <1>4
  <1>6. ASSUME NEW i \in 1 .. n - 1  PROVE t[i] = IF i < k THEN s[i] ELSE s[i + 1]
    <2>1. CASE i < k
      <3>1. i \in 1 .. k - 1 /\ a[i] = s[i]
        BY <1>2, <2>1
      <3>2. t[i] = a[i]
        <4> HIDE DEF n
        <4>1. Len(a) = k - 1 /\ i \in 1 .. Len(a) + Len(b) /\ i <= Len(a)
          BY <1>0, <1>2, <1>3, <2>1
        <4> QED  BY <1>4, <4>1
      <3> QED  BY <2>1, <3>1, <3>2
    <2>2. CASE i >= k
      <3>1. i - (k - 1) \in 1 .. n - k /\ k + (i - (k - 1)) = i + 1
        BY <1>1, <2>2
      <3>2. t[i] = b[i - (k - 1)]
        <4> HIDE DEF n
        <4>1. Len(a) = k - 1 /\ i \in 1 .. Len(a) + Len(b) /\ ~(i <= Len(a))
          BY <1>0, <1>2, <1>3, <2>2
        <4> QED  BY <1>4, <4>1
      <3>3. b[i - (k - 1)] = s[k + (i - (k - 1))]
        BY <1>3, <3>1
      <3>4. ~(i < k)
        BY <1>1, <2>2
      <3> QED  BY <3>1, <3>2, <3>3, <3>4
    <2> QED  BY <1>1, <2>1, <2>2
  <1>7. DOMAIN t = 1 .. n - 1
    BY <1>4, <1>5, LenProperties
  <1>8. ToSet(t) = {s[i] : i \in (1 .. n) \ {k}}
    <2>1. \A i \in DOMAIN t : t[i] \in {s[j] : j \in (1 .. n) \ {k}}
      BY <1>1, <1>6, <1>7
    <2>2. ASSUME NEW j \in (1 .. n) \ {k}  PROVE \E i \in DOMAIN t : t[i] = s[j]
      <3>1. CASE j < k
        <4>1. j \in 1 .. n - 1
          BY <1>1, <3>1
        <4> QED  BY <1>6, <1>7, <3>1, <4>1
      <3>2. CASE j > k
        <4>1. j - 1 \in 1 .. n - 1 /\ ~(j - 1 < k) /\ (j - 1) + 1 = j
          BY <1>1, <3>2
        <4> QED  BY <1>6, <1>7, <4>1
      <3> QED  BY <1>1, <3>1, <3>2
    <2> QED  BY <2>1, <2>2 DEF ToSet
  <1>9. t = RemoveAt(s, k)
    BY DEF RemoveAt, t, a, b, n
  <1> QED  BY <1>4, <1>5, <1>6, <1>8, <1>9 DEF n

(* A member put before all others.                                         *)
LEMMA ConsMembers ==
    ASSUME NEW S, NEW s \in Seq(S), NEW e \in S
    PROVE  /\ <<e>> \o s \in Seq(S)
           /\ ToSet(<<e>> \o s) = {e} \cup ToSet(s)
           /\ IsInjective(s) /\ e \notin ToSet(s) => IsInjective(<<e>> \o s)
  <1> DEFINE n == Len(s)
             t == <<e>> \o s
  <1>1. n \in Nat /\ DOMAIN s = 1 .. n
    BY LenProperties
  <1>2. <<e>> \in Seq(S) /\ Len(<<e>>) = 1 /\ <<e>>[1] = e
    OBVIOUS
  <1>3. /\ t \in Seq(S) /\ Len(t) = 1 + n
        /\ \A i \in 1 .. 1 + n : t[i] = IF i <= 1 THEN e ELSE s[i - 1]
    BY <1>1, <1>2, ConcatProperties
  <1>4. DOMAIN t = 1 .. 1 + n
    BY <1>3, LenProperties
  <1> HIDE DEF t, n
  <1>5. ToSet(t) = {e} \cup ToSet(s)
    <2>1. \A i \in 1 .. 1 + n : t[i] \in {e} \cup ToSet(s)
      BY <1>1, <1>3 DEF ToSet
    <2>2. \A i \in 1 .. n : i + 1 \in 1 .. 1 + n /\ t[i + 1] = s[i]
      BY <1>1, <1>3
    <2>3. 1 \in 1 .. 1 + n /\ t[1] = e
      BY <1>1, <1>3
    <2> QED  BY Zenon, <1>1, <1>4, <2>1, <2>2, <2>3 DEF ToSet
  <1>6. ASSUME IsInjective(s), e \notin ToSet(s)  PROVE IsInjective(t)
    <2>1. \A i \in 1 .. n : s[i] # e
      BY <1>1, <1>6 DEF ToSet
    <2>2. \A i, j \in 1 .. n : s[i] = s[j] => i = j
      BY <1>1, <1>6 DEF IsInjective
    <2> SUFFICES ASSUME NEW i \in 1 .. 1 + n, NEW j \in 1 .. 1 + n, i < j
                 PROVE  t[i] # t[j]
      BY <1>1, <1>4 DEF IsInjective
    <2> QED  BY <1>1, <1>3, <2>1, <2>2
  <1> QED  BY <1>3, <1>5, <1>6 DEF t

-----------------------------------------------------------------------------
(* Multiples of a size: pages of memory, blocks of a file.                 *)

LEMMA Product ==
    ASSUME NEW n \in Nat \ {0}, NEW a \in Nat, NEW b \in Nat
    PROVE  a <= b <=> a * n <= b * n
  <1>1. \A c \in Nat : (a + c) * n = (a * n) + (c * n) /\ c * n >= 0
    OBVIOUS
  <1>2. \A c \in Nat : (b + c) * n = (b * n) + (c * n)
    OBVIOUS
  <1>3. CASE a <= b
    <2>1. b - a \in Nat /\ a + (b - a) = b
      BY <1>3
    <2>2. a * n <= b * n
      BY <1>1, <2>1
    <2> QED  BY <1>3, <2>2
  <1>4. CASE a > b
    <2>1. a - b - 1 \in Nat /\ b + 1 + (a - b - 1) = a
      BY <1>4
    <2>2. (b + (a - b)) * n = (b * n) + ((a - b) * n)
      BY <1>2, <1>4
    <2>3. (1 + (a - b - 1)) * n = n + ((a - b - 1) * n) /\ (a - b - 1) * n >= 0
      BY <2>1
    <2>4. a * n > b * n
      BY <1>4, <2>1, <2>2, <2>3
    <2> QED  BY <1>4, <2>4
  <1> QED  BY <1>3, <1>4

(* The whole pages in a length, and the first at or behind an address.     *)
LEMMA WholePages ==
    ASSUME NEW n \in Nat \ {0}, NEW a \in Nat, NEW q \in Nat
    PROVE  /\ a \div n \in Nat
           /\ q <= a \div n <=> q * n <= a
           /\ (a + n - 1) \div n \in Nat
           /\ (a + n - 1) \div n <= q <=> a <= q * n
  <1>1. \A c \in Nat : /\ c \div n \in Nat /\ c % n \in 0 .. n - 1
                       /\ c = (n * (c \div n)) + (c % n)
    OBVIOUS
  <1>2. \A c, d \in Nat : c <= d <=> c * n <= d * n
    BY Product
  <1>3. \A c \in Nat : n * c = c * n /\ (c + 1) * n = (c * n) + n
    OBVIOUS
  <1>4. ASSUME NEW c \in Nat, NEW d \in Nat
        PROVE  d <= c \div n <=> d * n <= c
    <2> DEFINE e == c \div n
    <2>1. e \in Nat /\ e * n <= c /\ c < (e + 1) * n
      BY <1>1, <1>3
    <2> HIDE DEF e
    <2>2. d <= e => d * n <= e * n
      BY <1>2, <2>1
    <2>3. e + 1 <= d => (e + 1) * n <= d * n
      BY <1>2, <2>1
    <2>4. d * n \in Nat /\ e * n \in Nat /\ (e + 1) * n \in Nat
      BY <2>1
    <2>5. d <= e <=> d * n <= c
      <3> DEFINE x == d * n
                 y == e * n
                 z == (e + 1) * n
      <3>1. /\ x \in Nat /\ y \in Nat /\ z \in Nat /\ y <= c /\ c < z
            /\ (d <= e => x <= y) /\ (e + 1 <= d => z <= x)
        BY <2>1, <2>2, <2>3, <2>4
      <3> HIDE DEF x, y, z
      <3>2. d <= e <=> x <= c
        BY <2>1, <3>1
      <3> QED  BY <3>2 DEF x
    <2> QED  BY <2>5 DEF e
  <1>5. a + n - 1 \in Nat
    OBVIOUS
  <1>6. (a + n - 1) \div n <= q <=> ~(q + 1 <= (a + n - 1) \div n)
    BY <1>1, <1>5
  <1>7. q + 1 <= (a + n - 1) \div n <=> (q + 1) * n <= a + n - 1
    BY <1>4, <1>5
  <1>8. (q + 1) * n <= a + n - 1 <=> ~(a <= q * n)
    BY <1>3
  <1> QED  BY <1>1, <1>4, <1>5, <1>6, <1>7, <1>8

(* A set of numbers has a least one.                                       *)
LEMMA LeastOf ==
    ASSUME NEW S \in SUBSET Nat, S # {}
    PROVE  \E x \in S : \A y \in S : x <= y
  <1> DEFINE R == OpToRel(<, Nat)
  <1>1. IsWellFoundedOn(R, Nat)
    BY NatLessThanWellFounded
  <1>2. \E x \in S : \A y \in S : ~ (<<y, x>> \in R)
    <2> HIDE DEF R
    <2> QED  BY <1>1, WFMin
  <1>3. PICK x \in S : \A y \in S : ~(y < x)
    BY <1>2 DEF OpToRel
  <1>4. \A y \in S : x <= y
    BY <1>3
  <1> QED  BY <1>4

(* The i-th lowest member of a finite set of numbers: there is one with i  *)
(* members up to it.                                                       *)
LEMMA RankedMember ==
    ASSUME NEW F \in SUBSET Nat, IsFiniteSet(F), NEW i \in 1 .. Cardinality(F)
    PROVE  \E b \in F : Cardinality({c \in F : c <= b}) = i
  <1> DEFINE n == Cardinality(F)
             upTo(b) == {c \in F : c <= b}
             rank == [b \in F |-> Cardinality(upTo(b))]
  <1>1. n \in Nat
    BY FS_CardinalityType
  <1>2. ASSUME NEW b \in F  PROVE IsFiniteSet(upTo(b)) /\ rank[b] \in 1 .. n
    <2>1. IsFiniteSet(upTo(b)) /\ Cardinality(upTo(b)) <= n
      BY FS_Subset
    <2>2. Cardinality(upTo(b)) \in Nat
      BY <2>1, FS_CardinalityType
    <2>3. Cardinality(upTo(b)) # 0
      BY <2>1, FS_EmptySet
    <2> QED  BY <1>1, <2>1, <2>2, <2>3
  <1>3. ASSUME NEW a \in F, NEW b \in F, a < b  PROVE rank[a] # rank[b]
    <2>1. upTo(a) \in SUBSET upTo(b)
      <3>1. \A c \in F : c <= a => c <= b
        BY <1>3
      <3> QED  BY <3>1
    <2>2. b \in upTo(b) /\ b \notin upTo(a)
      BY <1>3
    <2>3. Cardinality(upTo(a)) # Cardinality(upTo(b))
      BY <1>2, <2>1, <2>2, FS_Subset
    <2> QED  BY <2>3
  <1>4. rank \in Injection(F, 1 .. n)
    <2>1. rank \in [F -> 1 .. n]
      BY <1>2
    <2>2. \A a, b \in F : a # b => a < b \/ b < a
      OBVIOUS
    <2>3. \A a, b \in F : rank[a] = rank[b] => a = b
      <3> HIDE DEF rank
      <3> QED  BY <1>3, <2>2
    <2> HIDE DEF rank
    <2> QED  BY <2>1, <2>3 DEF Injection, IsInjective
  <1>5. IsFiniteSet(1 .. n) /\ Cardinality(1 .. n) = n
    BY <1>1, FS_Interval
  <1>6. rank \in Surjection(F, 1 .. n)
    <2> HIDE DEF rank
    <2> QED  BY <1>4, <1>5, FS_Injection
  <1>7. PICK b \in F : rank[b] = i
    <2> HIDE DEF rank
    <2> QED  BY <1>6 DEF Surjection
  <1> QED  BY <1>7
=============================================================================
