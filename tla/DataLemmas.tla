----------------------------- MODULE DataLemmas -----------------------------
(***************************************************************************)
(* Facts about numbers and sequences that the proofs about several         *)
(* components need.                                                        *)
(***************************************************************************)
EXTENDS SequencesExt, FiniteSetTheorems, SequenceTheorems, WellFoundedInduction, TLAPS

(* Every set of numbers that is not empty has a least one: the way to an   *)
(* induction, by what would be the least counterexample.                   *)
LEMMA LessThan ==
    \E R : IsWellFoundedOn(R, Nat) /\ \A a, b \in Nat : a < b => <<a, b>> \in R
<1>1. \A a, b \in Nat : a < b => <<a, b>> \in OpToRel(<, Nat)
    BY DEF OpToRel
<1> QED
    BY <1>1, NatLessThanWellFounded

LEMMA Minimal ==
    ASSUME NEW R, IsWellFoundedOn(R, Nat), NEW T, T \subseteq Nat, T # {}
    PROVE  \E m \in T : \A n \in T : ~(<<n, m>> \in R)
BY WFMin

LEMMA LeastNumber ==
    ASSUME NEW T \in SUBSET Nat, T # {}
    PROVE  \E m \in T : \A n \in T : m <= n
<1>1. PICK R : IsWellFoundedOn(R, Nat) /\ \A a, b \in Nat : a < b => <<a, b>> \in R
    BY LessThan
<1>2. IsWellFoundedOn(R, Nat)
    BY <1>1
<1>3. PICK m \in T : \A n \in T : ~(<<n, m>> \in R)
    BY <1>2, Minimal
<1>4. ASSUME NEW n \in T PROVE m <= n
    <2>1. \A a, b \in Nat : a < b => <<a, b>> \in R
        BY <1>1
    <2>2. ~(n < m)
        BY <2>1, <1>3
    <2> QED
        BY <2>2
<1> QED
    BY <1>4

-----------------------------------------------------------------------------
(* Sequences of which the end grows and elements are taken out.            *)

LEMMA SeqParts ==
    ASSUME NEW S, NEW s \in Seq(S)
    PROVE  /\ Len(s) \in Nat /\ DOMAIN s = 1 .. Len(s)
           /\ \A k \in DOMAIN s : s[k] \in S /\ k \in Nat
BY ElementOfSeq, LenProperties

LEMMA Behind ==
    ASSUME NEW S, NEW s \in Seq(S), NEW t \in Seq(S)
    PROVE  /\ s \o t \in Seq(S) /\ Len(s \o t) = Len(s) + Len(t)
           /\ DOMAIN (s \o t) = 1 .. Len(s) + Len(t)
           /\ \A k \in DOMAIN s : k \in DOMAIN (s \o t) /\ (s \o t)[k] = s[k]
           /\ \A k \in DOMAIN t :
                 Len(s) + k \in DOMAIN (s \o t) /\ (s \o t)[Len(s) + k] = t[k]
           /\ \A k \in DOMAIN (s \o t) :
                 k \in DOMAIN s \/ \E j \in DOMAIN t : k = Len(s) + j
<1> DEFINE c == s \o t
<1>1. /\ Len(s) \in Nat /\ DOMAIN s = 1 .. Len(s)
      /\ Len(t) \in Nat /\ DOMAIN t = 1 .. Len(t)
    BY SeqParts
<1>2. /\ c \in Seq(S) /\ Len(c) = Len(s) + Len(t)
      /\ \A k \in 1 .. Len(s) + Len(t) :
            c[k] = IF k <= Len(s) THEN s[k] ELSE t[k - Len(s)]
    BY ConcatProperties
<1> HIDE DEF c
<1>3. DOMAIN c = 1 .. Len(s) + Len(t)
    BY <1>2, SeqParts
<1>4. ASSUME NEW k \in DOMAIN t
      PROVE  Len(s) + k \in DOMAIN c /\ c[Len(s) + k] = t[k]
    <2>1. /\ Len(s) + k \in 1 .. Len(s) + Len(t) /\ ~(Len(s) + k <= Len(s))
          /\ Len(s) + k - Len(s) = k
        BY <1>1
    <2> QED
        BY <2>1, <1>2, <1>3
<1>5. ASSUME NEW k \in DOMAIN c, k \notin DOMAIN s
      PROVE  \E j \in DOMAIN t : k = Len(s) + j
    <2>1. k - Len(s) \in DOMAIN t /\ k = Len(s) + (k - Len(s))
        BY <1>1, <1>3, <1>5
    <2> QED
        BY <2>1
<1>6. \A k \in DOMAIN s : k \in DOMAIN c /\ c[k] = s[k]
    BY <1>1, <1>2, <1>3
<1> QED
    BY <1>2, <1>3, <1>4, <1>5, <1>6 DEF c

LEMMA WithoutOne ==
    ASSUME NEW S, NEW s \in Seq(S), NEW k \in DOMAIN s
    PROVE  /\ RemoveAt(s, k) \in Seq(S)
           /\ Len(RemoveAt(s, k)) = Len(s) - 1
           /\ DOMAIN RemoveAt(s, k) = 1 .. Len(s) - 1
           /\ \A j \in 1 .. Len(s) - 1 :
                 RemoveAt(s, k)[j] = IF j < k THEN s[j] ELSE s[j + 1]
<1> DEFINE a == SubSeq(s, 1, k - 1)
           b == SubSeq(s, k + 1, Len(s))
           c == a \o b
<1>1. /\ Len(s) \in Nat /\ k \in 1 .. Len(s) /\ k \in Nat
      /\ \A j \in 1 .. Len(s) : s[j] \in S
    BY SeqParts
<1>2. /\ a \in Seq(S) /\ Len(a) = k - 1
      /\ \A j \in 1 .. k - 1 : a[j] = s[j]
    <2>1. k - 1 \in Int /\ 1 \in Int /\ \A j \in 1 .. k - 1 : s[j] \in S
        BY <1>1
    <2>2. /\ a \in Seq(S) /\ Len(a) = IF 1 <= k - 1 THEN (k - 1) - 1 + 1 ELSE 0
          /\ \A j \in 1 .. (k - 1) - 1 + 1 : a[j] = s[1 + j - 1]
        BY <2>1, SubSeqProperties
    <2> HIDE DEF a
    <2> QED
        BY <2>2, <1>1
<1>3. /\ b \in Seq(S) /\ Len(b) = Len(s) - k
      /\ \A j \in 1 .. Len(s) - k : b[j] = s[k + j]
    <2>1. k + 1 \in Int /\ Len(s) \in Int /\ \A j \in k + 1 .. Len(s) : s[j] \in S
        BY <1>1
    <2>2. /\ b \in Seq(S) /\ Len(b) = IF k + 1 <= Len(s) THEN Len(s) - (k + 1) + 1 ELSE 0
          /\ \A j \in 1 .. Len(s) - (k + 1) + 1 : b[j] = s[k + 1 + j - 1]
        BY <2>1, SubSeqProperties
    <2> HIDE DEF b
    <2> QED
        BY <2>2, <1>1
<1> HIDE DEF a, b
<1>4. /\ c \in Seq(S) /\ Len(c) = Len(a) + Len(b)
      /\ \A j \in 1 .. Len(a) + Len(b) :
            c[j] = IF j <= Len(a) THEN a[j] ELSE b[j - Len(a)]
    BY <1>2, <1>3, ConcatProperties
<1>5. DOMAIN c = 1 .. Len(c)
    BY <1>4, SeqParts
<1> HIDE DEF c
<1>6. ASSUME NEW j \in 1 .. Len(s) - 1
      PROVE  c[j] = IF j < k THEN s[j] ELSE s[j + 1]
    <2>1. CASE j < k
        <3>1. j \in 1 .. Len(a) + Len(b) /\ j <= Len(a) /\ j \in 1 .. k - 1
            BY <2>1, <1>1, <1>2, <1>3
        <3> QED
            BY <2>1, <3>1, <1>2, <1>4
    <2>2. CASE ~(j < k)
        <3>1. /\ j \in 1 .. Len(a) + Len(b) /\ ~(j <= Len(a))
              /\ j - Len(a) \in 1 .. Len(s) - k
              /\ k + (j - Len(a)) = j + 1
            BY <2>2, <1>1, <1>2, <1>3
        <3> QED
            BY <2>2, <3>1, <1>3, <1>4
    <2> QED
        BY <2>1, <2>2
<1>7. Len(c) = Len(s) - 1
    BY <1>1, <1>2, <1>3, <1>4
<1>8. RemoveAt(s, k) = c
    BY DEF RemoveAt, a, b, c
<1> QED
    BY <1>4, <1>5, <1>6, <1>7, <1>8

LEMMA OutOfTheFront ==
    ASSUME NEW S, NEW s \in Seq(S), NEW t \in Seq(S), NEW k \in DOMAIN s
    PROVE  RemoveAt(s \o t, k) = RemoveAt(s, k) \o t
<1> DEFINE u == s \o t
           r == RemoveAt(s, k)
           x == RemoveAt(u, k)
           y == r \o t
<1>1. /\ Len(s) \in Nat /\ DOMAIN s = 1 .. Len(s) /\ k \in Nat
      /\ Len(t) \in Nat /\ DOMAIN t = 1 .. Len(t)
    BY SeqParts
<1>2. /\ u \in Seq(S) /\ Len(u) = Len(s) + Len(t) /\ k \in DOMAIN u
      /\ \A j \in 1 .. Len(s) + Len(t) :
            u[j] = IF j <= Len(s) THEN s[j] ELSE t[j - Len(s)]
    BY Behind, ConcatProperties
<1>3. /\ r \in Seq(S) /\ Len(r) = Len(s) - 1
      /\ \A j \in 1 .. Len(s) - 1 : r[j] = IF j < k THEN s[j] ELSE s[j + 1]
    BY WithoutOne
<1> HIDE DEF u, r
<1>4. /\ x \in Seq(S) /\ Len(x) = Len(u) - 1
      /\ \A j \in 1 .. Len(u) - 1 : x[j] = IF j < k THEN u[j] ELSE u[j + 1]
    BY <1>2, WithoutOne
<1>5. /\ y \in Seq(S) /\ Len(y) = Len(r) + Len(t)
      /\ \A j \in 1 .. Len(r) + Len(t) :
            y[j] = IF j <= Len(r) THEN r[j] ELSE t[j - Len(r)]
    BY <1>3, ConcatProperties
<1> HIDE DEF x, y
<1>6. Len(x) = Len(y)
    BY <1>1, <1>2, <1>3, <1>4, <1>5
<1>7. ASSUME NEW j \in 1 .. Len(x)
      PROVE  x[j] = y[j]
    <2>1. /\ j \in 1 .. Len(s) + Len(t) - 1 /\ j \in 1 .. Len(r) + Len(t)
          /\ j \in 1 .. Len(s) + Len(t) /\ j + 1 \in 1 .. Len(s) + Len(t) /\ j \in Nat
        BY <1>1, <1>2, <1>3, <1>4
    <2>2. CASE j < k
        <3>1. j <= Len(s) /\ j <= Len(r) /\ j \in 1 .. Len(s) - 1
            BY <2>1, <2>2, <1>1, <1>3
        <3>2. x[j] = s[j]
            BY <2>1, <2>2, <3>1, <1>2, <1>4
        <3>3. y[j] = s[j]
            BY <2>1, <2>2, <3>1, <1>3, <1>5
        <3> QED
            BY <3>2, <3>3
    <2>3. CASE ~(j < k) /\ j + 1 <= Len(s)
        <3>1. j <= Len(r) /\ j \in 1 .. Len(s) - 1
            BY <2>1, <2>3, <1>1, <1>3
        <3>2. x[j] = s[j + 1]
            BY <2>1, <2>3, <1>2, <1>4
        <3>3. y[j] = s[j + 1]
            BY <2>1, <2>3, <3>1, <1>3, <1>5
        <3> QED
            BY <3>2, <3>3
    <2>4. CASE ~(j < k) /\ ~(j + 1 <= Len(s))
        <3>1. ~(j <= Len(r)) /\ j + 1 - Len(s) = j - Len(r)
            BY <2>1, <2>4, <1>1, <1>3
        <3>2. x[j] = t[j + 1 - Len(s)]
            BY <2>1, <2>4, <1>2, <1>4
        <3>3. y[j] = t[j - Len(r)]
            BY <2>1, <3>1, <1>5
        <3> QED
            BY <3>1, <3>2, <3>3
    <2> QED
        BY <2>2, <2>3, <2>4
<1>8. x = y
    BY <1>4, <1>5, <1>6, <1>7, SeqEqual
<1> QED
    BY <1>8 DEF x, y, u, r
-----------------------------------------------------------------------------
(* The greatest and the least number of a set.                             *)

LEMMA MinLeast ==
    ASSUME NEW T \in SUBSET Nat, T # {}
    PROVE  Min(T) \in T /\ \A n \in T : Min(T) <= n
BY LeastNumber DEF Min

LEMMA MaxGreatest ==
    ASSUME NEW b \in Nat, NEW T \in SUBSET (0 .. b), T # {}
    PROVE  Max(T) \in T /\ \A n \in T : n <= Max(T)
<1> DEFINE D == {b - n : n \in T}
<1>1. D \in SUBSET Nat /\ D # {}
    <2>1. \A n \in T : n \in 0 .. b
        OBVIOUS
    <2>2. \A n \in T : b - n \in Nat
        BY <2>1
    <2> QED
        BY <2>2
<1>2. PICK d \in D : \A e \in D : d <= e
    <2> HIDE DEF D
    <2> QED
        BY <1>1, LeastNumber
<1>3. PICK m \in T : d = b - m
    BY <1>2
<1>4. ASSUME NEW n \in T PROVE n <= m
    <2>1. b - m <= b - n
        BY <1>2, <1>3
    <2> QED
        BY <2>1
<1>5. \A n \in T : m >= n
    BY <1>4
<1>6. Max(T) \in T /\ \A n \in T : Max(T) >= n
    BY <1>5 DEF Max
<1>7. ASSUME NEW n \in T PROVE n <= Max(T)
    BY <1>6
<1> QED
    BY <1>6, <1>7

-----------------------------------------------------------------------------
(* What is in a sequence that grows at the end or from which one element   *)
(* is taken.                                                               *)

LEMMA OneMore ==
    ASSUME NEW S, NEW s \in Seq(S), NEW x \in S
    PROVE  /\ Append(s, x) \in Seq(S)
           /\ Len(Append(s, x)) = Len(s) + 1
           /\ DOMAIN Append(s, x) = 1 .. Len(s) + 1
           /\ \A k \in DOMAIN s : k \in DOMAIN Append(s, x) /\ Append(s, x)[k] = s[k]
           /\ Append(s, x)[Len(s) + 1] = x
           /\ \A k \in DOMAIN Append(s, x) : k \in DOMAIN s \/ k = Len(s) + 1
           /\ ToSet(Append(s, x)) = ToSet(s) \cup {x}
           /\ IsInjective(s) /\ x \notin ToSet(s) => IsInjective(Append(s, x))
<1> DEFINE t == Append(s, x)
<1>1. Len(s) \in Nat /\ DOMAIN s = 1 .. Len(s)
    BY SeqParts
<1>2. /\ t \in Seq(S) /\ Len(t) = Len(s) + 1
      /\ \A k \in 1 .. Len(s) : t[k] = s[k]
      /\ t[Len(s) + 1] = x
    BY AppendProperties
<1> HIDE DEF t
<1>3. DOMAIN t = 1 .. Len(s) + 1
    BY <1>2, SeqParts
<1>4. \A k \in DOMAIN t : k \in DOMAIN s \/ k = Len(s) + 1
    BY <1>1, <1>3
<1>5. \A k \in DOMAIN s : k \in DOMAIN t /\ t[k] = s[k]
    BY <1>1, <1>2, <1>3
<1>6. Len(s) + 1 \in DOMAIN t /\ Len(s) + 1 \notin DOMAIN s
    BY <1>1, <1>3
<1>7. ToSet(t) = ToSet(s) \cup {x}
    BY <1>2, <1>4, <1>5, <1>6 DEF ToSet
<1>8. IsInjective(s) /\ x \notin ToSet(s) => IsInjective(t)
    BY <1>2, <1>4, <1>5 DEF ToSet, IsInjective
<1> QED
    BY <1>2, <1>3, <1>4, <1>5, <1>7, <1>8 DEF t

LEMMA OneLess ==
    ASSUME NEW S, NEW s \in Seq(S), NEW k \in DOMAIN s, IsInjective(s)
    PROVE  /\ IsInjective(RemoveAt(s, k))
           /\ ToSet(RemoveAt(s, k)) = ToSet(s) \ {s[k]}
<1> DEFINE t == RemoveAt(s, k)
<1>1. /\ Len(s) \in Nat /\ DOMAIN s = 1 .. Len(s) /\ k \in Nat
    BY SeqParts
<1>2. /\ DOMAIN t = 1 .. Len(s) - 1
      /\ \A j \in 1 .. Len(s) - 1 : t[j] = IF j < k THEN s[j] ELSE s[j + 1]
    BY WithoutOne
<1> HIDE DEF t
<1>3. IsInjective(t)
    <2> SUFFICES ASSUME NEW i \in DOMAIN t, NEW j \in DOMAIN t, t[i] = t[j]
                 PROVE  i = j
        BY DEF IsInjective
    <2>1. /\ i \in Nat /\ j \in Nat /\ i \in 1 .. Len(s) - 1 /\ j \in 1 .. Len(s) - 1
          /\ i \in DOMAIN s /\ i + 1 \in DOMAIN s /\ j \in DOMAIN s /\ j + 1 \in DOMAIN s
        BY <1>1, <1>2
    <2>2. CASE i < k /\ j < k
        BY <2>1, <2>2, <1>2 DEF IsInjective
    <2>3. CASE i < k /\ ~(j < k)
        <3>1. s[i] = s[j + 1]
            BY <2>1, <2>3, <1>2
        <3>2. i = j + 1
            BY <2>1, <3>1 DEF IsInjective
        <3> QED
            BY <2>1, <2>3, <3>2, <1>1
    <2>4. CASE ~(i < k) /\ j < k
        <3>1. s[i + 1] = s[j]
            BY <2>1, <2>4, <1>2
        <3>2. i + 1 = j
            BY <2>1, <3>1 DEF IsInjective
        <3> QED
            BY <2>1, <2>4, <3>2, <1>1
    <2>5. CASE ~(i < k) /\ ~(j < k)
        <3>1. s[i + 1] = s[j + 1]
            BY <2>1, <2>5, <1>2
        <3>2. i + 1 = j + 1
            BY <2>1, <3>1 DEF IsInjective
        <3> QED
            BY <2>1, <3>2
    <2> QED
        BY <2>2, <2>3, <2>4, <2>5
<1>4. ASSUME NEW j \in DOMAIN t PROVE t[j] \in ToSet(s) \ {s[k]}
    <2>1. /\ j \in Nat /\ j \in 1 .. Len(s) - 1 /\ j \in DOMAIN s /\ j + 1 \in DOMAIN s
        BY <1>1, <1>2
    <2>2. CASE j < k
        <3>1. t[j] = s[j] /\ j # k
            BY <2>1, <2>2, <1>1, <1>2
        <3> QED
            BY <2>1, <3>1 DEF ToSet, IsInjective
    <2>3. CASE ~(j < k)
        <3>1. t[j] = s[j + 1] /\ j + 1 # k
            BY <2>1, <2>3, <1>1, <1>2
        <3> QED
            BY <2>1, <3>1 DEF ToSet, IsInjective
    <2> QED
        BY <2>2, <2>3
<1>5. ASSUME NEW j \in DOMAIN s, s[j] # s[k] PROVE s[j] \in ToSet(t)
    <2>1. j \in Nat /\ j # k
        BY <1>1, <1>5
    <2>2. CASE j < k
        <3>1. j \in 1 .. Len(s) - 1
            BY <2>1, <2>2, <1>1
        <3> QED
            BY <2>2, <3>1, <1>2 DEF ToSet
    <2>3. CASE ~(j < k)
        <3>1. j - 1 \in 1 .. Len(s) - 1 /\ ~(j - 1 < k) /\ j - 1 + 1 = j
            BY <2>1, <2>3, <1>1
        <3> QED
            BY <3>1, <1>2 DEF ToSet
    <2> QED
        BY <2>2, <2>3
<1>6. ToSet(t) = ToSet(s) \ {s[k]}
    BY <1>4, <1>5 DEF ToSet
<1> QED
    BY <1>3, <1>6 DEF t
=============================================================================
