---------------------------- MODULE SiftingProofs ----------------------------
(***************************************************************************)
(* What the proofs of several components need to know of sequences: what   *)
(* sifting leaves, and how the elements of a sequence change when one is   *)
(* added, when one is taken out and when sequences are joined.             *)
(***************************************************************************)
EXTENDS Sifting, Functions, SequencesExt, FiniteSetTheorems, SequenceTheorems, WellFoundedInduction, TLAPS

-----------------------------------------------------------------------------
(* What Sifted gives.                                                      *)

\* A set of numbers that is not empty has a least one.
LEMMA Least ==
    ASSUME NEW T \in SUBSET Nat, T # {}
    PROVE  \E x \in T : \A y \in T : x <= y
<1>1. PICK x \in T : \A y \in T : <<y, x>> \notin OpToRel(<, Nat)
  BY NatLessThanWellFounded, WFMin
<1>2. ASSUME NEW y \in T
      PROVE  x <= y
  <2>1. y < x => <<y, x>> \in OpToRel(<, Nat)
    BY DEF OpToRel
  <2>2. ~(y < x)
    BY <1>1, <2>1
  <2>3. x \in Nat /\ y \in Nat
    OBVIOUS
  <2>. QED BY <2>2, <2>3
<1>. QED BY <1>2

\* A set of places of a sequence has a last one.
LEMMA LastPlace ==
    ASSUME NEW n \in Nat, NEW T \in SUBSET (1 .. n), T # {}
    PROVE  \E x \in T : \A y \in T : y <= x
<1> DEFINE U == {k \in Nat : n - k \in T}
<1>1. U # {}
  <2>1. PICK t \in T : TRUE
    OBVIOUS
  <2>2. n - t \in Nat /\ n - (n - t) = t
    OBVIOUS
  <2> QED
    BY <2>1, <2>2
<1>2. PICK u \in U : \A v \in U : u <= v
  BY <1>1, Least
<1>3. n - u \in T /\ u \in Nat
  OBVIOUS
<1>4. ASSUME NEW y \in T
      PROVE  y <= n - u
  <2>1. n - y \in Nat /\ n - (n - y) = y /\ y \in Nat
    OBVIOUS
  <2>2. n - y \in U
    BY <2>1
  <2>3. u <= n - y
    BY <1>2, <2>2
  <2> HIDE DEF U
  <2> QED
    BY <1>3, <2>1, <2>3
<1> QED
  BY <1>3, <1>4

\* Max is the last of them.
LEMMA LastIsMax ==
    ASSUME NEW n \in Nat, NEW T \in SUBSET (1 .. n), T # {}
    PROVE  Max(T) \in T /\ \A y \in T : y <= Max(T)
<1>1. PICK x \in T : \A y \in T : y <= x
  BY LastPlace
<1>2. \A y \in T : x >= y
  BY <1>1
<1>3. Max(T) \in T /\ \A y \in T : Max(T) >= y
  BY <1>2 DEF Max
<1>. QED BY <1>3

\* And Min the first.
LEMMA FirstIsMin ==
    ASSUME NEW n \in Nat, NEW T \in SUBSET (1 .. n), T # {}
    PROVE  Min(T) \in T
<1>1. T \in SUBSET Nat
  OBVIOUS
<1>2. \E x \in T : \A y \in T : x <= y
  BY <1>1, Least
<1>. QED BY <1>2 DEF Min

Increasing(f) == \A j, k \in DOMAIN f : j < k => f[j] < f[k]

\* A set of places has an increasing enumeration.
LEMMA Enumerable ==
    ASSUME NEW m \in Nat, NEW P \in SUBSET (1 .. m)
    PROVE  IsFiniteSet(P) /\ \E f \in [1 .. Cardinality(P) -> P] : Increasing(f)
<1> DEFINE Bad == {n \in Nat : \E Q \in SUBSET (1 .. n) :
                      \A f \in [1 .. Cardinality(Q) -> Q] : ~Increasing(f)}
<1>1. ASSUME NEW n \in Nat, NEW Q \in SUBSET (1 .. n)
      PROVE  IsFiniteSet(Q) /\ Cardinality(Q) \in Nat
  <2>1. 1 \in Int /\ n \in Int
    OBVIOUS
  <2>2. IsFiniteSet(1 .. n)
    BY <2>1, FS_Interval
  <2>3. IsFiniteSet(Q)
    BY <2>2, FS_Subset
  <2>. QED BY <2>3, FS_CardinalityType
<1>2. ASSUME NEW n \in Bad, \A k \in Bad : n <= k
      PROVE  FALSE
  <2>1. PICK Q \in SUBSET (1 .. n) : \A f \in [1 .. Cardinality(Q) -> Q] : ~Increasing(f)
    OBVIOUS
  <2>2. IsFiniteSet(Q) /\ Cardinality(Q) \in Nat /\ n \in Nat
    BY <1>1
  <2>3. CASE Q = {}
    <3> DEFINE none == [k \in 1 .. 0 |-> k]
    <3>1. Cardinality(Q) = 0
      BY <2>3, FS_EmptySet
    <3>2. none \in [1 .. 0 -> Q] /\ Increasing(none)
      BY DEF Increasing
    <3>. QED BY <2>1, <3>1, <3>2
  <2>4. CASE Q # {}
    <3>1. n # 0 /\ n - 1 \in Nat
      <4>1. PICK q \in Q : TRUE
        BY <2>4
      <4>2. q \in 1 .. n
        OBVIOUS
      <4>. QED BY <2>2, <4>2
    <3>2. n - 1 \notin Bad
      <4> HIDE DEF Bad
      <4>1. n - 1 \in Bad => n <= n - 1
        BY <1>2
      <4>2. ~(n <= n - 1)
        BY <2>2
      <4>. QED BY <4>1, <4>2
    <3> DEFINE R == Q \ {n}
    <3>3. R \in SUBSET (1 .. n - 1)
      BY <2>2
    <3>4. PICK g \in [1 .. Cardinality(R) -> R] : Increasing(g)
      BY <3>1, <3>2, <3>3
    <3>5. n \in Q
      <4>1. n \notin Q => R = Q
        OBVIOUS
      <4>. QED BY <2>1, <3>4, <4>1
    <3>6. Cardinality(Q) = Cardinality(R) + 1 /\ Cardinality(R) \in Nat
      <4>1. Cardinality(R) \in Nat
        BY <1>1, <3>1, <3>3
      <4>2. Cardinality(R) = Cardinality(Q) - 1
        BY <2>2, <3>5, FS_RemoveElement
      <4>. QED BY <2>2, <4>1, <4>2
    <3> DEFINE c == Cardinality(R)
               f == [k \in 1 .. c + 1 |-> IF k = c + 1 THEN n ELSE g[k]]
    <3> HIDE DEF c, R
    <3>7. \A k \in 1 .. c : g[k] \in Q /\ g[k] < n
      <4>1. ASSUME NEW k \in 1 .. c
            PROVE  g[k] \in Q /\ g[k] < n
        <5>1. g[k] \in R
          BY <3>4 DEF c
        <5>2. g[k] \in 1 .. n - 1 /\ g[k] \in Q
          BY <3>3, <5>1 DEF R
        <5>. QED BY <2>2, <5>2
      <4>. QED BY <4>1
    <3>8. f \in [1 .. c + 1 -> Q]
      BY <3>5, <3>6, <3>7 DEF c
    <3>9. Increasing(f)
      BY <3>4, <3>6, <3>7 DEF Increasing, c
    <3>. QED BY <2>1, <3>6, <3>8, <3>9 DEF c
  <2>. QED BY <2>3, <2>4
<1>3. Bad = {}
  BY <1>2, Least
<1>. QED BY <1>1, <1>3

\* InOrder lists every member once, the least first.
LEMMA InOrderLists ==
    ASSUME NEW m \in Nat, NEW P \in SUBSET (1 .. m)
    PROVE  /\ Cardinality(P) \in Nat
           /\ InOrder(P) \in [1 .. Cardinality(P) -> P]
           /\ \A j, k \in 1 .. Cardinality(P) : j < k => InOrder(P)[j] < InOrder(P)[k]
           /\ \A x \in P : \E k \in 1 .. Cardinality(P) : InOrder(P)[k] = x
<1> DEFINE n == Cardinality(P)
           f == InOrder(P)
<1>1. IsFiniteSet(P) /\ n \in Nat
  BY Enumerable, FS_CardinalityType
<1>2. f \in [1 .. n -> P] /\ \A j, k \in DOMAIN f : j < k => f[j] < f[k]
  BY Enumerable DEF InOrder, Increasing
<1>3. f \in Injection(1 .. n, P)
  <2>1. ASSUME NEW j \in 1 .. n, NEW k \in 1 .. n, f[j] = f[k]
        PROVE  j = k
    <3>1. f[j] \in P /\ f[k] \in P /\ j \in Nat /\ k \in Nat
      BY <1>1, <1>2
    <3>2. /\ j < k => f[j] < f[k]
          /\ k < j => f[k] < f[j]
      BY <1>2
    <3>3. ~(j < k) /\ ~(k < j)
      <4> HIDE DEF f
      <4>1. \A x \in P : x \in Int
        OBVIOUS
      <4>2. f[j] \in Int
        BY <3>1, <4>1
      <4>. QED BY <2>1, <3>2, <4>2
    <3>. QED BY <3>1, <3>3
  <2>. QED BY <1>2, <2>1 DEF Injection, IsInjective
<1>4. Cardinality(1 .. n) = Cardinality(P)
  <2>1. 1 \in Int /\ n \in Int
    BY <1>1
  <2>2. Cardinality(1 .. n) = IF 1 > n THEN 0 ELSE n - 1 + 1
    BY <2>1, FS_Interval
  <2>. QED BY <1>1, <2>2
<1>5. f \in Surjection(1 .. n, P)
  BY <1>1, <1>3, <1>4, FS_Injection
<1>. QED BY <1>1, <1>2, <1>5 DEF Surjection

\* A sifted sequence has the elements that are kept, and only them, each as
\* often and in the order as before.
LEMMA SiftedKeeps ==
    ASSUME NEW T, NEW s \in Seq(T), NEW kept
    PROVE  /\ Sifted(s, kept) \in Seq(T)
           /\ Len(Sifted(s, kept)) <= Len(s)
           /\ \A k \in DOMAIN Sifted(s, kept) : Sifted(s, kept)[k] \in kept
           /\ \E f \in [DOMAIN Sifted(s, kept) -> DOMAIN s] :
                 /\ \A j, k \in DOMAIN f : j < k => f[j] < f[k]
                 /\ \A k \in DOMAIN f : Sifted(s, kept)[k] = s[f[k]]
                 /\ \A i \in DOMAIN s : s[i] \in kept => \E k \in DOMAIN f : f[k] = i
<1> DEFINE P == {i \in DOMAIN s : s[i] \in kept}
           f == InOrder(P)
           n == Cardinality(P)
<1>1. DOMAIN s = 1 .. Len(s) /\ Len(s) \in Nat
  OBVIOUS
<1>2. IsFiniteSet(1 .. Len(s)) /\ Cardinality(1 .. Len(s)) = Len(s)
  BY <1>1, FS_Interval
<1>3. IsFiniteSet(P) /\ n <= Len(s) /\ P \in SUBSET (1 .. Len(s))
  BY <1>1, <1>2, FS_Subset
<1>4. /\ n \in Nat /\ f \in [1 .. n -> P]
      /\ \A j, k \in 1 .. n : j < k => f[j] < f[k]
      /\ \A x \in P : \E k \in 1 .. n : f[k] = x
  BY <1>1, <1>3, InOrderLists
<1>5. Sifted(s, kept) = [k \in 1 .. n |-> s[f[k]]]
  BY <1>4 DEF Sifted
<1>6. \A k \in 1 .. n : f[k] \in DOMAIN s /\ s[f[k]] \in T /\ s[f[k]] \in kept
  BY <1>1, <1>4
<1> HIDE DEF f, n, P
<1>7. Sifted(s, kept) \in Seq(T) /\ Len(Sifted(s, kept)) = n /\ DOMAIN Sifted(s, kept) = 1 .. n
  BY <1>4, <1>5, <1>6
<1>8. f \in [1 .. n -> DOMAIN s] /\ \A i \in DOMAIN s : s[i] \in kept => \E k \in 1 .. n : f[k] = i
  BY <1>4, <1>6 DEF P
<1>9. \A j, k \in DOMAIN f : j < k => f[j] < f[k]
  BY <1>4, <1>8
<1>10. \A k \in DOMAIN f : Sifted(s, kept)[k] = s[f[k]]
  BY <1>5, <1>8
<1>11. \A k \in DOMAIN Sifted(s, kept) : Sifted(s, kept)[k] \in kept
  BY <1>5, <1>6, <1>7
<1>12. f \in [DOMAIN Sifted(s, kept) -> DOMAIN s] /\ DOMAIN f = 1 .. n
  BY <1>7, <1>8
<1>13. \A i \in DOMAIN s : s[i] \in kept => \E k \in DOMAIN f : f[k] = i
  BY <1>8, <1>12
<1>. QED BY <1>3, <1>7, <1>9, <1>10, <1>11, <1>12, <1>13

\* What a sequence has.
LEMMA RangeOf ==
    ASSUME NEW S, NEW s \in Seq(S)
    PROVE  /\ Range(s) \subseteq S
           /\ \A x : x \in Range(s) <=> \E i \in DOMAIN s : s[i] = x
           /\ DOMAIN s = 1 .. Len(s) /\ Len(s) \in Nat
BY DEF Range

\* And what one more element adds to it.
LEMMA RangeOfAppend ==
    ASSUME NEW S, NEW s \in Seq(S), NEW e \in S
    PROVE  Append(s, e) \in Seq(S) /\ Range(Append(s, e)) = Range(s) \cup {e}
<1>1. /\ Append(s, e) \in Seq(S) /\ Len(Append(s, e)) = Len(s) + 1
      /\ \A i \in 1 .. Len(s) : Append(s, e)[i] = s[i]
      /\ Append(s, e)[Len(s) + 1] = e
  BY AppendProperties
<1>2. DOMAIN s = 1 .. Len(s) /\ DOMAIN Append(s, e) = 1 .. Len(s) + 1 /\ Len(s) \in Nat
  BY <1>1
<1>3. Range(Append(s, e)) \subseteq Range(s) \cup {e}
  BY <1>1, <1>2 DEF Range
<1>4. Range(s) \subseteq Range(Append(s, e))
  BY <1>1, <1>2 DEF Range
<1>5. e \in Range(Append(s, e))
  BY <1>1, <1>2 DEF Range
<1>. QED BY <1>1, <1>3, <1>4, <1>5

\* A sifted sequence has the elements that are kept, each once if it had.
LEMMA RangeOfSifted ==
    ASSUME NEW S, NEW s \in Seq(S), NEW kept
    PROVE  /\ Sifted(s, kept) \in Seq(S)
           /\ Range(Sifted(s, kept)) = Range(s) \cap kept
           /\ IsInjective(s) => IsInjective(Sifted(s, kept))
<1> DEFINE r == Sifted(s, kept)
<1>1. /\ r \in Seq(S)
      /\ \A k \in DOMAIN r : r[k] \in kept
  BY SiftedKeeps
<1>2. PICK f \in [DOMAIN r -> DOMAIN s] :
         /\ \A j, k \in DOMAIN f : j < k => f[j] < f[k]
         /\ \A k \in DOMAIN f : r[k] = s[f[k]]
         /\ \A i \in DOMAIN s : s[i] \in kept => \E k \in DOMAIN f : f[k] = i
  BY SiftedKeeps
<1> HIDE DEF r
<1>3. Range(r) \subseteq Range(s) \cap kept
  BY <1>1, <1>2 DEF Range
<1>4. Range(s) \cap kept \subseteq Range(r)
  BY <1>2 DEF Range
<1>5. ASSUME IsInjective(s) PROVE IsInjective(r)
  <2>1. SUFFICES ASSUME NEW j \in DOMAIN r, NEW k \in DOMAIN r, r[j] = r[k]
                 PROVE  j = k
    BY DEF IsInjective
  <2>2. f[j] = f[k]
    BY <1>2, <1>5, <2>1 DEF IsInjective
  <2>3. DOMAIN r = 1 .. Len(r) /\ Len(r) \in Nat /\ DOMAIN s = 1 .. Len(s) /\ Len(s) \in Nat
    BY <1>1
  <2>4. f[j] \in Nat /\ j \in Nat /\ k \in Nat
    BY <1>2, <2>3
  <2>5. ~(j < k) /\ ~(k < j)
    BY <1>2, <2>2, <2>4
  <2>. QED BY <2>4, <2>5
<1>. QED BY <1>1, <1>3, <1>4, <1>5 DEF r

-----------------------------------------------------------------------------
(* Taking one element out, and joining.                                    *)

\* Without its i-th element a sequence is one shorter, and the elements behind
\* it have moved up.
LEMMA ElementsLeft ==
    ASSUME NEW S, NEW s \in Seq(S), NEW i \in DOMAIN s
    PROVE  /\ RemoveAt(s, i) \in Seq(S) /\ Len(RemoveAt(s, i)) = Len(s) - 1
           /\ \A k \in 1 .. Len(s) - 1 :
                 RemoveAt(s, i)[k] = IF k < i THEN s[k] ELSE s[k + 1]
<1> DEFINE r == RemoveAt(s, i)
           n == Len(s)
<1>1. DOMAIN s = 1 .. n /\ n \in Nat /\ i \in 1 .. n
  OBVIOUS
<1>2. /\ SubSeq(s, 1, i - 1) \in Seq(S)
      /\ Len(SubSeq(s, 1, i - 1)) = i - 1
      /\ \A k \in 1 .. i - 1 : SubSeq(s, 1, i - 1)[k] = s[k]
  <2>1. \A k \in 1 .. i - 1 : s[k] \in S
    BY <1>1
  <2>2. 1 \in Int /\ i - 1 \in Int /\ i - 1 - 1 + 1 = i - 1
    BY <1>1
  <2>. QED BY <1>1, <2>1, <2>2, SubSeqProperties
<1>3. /\ SubSeq(s, i + 1, n) \in Seq(S)
      /\ Len(SubSeq(s, i + 1, n)) = n - i
      /\ \A k \in 1 .. n - i : SubSeq(s, i + 1, n)[k] = s[k + i]
  <2>1. \A k \in i + 1 .. n : s[k] \in S
    BY <1>1
  <2>2. i + 1 \in Int /\ n \in Int /\ n - (i + 1) + 1 = n - i
    BY <1>1
  <2>3. \A k \in 1 .. n - i : i + 1 + k - 1 = k + i
    BY <1>1
  <2>. QED BY <1>1, <2>1, <2>2, <2>3, SubSeqProperties
<1>4. /\ r \in Seq(S) /\ Len(r) = n - 1
      /\ \A k \in 1 .. n - 1 : r[k] = IF k < i THEN s[k] ELSE s[k + 1]
  <2>1. /\ r \in Seq(S) /\ Len(r) = (i - 1) + (n - i)
        /\ \A k \in 1 .. (i - 1) + (n - i) : r[k] =
              IF k <= i - 1 THEN SubSeq(s, 1, i - 1)[k] ELSE SubSeq(s, i + 1, n)[k - (i - 1)]
    <3> DEFINE u == SubSeq(s, 1, i - 1)
               v == SubSeq(s, i + 1, n)
    <3>1. r = u \o v
      BY DEF RemoveAt
    <3>2. u \in Seq(S) /\ v \in Seq(S) /\ Len(u) = i - 1 /\ Len(v) = n - i
      BY <1>2, <1>3
    <3> HIDE DEF u, v, r
    <3>3. /\ u \o v \in Seq(S) /\ Len(u \o v) = Len(u) + Len(v)
          /\ \A k \in 1 .. Len(u) + Len(v) :
                (u \o v)[k] = IF k <= Len(u) THEN u[k] ELSE v[k - Len(u)]
      BY <3>2, ConcatProperties
    <3>4. /\ r \in Seq(S) /\ Len(r) = (i - 1) + (n - i)
          /\ \A k \in 1 .. (i - 1) + (n - i) : r[k] = IF k <= i - 1 THEN u[k] ELSE v[k - (i - 1)]
      BY <3>1, <3>2, <3>3
    <3>. QED BY <3>4 DEF u, v
  <2>2. (i - 1) + (n - i) = n - 1
    BY <1>1
  <2>3. ASSUME NEW k \in 1 .. n - 1
        PROVE  r[k] = IF k < i THEN s[k] ELSE s[k + 1]
    <3>1. CASE k < i
      BY <1>1, <1>2, <2>1, <2>2, <3>1
    <3>2. CASE ~(k < i)
      <4>1. k - (i - 1) \in 1 .. n - i /\ k - (i - 1) + i = k + 1
        BY <1>1, <3>2
      <4>2. SubSeq(s, i + 1, n)[k - (i - 1)] = s[k + 1]
        BY <1>3, <4>1
      <4>. QED BY <1>1, <2>1, <2>2, <3>2, <4>2
    <3>. QED BY <3>1, <3>2
  <2>. QED BY <2>1, <2>2, <2>3
<1>. QED BY <1>4

\* Taking one out adds nothing; when no element is there twice, it leaves the
\* others, once.
LEMMA RangeOfRemoveAt ==
    ASSUME NEW S, NEW s \in Seq(S), NEW i \in DOMAIN s
    PROVE  /\ RemoveAt(s, i) \in Seq(S)
           /\ Range(RemoveAt(s, i)) \subseteq Range(s)
           /\ IsInjective(s) => /\ Range(RemoveAt(s, i)) = Range(s) \ {s[i]}
                               /\ IsInjective(RemoveAt(s, i))
<1> DEFINE r == RemoveAt(s, i)
           n == Len(s)
<1>1. DOMAIN s = 1 .. n /\ n \in Nat /\ i \in 1 .. n
  OBVIOUS
<1>2. /\ r \in Seq(S) /\ Len(r) = n - 1
      /\ \A k \in 1 .. n - 1 : r[k] = IF k < i THEN s[k] ELSE s[k + 1]
  BY ElementsLeft
<1> HIDE DEF r
<1>3. DOMAIN r = 1 .. n - 1
  BY <1>1, <1>2
<1>4. Range(r) \subseteq Range(s)
  <2>1. ASSUME NEW k \in 1 .. n - 1
        PROVE  r[k] \in Range(s)
    <3>1. k \in 1 .. n /\ k + 1 \in 1 .. n
      BY <1>1
    <3>. QED BY <1>1, <1>2, <3>1 DEF Range
  <2>. QED BY <1>3, <2>1 DEF Range
<1>5. ASSUME IsInjective(s)
      PROVE  Range(r) = Range(s) \ {s[i]} /\ IsInjective(r)
  <2>1. \A p, q \in 1 .. n : s[p] = s[q] => p = q
    BY <1>1, <1>5 DEF IsInjective
  <2>2. IsInjective(r)
    <3>1. ASSUME NEW j \in 1 .. n - 1, NEW k \in 1 .. n - 1, r[j] = r[k]
          PROVE  j = k
      <4>1. j \in 1 .. n /\ k \in 1 .. n /\ j + 1 \in 1 .. n /\ k + 1 \in 1 .. n
        BY <1>1
      <4>. QED BY <1>1, <1>2, <2>1, <3>1, <4>1
    <3>. QED BY <1>3, <3>1 DEF IsInjective
  <2>3. ASSUME NEW k \in 1 .. n - 1
        PROVE  r[k] # s[i]
    <3>1. k \in 1 .. n /\ k + 1 \in 1 .. n
      BY <1>1
    <3>. QED BY <1>1, <1>2, <2>1, <3>1
  <2>4. ASSUME NEW j \in 1 .. n, j # i
        PROVE  s[j] \in Range(r)
    <3>1. CASE j < i
      <4>1. j \in 1 .. n - 1 /\ r[j] = s[j]
        BY <1>1, <1>2, <3>1
      <4>. QED BY <1>3, <4>1 DEF Range
    <3>2. CASE ~(j < i)
      <4>1. j - 1 \in 1 .. n - 1 /\ ~(j - 1 < i) /\ (j - 1) + 1 = j
        BY <1>1, <2>4, <3>2
      <4>2. r[j - 1] = s[j]
        BY <1>2, <4>1
      <4>. QED BY <1>3, <4>1, <4>2 DEF Range
    <3>. QED BY <3>1, <3>2
  <2>5. s[i] \notin Range(r)
    BY <1>3, <2>3 DEF Range
  <2>6. Range(s) \ {s[i]} \subseteq Range(r)
    BY <1>1, <2>4 DEF Range
  <2>. QED BY <1>4, <2>2, <2>5, <2>6
<1>. QED BY <1>2, <1>4, <1>5 DEF r

\* A new element at the end is there once.
LEMMA AppendedOnce ==
    ASSUME NEW S, NEW s \in Seq(S), NEW e \in S, IsInjective(s), e \notin Range(s)
    PROVE  IsInjective(Append(s, e))
<1>1. /\ Append(s, e) \in Seq(S) /\ Len(Append(s, e)) = Len(s) + 1
      /\ \A i \in 1 .. Len(s) : Append(s, e)[i] = s[i]
      /\ Append(s, e)[Len(s) + 1] = e
  BY AppendProperties
<1>2. DOMAIN s = 1 .. Len(s) /\ DOMAIN Append(s, e) = 1 .. Len(s) + 1 /\ Len(s) \in Nat
  BY <1>1
<1>3. \A i \in 1 .. Len(s) : s[i] # e
  BY <1>2 DEF Range
<1>. QED BY <1>1, <1>2, <1>3 DEF IsInjective

\* Joining sequences joins what they have.
LEMMA RangeOfConcat ==
    ASSUME NEW S, NEW s \in Seq(S), NEW t \in Seq(S)
    PROVE  s \o t \in Seq(S) /\ Range(s \o t) = Range(s) \cup Range(t)
<1>1. /\ s \o t \in Seq(S) /\ Len(s \o t) = Len(s) + Len(t)
      /\ \A k \in 1 .. Len(s) + Len(t) :
            (s \o t)[k] = IF k <= Len(s) THEN s[k] ELSE t[k - Len(s)]
  BY ConcatProperties
<1>2. /\ DOMAIN s = 1 .. Len(s) /\ DOMAIN t = 1 .. Len(t)
      /\ Len(s) \in Nat /\ Len(t) \in Nat
  OBVIOUS
<1> DEFINE u == s \o t
<1>3. DOMAIN u = 1 .. Len(s) + Len(t)
  BY <1>1, <1>2
<1> HIDE DEF u
<1>4. ASSUME NEW k \in 1 .. Len(s) + Len(t)
      PROVE  u[k] \in Range(s) \cup Range(t)
  <2>1. CASE k <= Len(s)
    <3>1. k \in 1 .. Len(s) /\ u[k] = s[k]
      BY <1>1, <1>2, <2>1 DEF u
    <3>. QED BY <1>2, <3>1 DEF Range
  <2>2. CASE ~(k <= Len(s))
    <3>1. k - Len(s) \in 1 .. Len(t) /\ u[k] = t[k - Len(s)]
      BY <1>1, <1>2, <2>2 DEF u
    <3>. QED BY <1>2, <3>1 DEF Range
  <2>. QED BY <2>1, <2>2
<1>5. ASSUME NEW k \in 1 .. Len(s)
      PROVE  s[k] \in Range(u)
  <2>1. k \in 1 .. Len(s) + Len(t) /\ u[k] = s[k]
    BY <1>1, <1>2 DEF u
  <2>. QED BY <1>3, <2>1 DEF Range
<1>6. ASSUME NEW k \in 1 .. Len(t)
      PROVE  t[k] \in Range(u)
  <2>1. Len(s) + k \in 1 .. Len(s) + Len(t) /\ ~(Len(s) + k <= Len(s)) /\ (Len(s) + k) - Len(s) = k
    BY <1>2
  <2>2. u[Len(s) + k] = t[k]
    BY <1>1, <2>1 DEF u
  <2>. QED BY <1>3, <2>1, <2>2 DEF Range
<1>7. Range(u) \subseteq Range(s) \cup Range(t)
  BY <1>3, <1>4 DEF Range
<1>8. Range(s) \cup Range(t) \subseteq Range(u)
  BY <1>2, <1>5, <1>6 DEF Range
<1>. QED BY <1>1, <1>7, <1>8 DEF u

\* A sequence in which nothing is there twice is as long as what it has.
LEMMA LengthIsCount ==
    ASSUME NEW S, NEW s \in Seq(S), IsInjective(s)
    PROVE  IsFiniteSet(Range(s)) /\ Cardinality(Range(s)) = Len(s)
<1>1. DOMAIN s = 1 .. Len(s) /\ Len(s) \in Nat
  OBVIOUS
<1>2. s \in Surjection(1 .. Len(s), Range(s)) /\ s \in Injection(1 .. Len(s), Range(s))
  <2>1. s \in [1 .. Len(s) -> Range(s)]
    BY <1>1 DEF Range
  <2>2. \A x \in Range(s) : \E k \in 1 .. Len(s) : s[k] = x
    BY <1>1 DEF Range
  <2>. QED BY <1>1, <2>1, <2>2 DEF Surjection, Injection, IsInjective
<1>3. IsFiniteSet(1 .. Len(s)) /\ Cardinality(1 .. Len(s)) = Len(s)
  <2>1. 1 \in Int /\ Len(s) \in Int
    BY <1>1
  <2>2. IsFiniteSet(1 .. Len(s)) /\ Cardinality(1 .. Len(s)) = IF 1 > Len(s) THEN 0 ELSE Len(s) - 1 + 1
    BY <2>1, FS_Interval
  <2>. QED BY <1>1, <2>2
<1>. QED BY <1>2, <1>3, FS_Surjection
=============================================================================
