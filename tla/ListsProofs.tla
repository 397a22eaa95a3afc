----------------------------- MODULE ListsProofs -----------------------------
(***************************************************************************)
(* Induction over numbers and finite sets, without operator parameters: a  *)
(* set of numbers has a least element, and folds have the values their     *)
(* definitions announce.  What Keep leaves of a list follows.              *)
(***************************************************************************)
EXTENDS Lists, FiniteSetTheorems, WellFoundedInduction, SequenceTheorems, TLAPS

LEMMA LeastNumber ==
  ASSUME NEW T \in SUBSET Nat, T # {}
  PROVE  \E n \in T : \A m \in T : n <= m
  <1> DEFINE Below == {0..(n - 1) : n \in T}
  <1>1. IsWellFoundedOn(StrictSubsetOrdering(Nat), FiniteSubsetsOf(Nat))
    BY FS_StrictSubsetOrderingWellFounded
  <1>2. Below \subseteq FiniteSubsetsOf(Nat) /\ Below # {}
    <2>1. \A n \in Nat : 0..(n - 1) \in SUBSET Nat /\ IsFiniteSet(0..(n - 1))
      BY FS_Interval
    <2>2. QED
      BY <2>1 DEF FiniteSubsetsOf
  <1>3. PICK x \in Below : \A y \in Below : ~(<<y, x>> \in StrictSubsetOrdering(Nat))
    BY <1>1, <1>2, WFMin
  <1>4. PICK n \in T : x = 0..(n - 1)
    BY <1>3
  <1>5. ASSUME NEW m \in T, m < n PROVE FALSE
    <2>1. 0..(m - 1) \in Below
      OBVIOUS
    <2>2. 0..(m - 1) \subseteq 0..(n - 1) /\ m \in 0..(n - 1) /\ m \notin 0..(m - 1)
      BY <1>5
    <2>3. 0..(m - 1) # 0..(n - 1)
      BY <2>2
    <2>4. <<0..(m - 1), 0..(n - 1)>> \in StrictSubsetOrdering(Nat)
      BY <2>2, <2>3 DEF StrictSubsetOrdering
    <2>5. QED
      BY <2>1, <2>4, <1>3, <1>4
  <1>6. QED
    BY <1>5

(* Induction over the numbers, for a set of them. *)
LEMMA AllNumbers ==
  ASSUME NEW T, 0 \in T, \A n \in Nat : n \in T => n + 1 \in T
  PROVE  Nat \subseteq T
  <1>1. SUFFICES ASSUME Nat \ T # {} PROVE FALSE
    OBVIOUS
  <1>2. PICK n \in Nat \ T : \A m \in Nat \ T : n <= m
    BY <1>1, LeastNumber
  <1>3. n # 0 /\ n - 1 \in Nat
    OBVIOUS
  <1>4. n - 1 \in T
    BY <1>2, <1>3
  <1>5. QED
    BY <1>3, <1>4

LEMMA UpTo == \A n \in Nat : IsFiniteSet(1..n) /\ Cardinality(1..n) = n
  BY FS_Interval

(* Induction over the parts of a finite set, for a set of them.             *)
Inductive(T, D, C) ==
    /\ IsFiniteSet(D) /\ {} \in T
    /\ \A d \in SUBSET D : d # {} => C[d] \in d /\ (d \ {C[d]} \in T => d \in T)

LEMMA AllParts ==
  ASSUME NEW D, NEW C, NEW T, Inductive(T, D, C)
  PROVE  SUBSET D \subseteq T
  <1> USE DEF Inductive
  <1> DEFINE N == {n \in Nat : \A d \in SUBSET D : Cardinality(d) <= n => d \in T}
  <1>1. \A d \in SUBSET D : IsFiniteSet(d) /\ Cardinality(d) \in Nat
                             /\ Cardinality(d) <= Cardinality(D)
    BY FS_Subset, FS_CardinalityType
  <1>2. 0 \in N
    <2>1. ASSUME NEW d \in SUBSET D, Cardinality(d) <= 0 PROVE d = {}
      <3>1. IsFiniteSet(d) /\ Cardinality(d) = 0
        BY <1>1, <2>1
      <3>2. QED
        BY <3>1, FS_EmptySet
    <2>2. QED
      BY <2>1
  <1>3. ASSUME NEW n \in Nat, n \in N PROVE n + 1 \in N
    <2> SUFFICES ASSUME NEW d \in SUBSET D, Cardinality(d) <= n + 1 PROVE d \in T
      OBVIOUS
    <2> SUFFICES ASSUME d # {} PROVE d \in T
      OBVIOUS
    <2> DEFINE e == d \ {C[d]}
    <2>1. C[d] \in d
      OBVIOUS
    <2>2. Cardinality(e) = Cardinality(d) - 1
      BY <1>1, <2>1, FS_RemoveElement
    <2>3. e \in SUBSET D /\ Cardinality(e) <= n
      <3>1. Cardinality(d) \in Nat /\ Cardinality(d) <= n + 1
        BY <1>1
      <3>2. QED
        BY <2>2, <3>1
    <2>4. QED
      BY <1>3, <2>1, <2>3
  <1> HIDE DEF N
  <1>4. Cardinality(D) \in N
    BY <1>1, <1>2, <1>3, AllNumbers
  <1>5. QED
    BY <1>1, <1>4 DEF N

(* Folding F over a finite set D of elements, taking C[d] of what is left, d, *)
(* and starting from base: the values stay in A.                             *)
Foldable(D, A, base, F, C) ==
    /\ IsFiniteSet(D) /\ base \in A
    /\ \A d \in SUBSET D : d # {} => C[d] \in d
    /\ \A x \in D, a \in A : F[<<x, a>>] \in A

IsFold(g, D, A, base, F, C) ==
    /\ g \in [SUBSET D -> A]
    /\ \A d \in SUBSET D :
          g[d] = IF d = {} THEN base ELSE F[<<C[d], g[d \ {C[d]}]>>]

(* Such a fold has a value for every part of D.                             *)
LEMMA FoldExists ==
  ASSUME NEW D, NEW A, NEW base, NEW F, NEW C, Foldable(D, A, base, F, C)
  PROVE  \E g : IsFold(g, D, A, base, F, C)
  <1> USE DEF Foldable, IsFold
  <1> DEFINE Body(g, d) == IF d = {} THEN base ELSE F[<<C[d], g[d \ {C[d]}]>>]
             Upto(g, n) == \A d \in SUBSET D : Cardinality(d) <= n => g[d] = Body(g, d)
             T == {n \in Nat : \E g \in [SUBSET D -> A] : Upto(g, n)}
  <1>1. \A d \in SUBSET D : IsFiniteSet(d) /\ Cardinality(d) \in Nat
                             /\ Cardinality(d) <= Cardinality(D)
    BY FS_Subset, FS_CardinalityType
  <1>2. \A g \in [SUBSET D -> A], d \in SUBSET D : Body(g, d) \in A
    OBVIOUS
  <1>3. 0 \in T
    <2>1. [d \in SUBSET D |-> base] \in [SUBSET D -> A]
      OBVIOUS
    <2>2. ASSUME NEW d \in SUBSET D, Cardinality(d) <= 0 PROVE d = {}
      <3>1. IsFiniteSet(d) /\ Cardinality(d) = 0
        BY <1>1, <2>2
      <3>2. QED
        BY <3>1, FS_EmptySet
    <2>3. Upto([d \in SUBSET D |-> base], 0)
      BY <2>2
    <2>4. QED
      BY <2>1, <2>3
  <1>4. ASSUME NEW n \in Nat, n \in T PROVE n + 1 \in T
    <2>1. PICK g \in [SUBSET D -> A] : Upto(g, n)
      BY <1>4
    <2> DEFINE h == [d \in SUBSET D |-> Body(g, d)]
    <2>2. h \in [SUBSET D -> A]
      BY <1>2
    <2>3. ASSUME NEW d \in SUBSET D, Cardinality(d) <= n + 1 PROVE h[d] = Body(h, d)
      <3>1. CASE d = {}
        BY <3>1
      <3>2. CASE d # {}
        <4> DEFINE e == d \ {C[d]}
        <4>1. C[d] \in d
          BY <3>2
        <4>2. Cardinality(e) = Cardinality(d) - 1
          BY <1>1, <4>1, FS_RemoveElement
        <4>3. e \in SUBSET D /\ Cardinality(e) <= n
          <5>1. Cardinality(d) \in Nat /\ Cardinality(d) <= n + 1
            BY <1>1, <2>3
          <5>2. QED
            BY <4>2, <5>1
        <4>4. h[e] = g[e]
          BY <2>1, <4>3
        <4>5. h[d] = F[<<C[d], g[e]>>] /\ Body(h, d) = F[<<C[d], h[e]>>]
          BY <3>2
        <4>6. QED
          BY <4>4, <4>5
      <3>3. QED
        BY <3>1, <3>2
    <2>4. Upto(h, n + 1)
      BY <2>3
    <2> HIDE DEF h, Upto
    <2>5. QED
      BY <2>2, <2>4
  <1> HIDE DEF T
  <1>5. Cardinality(D) \in T
    BY <1>1, <1>3, <1>4, AllNumbers
  <1> USE DEF T
  <1>6. PICK g \in [SUBSET D -> A] : Upto(g, Cardinality(D))
    BY <1>5
  <1>7. \A d \in SUBSET D : g[d] = Body(g, d)
    BY <1>1, <1>6
  <1>8. QED
    BY <1>7

-----------------------------------------------------------------------------
(* The largest of some numbers up to n, the place that FoldLeft takes last. *)
LEMMA LastExists ==
  ASSUME NEW n \in Nat, NEW d \in SUBSET (1..n), d # {}
  PROVE  (CHOOSE x \in d : \A y \in d : x >= y) \in d
  <1> DEFINE Up == {m \in Nat : \A y \in d : y <= m}
  <1>1. n \in Up
    OBVIOUS
  <1>2. PICK m \in Up : \A k \in Up : m <= k
    BY <1>1, LeastNumber
  <1>3. m \in d
    <2>1. CASE m = 0
      <3>1. PICK y \in d : TRUE
        OBVIOUS
      <3>2. y \in 1..n /\ y <= m
        BY <1>2
      <3>3. QED
        BY <2>1, <3>2
    <2>2. CASE m # 0
      <3>1. m - 1 \in Nat /\ m - 1 \notin Up
        BY <1>2, <2>2
      <3>2. PICK y \in d : ~(y <= m - 1)
        BY <3>1
      <3>3. y \in Nat /\ y <= m
        BY <1>2
      <3>4. QED
        BY <3>2, <3>3
    <2>3. QED
      BY <2>1, <2>2
  <1>4. \A y \in d : m >= y
    BY <1>2
  <1>5. QED
    BY <1>3, <1>4

(* Keep, one element of the list after the other: h[n] is what it returns   *)
(* for the first n of them.                                                 *)
KeepHistory(h, X, s, S) ==
    /\ h \in [0..Len(s) -> Seq(X)]
    /\ h[0] = <<>> /\ h[Len(s)] = Keep(s, S)
    /\ \A n \in 1..Len(s) :
          h[n] = IF s[n] \in S THEN Append(h[n - 1], s[n]) ELSE h[n - 1]

LEMMA KeepSteps ==
  ASSUME NEW X, NEW s \in Seq(X), NEW S
  PROVE  \E h : KeepHistory(h, X, s, S)
  <1> DEFINE D == DOMAIN s
             Greatest(d) == CHOOSE x \in d : \A y \in d : x >= y
             Took(a, x) == IF x \in S THEN Append(a, x) ELSE a
             Body(g, d) == IF d = {} THEN <<>> ELSE Took(g[d \ {Greatest(d)}], s[Greatest(d)])
             F == [p \in D \X Seq(X) |-> Took(p[2], s[p[1]])]
             C == [d \in SUBSET D |-> Greatest(d)]
  <1>1. IsFiniteSet(D) /\ D = 1..Len(s) /\ Len(s) \in Nat
    BY FS_Interval
  <1>2. \A d \in SUBSET D : d # {} => Greatest(d) \in d
    BY <1>1, LastExists
  <1>3. \A x \in D, a \in Seq(X) : F[<<x, a>>] \in Seq(X) /\ F[<<x, a>>] = Took(a, s[x])
    <2> SUFFICES ASSUME NEW x \in D, NEW a \in Seq(X)
                 PROVE  Took(a, s[x]) \in Seq(X)
      OBVIOUS
    <2>1. s[x] \in X
      BY <1>1
    <2>2. QED
      BY <2>1
  <1>4. \A d \in SUBSET D : d # {} => C[d] \in d /\ C[d] = Greatest(d)
    BY <1>2
  <1> HIDE DEF F, C, D, Took
  <1>5. PICK g : IsFold(g, D, Seq(X), <<>>, F, C)
    <2>1. Foldable(D, Seq(X), <<>>, F, C)
      BY <1>1, <1>3, <1>4 DEF Foldable
    <2>2. QED
      BY <2>1, FoldExists
  <1>6. g \in [SUBSET D -> Seq(X)] /\ \A d \in SUBSET D : g[d] = Body(g, d)
    <2> USE <1>5 DEF IsFold
    <2> SUFFICES ASSUME NEW d \in SUBSET D, d # {}
                 PROVE  F[<<C[d], g[d \ {C[d]}]>>] = Took(g[d \ {Greatest(d)}], s[Greatest(d)])
      OBVIOUS
    <2>1. C[d] = Greatest(d) /\ C[d] \in D /\ d \ {C[d]} \in SUBSET D
      BY <1>4
    <2> HIDE DEF Greatest
    <2>2. QED
      BY <1>3, <2>1
  <1> DEFINE K == CHOOSE k : k = [d \in SUBSET D |-> Body(k, d)]
  <1>7. g = [d \in SUBSET D |-> Body(g, d)]
    <2> HIDE DEF Body
    <2>1. QED
      BY <1>6
  <1>8. K = [d \in SUBSET D |-> Body(K, d)]
    <2> HIDE DEF Body
    <2>1. QED
      BY <1>7
  <1>9. Keep(s, S) = K[D]
    BY DEF Keep, FoldLeft, MapThenFoldSet, Max, D, Took
  <1>10. \A d \in SUBSET D : K[d] = g[d]
    <2> DEFINE T == {d \in SUBSET D : K[d] = g[d]}
    <2>1. \A d \in SUBSET D : K[d] = Body(K, d)
      <3> HIDE DEF Body, K
      <3>1. QED
        BY <1>8
    <2> HIDE DEF K
    <2>2. {} \in T
      BY <2>1, <1>6
    <2>3. ASSUME NEW d \in SUBSET D, d # {}
          PROVE  C[d] \in d /\ (d \ {C[d]} \in T => d \in T)
      <3>1. C[d] \in d /\ C[d] = Greatest(d)
        BY <2>3, <1>4
      <3> HIDE DEF Greatest
      <3>2. /\ K[d] = Took(K[d \ {Greatest(d)}], s[Greatest(d)])
            /\ g[d] = Took(g[d \ {Greatest(d)}], s[Greatest(d)])
        BY <2>1, <2>3, <1>6
      <3>3. QED
        BY <3>1, <3>2
    <2> HIDE DEF T
    <2>4. Inductive(T, D, C)
      BY <1>1, <2>2, <2>3 DEF Inductive
    <2>5. SUBSET D \subseteq T
      BY <2>4, AllParts
    <2>6. QED
      BY <2>5 DEF T
  <1> DEFINE h == [n \in 0..Len(s) |-> g[1..n]]
  <1>11. \A n \in 0..Len(s) : 1..n \in SUBSET D
    BY <1>1
  <1>12. h \in [0..Len(s) -> Seq(X)]
    BY <1>6, <1>11
  <1>13. h[0] = <<>>
    <2>1. 1..0 = {} /\ 0 \in 0..Len(s)
      BY <1>1
    <2>2. QED
      BY <2>1, <1>6, <1>11
  <1>14. h[Len(s)] = Keep(s, S)
    <2> HIDE DEF K
    <2>1. D \in SUBSET D /\ Len(s) \in 0..Len(s) /\ 1..Len(s) = D
      BY <1>1
    <2>2. h[Len(s)] = g[D]
      BY <2>1
    <2>3. QED
      BY <1>9, <1>10, <2>1, <2>2
  <1>15. ASSUME NEW n \in 1..Len(s)
         PROVE  h[n] = IF s[n] \in S THEN Append(h[n - 1], s[n]) ELSE h[n - 1]
    <2>1. Greatest(1..n) = n
      <3>1. n \in 1..n /\ \A y \in 1..n : n >= y
        BY <1>1
      <3>2. \A x \in 1..n : (\A y \in 1..n : x >= y) => x = n
        BY <1>1, <3>1
      <3>3. QED
        BY <3>1, <3>2
    <2>2. (1..n) \ {n} = 1..(n - 1)
      BY <1>1
    <2>3. n \in 0..Len(s) /\ n - 1 \in 0..Len(s) /\ 1..n # {}
      <3>1. n \in Nat /\ n \in 0..Len(s) /\ n - 1 \in 0..Len(s)
        BY <1>1
      <3>2. n \in 1..n
        BY <3>1
      <3>3. QED
        BY <3>1, <3>2
    <2>4. h[n] = g[1..n] /\ h[n - 1] = g[1..(n - 1)]
      BY <2>3
    <2> HIDE DEF Greatest, h
    <2>5. g[1..n] = Took(g[1..(n - 1)], s[n])
      BY <1>6, <1>11, <2>1, <2>2, <2>3
    <2>6. QED
      BY <2>4, <2>5 DEF Took
  <1> HIDE DEF h
  <1>16. QED
    BY <1>12, <1>13, <1>14, <1>15 DEF KeepHistory

(* f tells where the elements of k, the first of the ones that s has up to  *)
(* place n and S contains, stand in s.                                      *)
Places(f, k, s, S, n) ==
    /\ Len(k) <= n
    /\ f \in [1..Len(k) -> 1..n]
    /\ \A j \in 1..Len(k) : k[j] = s[f[j]] /\ k[j] \in S
    /\ \A i, j \in 1..Len(k) : i < j => f[i] < f[j]
    /\ \A i \in 1..n : s[i] \in S => \E j \in 1..Len(k) : f[j] = i

LEMMA KeepPlaces ==
  ASSUME NEW X, NEW s \in Seq(X), NEW S
  PROVE  Keep(s, S) \in Seq(X) /\ \E f : Places(f, Keep(s, S), s, S, Len(s))
  <1>0. PICK h : KeepHistory(h, X, s, S)
    BY KeepSteps
  <1>1. /\ h \in [0..Len(s) -> Seq(X)]
        /\ h[0] = <<>> /\ h[Len(s)] = Keep(s, S)
        /\ \A n \in 1..Len(s) :
              h[n] = IF s[n] \in S THEN Append(h[n - 1], s[n]) ELSE h[n - 1]
    BY <1>0 DEF KeepHistory
  <1> DEFINE T == {n \in Nat : n <= Len(s) => \E f : Places(f, h[n], s, S, n)}
  <1>2. 0 \in T
    <2>1. Places(<<>>, <<>>, s, S, 0)
      <3>1. Len(<<>>) = 0 /\ 1..0 = {} /\ <<>> \in [{} -> {}]
        OBVIOUS
      <3>2. QED
        BY <3>1 DEF Places
    <2>2. QED
      BY <1>1, <2>1
  <1>3. ASSUME NEW n \in Nat, n \in T PROVE n + 1 \in T
    <2> SUFFICES ASSUME n + 1 <= Len(s) PROVE \E f : Places(f, h[n + 1], s, S, n + 1)
      OBVIOUS
    <2>0. Len(s) \in Nat /\ n <= Len(s) /\ n \in 0..Len(s) /\ n + 1 \in 1..Len(s)
      OBVIOUS
    <2>1. PICK f : Places(f, h[n], s, S, n)
      BY <1>3, <2>0
    <2>2. h[n] \in Seq(X) /\ Len(h[n]) \in Nat /\ s[n + 1] \in X
      BY <1>1, <2>0
    <2>3. h[n + 1] = IF s[n + 1] \in S THEN Append(h[n], s[n + 1]) ELSE h[n]
      BY <1>1, <2>0
    <2> DEFINE k == h[n]
               l == h[n + 1]
    <2>4. CASE s[n + 1] \notin S
      <3>1. l = k
        BY <2>3, <2>4
      <3>2. Places(f, k, s, S, n + 1)
        <4> HIDE DEF k
        <4>1. \A i \in 1..(n + 1) : i \in 1..n \/ i = n + 1
          OBVIOUS
        <4>2. 1..n \subseteq 1..(n + 1) /\ (Len(k) <= n => Len(k) <= n + 1)
          BY <2>2 DEF k
        <4>3. QED
          BY <2>1, <2>4, <4>1, <4>2 DEF Places, k
      <3>3. QED
        BY <3>1, <3>2
    <2>5. CASE s[n + 1] \in S
      <3> DEFINE m == Len(k)
                 e == [j \in 1..(m + 1) |-> IF j <= m THEN f[j] ELSE n + 1]
      <3>1. l = Append(k, s[n + 1]) /\ Len(l) = m + 1
        BY <2>2, <2>3, <2>5
      <3>2. (\A j \in 1..m : l[j] = k[j]) /\ l[m + 1] = s[n + 1]
        BY <2>2, <3>1
      <3> HIDE DEF k, l
      <3>3. m \in Nat /\ (\A j \in 1..(m + 1) : j \in 1..m \/ j = m + 1)
        BY <2>2 DEF k
      <3>4. /\ m <= n /\ f \in [1..m -> 1..n]
            /\ \A j \in 1..m : k[j] = s[f[j]] /\ k[j] \in S
            /\ \A i, j \in 1..m : i < j => f[i] < f[j]
            /\ \A i \in 1..n : s[i] \in S => \E j \in 1..m : f[j] = i
        BY <2>1 DEF Places, k
      <3> HIDE DEF m
      <3>5. (\A j \in 1..m : e[j] = f[j]) /\ e[m + 1] = n + 1
        BY <3>3
      <3>6. e \in [1..(m + 1) -> 1..(n + 1)]
        BY <3>3, <3>4
      <3> HIDE DEF e
      <3>7. \A j \in 1..(m + 1) : l[j] = s[e[j]] /\ l[j] \in S
        BY <3>2, <3>3, <3>4, <3>5, <2>5
      <3>8. ASSUME NEW i \in 1..(m + 1), NEW j \in 1..(m + 1), i < j PROVE e[i] < e[j]
        <4>1. i \in 1..m
          BY <3>3, <3>8
        <4>2. CASE j \in 1..m
          BY <3>4, <3>5, <3>8, <4>1, <4>2
        <4>3. CASE j = m + 1
          <5>1. f[i] \in 1..n
            BY <3>4, <4>1
          <5>2. QED
            BY <3>5, <4>1, <4>3, <5>1
        <4>4. QED
          BY <3>3, <4>2, <4>3
      <3>9. ASSUME NEW i \in 1..(n + 1), s[i] \in S PROVE \E j \in 1..(m + 1) : e[j] = i
        <4>1. CASE i = n + 1
          BY <3>3, <3>5, <4>1
        <4>2. CASE i # n + 1
          <5>1. i \in 1..n
            BY <4>2
          <5>2. PICK j \in 1..m : f[j] = i
            BY <3>4, <3>9, <5>1
          <5>3. j \in 1..(m + 1)
            BY <3>3
          <5>4. QED
            BY <3>5, <5>2, <5>3
        <4>3. QED
          BY <4>1, <4>2
      <3>10. Places(e, l, s, S, n + 1)
        <4>1. Len(l) = m + 1 /\ m + 1 <= n + 1
          BY <3>1, <3>3, <3>4
        <4> HIDE DEF m
        <4>2. QED
          BY <4>1, <3>6, <3>7, <3>8, <3>9 DEF Places
      <3>11. QED
        BY <3>10 DEF l
    <2>6. QED
      BY <2>4, <2>5
  <1> HIDE DEF T
  <1>4. Len(s) \in T
    BY <1>2, <1>3, AllNumbers
  <1>5. \E f : Places(f, h[Len(s)], s, S, Len(s))
    BY <1>4 DEF T
  <1>6. QED
    BY <1>1, <1>5

(* What Keep returns, as a list and as a set.                               *)
LEMMA KeepResult ==
  ASSUME NEW X, NEW s \in Seq(X), NEW S
  PROVE  /\ Keep(s, S) \in Seq(X) /\ Len(Keep(s, S)) <= Len(s)
         /\ ToSet(Keep(s, S)) = ToSet(s) \cap S
         /\ IsInjective(s) => IsInjective(Keep(s, S))
  <1> DEFINE k == Keep(s, S)
  <1>1. PICK f : Places(f, k, s, S, Len(s))
    BY KeepPlaces
  <1>2. k \in Seq(X)
    BY KeepPlaces
  <1> HIDE DEF k
  <1>3. DOMAIN s = 1..Len(s) /\ DOMAIN k = 1..Len(k)
    BY <1>2
  <1>4. Len(k) <= Len(s)
    BY <1>1 DEF Places
  <1>5. ToSet(k) = ToSet(s) \cap S
    <2>1. \A j \in DOMAIN k : k[j] \in S /\ \E i \in DOMAIN s : k[j] = s[i]
      BY <1>1, <1>3 DEF Places
    <2>2. \A i \in DOMAIN s : s[i] \in S => \E j \in DOMAIN k : k[j] = s[i]
      BY <1>1, <1>3 DEF Places
    <2>3. QED
      BY <2>1, <2>2 DEF ToSet
  <1>6. ASSUME IsInjective(s) PROVE IsInjective(k)
    <2>1. SUFFICES ASSUME NEW i \in DOMAIN k, NEW j \in DOMAIN k, k[i] = k[j]
                   PROVE  i = j
      BY DEF IsInjective
    <2>2. f[i] \in DOMAIN s /\ f[j] \in DOMAIN s /\ s[f[i]] = s[f[j]]
      BY <1>1, <1>3, <2>1 DEF Places
    <2>3. f[i] = f[j]
      BY <1>6, <2>2 DEF IsInjective
    <2>4. ~(i < j) /\ ~(j < i)
      BY <1>1, <1>3, <2>2, <2>3 DEF Places
    <2>5. QED
      BY <1>3, <2>4
  <1>7. QED
    BY <1>2, <1>4, <1>5, <1>6 DEF k

(* Append, Head and Tail, and slices of lists without duplicates.           *)
LEMMA AppendResult ==
  ASSUME NEW X, NEW s \in Seq(X), NEW x \in X
  PROVE  /\ Append(s, x) \in Seq(X) /\ Len(Append(s, x)) = Len(s) + 1
         /\ ToSet(Append(s, x)) = ToSet(s) \cup {x}
         /\ IsInjective(s) /\ x \notin ToSet(s) => IsInjective(Append(s, x))
  <1> DEFINE a == Append(s, x)
  <1>1. /\ a \in Seq(X) /\ Len(s) \in Nat /\ Len(a) = Len(s) + 1
        /\ DOMAIN a = 1..(Len(s) + 1) /\ DOMAIN s = 1..Len(s)
        /\ (\A i \in DOMAIN s : a[i] = s[i]) /\ a[Len(s) + 1] = x
    OBVIOUS
  <1> HIDE DEF a
  <1>2. \A i \in DOMAIN a : i \in DOMAIN s \/ i = Len(s) + 1
    BY <1>1
  <1>3. DOMAIN s \subseteq DOMAIN a /\ Len(s) + 1 \in DOMAIN a
    BY <1>1
  <1>4. ToSet(a) = ToSet(s) \cup {x}
    BY <1>1, <1>2, <1>3 DEF ToSet
  <1>5. ASSUME IsInjective(s), x \notin ToSet(s) PROVE IsInjective(a)
    <2> SUFFICES ASSUME NEW i \in DOMAIN a, NEW j \in DOMAIN a, a[i] = a[j]
                 PROVE  i = j
      BY DEF IsInjective
    <2>1. CASE i \in DOMAIN s /\ j \in DOMAIN s
      BY <1>1, <1>5, <2>1 DEF IsInjective
    <2>2. CASE i = Len(s) + 1
      BY <1>1, <1>2, <1>5, <2>2 DEF ToSet
    <2>3. CASE j = Len(s) + 1
      BY <1>1, <1>2, <1>5, <2>3 DEF ToSet
    <2>4. QED
      BY <1>2, <2>1, <2>2, <2>3
  <1>6. QED
    BY <1>1, <1>4, <1>5 DEF a

LEMMA TailResult ==
  ASSUME NEW X, NEW s \in Seq(X), s # <<>>
  PROVE  /\ Tail(s) \in Seq(X) /\ Head(s) \in X /\ Head(s) \in ToSet(s)
         /\ ToSet(Tail(s)) \subseteq ToSet(s) /\ ToSet(s) = ToSet(Tail(s)) \cup {Head(s)}
         /\ IsInjective(s) => IsInjective(Tail(s)) /\ Head(s) \notin ToSet(Tail(s))
  <1> DEFINE t == Tail(s)
  <1>1. /\ t \in Seq(X) /\ Len(s) \in Nat \ {0} /\ Len(t) = Len(s) - 1
        /\ DOMAIN t = 1..(Len(s) - 1) /\ DOMAIN s = 1..Len(s)
        /\ (\A i \in DOMAIN t : t[i] = s[i + 1]) /\ Head(s) = s[1] /\ Head(s) \in X
    OBVIOUS
  <1> HIDE DEF t
  <1>2. \A i \in DOMAIN t : i + 1 \in DOMAIN s /\ i \in Nat
    BY <1>1
  <1>3. ToSet(t) \subseteq ToSet(s) /\ Head(s) \in ToSet(s)
    BY <1>1, <1>2 DEF ToSet
  <1>4. ToSet(s) \subseteq ToSet(t) \cup {Head(s)}
    <2> SUFFICES ASSUME NEW i \in DOMAIN s PROVE s[i] \in ToSet(t) \cup {Head(s)}
      BY DEF ToSet
    <2>1. CASE i = 1
      BY <1>1, <2>1
    <2>2. CASE i # 1
      <3>1. i - 1 \in DOMAIN t /\ (i - 1) + 1 = i
        BY <1>1, <2>2
      <3>2. t[i - 1] = s[i]
        BY <1>1, <3>1
      <3>3. QED
        BY <3>1, <3>2 DEF ToSet
    <2>3. QED
      BY <2>1, <2>2
  <1>5. ASSUME IsInjective(s) PROVE IsInjective(t)
    <2> SUFFICES ASSUME NEW i \in DOMAIN t, NEW j \in DOMAIN t, t[i] = t[j]
                 PROVE  i = j
      BY DEF IsInjective
    <2>1. i + 1 = j + 1
      BY <1>1, <1>2, <1>5 DEF IsInjective
    <2>2. QED
      BY <1>2, <2>1
  <1>6. ASSUME IsInjective(s) PROVE Head(s) \notin ToSet(t)
    <2> SUFFICES ASSUME NEW i \in DOMAIN t, t[i] = Head(s) PROVE FALSE
      BY DEF ToSet
    <2>1. 1 \in DOMAIN s /\ i + 1 \in DOMAIN s /\ s[i + 1] = s[1]
      BY <1>1, <1>2
    <2>2. i + 1 = 1
      BY <1>6, <2>1 DEF IsInjective
    <2>3. i \in Nat /\ i >= 1
      BY <1>1
    <2>4. QED
      BY <2>2, <2>3
  <1>7. QED
    BY <1>1, <1>3, <1>4, <1>5, <1>6 DEF t

LEMMA SliceResult ==
  ASSUME NEW X, NEW s \in Seq(X), NEW m \in 1..(Len(s) + 1), NEW n \in 0..Len(s)
  PROVE  /\ SubSeq(s, m, n) \in Seq(X)
         /\ Len(SubSeq(s, m, n)) = (IF m <= n THEN n - m + 1 ELSE 0)
         /\ \A i \in 1..Len(SubSeq(s, m, n)) : SubSeq(s, m, n)[i] = s[m + i - 1]
         /\ ToSet(SubSeq(s, m, n)) \subseteq ToSet(s)
         /\ IsInjective(s) => IsInjective(SubSeq(s, m, n))
  <1> DEFINE p == SubSeq(s, m, n)
             l == IF m <= n THEN n - m + 1 ELSE 0
  <1>1. /\ p \in Seq(X) /\ Len(p) = l /\ DOMAIN p = 1..l /\ DOMAIN s = 1..Len(s)
        /\ \A i \in 1..l : p[i] = s[m + i - 1]
    OBVIOUS
  <1> HIDE DEF p
  <1>2. \A i \in DOMAIN p : m + i - 1 \in DOMAIN s /\ i \in Nat
    BY <1>1
  <1>3. ToSet(p) \subseteq ToSet(s)
    BY <1>1, <1>2 DEF ToSet
  <1>4. ASSUME IsInjective(s) PROVE IsInjective(p)
    <2> SUFFICES ASSUME NEW i \in DOMAIN p, NEW j \in DOMAIN p, p[i] = p[j] PROVE i = j
      BY DEF IsInjective
    <2>1. m + i - 1 = m + j - 1
      BY <1>1, <1>2, <1>4 DEF IsInjective
    <2>2. QED
      BY <1>2, <2>1
  <1>5. QED
    BY <1>1, <1>3, <1>4 DEF p

LEMMA EmptyList ==
  ASSUME NEW X
  PROVE  <<>> \in Seq(X) /\ ToSet(<<>>) = {} /\ IsInjective(<<>>) /\ Len(<<>>) = 0
  BY DEF ToSet, IsInjective

LEMMA JoinResult ==
  ASSUME NEW X, NEW s \in Seq(X), NEW t \in Seq(X)
  PROVE  /\ s \o t \in Seq(X) /\ Len(s \o t) = Len(s) + Len(t)
         /\ \A i \in 1..Len(s) : (s \o t)[i] = s[i]
         /\ \A i \in 1..Len(t) : (s \o t)[Len(s) + i] = t[i]
         /\ ToSet(s \o t) = ToSet(s) \cup ToSet(t)
         /\ IsInjective(s) /\ IsInjective(t) /\ ToSet(s) \cap ToSet(t) = {}
               => IsInjective(s \o t)
  <1> DEFINE a == s \o t
  <1>1. /\ a \in Seq(X) /\ Len(a) = Len(s) + Len(t) /\ Len(s) \in Nat /\ Len(t) \in Nat
        /\ DOMAIN a = 1..(Len(s) + Len(t)) /\ DOMAIN s = 1..Len(s) /\ DOMAIN t = 1..Len(t)
        /\ \A i \in 1..Len(s) : a[i] = s[i]
        /\ \A i \in 1..Len(t) : a[Len(s) + i] = t[i]
    OBVIOUS
  <1> HIDE DEF a
  <1>2. \A i \in DOMAIN a : \/ i \in DOMAIN s /\ a[i] = s[i]
                            \/ i - Len(s) \in DOMAIN t /\ a[i] = t[i - Len(s)]
    <2> SUFFICES ASSUME NEW i \in DOMAIN a, i \notin DOMAIN s
                 PROVE  i - Len(s) \in DOMAIN t /\ a[i] = t[i - Len(s)]
      BY <1>1
    <2>1. i - Len(s) \in 1..Len(t) /\ Len(s) + (i - Len(s)) = i
      BY <1>1
    <2>2. QED
      BY <1>1, <2>1
  <1>3. ToSet(a) = ToSet(s) \cup ToSet(t)
    <2>1. \A i \in DOMAIN t : Len(s) + i \in DOMAIN a /\ a[Len(s) + i] = t[i]
      BY <1>1
    <2>2. \A i \in DOMAIN s : i \in DOMAIN a /\ a[i] = s[i]
      BY <1>1
    <2>3. QED
      BY <1>2, <2>1, <2>2 DEF ToSet
  <1>4. ASSUME IsInjective(s), IsInjective(t), ToSet(s) \cap ToSet(t) = {}
        PROVE  IsInjective(a)
    <2> SUFFICES ASSUME NEW i \in DOMAIN a, NEW j \in DOMAIN a, a[i] = a[j] PROVE i = j
      BY DEF IsInjective
    <2>1. \A k \in DOMAIN s : s[k] \in ToSet(s)
      BY DEF ToSet
    <2>2. \A k \in DOMAIN t : t[k] \in ToSet(t)
      BY DEF ToSet
    <2>3. CASE i \in DOMAIN s /\ j \in DOMAIN s /\ a[i] = s[i] /\ a[j] = s[j]
      BY <1>4, <2>3 DEF IsInjective
    <2>4. CASE /\ i - Len(s) \in DOMAIN t /\ a[i] = t[i - Len(s)]
               /\ j - Len(s) \in DOMAIN t /\ a[j] = t[j - Len(s)]
      <3>1. i - Len(s) = j - Len(s)
        BY <1>4, <2>4 DEF IsInjective
      <3>2. QED
        BY <1>1, <3>1
    <2>5. QED
      BY <1>2, <1>4, <2>1, <2>2, <2>3, <2>4
  <1>5. QED
    BY <1>1, <1>3, <1>4 DEF a

-----------------------------------------------------------------------------
(* Lists in the order that the set R of pairs gives.                        *)
Ordered(s, R) == \A i, j \in 1..Len(s) : i < j => <<s[i], s[j]>> \in R

LEMMA KeepOrdered ==
  ASSUME NEW X, NEW s \in Seq(X), NEW S, NEW R, Ordered(s, R)
  PROVE  Ordered(Keep(s, S), R)
  <1> DEFINE k == Keep(s, S)
  <1>1. PICK f : Places(f, k, s, S, Len(s))
    BY KeepPlaces
  <1> HIDE DEF k
  <1>2. /\ f \in [1..Len(k) -> 1..Len(s)]
        /\ \A j \in 1..Len(k) : k[j] = s[f[j]]
        /\ \A i, j \in 1..Len(k) : i < j => f[i] < f[j]
    BY <1>1 DEF Places
  <1>3. Ordered(k, R)
    BY <1>2 DEF Ordered
  <1>4. QED
    BY <1>3 DEF k

LEMMA JoinOrdered ==
  ASSUME NEW X, NEW s \in Seq(X), NEW t \in Seq(X), NEW R, Ordered(s, R), Ordered(t, R),
         \A x \in ToSet(s), y \in ToSet(t) : <<x, y>> \in R
  PROVE  Ordered(s \o t, R)
  <1> DEFINE a == s \o t
  <1>1. /\ Len(a) = Len(s) + Len(t) /\ Len(s) \in Nat /\ Len(t) \in Nat
        /\ \A i \in 1..Len(s) : a[i] = s[i]
        /\ \A i \in 1..Len(t) : a[Len(s) + i] = t[i]
    BY JoinResult
  <1> HIDE DEF a
  <1>2. \A i \in 1..Len(a) : \/ i \in 1..Len(s) /\ a[i] = s[i]
                             \/ i - Len(s) \in 1..Len(t) /\ a[i] = t[i - Len(s)]
    <2> SUFFICES ASSUME NEW i \in 1..Len(a), i \notin 1..Len(s)
                 PROVE  i - Len(s) \in 1..Len(t) /\ a[i] = t[i - Len(s)]
      BY <1>1
    <2>1. i - Len(s) \in 1..Len(t) /\ Len(s) + (i - Len(s)) = i
      BY <1>1
    <2>2. QED
      BY <1>1, <2>1
  <1>3. (\A i \in 1..Len(s) : s[i] \in ToSet(s)) /\ (\A i \in 1..Len(t) : t[i] \in ToSet(t))
    BY DEF ToSet
  <1>4. ASSUME NEW i \in 1..Len(a), NEW j \in 1..Len(a), i < j
        PROVE  <<a[i], a[j]>> \in R
    <2>1. CASE i \in 1..Len(s) /\ j \in 1..Len(s) /\ a[i] = s[i] /\ a[j] = s[j]
      BY <1>4, <2>1 DEF Ordered
    <2>2. CASE /\ i - Len(s) \in 1..Len(t) /\ a[i] = t[i - Len(s)]
               /\ j - Len(s) \in 1..Len(t) /\ a[j] = t[j - Len(s)]
      <3>1. i - Len(s) < j - Len(s)
        BY <1>1, <1>4
      <3>2. QED
        BY <2>2, <3>1 DEF Ordered
    <2>3. CASE /\ i \in 1..Len(s) /\ a[i] = s[i]
               /\ j - Len(s) \in 1..Len(t) /\ a[j] = t[j - Len(s)]
      BY <1>3, <2>3
    <2>4. CASE /\ i - Len(s) \in 1..Len(t) /\ j \in 1..Len(s)
      BY <1>1, <1>4, <2>4
    <2>5. QED
      BY <1>2, <2>1, <2>2, <2>3, <2>4
  <1>5. QED
    BY <1>4 DEF Ordered, a

-----------------------------------------------------------------------------
(* The sum of a table of numbers, taking one place after the other.         *)
Pick(d) == CHOOSE x \in d : TRUE

IsTotal(g, f, D) ==
    /\ g \in [SUBSET D -> Int]
    /\ g[{}] = 0
    /\ \A d \in SUBSET D : g[d] = Total(f, d)
    /\ \A d \in SUBSET D : d # {} =>
          Pick(d) \in d /\ g[d] = f[Pick(d)] + g[d \ {Pick(d)}]

LEMMA TotalSteps ==
  ASSUME NEW D, IsFiniteSet(D), NEW f, \A x \in D : f[x] \in Int
  PROVE  \E g : IsTotal(g, f, D)
  <1> DEFINE C == [d \in SUBSET D |-> Pick(d)]
             F == [p \in D \X Int |-> f[p[1]] + p[2]]
  <1>1. \A d \in SUBSET D : d # {} => C[d] \in d /\ C[d] = Pick(d)
    BY DEF Pick
  <1>2. \A x \in D, n \in Int : F[<<x, n>>] \in Int /\ F[<<x, n>>] = f[x] + n
    OBVIOUS
  <1> HIDE DEF C, F
  <1>3. PICK g : IsFold(g, D, Int, 0, F, C)
    <2>1. Foldable(D, Int, 0, F, C)
      BY <1>1, <1>2 DEF Foldable
    <2>2. QED
      BY <2>1, FoldExists
  <1>4. /\ g \in [SUBSET D -> Int] /\ g[{}] = 0
        /\ \A d \in SUBSET D : d # {} =>
              Pick(d) \in d /\ g[d] = f[Pick(d)] + g[d \ {Pick(d)}]
    <2> USE <1>3 DEF IsFold
    <2>1. ASSUME NEW d \in SUBSET D, d # {}
          PROVE  Pick(d) \in d /\ g[d] = f[Pick(d)] + g[d \ {Pick(d)}]
      <3>1. Pick(d) \in D /\ C[d] = Pick(d) /\ Pick(d) \in d
        BY <1>1, <2>1
      <3>2. g[d] = F[<<Pick(d), g[d \ {Pick(d)}]>>] /\ g[d \ {Pick(d)}] \in Int
        BY <2>1, <3>1
      <3>3. QED
        BY <1>2, <3>1, <3>2
    <2>2. QED
      BY <2>1
  <1>5. ASSUME NEW S \in SUBSET D PROVE Total(f, S) = g[S]
    <2> DEFINE Body(k, d) == IF d = {} THEN 0 ELSE f[Pick(d)] + k[d \ {Pick(d)}]
               K == CHOOSE k : k = [d \in SUBSET S |-> Body(k, d)]
               h == [d \in SUBSET S |-> g[d]]
    <2>1. h = [d \in SUBSET S |-> Body(h, d)]
      <3>1. ASSUME NEW d \in SUBSET S PROVE g[d] = Body(h, d)
        BY <1>4
      <3>2. QED
        BY <3>1
    <2>2. K = [d \in SUBSET S |-> Body(K, d)]
      <3> HIDE DEF Body, h
      <3>1. QED
        BY <2>1
    <2>3. Total(f, S) = K[S]
      BY DEF Total, FoldFunctionOnSet, MapThenFoldSet, Pick
    <2> DEFINE T == {d \in SUBSET S : K[d] = g[d]}
    <2>4. \A d \in SUBSET S : K[d] = Body(K, d)
      <3> HIDE DEF Body, K
      <3>1. QED
        BY <2>2
    <2> HIDE DEF K
    <2>5. {} \in T
      BY <2>4, <1>4
    <2>6. ASSUME NEW d \in SUBSET S, d # {}
          PROVE  C[d] \in d /\ (d \ {C[d]} \in T => d \in T)
      <3>1. C[d] = Pick(d) /\ Pick(d) \in d
        BY <1>1, <2>6
      <3>2. K[d] = f[Pick(d)] + K[d \ {Pick(d)}]
        BY <2>4, <2>6
      <3>3. g[d] = f[Pick(d)] + g[d \ {Pick(d)}]
        BY <1>4, <2>6
      <3>4. QED
        BY <3>1, <3>2, <3>3
    <2> HIDE DEF T
    <2>7. IsFiniteSet(S)
      BY FS_Subset
    <2>8. Inductive(T, S, C)
      BY <2>5, <2>6, <2>7 DEF Inductive
    <2>9. SUBSET S \subseteq T
      BY <2>8, AllParts
    <2>10. QED
      BY <2>3, <2>9 DEF T
  <1>6. IsTotal(g, f, D)
    BY <1>4, <1>5 DEF IsTotal
  <1>7. QED
    BY <1>6

LEMMA TotalType ==
  ASSUME NEW D, IsFiniteSet(D), NEW f, \A x \in D : f[x] \in Int
  PROVE  Total(f, D) \in Int /\ Total(f, {}) = 0
  <1>1. PICK g : IsTotal(g, f, D)
    BY TotalSteps
  <1>2. QED
    BY <1>1 DEF IsTotal

(* Sums of natural numbers are natural numbers.                             *)
LEMMA TotalNat ==
  ASSUME NEW D, IsFiniteSet(D), NEW f, \A x \in D : f[x] \in Nat
  PROVE  Total(f, D) \in Nat
  <1>1. PICK g : IsTotal(g, f, D)
    BY TotalSteps
  <1> DEFINE T == {d \in SUBSET D : g[d] \in Nat}
             C == [d \in SUBSET D |-> Pick(d)]
  <1>2. {} \in T
    BY <1>1 DEF IsTotal
  <1>3. ASSUME NEW d \in SUBSET D, d # {}
        PROVE  C[d] \in d /\ (d \ {C[d]} \in T => d \in T)
    BY <1>1, <1>3 DEF IsTotal
  <1> HIDE DEF T, C
  <1>4. Inductive(T, D, C)
    BY <1>2, <1>3 DEF Inductive
  <1>5. D \in T
    BY <1>4, AllParts
  <1>6. QED
    BY <1>1, <1>5 DEF T, IsTotal

(* A sum changes by what one of its numbers changes.                        *)
LEMMA TotalDiffer ==
  ASSUME NEW D, IsFiniteSet(D), NEW f, \A y \in D : f[y] \in Int,
         NEW e, \A y \in D : e[y] \in Int, NEW x \in D,
         \A y \in D \ {x} : e[y] = f[y]
  PROVE  Total(e, D) + f[x] = Total(f, D) + e[x]
  <1>1. PICK g : IsTotal(g, f, D)
    BY TotalSteps
  <1>2. PICK h : IsTotal(h, e, D)
    BY TotalSteps
  <1> DEFINE T == {d \in SUBSET D : IF x \in d THEN h[d] + f[x] = g[d] + e[x]
                                               ELSE h[d] = g[d]}
             C == [d \in SUBSET D |-> Pick(d)]
  <1>3. {} \in T
    BY <1>1, <1>2 DEF IsTotal
  <1>4. ASSUME NEW d \in SUBSET D, d # {}
        PROVE  C[d] \in d /\ (d \ {C[d]} \in T => d \in T)
    <2> DEFINE p == Pick(d)
               r == d \ {p}
    <2>1. /\ p \in d /\ p \in D /\ C[d] = p
          /\ g[d] = f[p] + g[r] /\ h[d] = e[p] + h[r]
          /\ g[r] \in Int /\ h[r] \in Int /\ f[p] \in Int /\ e[p] \in Int
      BY <1>1, <1>2, <1>4 DEF IsTotal
    <2> HIDE DEF p, C
    <2>2. ASSUME r \in T PROVE d \in T
      <3>1. CASE p = x
        <4>1. x \notin r /\ x \in d
          BY <2>1, <3>1
        <4>2. h[r] = g[r]
          BY <2>2, <4>1
        <4>3. h[d] + f[x] = g[d] + e[x]
          BY <2>1, <3>1, <4>2
        <4>4. QED
          BY <4>1, <4>3
      <3>2. CASE p # x
        <4>1. (x \in r <=> x \in d) /\ e[p] = f[p]
          BY <2>1, <3>2
        <4>2. CASE x \in d
          <5>1. h[r] + f[x] = g[r] + e[x] /\ f[x] \in Int /\ e[x] \in Int
            BY <2>2, <4>1, <4>2
          <5>2. h[d] + f[x] = g[d] + e[x]
            BY <2>1, <4>1, <5>1
          <5>3. QED
            BY <4>2, <5>2
        <4>3. CASE x \notin d
          <5>1. h[r] = g[r]
            BY <2>2, <4>1, <4>3
          <5>2. QED
            BY <2>1, <4>1, <4>3, <5>1
        <4>4. QED
          BY <4>2, <4>3
      <3>3. QED
        BY <3>1, <3>2
    <2>3. QED
      BY <2>1, <2>2
  <1> HIDE DEF T, C
  <1>5. Inductive(T, D, C)
    BY <1>3, <1>4 DEF Inductive
  <1>6. D \in T
    BY <1>5, AllParts
  <1>7. QED
    BY <1>1, <1>2, <1>6 DEF T, IsTotal

(* The same when all that is smaller may be assumed.                        *)
SmallerFirst(T, D) ==
    /\ IsFiniteSet(D)
    /\ \A d \in SUBSET D : (\A c \in SUBSET d : c # d => c \in T) => d \in T

LEMMA AllSmaller ==
  ASSUME NEW D, NEW T, SmallerFirst(T, D)
  PROVE  SUBSET D \subseteq T
  <1> USE DEF SmallerFirst
  <1> DEFINE N == {n \in Nat : \A d \in SUBSET D : Cardinality(d) <= n => d \in T}
  <1>1. \A d \in SUBSET D : IsFiniteSet(d) /\ Cardinality(d) \in Nat
                             /\ Cardinality(d) <= Cardinality(D)
    BY FS_Subset, FS_CardinalityType
  <1>2. 0 \in N
    <2> SUFFICES ASSUME NEW d \in SUBSET D, Cardinality(d) <= 0 PROVE d \in T
      OBVIOUS
    <2>1. IsFiniteSet(d) /\ Cardinality(d) = 0
      BY <1>1
    <2>2. d = {}
      BY <2>1, FS_EmptySet
    <2>3. \A c \in SUBSET d : c = d
      BY <2>2
    <2>4. QED
      BY <2>3
  <1>3. ASSUME NEW n \in Nat, n \in N PROVE n + 1 \in N
    <2> SUFFICES ASSUME NEW d \in SUBSET D, Cardinality(d) <= n + 1 PROVE d \in T
      OBVIOUS
    <2>1. ASSUME NEW c \in SUBSET d, c # d PROVE c \in T
      <3>1. c \in SUBSET D /\ IsFiniteSet(d) /\ Cardinality(c) \in Nat /\ Cardinality(d) \in Nat
        BY <1>1
      <3>2. Cardinality(c) < Cardinality(d)
        BY <2>1, <3>1, FS_Subset
      <3>3. Cardinality(c) <= n
        BY <3>1, <3>2
      <3>4. QED
        BY <1>3, <3>1, <3>3
    <2>2. QED
      BY <2>1
  <1> HIDE DEF N
  <1>4. Cardinality(D) \in N
    BY <1>1, <1>2, <1>3, AllNumbers
  <1>5. QED
    BY <1>1, <1>4 DEF N

(* The order of a sum does not matter: any member may be taken first.       *)
LEMMA TotalTake ==
  ASSUME NEW D, IsFiniteSet(D), NEW f, \A y \in D : f[y] \in Int, NEW x \in D
  PROVE  Total(f, D) = f[x] + Total(f, D \ {x})
  <1>1. PICK g : IsTotal(g, f, D)
    BY TotalSteps
  <1> DEFINE T == {d \in SUBSET D : \A y \in d : g[d] = f[y] + g[d \ {y}]}
  <1>2. ASSUME NEW d \in SUBSET D, \A c \in SUBSET d : c # d => c \in T PROVE d \in T
    <2> SUFFICES ASSUME NEW y \in d PROVE g[d] = f[y] + g[d \ {y}]
      OBVIOUS
    <2> DEFINE p == Pick(d)
    <2>1. p \in d /\ p \in D /\ g[d] = f[p] + g[d \ {p}]
      BY <1>1 DEF IsTotal
    <2> HIDE DEF p
    <2>2. CASE p = y
      BY <2>1, <2>2
    <2>3. CASE p # y
      <3> DEFINE q == d \ {p}
                 r == d \ {y}
                 s == d \ {p, y}
      <3>1. q \in T /\ r \in T /\ y \in q /\ p \in r
        BY <1>2, <2>1, <2>3
      <3>2. q \ {y} = s /\ r \ {p} = s /\ s \in SUBSET D
        OBVIOUS
      <3>3. g[q] = f[y] + g[s] /\ g[r] = f[p] + g[s]
        BY <3>1, <3>2
      <3>4. g[s] \in Int /\ f[p] \in Int /\ f[y] \in Int
        BY <1>1, <2>1, <3>2 DEF IsTotal
      <3>5. QED
        BY <2>1, <3>3, <3>4
    <2>4. QED
      BY <2>2, <2>3
  <1> HIDE DEF T
  <1>3. SmallerFirst(T, D)
    BY <1>2 DEF SmallerFirst
  <1>4. D \in T
    BY <1>3, AllSmaller
  <1>5. QED
    BY <1>1, <1>4 DEF T, IsTotal

(* A sum without what some places had: e is f but for S, where it is zero.  *)
LEMMA TotalWithout ==
  ASSUME NEW D, IsFiniteSet(D), NEW f, \A y \in D : f[y] \in Int, NEW S \in SUBSET D,
         NEW e, \A y \in D : e[y] = IF y \in S THEN 0 ELSE f[y]
  PROVE  Total(e, D) = Total(f, D) - Total(f, S)
  <1>1. PICK g : IsTotal(g, f, D)
    BY TotalSteps
  <1>2. PICK h : IsTotal(h, e, D)
    BY TotalSteps
  <1> DEFINE T == {d \in SUBSET D : h[d] = g[d] - g[d \cap S]}
             C == [d \in SUBSET D |-> Pick(d)]
  <1>3. {} \in T
    <2>1. {} \cap S = {}
      OBVIOUS
    <2>2. QED
      BY <1>1, <1>2, <2>1 DEF IsTotal
  <1>4. ASSUME NEW d \in SUBSET D, d # {}
        PROVE  C[d] \in d /\ (d \ {C[d]} \in T => d \in T)
    <2> DEFINE p == Pick(d)
               r == d \ {p}
    <2>1. /\ p \in d /\ p \in D /\ C[d] = p /\ r \in SUBSET D /\ r \cap S \in SUBSET D
          /\ g[d] = f[p] + g[r] /\ h[d] = e[p] + h[r]
          /\ g[r] \in Int /\ h[r] \in Int /\ f[p] \in Int /\ e[p] \in Int
          /\ g[r \cap S] \in Int
      BY <1>1, <1>2, <1>4 DEF IsTotal
    <2>2. g[d \cap S] = (IF p \in S THEN f[p] ELSE 0) + g[r \cap S]
      <3>1. CASE p \in S
        <4> DEFINE c == d \cap S
        <4>1. /\ c \in SUBSET D /\ p \in c /\ c \ {p} = r \cap S /\ IsFiniteSet(c)
              /\ \A y \in c : f[y] \in Int
          BY <2>1, <3>1, FS_Subset
        <4> HIDE DEF c, p, r
        <4>2. Total(f, c) = f[p] + Total(f, c \ {p})
          BY <4>1, TotalTake
        <4>3. QED
          <5>1. g[c] = Total(f, c) /\ g[c \ {p}] = Total(f, c \ {p})
            BY <1>1, <4>1 DEF IsTotal
          <5>2. g[c] = f[p] + g[r \cap S]
            BY <4>1, <4>2, <5>1
          <5>3. QED
            BY <3>1, <5>2 DEF c
      <3>2. CASE p \notin S
        <4>1. d \cap S = r \cap S
          BY <2>1, <3>2
        <4>2. g[d \cap S] = g[r \cap S] /\ g[r \cap S] \in Int
          BY <2>1, <4>1
        <4> HIDE DEF p, r
        <4>3. QED
          BY <3>2, <4>2
      <3>3. QED
        BY <3>1, <3>2
    <2>3. e[p] = IF p \in S THEN 0 ELSE f[p]
      BY <2>1
    <2> HIDE DEF p, C
    <2>4. ASSUME r \in T PROVE d \in T
      <3>1. h[r] = g[r] - g[r \cap S]
        BY <2>4
      <3>2. h[d] = g[d] - g[d \cap S]
        BY <2>1, <2>2, <2>3, <3>1
      <3>3. QED
        BY <3>2
    <2>5. QED
      BY <2>1, <2>4
  <1> HIDE DEF T, C
  <1>5. Inductive(T, D, C)
    BY <1>3, <1>4 DEF Inductive
  <1>6. D \in T
    BY <1>5, AllParts
  <1>7. D \cap S = S
    OBVIOUS
  <1>8. QED
    BY <1>1, <1>2, <1>6, <1>7 DEF T, IsTotal

-----------------------------------------------------------------------------
(* The sort.  ahead[i] holds the places ahead of place i in a strict total  *)
(* order of the places.                                                     *)
TotalOrder(ahead, n) ==
    /\ ahead \in [1..n -> SUBSET (1..n)]
    /\ \A i \in 1..n : i \notin ahead[i]
    /\ \A i, j \in 1..n : i # j => i \in ahead[j] \/ j \in ahead[i]
    /\ \A i, j, k \in 1..n : i \in ahead[j] /\ j \in ahead[k] => i \in ahead[k]

(* Every place has its turn, once, after those ahead of it: as many are     *)
(* ahead of a place as places have their turn before it.                    *)
LEMMA InTurnResult ==
  ASSUME NEW n \in Nat, NEW ahead, TotalOrder(ahead, n)
  PROVE  /\ InTurn(ahead) \in [1..n -> 1..n]
         /\ \A i \in 1..n : \E m \in 1..n : InTurn(ahead)[m] = i
         /\ \A l, m \in 1..n : l < m <=> InTurn(ahead)[l] \in ahead[InTurn(ahead)[m]]
         /\ \A l, m \in 1..n : InTurn(ahead)[l] = InTurn(ahead)[m] => l = m
  <1> USE DEF TotalOrder
  <1> DEFINE p == InTurn(ahead)
             turn == [i \in 1..n |-> Cardinality(ahead[i]) + 1]
  <1>1. IsFiniteSet(1..n) /\ Cardinality(1..n) = n
    BY FS_Interval
  <1>2. \A i \in 1..n : IsFiniteSet(ahead[i]) /\ Cardinality(ahead[i]) \in Nat
    BY <1>1, FS_Subset, FS_CardinalityType
  <1>3. \A i, j \in 1..n : i \in ahead[j] => Cardinality(ahead[i]) < Cardinality(ahead[j])
    <2> SUFFICES ASSUME NEW i \in 1..n, NEW j \in 1..n, i \in ahead[j]
                 PROVE  Cardinality(ahead[i]) < Cardinality(ahead[j])
      OBVIOUS
    <2>1. ahead[i] \in SUBSET ahead[j]
      OBVIOUS
    <2>2. ahead[i] # ahead[j]
      OBVIOUS
    <2>3. Cardinality(ahead[i]) <= Cardinality(ahead[j])
             /\ Cardinality(ahead[i]) # Cardinality(ahead[j])
      BY <1>2, <2>1, <2>2, FS_Subset
    <2>4. QED
      BY <1>2, <2>3
  <1>4. \A i \in 1..n : Cardinality(ahead[i]) < n
    <2> SUFFICES ASSUME NEW i \in 1..n PROVE Cardinality(ahead[i]) < n
      OBVIOUS
    <2>1. ahead[i] \in SUBSET (1..n) /\ ahead[i] # 1..n
      OBVIOUS
    <2>2. Cardinality(ahead[i]) <= n /\ Cardinality(ahead[i]) # n
      BY <1>1, <2>1, FS_Subset
    <2>3. QED
      BY <1>2, <2>2
  <1>5. turn \in [1..n -> 1..n]
    BY <1>2, <1>4
  <1>6. \A i, j \in 1..n : turn[i] = turn[j] => i = j
    BY <1>2, <1>3
  <1>7. turn \in Injection(1..n, 1..n)
    BY <1>5, <1>6 DEF Injection, IsInjective
  <1>8. turn \in Surjection(1..n, 1..n)
    BY <1>1, <1>7, FS_Injection
  <1>9. \A m \in 1..n : \E i \in 1..n : turn[i] = m
    BY <1>8 DEF Surjection
  <1>10. \A m \in 1..n : p[m] \in 1..n /\ Cardinality(ahead[p[m]]) = m - 1
    <2> SUFFICES ASSUME NEW m \in 1..n PROVE p[m] \in 1..n /\ Cardinality(ahead[p[m]]) = m - 1
      OBVIOUS
    <2>1. DOMAIN ahead = 1..n
      OBVIOUS
    <2>2. PICK i \in 1..n : turn[i] = m
      BY <1>9
    <2>3. Cardinality(ahead[i]) = m - 1
      BY <1>2, <2>2
    <2>4. p[m] = CHOOSE j \in DOMAIN ahead : Cardinality(ahead[j]) = m - 1
      BY <2>1 DEF InTurn
    <2>5. QED
      BY <2>1, <2>3, <2>4
  <1>11. p \in [1..n -> 1..n]
    <2>1. p = [m \in DOMAIN ahead |-> p[m]] /\ DOMAIN ahead = 1..n
      BY DEF InTurn
    <2> HIDE DEF p
    <2>2. QED
      BY <1>10, <2>1
  <1> HIDE DEF p
  <1>12. \A m \in 1..n : turn[p[m]] = m
    BY <1>10
  <1>13. \A i \in 1..n : \E m \in 1..n : p[m] = i
    <2> SUFFICES ASSUME NEW i \in 1..n PROVE p[turn[i]] = i /\ turn[i] \in 1..n
      OBVIOUS
    <2>1. turn[i] \in 1..n
      BY <1>5
    <2>2. p[turn[i]] \in 1..n /\ turn[p[turn[i]]] = turn[i]
      BY <1>11, <1>12, <2>1
    <2> HIDE DEF turn
    <2>3. QED
      BY <1>6, <2>1, <2>2
  <1>14. \A l, m \in 1..n : l < m <=> p[l] \in ahead[p[m]]
    <2> SUFFICES ASSUME NEW l \in 1..n, NEW m \in 1..n PROVE l < m <=> p[l] \in ahead[p[m]]
      OBVIOUS
    <2>1. p[l] \in ahead[p[m]] => l - 1 < m - 1
      BY <1>3, <1>10
    <2>2. p[m] \in ahead[p[l]] => m - 1 < l - 1
      BY <1>3, <1>10
    <2>3. l # m => p[l] # p[m]
      BY <1>12
    <2>4. l # m => p[l] \in ahead[p[m]] \/ p[m] \in ahead[p[l]]
      BY <1>11, <2>3
    <2>5. QED
      BY <2>1, <2>2, <2>4
  <1>15. QED
    BY <1>11, <1>12, <1>13, <1>14 DEF p

(* less is a strict weak order of the places 1..n.                          *)
WeakOrder(less, n) ==
    /\ \A i, j \in 1..n : <<i, j>> \in less => <<j, i>> \notin less
    /\ \A i, j, k \in 1..n : <<i, k>> \in less => <<i, j>> \in less \/ <<j, k>> \in less

(* The order of a stable sort.                                              *)
StableAhead(less, n) ==
    [i \in 1..n |-> {j \in 1..n : <<j, i>> \in less \/ (<<i, j>> \notin less /\ j < i)}]

(* t is s in the order of less, the others keep theirs: p tells where the   *)
(* elements of t stand in s.                                                *)
SortedBy(p, t, s, less) ==
    /\ Len(t) = Len(s)
    /\ p \in [1..Len(s) -> 1..Len(s)]
    /\ \A m \in 1..Len(s) : t[m] = s[p[m]]
    /\ \A i \in 1..Len(s) : \E m \in 1..Len(s) : p[m] = i
    /\ \A l, m \in 1..Len(s) : p[l] = p[m] => l = m
    /\ \A l, m \in 1..Len(s) :
          l < m <=> <<p[l], p[m]>> \in less \/ (<<p[m], p[l]>> \notin less /\ p[l] < p[m])

LEMMA SortResult ==
  ASSUME NEW X, NEW s \in Seq(X), NEW less, WeakOrder(less, Len(s))
  PROVE  LET t == [m \in 1..Len(s) |-> s[InTurn(StableAhead(less, Len(s)))[m]]]
         IN  t \in Seq(X) /\ \E p : SortedBy(p, t, s, less)
  <1> DEFINE n == Len(s)
             ahead == StableAhead(less, n)
             p == InTurn(ahead)
             t == [m \in 1..n |-> s[p[m]]]
  <1>1. n \in Nat /\ s \in [1..n -> X]
    OBVIOUS
  <1> HIDE DEF n
  <1>2. /\ ahead \in [1..n -> SUBSET (1..n)]
        /\ \A i, j \in 1..n : j \in ahead[i] <=>
              <<j, i>> \in less \/ (<<i, j>> \notin less /\ j < i)
    BY DEF StableAhead
  <1> HIDE DEF ahead
  <1>3. TotalOrder(ahead, n)
    <2>0. WeakOrder(less, n)
      BY DEF n
    <2> USE DEF WeakOrder
    <2>1. ASSUME NEW i \in 1..n PROVE i \notin ahead[i]
      <3>1. i \in Int /\ ~(i < i)
        BY <1>1
      <3>2. <<i, i>> \notin less
        BY <2>0
      <3>3. QED
        BY <1>2, <3>1, <3>2
    <2>2. ASSUME NEW i \in 1..n, NEW j \in 1..n, i # j
          PROVE  i \in ahead[j] \/ j \in ahead[i]
      <3>1. i < j \/ j < i
        BY <1>1, <2>2
      <3>2. QED
        BY <1>2, <2>0, <3>1
    <2>3. ASSUME NEW i \in 1..n, NEW j \in 1..n, NEW k \in 1..n,
                 i \in ahead[j], j \in ahead[k]
          PROVE  i \in ahead[k]
      <3>1. <<k, i>> \notin less
        BY <1>2, <2>0, <2>3
      <3>2. <<i, j>> \in less \/ <<j, k>> \in less => <<i, k>> \in less
        BY <1>2, <2>0, <2>3
      <3>3. i < j /\ j < k => i < k
        BY <1>1
      <3>4. QED
        BY <1>2, <2>3, <3>1, <3>2, <3>3
    <2>4. QED
      BY <1>2, <2>1, <2>2, <2>3 DEF TotalOrder
  <1>4. /\ p \in [1..n -> 1..n]
        /\ \A i \in 1..n : \E m \in 1..n : p[m] = i
        /\ \A l, m \in 1..n : l < m <=> p[l] \in ahead[p[m]]
        /\ \A l, m \in 1..n : p[l] = p[m] => l = m
    BY <1>1, <1>3, InTurnResult
  <1> HIDE DEF p
  <1>5. t \in Seq(X) /\ Len(t) = n
    <2>1. t \in [1..n -> X]
      BY <1>1, <1>4
    <2>2. QED
      BY <1>1, <2>1, SeqDef
  <1>6. \A m \in 1..n : t[m] = s[p[m]]
    OBVIOUS
  <1> HIDE DEF t
  <1>7. SortedBy(p, t, s, less)
    BY <1>2, <1>4, <1>5, <1>6 DEF SortedBy, n
  <1>8. QED
    BY <1>5, <1>7 DEF t, p, ahead, n

-----------------------------------------------------------------------------
(* FoldLeft over a list of n elements, where F holds what is made of a      *)
(* place and of what was there before it.                                   *)
FoldsOver(n, A, base, F) ==
    /\ n \in Nat /\ base \in A
    /\ \A x \in 1..n, a \in A : F[<<x, a>>] \in A

IsLeftFold(g, n, A, base, F) ==
    /\ g \in [SUBSET (1..n) -> A]
    /\ \A d \in SUBSET (1..n) :
          g[d] = IF d = {} THEN base ELSE F[<<Max(d), g[d \ {Max(d)}]>>]

FoldsOn(k, n, A, base, F) ==
    /\ k[{}] = base
    /\ \A d \in SUBSET (1..n) : d # {} /\ k[d \ {Max(d)}] \in A =>
          k[d] = F[<<Max(d), k[d \ {Max(d)}]>>]

IsHistory(h, n, A, base, F) ==
    /\ h \in [0..n -> A] /\ h[0] = base
    /\ \A m \in 1..n : h[m] = F[<<m, h[m - 1]>>]

(* What the definition of the fold chooses exists.                          *)
LEMMA LeftFoldExists ==
  ASSUME NEW n, NEW A, NEW base, NEW F, FoldsOver(n, A, base, F)
  PROVE  \E g : IsLeftFold(g, n, A, base, F)
  <1> DEFINE D == 1..n
             C == [d \in SUBSET D |-> Max(d)]
  <1>1. n \in Nat /\ IsFiniteSet(D)
    BY FS_Interval DEF FoldsOver
  <1>2. \A d \in SUBSET D : d # {} => C[d] \in d /\ C[d] = Max(d)
    BY <1>1, LastExists DEF Max
  <1> HIDE DEF C, D
  <1>3. Foldable(D, A, base, F, C)
    BY <1>1, <1>2 DEF Foldable, FoldsOver, D
  <1>4. PICK g : IsFold(g, D, A, base, F, C)
    BY <1>3, FoldExists
  <1>5. \A d \in SUBSET D :
           g[d] = IF d = {} THEN base ELSE F[<<Max(d), g[d \ {Max(d)}]>>]
    <2> SUFFICES ASSUME NEW d \in SUBSET D, d # {}
                 PROVE  g[d] = F[<<Max(d), g[d \ {Max(d)}]>>]
      BY <1>4 DEF IsFold
    <2>1. g[d] = F[<<C[d], g[d \ {C[d]}]>>] /\ C[d] = Max(d)
      BY <1>2, <1>4 DEF IsFold
    <2>2. QED
      BY <2>1
  <1>6. QED
    BY <1>4, <1>5 DEF IsFold, IsLeftFold, D

(* What it chooses goes through the list from the first place to the last.  *)
LEMMA LeftFoldSteps ==
  ASSUME NEW n, NEW A, NEW base, NEW F, FoldsOver(n, A, base, F), NEW K,
         FoldsOn(K, n, A, base, F)
  PROVE  \E h : IsHistory(h, n, A, base, F) /\ h[n] = K[1..n]
  <1> DEFINE h == [m \in 0..n |-> K[1..m]]
             T == {m \in Nat : m <= n => K[1..m] \in A}
  <1>1. n \in Nat /\ base \in A /\ 1..0 = {}
    BY DEF FoldsOver
  <1>2. ASSUME NEW m \in 1..n, K[1..(m - 1)] \in A
        PROVE  K[1..m] = F[<<m, K[1..(m - 1)]>>] /\ K[1..m] \in A
    <2>1. m \in Nat /\ m \in 1..m /\ 1..m \in SUBSET (1..n)
      BY <1>1
    <2>2. Max(1..m) = m
      <3>1. \A y \in 1..m : m >= y
        BY <1>1
      <3>2. \A x \in 1..m : (\A y \in 1..m : x >= y) => x = m
        BY <2>1
      <3>3. QED
        BY <2>1, <3>1, <3>2 DEF Max
    <2>3. (1..m) \ {m} = 1..(m - 1)
      BY <1>1
    <2>4. K[1..m] = F[<<m, K[1..(m - 1)]>>]
      BY <1>2, <2>1, <2>2, <2>3 DEF FoldsOn
    <2>5. QED
      BY <1>2, <2>4 DEF FoldsOver
  <1>3. 0 \in T
    BY <1>1 DEF FoldsOn
  <1>4. ASSUME NEW m \in Nat, m \in T PROVE m + 1 \in T
    <2> SUFFICES ASSUME m + 1 <= n PROVE K[1..(m + 1)] \in A
      OBVIOUS
    <2>1. m + 1 \in 1..n /\ (m + 1) - 1 = m /\ m <= n
      BY <1>1
    <2>2. K[1..m] \in A
      BY <1>4, <2>1
    <2>3. QED
      BY <1>2, <2>1, <2>2
  <1> HIDE DEF T
  <1>5. Nat \subseteq T
    BY <1>3, <1>4, AllNumbers
  <1>6. \A m \in 0..n : K[1..m] \in A
    BY <1>1, <1>5 DEF T
  <1>7. \A m \in 1..n : m \in 0..n /\ m - 1 \in 0..n
    BY <1>1
  <1>8. \A m \in 1..n : h[m] = F[<<m, h[m - 1]>>]
    BY <1>2, <1>6, <1>7
  <1>9. h \in [0..n -> A] /\ h[0] = base /\ h[n] = K[1..n]
    BY <1>1, <1>6 DEF FoldsOn
  <1> HIDE DEF h
  <1>10. QED
    BY <1>8, <1>9 DEF IsHistory
===============================================================================
