----------------------------- MODULE Fat12Proofs -----------------------------
(***************************************************************************)
(* FAT12's three invariants, for drives, directories and files of any      *)
(* size.  The provers have no induction over data, but every set of        *)
(* numbers has a least element: what holds along a chain is shown for the  *)
(* least position at which it could fail.                                  *)
(***************************************************************************)
EXTENDS Fat12, FiniteSetTheorems, WellFoundedInduction, TLAPS

------------------------------------------------------------------------------
(* Numbers.                                                                *)

\* A search upwards that can succeed stops at a first success.
LEMMA LeastNat ==
  ASSUME NEW S, S \subseteq Nat, S # {}
  PROVE  \E x \in S : \A y \in S : x <= y
  <1>1. PICK x \in S : \A y \in S : ~ (<<y, x>> \in OpToRel(<, Nat))
    BY NatLessThanWellFounded, WFMin, Zenon
  <1>2. \A y \in S : ~ (y < x)
    BY <1>1 DEF OpToRel
  <1> QED
    BY <1>2

\* A remainder is less than its modulus.
LEMMA ModRange ==
  ASSUME NEW x \in Int, NEW m \in Nat \ {0}
  PROVE  x % m \in 0..(m - 1)
  OBVIOUS

\* A quotient is at most its dividend.
LEMMA DivRange ==
  ASSUME NEW x \in Nat, NEW m \in Nat \ {0}
  PROVE  x \div m \in 0..x
  OBVIOUS

\* A number is its quotient times the modulus, and its remainder.
LEMMA ModDivision ==
  ASSUME NEW x \in Int, NEW m \in Nat \ {0}
  PROVE  x \div m \in Int /\ x = m * (x \div m) + (x % m)
  OBVIOUS

------------------------------------------------------------------------------
(* Chains.                                                                 *)

\* The numbers of the clusters are apart from the marks for free and last.
LEMMA Geometry ==
  /\ Clusters \subseteq Entries /\ Entries \subseteq 0..EOC /\ EOC \in 0..EOC /\ EOC \notin Clusters
  /\ 0 \notin Clusters /\ Clusters \subseteq Nat /\ Entries \subseteq Nat
  /\ max_clusters \in Nat /\ EOC \in Nat /\ 0 \in Entries /\ 1 \in Entries /\ EOC # 0
  BY Fat12Assumption DEF Clusters, Entries, EOC

\* Chain is the function its recursion describes.
LEMMA ChainRecursion ==
  ASSUME NEW fat, NEW c, NEW n \in Nat
  PROVE  Chain(fat, c, n) = [k \in 1..n |->
           IF k = 1 THEN c
           ELSE IF Chain(fat, c, n)[k - 1] \in Clusters THEN fat[Chain(fat, c, n)[k - 1]] ELSE 0]
  <1> DEFINE Follows(w) == IF w \in Clusters THEN fat[w] ELSE 0
             Def(w, m) == w = [k \in 1..m |-> IF k = 1 THEN c ELSE Follows(w[k - 1])]
             Bad == {m \in 0..n : ~ \E w : Def(w, m)}
  <1>1. Bad = {}
    <2>1. ASSUME Bad # {} PROVE FALSE
      <3>0. Bad \subseteq Nat
        OBVIOUS
      <3> HIDE DEF Bad
      <3>1. PICK m \in Bad : \A y \in Bad : m <= y
        BY <2>1, <3>0, LeastNat
      <3>2. m \in 0..n /\ ~ \E w : Def(w, m)
        BY <3>1 DEF Bad
      <3>3. m # 0
        <4>1. ASSUME m = 0 PROVE FALSE
          <5> DEFINE u == [k \in 1..m |-> c]
          <5>1. u = [k \in 1..m |-> IF k = 1 THEN c ELSE Follows(u[k - 1])]
            BY <4>1
          <5> QED
            BY <3>2, <5>1
        <4> QED
          BY <4>1
      <3>4. m - 1 \in 0..n /\ m - 1 \notin Bad
        BY <3>0, <3>1, <3>2, <3>3
      <3>5. PICK w : Def(w, m - 1)
        BY <3>4 DEF Bad
      <3> HIDE DEF Follows
      <3> DEFINE v == [k \in 1..m |-> IF k < m THEN w[k] ELSE IF m = 1 THEN c ELSE Follows(w[m - 1])]
      <3>6. \A k \in 1..m : v[k] = IF k = 1 THEN c ELSE Follows(v[k - 1])
        <4> SUFFICES ASSUME NEW k \in 1..m
                     PROVE  v[k] = IF k = 1 THEN c ELSE Follows(v[k - 1])
          OBVIOUS
        <4>1. CASE k < m
          <5>1. k \in 1..(m - 1) /\ v[k] = w[k]
            BY <4>1, <3>2
          <5>2. w[k] = IF k = 1 THEN c ELSE Follows(w[k - 1])
            BY <5>1, <3>5
          <5>3. k # 1 => v[k - 1] = w[k - 1]
            BY <4>1, <3>2
          <5> QED
            BY <5>1, <5>2, <5>3
        <4>2. CASE k = m
          <5>1. k # 1 => v[k - 1] = w[k - 1]
            BY <4>2, <3>2
          <5>2. v[k] = IF m = 1 THEN c ELSE Follows(w[m - 1])
            BY <4>2
          <5> QED
            BY <4>2, <5>1, <5>2
        <4> QED
          BY <4>1, <4>2, <3>2
      <3>7. v = [k \in 1..m |-> v[k]]
        OBVIOUS
      <3> HIDE DEF v
      <3>8. Def(v, m)
        BY <3>6, <3>7
      <3> QED
        BY <3>2, <3>8
    <2> QED
      BY <2>1
  <1>2. \E w : Def(w, n)
    BY <1>1
  <1>3. Chain(fat, c, n) = CHOOSE w : Def(w, n)
    BY DEF Chain
  <1> HIDE DEF Def
  <1>4. Def(Chain(fat, c, n), n)
    BY <1>2, <1>3
  <1> QED
    BY <1>4 DEF Def

\* The first cluster is the given one, and a cluster's entry names the one after it.
LEMMA ChainStep ==
  ASSUME NEW fat, NEW c, NEW n \in Nat
  PROVE  /\ DOMAIN Chain(fat, c, n) = 1..n
         /\ n # 0 => Chain(fat, c, n)[1] = c
         /\ \A k \in 1..n : k # 1 =>
              Chain(fat, c, n)[k] = IF Chain(fat, c, n)[k - 1] \in Clusters
                                      THEN fat[Chain(fat, c, n)[k - 1]] ELSE 0
  <1> DEFINE w == Chain(fat, c, n)
  <1>1. w = [k \in 1..n |-> IF k = 1 THEN c ELSE IF w[k - 1] \in Clusters THEN fat[w[k - 1]] ELSE 0]
    BY ChainRecursion
  <1> HIDE DEF w
  <1>2. DOMAIN w = 1..n /\ \A k \in 1..n : w[k] = IF k = 1 THEN c
                              ELSE IF w[k - 1] \in Clusters THEN fat[w[k - 1]] ELSE 0
    BY <1>1
  <1>3. DOMAIN w = 1..n /\ (n # 0 => w[1] = c)
        /\ \A k \in 1..n : k # 1 => w[k] = IF w[k - 1] \in Clusters THEN fat[w[k - 1]] ELSE 0
    BY <1>2
  <1> QED
    BY <1>3 DEF w

\* A chain of n clusters from c that ends in an end mark.
SoundChain(fat, c, n) ==
  /\ \A k \in 1..n : Chain(fat, c, n)[k] \in Clusters
  /\ fat[Chain(fat, c, n)[n]] = EOC

\* The links of a sound chain: the next cluster, and the end mark at the end.  Nowhere is
\* the entry of one of its clusters the mark of a free cluster.
LEMMA SoundLinks ==
  ASSUME NEW fat, NEW c, NEW n \in Nat \ {0}, SoundChain(fat, c, n), NEW k \in 1..n
  PROVE  /\ Chain(fat, c, n)[k] \in Clusters
         /\ fat[Chain(fat, c, n)[k]] = IF k = n THEN EOC ELSE Chain(fat, c, n)[k + 1]
         /\ fat[Chain(fat, c, n)[k]] # 0
  <1> DEFINE w == Chain(fat, c, n)
  <1>1. \A j \in 1..n : j # 1 => w[j] = IF w[j - 1] \in Clusters THEN fat[w[j - 1]] ELSE 0
    BY ChainStep
  <1>2. \A j \in 1..n : w[j] \in Clusters
    BY DEF SoundChain
  <1>3. fat[w[n]] = EOC
    BY DEF SoundChain
  <1> HIDE DEF w
  <1>4. CASE k = n
    BY <1>2, <1>3, <1>4, Geometry DEF w
  <1>5. CASE k # n
    <2>1. k + 1 \in 1..n /\ k + 1 # 1 /\ (k + 1) - 1 = k
      BY <1>5
    <2>2. w[k + 1] = fat[w[k]] /\ w[k + 1] \in Clusters
      BY <1>1, <1>2, <2>1
    <2> QED
      BY <1>2, <1>5, <2>2, Geometry DEF w
  <1> QED
    BY <1>4, <1>5

\* A sound chain is the same in a table that has the same entries for its clusters.
LEMMA ChainFrame ==
  ASSUME NEW fat, NEW fat2, NEW c, NEW n \in Nat \ {0}, SoundChain(fat, c, n),
         \A k \in 1..n : fat2[Chain(fat, c, n)[k]] = fat[Chain(fat, c, n)[k]]
  PROVE  Chain(fat2, c, n) = Chain(fat, c, n) /\ SoundChain(fat2, c, n)
  <1> DEFINE w == Chain(fat, c, n)
             u == Chain(fat2, c, n)
             Bad == {k \in 1..n : u[k] # w[k]}
  <1>1. /\ DOMAIN w = 1..n /\ w[1] = c
        /\ \A j \in 1..n : j # 1 => w[j] = IF w[j - 1] \in Clusters THEN fat[w[j - 1]] ELSE 0
    BY ChainStep
  <1>2. /\ DOMAIN u = 1..n /\ u[1] = c
        /\ \A j \in 1..n : j # 1 => u[j] = IF u[j - 1] \in Clusters THEN fat2[u[j - 1]] ELSE 0
    BY ChainStep
  <1>3. \A k \in 1..n : fat2[w[k]] = fat[w[k]]
    OBVIOUS
  <1>4. w = [k \in 1..n |-> w[k]] /\ u = [k \in 1..n |-> u[k]]
    BY ChainRecursion
  <1>5. (\A j \in 1..n : w[j] \in Clusters) /\ fat[w[n]] = EOC
    BY DEF SoundChain
  <1> HIDE DEF w, u
  <1>6. Bad = {}
    <2>1. ASSUME Bad # {} PROVE FALSE
      <3>0. Bad \subseteq Nat
        OBVIOUS
      <3>1. PICK m \in Bad : \A y \in Bad : m <= y
        BY <2>1, <3>0, LeastNat, Zenon
      <3>2. m # 1
        BY <1>1, <1>2
      <3>3. m - 1 \in 1..n /\ m - 1 \notin Bad
        BY <3>1, <3>2
      <3> QED
        BY <1>1, <1>2, <1>3, <3>2, <3>3
    <2> QED
      BY <2>1
  <1>7. u = w
    BY <1>4, <1>6
  <1>8. n \in 1..n
    OBVIOUS
  <1>9. Chain(fat2, c, n) = w
    BY <1>7 DEF u
  <1> QED
    BY <1>3, <1>5, <1>8, <1>9 DEF SoundChain, w

------------------------------------------------------------------------------
(* The free clusters in ascending order: how many are below one.           *)

Rank(S, c) == Cardinality({d \in S : d < c})

\* What there is of clusters is finite.
LEMMA ClustersFinite ==
  ASSUME NEW S, S \subseteq Clusters
  PROVE  IsFiniteSet(S) /\ Cardinality(S) \in Nat
  <1>1. IsFiniteSet(Clusters)
    BY FS_Interval, Geometry DEF Clusters
  <1>2. IsFiniteSet(S)
    BY <1>1, FS_Subset
  <1> QED
    BY <1>2, FS_CardinalityType

\* Ranks are below the number of clusters, and ascend.
LEMMA RankMono ==
  ASSUME NEW S, S \subseteq Clusters, NEW c \in S
  PROVE  /\ Rank(S, c) \in Nat /\ Rank(S, c) < Cardinality(S)
         /\ \A d \in S : c < d => Rank(S, c) < Rank(S, d)
  <1> DEFINE B(x) == {d \in S : d < x}
  <1>0. S \subseteq Nat /\ Cardinality(S) \in Nat
    BY Geometry, ClustersFinite
  <1>1. IsFiniteSet(B(c)) /\ Rank(S, c) \in Nat /\ Rank(S, c) = Cardinality(B(c))
    BY ClustersFinite DEF Rank
  <1>2. c \notin B(c)
    BY <1>0
  <1>3. IsFiniteSet(B(c) \cup {c}) /\ Cardinality(B(c) \cup {c}) = Rank(S, c) + 1
    BY <1>1, <1>2, FS_AddElement
  <1>4. Rank(S, c) < Cardinality(S)
    <2>1. B(c) \cup {c} \subseteq S
      OBVIOUS
    <2>2. Cardinality(B(c) \cup {c}) <= Cardinality(S)
      BY <2>1, FS_Subset, ClustersFinite
    <2> QED
      BY <1>0, <1>1, <1>3, <2>2
  <1>5. ASSUME NEW d \in S, c < d PROVE Rank(S, c) < Rank(S, d)
    <2>1. B(c) \cup {c} \subseteq B(d)
      <3>1. \A x \in S : x \in Nat
        BY <1>0
      <3>2. \A x \in S : x < c => x < d
        BY <1>5, <3>1
      <3> QED
        BY <1>5, <3>2
    <2>2. IsFiniteSet(B(d)) /\ Rank(S, d) = Cardinality(B(d)) /\ Rank(S, d) \in Nat
      BY ClustersFinite DEF Rank
    <2>3. Cardinality(B(c) \cup {c}) <= Cardinality(B(d))
      BY <2>1, <2>2, FS_Subset
    <2> QED
      BY <1>1, <1>3, <2>2, <2>3
  <1> QED
    BY <1>1, <1>4, <1>5

\* Two clusters of the same rank are one.
LEMMA RankInjective ==
  ASSUME NEW S, S \subseteq Clusters, NEW c \in S, NEW d \in S, Rank(S, c) = Rank(S, d)
  PROVE  c = d
  <1>1. c \in Nat /\ d \in Nat /\ Rank(S, c) \in Nat /\ Rank(S, d) \in Nat
    BY Geometry, RankMono
  <1>2. c < d => Rank(S, c) < Rank(S, d)
    BY RankMono
  <1>3. d < c => Rank(S, d) < Rank(S, c)
    BY RankMono
  <1> QED
    BY <1>1, <1>2, <1>3

\* The least has rank 0.
LEMMA RankLeast ==
  ASSUME NEW S, S \subseteq Clusters, NEW c \in S, \A d \in S : c <= d
  PROVE  Rank(S, c) = 0
  <1>1. \A d \in S : d \in Nat /\ ~ (d < c)
    BY Geometry
  <1>2. {d \in S : d < c} = {}
    BY <1>1
  <1> QED
    BY <1>2, FS_EmptySet DEF Rank

\* The one after a cluster has the next rank.
LEMMA RankNext ==
  ASSUME NEW S, S \subseteq Clusters, NEW c \in S, NEW d \in S, d > c,
         \A x \in S : x > c => d <= x
  PROVE  Rank(S, d) = Rank(S, c) + 1
  <1> DEFINE B(x) == {e \in S : e < x}
  <1>0. S \subseteq Nat
    BY Geometry
  <1>1. IsFiniteSet(B(c)) /\ Rank(S, c) = Cardinality(B(c)) /\ Rank(S, d) = Cardinality(B(d))
    BY ClustersFinite DEF Rank
  <1>2. c \notin B(c) /\ B(d) = B(c) \cup {c}
    <2>1. \A x \in S : x \in Nat
      BY <1>0
    <2>2. \A x \in S : (x < d <=> x < c \/ x = c)
      BY <2>1
    <2>3. ~ (c < c)
      BY <2>1
    <2> QED
      BY <2>2, <2>3
  <1> QED
    BY <1>1, <1>2, FS_AddElement

\* There is one after it when its rank is not the last.
LEMMA RankMore ==
  ASSUME NEW S, S \subseteq Clusters, NEW c \in S, Rank(S, c) + 1 < Cardinality(S)
  PROVE  \E d \in S : d > c /\ \A x \in S : x > c => d <= x
  <1> DEFINE B == {e \in S : e < c}
             A == {e \in S : e > c}
  <1>0. S \subseteq Nat /\ A \subseteq Nat
    BY Geometry
  <1>1. A # {}
    <2>1. ASSUME A = {} PROVE FALSE
      <3>0. \A x \in S : x \in Nat /\ ~ (x > c)
        BY <1>0, <2>1
      <3>1. S = B \cup {c} /\ c \notin B
        <4>1. \A x \in S : x < c \/ x = c
          BY <3>0
        <4>2. ~ (c < c)
          BY <3>0
        <4> QED
          BY <4>1, <4>2
      <3>2. IsFiniteSet(B) /\ Rank(S, c) = Cardinality(B) /\ Rank(S, c) \in Nat
        BY ClustersFinite DEF Rank
      <3>3. Cardinality(S) = Rank(S, c) + 1
        BY <3>1, <3>2, FS_AddElement
      <3> QED
        BY <3>2, <3>3
    <2> QED
      BY <2>1
  <1>2. PICK d \in A : \A x \in A : d <= x
    BY <1>0, <1>1, LeastNat
  <1> QED
    BY <1>2

------------------------------------------------------------------------------
(* What fat12_alloc_clusters makes in memory.                              *)

LowestOf(S) == CHOOSE c \in S : \A d \in S : c <= d

\* The n lowest free clusters are those of rank below n; the first has rank 0.
LEMMA LowestFirst ==
  ASSUME NEW free, free \subseteq Clusters, NEW n \in Nat \ {0}, n <= Cardinality(free),
         NEW S, S = Lowest(free, n), NEW first, first = LowestOf(S)
  PROVE  first \in S /\ Rank(free, first) = 0
  <1>0. free \subseteq Nat /\ Cardinality(free) \in Nat
    BY Geometry, ClustersFinite
  <1>1. S = {c \in free : Rank(free, c) < n}
    BY DEF Lowest, Rank
  <1>2. free # {}
    BY <1>0, FS_EmptySet
  <1>3. PICK m \in free : \A d \in free : m <= d
    BY <1>0, <1>2, LeastNat
  <1>4. Rank(free, m) = 0
    BY <1>3, RankLeast
  <1>5. m \in S /\ \A d \in S : m <= d
    BY <1>1, <1>3, <1>4
  <1>6. first \in S /\ \A d \in S : first <= d
    BY <1>5 DEF LowestOf
  <1>7. first \in Nat /\ m \in Nat /\ first <= m /\ m <= first
    BY <1>0, <1>1, <1>5, <1>6
  <1>8. first = m
    BY <1>7
  <1> QED
    BY <1>4, <1>6, <1>8

\* The entry made for one of them: the one of the next rank, or the end mark at rank n - 1.
LEMMA ChainedEntry ==
  ASSUME NEW fat, NEW free, free \subseteq Clusters, NEW n \in Nat \ {0}, n <= Cardinality(free),
         NEW S, S = Lowest(free, n), NEW e \in S
  PROVE  /\ Rank(free, e) + 1 < n =>
              Chained(fat, S)[e] \in S /\ Rank(free, Chained(fat, S)[e]) = Rank(free, e) + 1
         /\ Rank(free, e) + 1 = n => Chained(fat, S)[e] = EOC
         /\ Rank(free, e) + 1 <= n /\ Rank(free, e) \in Nat
  <1>0. free \subseteq Nat /\ Cardinality(free) \in Nat
    BY Geometry, ClustersFinite
  <1>1. S = {c \in free : Rank(free, c) < n}
    BY DEF Lowest, Rank
  <1>2. e \in free /\ e \in Entries /\ Rank(free, e) \in Nat
    BY <1>1, Geometry, RankMono
  <1>3. ASSUME Rank(free, e) + 1 < n
        PROVE  Chained(fat, S)[e] \in S /\ Rank(free, Chained(fat, S)[e]) = Rank(free, e) + 1
    <2>0. Rank(free, e) + 1 < Cardinality(free)
      BY <1>0, <1>2, <1>3
    <2>1. PICK d \in free : d > e /\ \A x \in free : x > e => d <= x
      BY <1>2, <2>0, RankMore, Zenon
    <2>2. Rank(free, d) = Rank(free, e) + 1
      BY <1>2, <2>1, RankNext
    <2>3. d \in S
      BY <1>1, <1>3, <2>2
    <2> DEFINE y == CHOOSE z \in S : z > e /\ \A x \in S : x > e => z <= x
    <2>4. y \in S /\ y > e /\ \A x \in S : x > e => y <= x
      BY <1>1, <2>1, <2>3
    <2>5. y \in Nat /\ d \in Nat /\ y <= d /\ d <= y
      BY <1>0, <1>1, <2>1, <2>3, <2>4
    <2>6. y = d
      BY <2>5
    <2>7. ~ \A x \in S : x <= e
      BY <1>0, <1>2, <2>1, <2>3
    <2>8. Chained(fat, S)[e] = y
      BY <1>2, <2>7 DEF Chained
    <2> QED
      BY <2>2, <2>3, <2>6, <2>8
  <1>4. ASSUME Rank(free, e) + 1 = n PROVE Chained(fat, S)[e] = EOC
    <2>1. ASSUME NEW d \in S PROVE d <= e
      <3>1. d \in free /\ d \in Nat /\ e \in Nat /\ Rank(free, d) \in Nat /\ Rank(free, d) < n
        BY <1>0, <1>1, <1>2, RankMono
      <3>2. e < d => Rank(free, e) < Rank(free, d)
        BY <1>2, <3>1, RankMono
      <3> QED
        BY <1>2, <1>4, <3>1, <3>2
    <2> QED
      BY <1>2, <2>1 DEF Chained
  <1> QED
    BY <1>1, <1>2, <1>3, <1>4

\* The walk from the first passes through them all in ascending order.
LEMMA ChainedWalk ==
  ASSUME NEW fat, NEW free, free \subseteq Clusters, NEW n \in Nat \ {0}, n <= Cardinality(free),
         NEW S, S = Lowest(free, n), NEW first, first = LowestOf(S),
         NEW w, w = Chain(Chained(fat, S), first, n)
  PROVE  \A k \in 1..n : w[k] \in S /\ Rank(free, w[k]) = k - 1
  <1> DEFINE t == Chained(fat, S)
             Bad == {k \in 1..n : ~ (w[k] \in S /\ Rank(free, w[k]) = k - 1)}
  <1>0. S \subseteq Clusters
    BY DEF Lowest
  <1>1. w[1] = first /\ \A k \in 1..n : k # 1 => w[k] = IF w[k - 1] \in Clusters THEN t[w[k - 1]] ELSE 0
    BY ChainStep
  <1>2. first \in S /\ Rank(free, first) = 0
    BY LowestFirst
  <1>3. ASSUME Bad # {} PROVE FALSE
    <2>0. Bad \subseteq Nat
      OBVIOUS
    <2>1. PICK m \in Bad : \A y \in Bad : m <= y
      BY <1>3, <2>0, LeastNat, Zenon
    <2>2. m \in 1..n /\ m # 1
      <3>1. w[1] \in S /\ Rank(free, w[1]) = 1 - 1
        BY <1>1, <1>2
      <3>2. m \in 1..n /\ ~ (w[m] \in S /\ Rank(free, w[m]) = m - 1)
        BY <2>1
      <3> HIDE DEF Bad
      <3> QED
        BY <3>1, <3>2
    <2>3. m - 1 \in 1..n /\ m - 1 \notin Bad
      BY <2>1, <2>2
    <2>4. w[m - 1] \in S /\ Rank(free, w[m - 1]) = (m - 1) - 1
      BY <2>3
    <2>5. w[m] = t[w[m - 1]]
      BY <1>0, <1>1, <2>2, <2>4
    <2>6. Rank(free, w[m - 1]) + 1 < n /\ Rank(free, w[m - 1]) + 1 = m - 1
      BY <2>2, <2>4
    <2>7. t[w[m - 1]] \in S /\ Rank(free, t[w[m - 1]]) = Rank(free, w[m - 1]) + 1
      BY <2>4, <2>6, ChainedEntry
    <2> QED
      BY <2>1, <2>5, <2>6, <2>7
  <1> HIDE DEF Bad
  <1>4. Bad = {}
    BY <1>3
  <1> QED
    BY <1>4 DEF Bad

\* The chain in memory is sound and ascending, has exactly the free clusters that were
\* taken, and is all that the table in memory has over the one on the disk.
LEMMA NewChainMade ==
  ASSUME NEW fat \in [Entries -> 0..EOC], NEW n \in Nat \ {0},
         NEW free, free = FreeClusters(fat), n <= Cardinality(free),
         NEW S, S = Lowest(free, n),
         NEW first, first = LowestOf(S),
         NEW t, t = Chained(fat, S), NEW w, w = Chain(t, first, n)
  PROVE  /\ S \subseteq free /\ first \in Entries /\ t \in [Entries -> 0..EOC]
         /\ SoundChain(t, first, n)
         /\ \A j, k \in 1..n : j < k => w[j] < w[k]
         /\ {w[k] : k \in 1..n} = S
         /\ \A e \in Entries : e \notin S => t[e] = fat[e]
         /\ \A e \in S : t[e] # 0 /\ fat[e] = 0
  <1>0. free \subseteq Clusters /\ free \subseteq Nat /\ \A c \in free : fat[c] = 0
    BY Geometry DEF FreeClusters
  <1>1. S = {c \in free : Rank(free, c) < n}
    BY DEF Lowest, Rank
  <1>2. first \in S
    BY <1>0, LowestFirst
  <1>3. \A k \in 1..n : w[k] \in S /\ Rank(free, w[k]) = k - 1
    BY <1>0, ChainedWalk
  <1>4. ASSUME NEW e \in S
        PROVE  /\ Rank(free, e) \in 0..(n - 1)
               /\ Rank(free, e) + 1 < n => t[e] \in S
               /\ Rank(free, e) + 1 = n => t[e] = EOC
    <2>1. /\ Rank(free, e) + 1 < n =>
               Chained(fat, S)[e] \in S /\ Rank(free, Chained(fat, S)[e]) = Rank(free, e) + 1
          /\ Rank(free, e) + 1 = n => Chained(fat, S)[e] = EOC
          /\ Rank(free, e) + 1 <= n /\ Rank(free, e) \in Nat
      BY <1>0, ChainedEntry
    <2>2. Rank(free, e) \in 0..(n - 1)
      BY <2>1
    <2> QED
      BY <2>1, <2>2
  <1>5. \A e \in S : t[e] \in Clusters \cup {EOC}
    <2> SUFFICES ASSUME NEW e \in S PROVE t[e] \in Clusters \cup {EOC}
      OBVIOUS
    <2>1. Rank(free, e) + 1 < n \/ Rank(free, e) + 1 = n
      BY <1>4
    <2> QED
      BY <1>0, <1>1, <1>4, <2>1
  <1>6. \A e \in Entries : e \notin S => t[e] = fat[e]
    BY DEF Chained
  <1>7. \A e \in S : t[e] # 0 /\ fat[e] = 0
    BY <1>0, <1>1, <1>5, Geometry
  <1>8. t \in [Entries -> 0..EOC]
    <2>1. \A e \in Entries : t[e] \in 0..EOC
      BY <1>5, <1>6, Geometry
    <2>2. t = [e \in Entries |-> t[e]]
      BY DEF Chained
    <2> QED
      BY <2>1, <2>2
  <1>9. SoundChain(t, first, n)
    <2>1. n \in 1..n /\ (n - 1) + 1 = n
      OBVIOUS
    <2>2. t[w[n]] = EOC
      BY <1>3, <1>4, <2>1
    <2> QED
      BY <1>0, <1>1, <1>3, <2>2 DEF SoundChain
  <1>10. ASSUME NEW j \in 1..n, NEW k \in 1..n, j < k PROVE w[j] < w[k]
    <2>1. w[j] \in free /\ w[k] \in free /\ w[j] \in Nat /\ w[k] \in Nat
          /\ Rank(free, w[j]) = j - 1 /\ Rank(free, w[k]) = k - 1
      BY <1>0, <1>1, <1>3
    <2>2. w[k] < w[j] => Rank(free, w[k]) < Rank(free, w[j])
      BY <1>0, <2>1, RankMono
    <2>3. w[k] # w[j]
      BY <1>10, <2>1
    <2> QED
      BY <1>10, <2>1, <2>2, <2>3
  <1>11. {w[k] : k \in 1..n} = S
    <2>1. ASSUME NEW c \in S PROVE \E k \in 1..n : c = w[k]
      <3>1. Rank(free, c) + 1 \in 1..n /\ Rank(free, c) \in Nat
        BY <1>4
      <3>2. PICK k \in 1..n : k = Rank(free, c) + 1
        BY <3>1
      <3>3. w[k] \in free /\ c \in free /\ Rank(free, w[k]) = Rank(free, c)
        BY <1>1, <1>3, <3>1, <3>2
      <3>4. w[k] = c
        BY <1>0, <3>3, RankInjective
      <3> QED
        BY <3>4
    <2> QED
      BY <1>3, <2>1
  <1>12. S \subseteq free /\ first \in Entries
    BY <1>0, <1>1, <1>2, Geometry
  <1> QED
    BY <1>6, <1>7, <1>8, <1>9, <1>10, <1>11, <1>12

------------------------------------------------------------------------------
(* The sectors of the tables.                                              *)

\* A product bounds the quotient.
LEMMA DivBelow ==
  ASSUME NEW x \in Nat, NEW m \in Nat \ {0}, NEW q \in Nat, x < q * m
  PROVE  x \div m \in 0..(q - 1)
  <1> DEFINE d == x \div m
             r == x % m
  <1>1. d \in Nat /\ r \in Nat /\ x = m * d + r
    BY ModDivision, ModRange, DivRange
  <1> HIDE DEF d, r
  <1>2. ASSUME d >= q PROVE FALSE
    <2>1. PICK g \in Nat : d = q + g
      BY <1>1, <1>2
    <2>2. m * d = q * m + m * g /\ m * g \in Nat
      BY <2>1
    <2>3. q * m \in Nat /\ m * d \in Nat
      BY <1>1
    <2> QED
      BY <1>1, <2>2, <2>3
  <1>3. d < q
    BY <1>1, <1>2
  <1>4. d \in 0..(q - 1)
    BY <1>1, <1>3
  <1> QED
    BY <1>4 DEF d

\* Each table has at least one sector.
LEMMA FatSize == fat_size_16 \in Nat \ {0}
  <1> DEFINE b == bytes_per_sector \div 2 + num_fats
             x == total_sectors - (reserved_sector_count + root_dir_sectors)
             y == root_entry_count * ENTRY_SIZE + bytes_per_sector - 1
  <1>1. /\ bytes_per_sector \in Nat \ {0} /\ total_sectors \in Nat
        /\ root_entry_count \in Nat /\ ENTRY_SIZE \in Nat
    BY Fat12Assumption
  <1>2. y \in Int
    BY <1>1
  <1>3. y \div bytes_per_sector \in Int
    BY <1>1, <1>2, ModDivision
  <1>4. root_dir_sectors \in Int
    BY <1>3 DEF root_dir_sectors, ceil
  <1>5. b \in Nat \ {0}
    BY <1>1 DEF num_fats
  <1>6. x \in Int /\ x + b - 1 \in Int
    BY <1>1, <1>4, <1>5 DEF reserved_sector_count
  <1>7. (x + b - 1) \div b \in Int
    BY <1>5, <1>6, ModDivision
  <1>8. fat_size_16 = IF (x + b - 1) \div b < 1 THEN 1 ELSE (x + b - 1) \div b
    BY DEF fat_size_16, ceil
  <1> HIDE DEF b, x
  <1> QED
    BY <1>7, <1>8

\* Every entry is in one of them.
LEMMA SectorRange ==
  ASSUME NEW e \in Entries
  PROVE  SectorOf(e) \in 0..(fat_size_16 - 1)
  <1> DEFINE F == fat_size_16
             B == bytes_per_sector
             P == fat_size_16 * bytes_per_sector
  <1>1. F \in Nat \ {0} /\ B \in Nat \ {0} /\ P \in Nat
    BY FatSize, Fat12Assumption
  <1>2. max_clusters <= (P * 2) \div 3
    BY <1>1, Fat12Assumption DEF max_clusters
  <1>3. e \in Nat /\ e < max_clusters /\ max_clusters \in Nat
    BY Geometry DEF Entries
  <1> HIDE DEF P
  <1>4. 3 * ((P * 2) \div 3) <= P * 2 /\ (P * 2) \div 3 \in Nat
    BY <1>1
  <1>5. 2 * (e \div 2) <= e /\ e \div 2 \in Nat
    BY <1>3
  <1>6. e + e \div 2 \in Nat /\ e + e \div 2 < P
    BY <1>1, <1>2, <1>3, <1>4, <1>5
  <1>7. e + e \div 2 < F * B
    BY <1>6 DEF P
  <1> HIDE DEF F, B
  <1>8. (e + e \div 2) \div B \in 0..(F - 1)
    BY <1>1, <1>6, <1>7, DivBelow
  <1> QED
    BY <1>8 DEF SectorOf, F, B

\* The writes go through the first table, then through the second.
LEMMA CopyOf ==
  ASSUME NEW i \in 0..(fat_writes - 1)
  PROVE  /\ i < fat_size_16 => copy(i) = 1 /\ i % fat_size_16 = i
         /\ i >= fat_size_16 => copy(i) = 2 /\ i % fat_size_16 = i - fat_size_16
         /\ i \in Nat /\ copy(i) \in 1..num_fats
  <1> DEFINE F == fat_size_16
             q == i \div F
             r == i % F
  <1>1. F \in Nat \ {0} /\ i \in Nat /\ i < 2 * F
    BY FatSize DEF fat_writes, num_fats
  <1>2. q \in Int /\ r \in 0..(F - 1) /\ i = F * q + r
    BY <1>1, ModDivision, ModRange
  <1>3. q \in 0..1
    BY <1>1, DivBelow
  <1>4. copy(i) = q + 1
    BY DEF copy
  <1> HIDE DEF q, r
  <1>5. i < F => q = 0 /\ r = i
    BY <1>1, <1>2, <1>3
  <1>6. i >= F => q = 1 /\ r = i - F
    BY <1>1, <1>2, <1>3
  <1> QED
    BY <1>1, <1>3, <1>4, <1>5, <1>6 DEF r, num_fats

------------------------------------------------------------------------------
(* The inductive invariant.                                                *)

Walk(s) == Chain(fats[1], root[s].first, root[s].size)

\* The chain of the file that is being written.
NewChain == Chain(job.fat, job.first, job.size)
NewClusters == {NewChain[k] : k \in 1..job.size}

UsedClusters(fat) == {c \in Clusters : fat[c] # 0}
AllFiles == UNION {FileClusters(s) : s \in UsedSlots}

Writing == pc \in {"alloc", "dir", "clusters", "fat"}
Idling == pc \in {"idle", "format_boot", "fat_init"}

Jobs ==
  [name : Names \cup {None}, content : Contents \cup {None}, size : {0} \cup Spans,
   first : Entries, fat : [Entries -> 0..EOC], cluster : Entries, k : Nat,
   i : 0..(fat_writes - 1), fresh : BOOLEAN, refused : BOOLEAN]

TypesInv ==
  /\ TypeOK
  /\ job \in Jobs
  /\ \A s \in UsedSlots : root[s].name \in Names /\ root[s].size \in Spans

\* Every entry of the directory has its chain, and no two files share a cluster.
FilesInv ==
  /\ \A s \in UsedSlots : SoundChain(fats[1], root[s].first, root[s].size)
  /\ \A s, t \in UsedSlots : s # t => FileClusters(s) \cap FileClusters(t) = {}

\* The chain in memory is sound and ascending.
NewInv ==
  Writing =>
    /\ boot /\ job.name \in Names /\ job.size \in Spans
    /\ SoundChain(job.fat, job.first, job.size)
    /\ \A j, k \in 1..job.size : j < k => NewChain[j] < NewChain[k]

\* While the tables are written for the first time the first one lacks nothing but new
\* links, and what has been passed is written.
AllocInv ==
  pc = "alloc" =>
    /\ \A e \in Entries : fats[1][e] = job.fat[e] \/ fats[1][e] = 0
    /\ \A f \in 1..num_fats, e \in Entries :
         (f - 1) * fat_size_16 + SectorOf(e) < job.i => fats[f][e] = job.fat[e]

\* Until the entry is made no file has the new clusters.
ApartInv ==
  pc \in {"alloc", "dir"} => \A s \in UsedSlots : FileClusters(s) \cap NewClusters = {}

\* After the first pass the tables are those in memory.
WrittenInv ==
  /\ pc \in {"dir", "clusters", "fat"} => fats[1] = job.fat /\ fats[2] = job.fat
  /\ pc = "dir" => free_slots # {}
  /\ Idling /\ ~torn => \A c \in Clusters : fats[1][c] = fats[2][c]

\* The entry of the file that is being written is in slot s.
EntryAt(s) ==
  /\ root[s] = [name |-> job.name, first |-> job.first, size |-> job.size]
  /\ \A t \in Slots : t < s => root[t].name # None
  /\ job.fresh => \A t \in Slots : t # s => root[t].name # job.name
  /\ done[job.name] # None => \E t \in Slots : t < s /\ root[t].name = job.name

OnDisk(k) == NewChain[k] \in OnDrive /\ data[NewChain[k]] = <<job.content, k>>

\* The clusters up to the one it is at are on the drive.
EntryInv ==
  /\ pc \in {"clusters", "fat"} => \E s \in Slots : EntryAt(s)
  /\ pc = "clusters" =>
       /\ job.k \in 1..job.size /\ job.cluster = NewChain[job.k]
       /\ \A j \in 1..job.size : j < job.k => OnDisk(j)
  /\ pc = "fat" /\ ~job.refused => \A j \in 1..job.size : OnDisk(j)

\* Slot s is the first with name n, no free one is before it, and the file's clusters hold
\* what was written.
HoldsDone(s, n) ==
  /\ root[s].name = n
  /\ \A t \in Slots : t < s => root[t].name \notin {n, None}
  /\ \A k \in 1..root[s].size : Walk(s)[k] \in OnDrive
  /\ done[n] = [k \in 1..root[s].size |-> data[Walk(s)[k]]]

DoneInv == \A n \in Names : done[n] # None => boot /\ \E s \in Slots : HoldsDone(s, n)

\* No cluster is marked used without belonging to a file.
LostInv ==
  ~lost =>
    /\ pc \in {"alloc", "dir"} => UsedClusters(job.fat) = AllFiles \cup NewClusters
    /\ pc \notin {"alloc", "dir"} => UsedClusters(fats[1]) = AllFiles

FatInv ==
  /\ TypesInv /\ FilesInv /\ NewInv /\ AllocInv /\ ApartInv
  /\ WrittenInv /\ EntryInv /\ DoneInv /\ LostInv

\* A size that uint16_t holds is given as many clusters as the loops go over, at least one.
LEMMA SpanFacts ==
  ASSUME NEW z \in Sizes
  PROVE  /\ clusters_needed(z) = clusters_spanned(z)
         /\ clusters_spanned(z) \in Nat \ {0}
  <1> DEFINE b == bytes_per_sector
             x == z + b - 1
             q == x \div b
  <1>1. z \in Nat \ {0} /\ b \in Nat \ {0} /\ CLUSTER_COUNTS \in Nat \ {0} /\ x \in Nat /\ x >= b
    BY Fat12Assumption
  <1>2. q \in Int /\ x = b * q + (x % b) /\ x % b \in 0..(b - 1) /\ q \in 0..x
    <2>1. x \in Int
      BY <1>1
    <2> HIDE DEF x
    <2> QED
      BY <1>1, <2>1, ModDivision, ModRange, DivRange
  <1>3. q # 0
    <2>1. q = 0 => b * q = 0
      BY <1>1
    <2> QED
      BY <1>1, <1>2, <2>1
  <1>4. q = clusters_spanned(z) /\ q < CLUSTER_COUNTS
    BY Fat12Assumption DEF clusters_spanned, ceil
  <1> HIDE DEF q
  <1>5. q \in Nat \ {0}
    BY <1>1, <1>2, <1>3
  <1>6. q % CLUSTER_COUNTS = q
    BY <1>1, <1>4, <1>5
  <1>7. clusters_needed(z) = IF q % CLUSTER_COUNTS = 0 THEN 1 ELSE q % CLUSTER_COUNTS
    BY DEF clusters_needed, q
  <1> QED
    BY <1>4, <1>5, <1>6, <1>7

\* The counts of clusters a directory entry stands for.
LEMMA SpanSizes == Spans \subseteq Nat \ {0}
  BY SpanFacts DEF Spans

\* The numbers of an entry in use.
LEMMA UsedFacts ==
  ASSUME TypesInv, NEW s \in UsedSlots
  PROVE  /\ s \in Slots /\ root[s].size \in Nat \ {0} /\ root[s].size \in Spans
         /\ root[s].name \in Names /\ root[s].name # None /\ root[s].first \in Entries
  BY SpanSizes, Fat12Assumption DEF TypesInv, TypeOK, UsedSlots

\* A slot with a name is in use.
LEMMA NamedIsUsed ==
  ASSUME NEW s \in Slots, root[s].name # None
  PROVE  s \in UsedSlots
  BY DEF UsedSlots, FreeSlot

\* A file's clusters are those along its chain.
LEMMA WalkFacts ==
  ASSUME TypesInv, FilesInv, NEW s \in UsedSlots
  PROVE  /\ FileClusters(s) = {Walk(s)[k] : k \in 1..root[s].size}
         /\ \A k \in 1..root[s].size :
              Walk(s)[k] \in Clusters /\ Walk(s)[k] \in Entries /\ fats[1][Walk(s)[k]] # 0
         /\ fats[1][Walk(s)[root[s].size]] = EOC
  <1>1. root[s].size \in Nat \ {0}
    BY UsedFacts
  <1>2. SoundChain(fats[1], root[s].first, root[s].size)
    BY DEF FilesInv
  <1>3. DOMAIN Walk(s) = 1..root[s].size
    BY <1>1, ChainStep DEF Walk
  <1>4. \A k \in 1..root[s].size : Walk(s)[k] \in Clusters /\ fats[1][Walk(s)[k]] # 0
    BY <1>1, <1>2, SoundLinks DEF Walk
  <1>5. FileClusters(s) = {Walk(s)[k] : k \in 1..root[s].size}
    BY <1>3 DEF FileClusters, Walk
  <1> QED
    BY <1>2, <1>4, <1>5, Geometry DEF SoundChain, Walk

\* The files stay as they are when the directory does and the first table keeps the
\* entries of their clusters.
LEMMA FilesKept ==
  ASSUME TypesInv, FilesInv, root' = root,
         \A s \in UsedSlots : \A k \in 1..root[s].size :
           fats'[1][Walk(s)[k]] = fats[1][Walk(s)[k]]
  PROVE  /\ FilesInv' /\ UsedSlots' = UsedSlots /\ AllFiles' = AllFiles
         /\ \A s \in UsedSlots : Walk(s)' = Walk(s) /\ FileClusters(s)' = FileClusters(s)
  <1>1. UsedSlots' = UsedSlots
    BY DEF UsedSlots
  <1>2. ASSUME NEW s \in UsedSlots
        PROVE  /\ Walk(s)' = Walk(s) /\ FileClusters(s)' = FileClusters(s)
               /\ SoundChain(fats'[1], root'[s].first, root'[s].size)
    <2>1. root[s].size \in Nat \ {0}
      BY UsedFacts
    <2>2. SoundChain(fats[1], root[s].first, root[s].size)
      BY DEF FilesInv
    <2>3. \A k \in 1..root[s].size :
            fats'[1][Chain(fats[1], root[s].first, root[s].size)[k]]
              = fats[1][Chain(fats[1], root[s].first, root[s].size)[k]]
      BY DEF Walk
    <2>4. /\ Chain(fats'[1], root[s].first, root[s].size) = Chain(fats[1], root[s].first, root[s].size)
          /\ SoundChain(fats'[1], root[s].first, root[s].size)
      BY <2>1, <2>2, <2>3, ChainFrame
    <2> QED
      BY <2>4 DEF Walk, FileClusters
  <1>3. AllFiles' = AllFiles
    BY <1>1, <1>2 DEF AllFiles
  <1>4. FilesInv'
    BY <1>1, <1>2 DEF FilesInv
  <1> QED
    BY <1>1, <1>2, <1>3, <1>4

\* What was written stays so when the slots up to its own, its chain and its clusters do.
LEMMA HoldsKept ==
  ASSUME NEW s \in Slots, NEW n \in Names, HoldsDone(s, n), done'[n] = done[n],
         \A t \in Slots : t <= s => root'[t] = root[t], Walk(s)' = Walk(s),
         \A k \in 1..root[s].size : data'[Walk(s)[k]] = data[Walk(s)[k]]
  PROVE  HoldsDone(s, n)'
  <1>1. root'[s] = root[s] /\ \A t \in Slots : t < s => root'[t] = root[t]
    BY Fat12Assumption DEF Slots
  <1>2. [k \in 1..root[s].size |-> data[Walk(s)[k]]] = [k \in 1..root'[s].size |-> data'[Walk(s)'[k]]]
    BY <1>1
  <1> QED
    BY <1>1, <1>2 DEF HoldsDone

\* What was written stays readable while its chain and its data stay.
LEMMA DoneKept ==
  ASSUME TypesInv, DoneInv, UNCHANGED <<root, data, done>>, boot => boot',
         \A s \in UsedSlots : Walk(s)' = Walk(s)
  PROVE  DoneInv'
  <1> SUFFICES ASSUME NEW n \in Names, done'[n] # None
               PROVE  boot' /\ \E s \in Slots : HoldsDone(s, n)'
    BY DEF DoneInv
  <1>1. PICK s \in Slots : HoldsDone(s, n)
    BY DEF DoneInv
  <1>2. s \in UsedSlots
    BY <1>1, NamedIsUsed, Fat12Assumption DEF HoldsDone
  <1>3. HoldsDone(s, n)'
    BY <1>1, <1>2, HoldsKept
  <1> QED
    BY <1>3 DEF DoneInv

------------------------------------------------------------------------------
(* Formatting, and what leaves the disk alone.                             *)

\* An empty table and no job are what their types say.
LEMMA ZeroTypes ==
  Zero \in [Entries -> 0..EOC] /\ NoJob \in Jobs
  <1>1. Zero \in [Entries -> 0..EOC]
    BY Geometry DEF Zero
  <1>2. 0 \in 0..(fat_writes - 1)
    BY FatSize DEF fat_writes, num_fats
  <1> QED
    BY <1>1, <1>2, Geometry DEF NoJob, Jobs

\* A drive of zeros.
Blank ==
  /\ fats = [f \in 1..num_fats |-> Zero] /\ root = [s \in Slots |-> FreeSlot]
  /\ data = [c \in OnDrive |-> ZeroCluster] /\ done = [n \in Names |-> None]
  /\ boot = FALSE /\ pc \in {"idle", "format_boot"} /\ lost = FALSE /\ torn = FALSE
  /\ job \in Jobs

\* A drive never formatted holds nothing to be wrong about.
LEMMA BlankDrive == Blank => FatInv
  <1> SUFFICES ASSUME Blank PROVE FatInv
    OBVIOUS
  <1>1. UsedSlots = {}
    BY DEF UsedSlots, Blank
  <1>2. TypesInv
    <2>1. fats \in [1..num_fats -> [Entries -> 0..EOC]]
      BY ZeroTypes DEF Blank
    <2>2. root \in [Slots -> [name : Names \cup {None}, first : Entries, size : {0} \cup Spans]]
      BY Geometry DEF FreeSlot, Blank
    <2>3. job.i \in 0..(num_fats * fat_size_16 - 1)
      BY DEF fat_writes, Blank, Jobs
    <2> QED
      BY <1>1, <2>1, <2>2, <2>3 DEF TypesInv, TypeOK, Blank
  <1>3. FilesInv /\ NewInv /\ AllocInv /\ ApartInv /\ EntryInv
    BY <1>1 DEF FilesInv, NewInv, AllocInv, ApartInv, EntryInv, Writing, Blank
  <1>4. DoneInv
    BY DEF DoneInv, Blank
  <1>5. fats[1] = Zero /\ fats[2] = Zero /\ \A c \in Clusters : Zero[c] = 0
    BY Geometry DEF num_fats, Zero, Blank
  <1>6. WrittenInv
    BY <1>5 DEF WrittenInv, Blank
  <1>7. LostInv
    <2>1. AllFiles = {}
      BY <1>1 DEF AllFiles
    <2>2. UsedClusters(fats[1]) = {}
      BY <1>5 DEF UsedClusters
    <2> QED
      BY <2>1, <2>2 DEF LostInv, Blank
  <1> QED
    BY <1>2, <1>3, <1>4, <1>6, <1>7 DEF FatInv

\* Initially.
LEMMA FatInit == Init => FatInv
  BY BlankDrive, ZeroTypes DEF Init, Blank

\* Zeroing the drive leaves it blank.
LEMMA FormatZeroKeeps == FatInv /\ format_zero => FatInv'
  <1>1. FatInv /\ format_zero => Blank'
    BY DEF format_zero, Blank, FatInv, TypesInv
  <1> QED
    BY <1>1, BlankDrive, PTL

\* What the invariant says of the disk and its history when no file is being written.
Quiet ==
  TypesInv /\ FilesInv /\ WrittenInv /\ DoneInv /\ LostInv /\ Idling

\* Between calls, the parts about a call in progress hold of themselves.
LEMMA QuietSuffices == Quiet => FatInv
  BY DEF Quiet, FatInv, Idling, NewInv, AllocInv, ApartInv, EntryInv, Writing

\* The boot sector makes a blank drive a file system.
LEMMA FormatBootKeeps == FatInv /\ format_boot => FatInv'
  <1>1. SUFFICES ASSUME FatInv, format_boot PROVE Quiet'
    BY QuietSuffices, PTL
  <1>2. UNCHANGED <<fats, root, data, job, done, lost, torn>> /\ boot' = TRUE /\ pc = "format_boot" /\ pc' = "fat_init"
    BY <1>1 DEF format_boot, history
  <1>3. TypesInv'
    BY <1>1, <1>2 DEF FatInv, TypesInv, TypeOK, UsedSlots
  <1>4. FilesInv' /\ AllFiles' = AllFiles /\ \A s \in UsedSlots : Walk(s)' = Walk(s)
    BY <1>1, <1>2, FilesKept DEF FatInv
  <1>5. DoneInv'
    BY <1>1, <1>2, <1>4, DoneKept DEF FatInv
  <1>6. WrittenInv' /\ Idling'
    BY <1>1, <1>2 DEF FatInv, WrittenInv, Idling
  <1>7. LostInv'
    BY <1>1, <1>2, <1>4 DEF FatInv, LostInv
  <1> QED
    BY <1>3, <1>4, <1>5, <1>6, <1>7 DEF Quiet

\* The media bytes are in no cluster's entry.
LEMMA FatInitKeeps == FatInv /\ fat_init => FatInv'
  <1>1. SUFFICES ASSUME FatInv, fat_init PROVE Quiet'
    BY QuietSuffices, PTL
  <1>2. UNCHANGED <<boot, root, data, job, done, lost, torn>> /\ pc = "fat_init" /\ pc' = "idle"
        /\ fats' = [fats EXCEPT ![1][0] = EOC, ![1][1] = EOC]
    BY <1>1 DEF fat_init, history
  <1>3. fats \in [1..num_fats -> [Entries -> 0..EOC]] /\ 1 \in 1..num_fats /\ 2 \in 1..num_fats
    BY <1>1 DEF FatInv, TypesInv, TypeOK, num_fats
  <1>4. /\ fats' \in [1..num_fats -> [Entries -> 0..EOC]]
        /\ \A c \in Entries : c \notin {0, 1} => fats'[1][c] = fats[1][c]
        /\ fats'[2] = fats[2]
    BY <1>2, <1>3, Geometry
  <1>5. \A c \in Clusters : fats'[1][c] = fats[1][c]
    <2>1. \A c \in Clusters : c \in Entries /\ c \notin {0, 1}
      BY Geometry DEF Clusters
    <2> QED
      BY <1>4, <2>1
  <1>6. TypesInv'
    BY <1>1, <1>2, <1>4 DEF FatInv, TypesInv, TypeOK, UsedSlots
  <1>7. FilesInv' /\ AllFiles' = AllFiles /\ \A s \in UsedSlots : Walk(s)' = Walk(s)
    BY <1>1, <1>2, <1>5, FilesKept, WalkFacts DEF FatInv
  <1>8. DoneInv'
    BY <1>1, <1>2, <1>7, DoneKept DEF FatInv
  <1>9. WrittenInv' /\ Idling'
    BY <1>1, <1>2, <1>4, <1>5 DEF FatInv, WrittenInv, Idling
  <1>10. UsedClusters(fats[1])' = UsedClusters(fats[1])
    BY <1>5 DEF UsedClusters
  <1>11. LostInv'
    BY <1>1, <1>2, <1>7, <1>10 DEF FatInv, LostInv
  <1> QED
    BY <1>6, <1>7, <1>8, <1>9, <1>11 DEF Quiet

\* The loss of power leaves the disk as it is.
LEMMA CrashKeeps == FatInv /\ crash => FatInv'
  <1>1. SUFFICES ASSUME FatInv, crash PROVE Quiet'
    BY QuietSuffices, PTL
  <1>2. UNCHANGED <<boot, fats, root, data, done>> /\ pc' = "idle" /\ job' = NoJob
        /\ lost' = TRUE /\ torn' = TRUE
    BY <1>1 DEF crash, disk
  <1>3. TypesInv'
    <2>1. NoJob.i \in 0..(num_fats * fat_size_16 - 1)
      BY ZeroTypes DEF fat_writes, Jobs
    <2> QED
      BY <1>1, <1>2, <2>1, ZeroTypes DEF FatInv, TypesInv, TypeOK, UsedSlots
  <1>4. FilesInv' /\ \A s \in UsedSlots : Walk(s)' = Walk(s)
    BY <1>1, <1>2, FilesKept DEF FatInv
  <1>5. DoneInv'
    BY <1>1, <1>2, <1>4, DoneKept DEF FatInv
  <1>6. WrittenInv' /\ Idling' /\ LostInv'
    BY <1>2 DEF WrittenInv, Idling, LostInv
  <1> QED
    BY <1>3, <1>4, <1>5, <1>6 DEF Quiet

------------------------------------------------------------------------------
(* fat12_write_file, step by step.                                         *)

\* fat12_alloc_clusters makes a chain of free clusters in memory.
LEMMA AllocKeeps ==
  ASSUME FatInv, NEW name \in Names, NEW content \in Contents, NEW bytes \in Sizes,
         fat12_alloc_clusters(name, content, bytes)
  PROVE  FatInv'
  <1> DEFINE size == clusters_spanned(bytes)
             free == FreeClusters(fats[1])
             S    == Lowest(free, size)
             w    == Chain(job'.fat, job'.first, size)
  <1>1. /\ pc = "idle" /\ pc' = "alloc" /\ boot /\ Cardinality(free) >= size
        /\ job' = [NoJob EXCEPT !.name = name, !.content = content, !.size = size,
                                !.first = LowestOf(S), !.fat = Chained(fats[1], S)]
        /\ UNCHANGED <<boot, fats, root, data, done, lost, torn>>
    BY SpanFacts DEF fat12_alloc_clusters, LowestOf, disk, history
  <1>0. size \in Spans
    BY DEF Spans
  <1> HIDE DEF size
  <1>2. /\ job'.name = name /\ job'.size = size /\ job'.i = 0 /\ job'.first = LowestOf(S)
        /\ job'.fat = Chained(fats[1], S)
    BY <1>1 DEF NoJob
  <1>3. fats[1] \in [Entries -> 0..EOC] /\ size \in Nat \ {0}
    BY <1>0, SpanSizes DEF FatInv, TypesInv, TypeOK, num_fats
  <1>4. /\ S \subseteq free /\ job'.first \in Entries /\ job'.fat \in [Entries -> 0..EOC]
        /\ SoundChain(job'.fat, job'.first, size)
        /\ \A j, k \in 1..size : j < k => w[j] < w[k]
        /\ {w[k] : k \in 1..size} = S
        /\ \A e \in Entries : e \notin S => job'.fat[e] = fats[1][e]
        /\ \A e \in S : job'.fat[e] # 0 /\ fats[1][e] = 0
    <2>1. size <= Cardinality(free)
      <3>1. Cardinality(free) \in Nat
        BY ClustersFinite DEF FreeClusters
      <3> QED
        BY <1>1, <1>3, <3>1
    <2> HIDE DEF S, free
    <2>2. free = FreeClusters(fats[1]) /\ S = Lowest(free, size)
      BY DEF free, S
    <2> QED
      BY <1>2, <1>3, <2>1, <2>2, NewChainMade
  <1>5. NewChain' = w /\ NewClusters' = S
    BY <1>2, <1>4 DEF NewChain, NewClusters
  <1>6. FilesInv' /\ UsedSlots' = UsedSlots /\ AllFiles' = AllFiles
        /\ \A s \in UsedSlots : Walk(s)' = Walk(s) /\ FileClusters(s)' = FileClusters(s)
    BY <1>1, FilesKept DEF FatInv
  <1>7. TypesInv'
    <2>1. job' \in Jobs
      <3>0. PICK c \in Entries, t \in [Entries -> 0..EOC] : c = LowestOf(S) /\ t = Chained(fats[1], S)
        BY <1>2, <1>4
      <3>1. job' = [name |-> name, content |-> content, size |-> size, first |-> c, fat |-> t,
                    cluster |-> 0, k |-> 0, i |-> 0, fresh |-> FALSE, refused |-> FALSE]
        BY <1>1, <3>0 DEF NoJob
      <3>2. 0 \in Entries /\ 0 \in 0..(fat_writes - 1)
        BY Geometry, FatSize DEF fat_writes, num_fats
      <3> QED
        BY <1>0, <3>1, <3>2 DEF Jobs
    <2>2. job'.i \in 0..(num_fats * fat_size_16 - 1)
      BY <2>1 DEF Jobs, fat_writes
    <2> QED
      BY <1>1, <1>6, <2>1, <2>2 DEF FatInv, TypesInv, TypeOK
  <1>8. NewInv'
    BY <1>0, <1>1, <1>2, <1>4, <1>5 DEF NewInv
  <1>9. AllocInv'
    <2>1. \A e \in Entries : fats[1][e] = job'.fat[e] \/ fats[1][e] = 0
      BY <1>4
    <2>2. \A f \in 1..num_fats, e \in Entries : ~ ((f - 1) * fat_size_16 + SectorOf(e) < 0)
      BY SectorRange, FatSize DEF num_fats
    <2> QED
      BY <1>1, <1>2, <2>1, <2>2 DEF AllocInv
  <1>10. ApartInv'
    <2>1. \A s \in UsedSlots : \A c \in FileClusters(s) : fats[1][c] # 0
      BY WalkFacts DEF FatInv
    <2>2. \A s \in UsedSlots : FileClusters(s) \cap S = {}
      BY <1>4, <2>1
    <2> QED
      BY <1>5, <1>6, <2>2 DEF ApartInv
  <1>11. WrittenInv' /\ EntryInv'
    BY <1>1 DEF WrittenInv, EntryInv, Idling
  <1>12. DoneInv'
    BY <1>1, <1>6, DoneKept DEF FatInv
  <1>13. LostInv'
    <2>1. UsedClusters(job'.fat) = UsedClusters(fats[1]) \cup S
      <3>1. S \subseteq Clusters /\ Clusters \subseteq Entries
        BY <1>4, Geometry DEF FreeClusters
      <3> HIDE DEF S
      <3> QED
        BY <1>4, <3>1 DEF UsedClusters
    <2>2. ~lost => UsedClusters(fats[1]) = AllFiles
      BY <1>1 DEF FatInv, LostInv
    <2> QED
      BY <1>1, <1>5, <1>6, <2>1, <2>2 DEF LostInv
  <1> QED
    BY <1>6, <1>7, <1>8, <1>9, <1>10, <1>11, <1>12, <1>13 DEF FatInv

\* One sector of a table takes its entries from memory.
LEMMA SectorWritten ==
  ASSUME TypesInv, write_fat_sector
  PROVE  /\ fats' \in [1..num_fats -> [Entries -> 0..EOC]]
         /\ \A f \in 1..num_fats, e \in Entries :
              fats'[f][e] = IF f = copy(job.i) /\ SectorOf(e) = job.i % fat_size_16
                              THEN job.fat[e] ELSE fats[f][e]
  <1> DEFINE p == copy(job.i)
             q == job.i % fat_size_16
             row == [e \in Entries |-> IF SectorOf(e) = q THEN job.fat[e] ELSE fats[p][e]]
  <1>1. job.i \in 0..(fat_writes - 1) /\ job.fat \in [Entries -> 0..EOC]
        /\ fats \in [1..num_fats -> [Entries -> 0..EOC]]
    BY DEF TypesInv, TypeOK, Jobs
  <1>2. p \in 1..num_fats
    BY <1>1, CopyOf
  <1>3. fats' = [fats EXCEPT ![p] = row]
    BY DEF write_fat_sector
  <1> HIDE DEF p, q
  <1>4. row \in [Entries -> 0..EOC] /\ \A e \in Entries : row[e] = IF SectorOf(e) = q THEN job.fat[e] ELSE fats[p][e]
    BY <1>1, <1>2
  <1> HIDE DEF row
  <1>5. fats' \in [1..num_fats -> [Entries -> 0..EOC]]
        /\ \A f \in 1..num_fats : fats'[f] = IF f = p THEN row ELSE fats[f]
    BY <1>1, <1>2, <1>3, <1>4
  <1>6. \A f \in 1..num_fats, e \in Entries :
          fats'[f][e] = IF f = p /\ SectorOf(e) = q THEN job.fat[e] ELSE fats[f][e]
    BY <1>4, <1>5
  <1> QED
    BY <1>5, <1>6 DEF p, q

\* What has been passed is written; after the last sector the tables are those in memory.
LEMMA PassProgress ==
  ASSUME TypesInv, write_fat_sector,
         \A f \in 1..num_fats, e \in Entries :
           (f - 1) * fat_size_16 + SectorOf(e) < job.i => fats[f][e] = job.fat[e]
  PROVE  /\ \A f \in 1..num_fats, e \in Entries :
              (f - 1) * fat_size_16 + SectorOf(e) < job.i + 1 => fats'[f][e] = job.fat[e]
         /\ ~ (job.i + 1 < fat_writes) => fats'[1] = job.fat /\ fats'[2] = job.fat
  <1> DEFINE F == fat_size_16
             i == job.i
  <1>1. F \in Nat \ {0} /\ i \in Nat /\ i < 2 * F /\ i \in 0..(fat_writes - 1) /\ fat_writes = 2 * F
    BY FatSize DEF TypesInv, Jobs, fat_writes, num_fats
  <1>2. /\ fats' \in [1..num_fats -> [Entries -> 0..EOC]]
        /\ \A f \in 1..num_fats, e \in Entries :
              fats'[f][e] = IF f = copy(i) /\ SectorOf(e) = i % F THEN job.fat[e] ELSE fats[f][e]
    BY SectorWritten
  <1>3. /\ i < F => copy(i) = 1 /\ i % F = i
        /\ i >= F => copy(i) = 2 /\ i % F = i - F
    BY <1>1, CopyOf
  <1> HIDE DEF F, i
  <1>4. ASSUME NEW f \in 1..num_fats, NEW e \in Entries, (f - 1) * F + SectorOf(e) < i + 1
        PROVE  fats'[f][e] = job.fat[e]
    <2>0. SectorOf(e) \in 0..(F - 1) /\ f \in {1, 2}
      BY SectorRange DEF F, num_fats
    <2>1. CASE (f - 1) * F + SectorOf(e) < i
      BY <1>2, <2>1 DEF F, i
    <2>2. CASE (f - 1) * F + SectorOf(e) = i
      <3>1. f = copy(i) /\ SectorOf(e) = i % F
        <4>1. CASE f = 1
          BY <1>1, <1>3, <2>0, <2>2, <4>1
        <4>2. CASE f = 2
          BY <1>1, <1>3, <2>0, <2>2, <4>2
        <4> QED
          BY <2>0, <4>1, <4>2
      <3> QED
        BY <1>2, <3>1
    <2>3. (f - 1) * F + SectorOf(e) \in Int
      BY <1>1, <2>0
    <2> QED
      BY <1>1, <1>4, <2>1, <2>2, <2>3
  <1>5. ASSUME ~ (i + 1 < fat_writes) PROVE fats'[1] = job.fat /\ fats'[2] = job.fat
    <2>1. ASSUME NEW f \in 1..num_fats PROVE fats'[f] = job.fat
      <3>1. f \in {1, 2}
        BY DEF num_fats
      <3>2. ASSUME NEW e \in Entries PROVE fats'[f][e] = job.fat[e]
        <4>1. SectorOf(e) \in 0..(F - 1)
          BY SectorRange DEF F
        <4>2. (f - 1) * F + SectorOf(e) < i + 1
          <5>1. CASE f = 1
            BY <1>1, <1>5, <4>1, <5>1
          <5>2. CASE f = 2
            BY <1>1, <1>5, <4>1, <5>2
          <5> QED
            BY <3>1, <5>1, <5>2
        <4> QED
          BY <1>4, <4>2
      <3>3. fats'[f] \in [Entries -> 0..EOC] /\ job.fat \in [Entries -> 0..EOC]
        BY <1>2 DEF TypesInv, Jobs
      <3> QED
        BY <3>2, <3>3
    <2> QED
      BY <2>1 DEF num_fats
  <1> QED
    BY <1>4, <1>5 DEF F, i

\* What is known of the job while a file is being written.
LEMMA JobFacts ==
  ASSUME TypesInv
  PROVE  /\ job \in Jobs /\ job.i \in Nat /\ job.fat \in [Entries -> 0..EOC]
         /\ fats \in [1..num_fats -> [Entries -> 0..EOC]] /\ 1 \in 1..num_fats /\ 2 \in 1..num_fats
         /\ job.i + 1 < fat_writes => [job EXCEPT !.i = @ + 1] \in Jobs
  <1>1. job \in Jobs /\ fats \in [1..num_fats -> [Entries -> 0..EOC]]
    BY DEF TypesInv, TypeOK
  <1>2. job.i \in 0..(fat_writes - 1) /\ job.fat \in [Entries -> 0..EOC]
    BY <1>1 DEF Jobs
  <1>3. fat_writes \in Nat
    BY FatSize DEF fat_writes, num_fats
  <1>4. job.i + 1 < fat_writes => job.i + 1 \in 0..(fat_writes - 1)
    BY <1>2, <1>3
  <1>5. job.i + 1 < fat_writes => [job EXCEPT !.i = @ + 1] \in Jobs
    BY <1>1, <1>4 DEF Jobs
  <1> QED
    BY <1>1, <1>2, <1>5 DEF num_fats

\* Writing the copies of the table back makes them agree.
LEMMA WriteFatKeeps ==
  ASSUME FatInv, fat12_write_fat
  PROVE  FatInv'
  <1>0. TypesInv /\ FilesInv /\ NewInv /\ AllocInv /\ ApartInv /\ WrittenInv /\ EntryInv /\ DoneInv /\ LostInv
    BY DEF FatInv
  <1>1. pc = "alloc" /\ write_fat_sector /\ UNCHANGED <<boot, root, data, done>>
    BY DEF fat12_write_fat
  <1>2. /\ \A e \in Entries : fats[1][e] = job.fat[e] \/ fats[1][e] = 0
        /\ \A f \in 1..num_fats, e \in Entries :
             (f - 1) * fat_size_16 + SectorOf(e) < job.i => fats[f][e] = job.fat[e]
    BY <1>0, <1>1 DEF AllocInv
  <1>3. /\ fats' \in [1..num_fats -> [Entries -> 0..EOC]]
        /\ \A e \in Entries : fats'[1][e] = job.fat[e] \/ fats'[1][e] = fats[1][e]
    BY <1>0, <1>1, SectorWritten, JobFacts
  <1>4. /\ \A f \in 1..num_fats, e \in Entries :
              (f - 1) * fat_size_16 + SectorOf(e) < job.i + 1 => fats'[f][e] = job.fat[e]
        /\ ~ (job.i + 1 < fat_writes) => fats'[1] = job.fat /\ fats'[2] = job.fat
    BY <1>0, <1>1, <1>2, PassProgress
  <1>5. FilesInv' /\ UsedSlots' = UsedSlots /\ AllFiles' = AllFiles
        /\ \A s \in UsedSlots : Walk(s)' = Walk(s) /\ FileClusters(s)' = FileClusters(s)
    <2>1. \A e \in Entries : fats[1][e] # 0 => fats'[1][e] = fats[1][e]
      BY <1>2, <1>3
    <2>2. \A s \in UsedSlots : \A k \in 1..root[s].size : fats'[1][Walk(s)[k]] = fats[1][Walk(s)[k]]
      BY <1>0, <2>1, WalkFacts
    <2> QED
      BY <1>0, <1>1, <2>2, FilesKept
  <1>6. DoneInv'
    BY <1>0, <1>1, <1>5, DoneKept
  <1>7. ASSUME pc' \in {"idle", "alloc", "dir"}, job' \in Jobs, lost' \in BOOLEAN, torn' \in BOOLEAN PROVE TypesInv'
    <2>1. job'.i \in 0..(num_fats * fat_size_16 - 1)
      BY <1>7 DEF Jobs, fat_writes
    <2> QED
      BY <1>0, <1>1, <1>3, <1>5, <1>7, <2>1 DEF TypesInv, TypeOK
  <1>8. CASE job.i + 1 < fat_writes
    <2>1. job' = [job EXCEPT !.i = @ + 1] /\ UNCHANGED <<pc, lost, torn>>
      BY <1>8 DEF fat12_write_fat
    <2>2. /\ job' \in Jobs /\ job'.i = job.i + 1 /\ job'.name = job.name /\ job'.size = job.size
          /\ job'.first = job.first /\ job'.fat = job.fat
      BY <1>0, <1>8, <2>1, JobFacts DEF Jobs
    <2>3. NewChain' = NewChain /\ NewClusters' = NewClusters
      BY <2>2 DEF NewChain, NewClusters
    <2>4. TypesInv'
      BY <1>0, <1>1, <1>7, <2>1, <2>2 DEF TypesInv, TypeOK
    <2>5. NewInv'
      BY <1>0, <1>1, <2>1, <2>2, <2>3 DEF NewInv, Writing
    <2>6. AllocInv'
      BY <1>2, <1>3, <1>4, <2>2 DEF AllocInv
    <2>7. ApartInv'
      BY <1>0, <1>1, <1>5, <2>3 DEF ApartInv
    <2>8. WrittenInv' /\ EntryInv'
      BY <1>1, <2>1 DEF WrittenInv, EntryInv, Idling
    <2>9. LostInv'
      BY <1>0, <1>1, <1>5, <2>1, <2>2, <2>3 DEF LostInv
    <2> QED
      BY <1>5, <1>6, <2>4, <2>5, <2>6, <2>7, <2>8, <2>9 DEF FatInv
  <1>9. CASE ~ (job.i + 1 < fat_writes) /\ free_slots # {}
    <2>1. pc' = "dir" /\ torn' = FALSE /\ UNCHANGED <<job, lost>>
      BY <1>9 DEF fat12_write_fat
    <2>2. NewChain' = NewChain /\ NewClusters' = NewClusters /\ free_slots' = free_slots
      BY <1>1, <2>1 DEF NewChain, NewClusters, free_slots
    <2>3. TypesInv'
      BY <1>0, <1>7, <2>1 DEF TypesInv, TypeOK
    <2>4. NewInv'
      BY <1>0, <1>1, <2>1, <2>2 DEF NewInv, Writing
    <2>5. AllocInv' /\ EntryInv'
      BY <2>1 DEF AllocInv, EntryInv
    <2>6. ApartInv'
      BY <1>0, <1>1, <1>5, <2>2 DEF ApartInv
    <2>7. WrittenInv'
      BY <1>4, <1>9, <2>1, <2>2 DEF WrittenInv, Idling
    <2>8. LostInv'
      BY <1>0, <1>1, <1>5, <2>1, <2>2 DEF LostInv
    <2> QED
      BY <1>5, <1>6, <2>3, <2>4, <2>5, <2>6, <2>7, <2>8 DEF FatInv
  <1>10. CASE ~ (job.i + 1 < fat_writes) /\ free_slots = {}
    <2>1. pc' = "idle" /\ job' = NoJob /\ lost' = TRUE /\ torn' = FALSE
      BY <1>10 DEF fat12_write_fat
    <2>2. TypesInv'
      BY <1>7, <2>1, ZeroTypes
    <2>3. NewInv' /\ AllocInv' /\ EntryInv' /\ ApartInv' /\ LostInv'
      BY <2>1 DEF NewInv, AllocInv, EntryInv, ApartInv, LostInv, Writing
    <2>4. WrittenInv'
      BY <1>4, <1>10, <2>1 DEF WrittenInv
    <2> QED
      BY <1>5, <1>6, <2>2, <2>3, <2>4 DEF FatInv
  <1> QED
    BY <1>8, <1>9, <1>10

\* A free slot is past every entry of which something was written.
LEMMA FreeIsPast ==
  ASSUME NEW s \in Slots, NEW n \in Names, HoldsDone(s, n), NEW j \in free_slots
  PROVE  s < j
  <1>1. root[j].name = None /\ j \in Slots
    BY DEF free_slots, FreeSlot
  <1>2. s # j /\ ~ (j < s)
    BY <1>1, Fat12Assumption DEF HoldsDone
  <1> QED
    BY <1>1, <1>2, Fat12Assumption DEF Slots

\* The directory entry names the chain made for it.
LEMMA WriteDirKeeps ==
  ASSUME FatInv, fat12_write_dir_entry
  PROVE  FatInv'
  <1>0. TypesInv /\ FilesInv /\ NewInv /\ AllocInv /\ ApartInv /\ WrittenInv /\ EntryInv /\ DoneInv /\ LostInv
    BY DEF FatInv
  <1> DEFINE entry == [name |-> job.name, first |-> job.first, size |-> job.size]
  <1>1. pc = "dir" /\ pc' = "clusters" /\ UNCHANGED <<boot, fats, data, done, lost, torn>>
    BY DEF fat12_write_dir_entry, history
  <1>2. PICK j \in free_slots : (\A t \in free_slots : j <= t) /\ root' = [root EXCEPT ![j] = entry]
    BY DEF fat12_write_dir_entry
  <1>3. job' = [job EXCEPT !.fat = fats[1], !.cluster = job.first, !.k = 1, !.i = 0,
                           !.fresh = \A s \in Slots : root[s].name # job.name]
    BY DEF fat12_write_dir_entry
  <1>4. boot /\ job.name \in Names /\ job.name # None /\ job.size \in Spans /\ job.size \in Nat \ {0}
        /\ SoundChain(job.fat, job.first, job.size) /\ fats[1] = job.fat /\ fats[2] = job.fat
    BY <1>0, <1>1, SpanSizes, Fat12Assumption DEF NewInv, Writing, WrittenInv
  <1>5. j \in Slots /\ root[j] = FreeSlot /\ root[j].name = None /\ j \notin UsedSlots
    BY DEF free_slots, FreeSlot, UsedSlots
  <1>6. root'[j] = entry /\ \A s \in Slots : s # j => root'[s] = root[s]
    BY <1>0, <1>2, <1>5 DEF TypesInv, TypeOK
  <1>7. /\ job' \in Jobs /\ job'.name = job.name /\ job'.size = job.size /\ job'.first = job.first
        /\ job'.fat = job.fat /\ job'.cluster = job.first /\ job'.k = 1 /\ job'.i = 0
        /\ job'.fresh = \A s \in Slots : root[s].name # job.name
    <2>1. job \in Jobs /\ job.first \in Entries /\ fats[1] \in [Entries -> 0..EOC]
      BY <1>0, <1>4, JobFacts DEF Jobs
    <2>2. 0 \in 0..(fat_writes - 1)
      BY FatSize DEF fat_writes, num_fats
    <2>3. PICK b \in BOOLEAN : b = \A s \in Slots : root[s].name # job.name
      OBVIOUS
    <2>4. job' = [job EXCEPT !.fat = fats[1], !.cluster = job.first, !.k = 1, !.i = 0, !.fresh = b]
      BY <1>3, <2>3
    <2> QED
      BY <1>4, <2>1, <2>2, <2>3, <2>4 DEF Jobs
  <1>8. NewChain' = NewChain /\ NewClusters' = NewClusters
    BY <1>7 DEF NewChain, NewClusters
  <1>9. DOMAIN NewChain = 1..job.size /\ NewChain[1] = job.first
    BY <1>4, ChainStep DEF NewChain
  <1>10. UsedSlots' = UsedSlots \cup {j}
    <2>1. entry # FreeSlot
      BY <1>4 DEF FreeSlot
    <2> QED
      BY <1>5, <1>6, <2>1 DEF UsedSlots
  <1>11. Walk(j)' = NewChain /\ FileClusters(j)' = NewClusters
    <2>1. Walk(j)' = NewChain
      BY <1>1, <1>4, <1>6 DEF Walk, NewChain
    <2>2. FileClusters(j)' = {NewChain[k] : k \in DOMAIN NewChain}
      BY <1>1, <1>4, <1>6 DEF FileClusters, NewChain
    <2> QED
      BY <1>9, <2>1, <2>2 DEF NewClusters
  <1>12. ASSUME NEW s \in UsedSlots
         PROVE  Walk(s)' = Walk(s) /\ FileClusters(s)' = FileClusters(s) /\ root'[s] = root[s] /\ s # j
    <2>1. s \in Slots /\ s # j
      BY <1>5 DEF UsedSlots
    <2> QED
      BY <1>1, <1>6, <2>1 DEF Walk, FileClusters
  <1>13. TypesInv'
    <2>1. root' \in [Slots -> [name : Names \cup {None}, first : Entries, size : {0} \cup Spans]]
      <3>1. job.first \in Entries
        BY <1>0, JobFacts DEF Jobs
      <3>2. entry \in [name : Names \cup {None}, first : Entries, size : {0} \cup Spans]
        BY <1>4, <3>1
      <3> HIDE DEF entry
      <3> QED
        BY <1>0, <1>2, <1>5, <3>2 DEF TypesInv, TypeOK
    <2>2. job'.i \in 0..(num_fats * fat_size_16 - 1)
      BY <1>7, FatSize DEF num_fats
    <2>3. \A s \in UsedSlots' : root'[s].name \in Names /\ root'[s].size \in Spans
      BY <1>0, <1>4, <1>6, <1>10, <1>12, UsedFacts
    <2> QED
      BY <1>0, <1>1, <1>7, <2>1, <2>2, <2>3 DEF TypesInv, TypeOK
  <1>14. FilesInv'
    <2>1. \A s \in UsedSlots : FileClusters(s) \cap NewClusters = {}
      BY <1>0, <1>1 DEF ApartInv
    <2>2. \A s \in UsedSlots' : SoundChain(fats'[1], root'[s].first, root'[s].size)
      BY <1>0, <1>1, <1>4, <1>6, <1>10, <1>12 DEF FilesInv
    <2>3. ASSUME NEW s \in UsedSlots', NEW t \in UsedSlots', s # t
          PROVE  FileClusters(s)' \cap FileClusters(t)' = {}
      <3>1. CASE s \in UsedSlots /\ t \in UsedSlots
        BY <1>0, <1>12, <2>3, <3>1 DEF FilesInv
      <3>2. CASE s = j
        BY <1>10, <1>11, <1>12, <2>1, <2>3, <3>2
      <3>3. CASE t = j
        BY <1>10, <1>11, <1>12, <2>1, <2>3, <3>3
      <3> QED
        BY <1>10, <3>1, <3>2, <3>3
    <2> QED
      BY <2>2, <2>3 DEF FilesInv
  <1>15. NewInv'
    BY <1>0, <1>1, <1>4, <1>7, <1>8 DEF NewInv, Writing
  <1>16. AllocInv' /\ ApartInv' /\ WrittenInv'
    BY <1>1, <1>4, <1>7 DEF AllocInv, ApartInv, WrittenInv, Idling
  <1>17. EntryAt(j)'
    <2>1. \A t \in Slots : t < j => root'[t].name # None
      <3> SUFFICES ASSUME NEW t \in Slots, t < j PROVE root'[t].name # None
        OBVIOUS
      <3>1. t \notin free_slots /\ t # j
        BY <1>2, <1>5, Fat12Assumption DEF Slots
      <3>2. t \in UsedSlots
        BY <3>1 DEF free_slots, UsedSlots
      <3> QED
        BY <1>0, <1>12, <3>2, UsedFacts
    <2>2. job'.fresh => \A t \in Slots : t # j => root'[t].name # job'.name
      BY <1>6, <1>7
    <2>3. done'[job'.name] # None => \E t \in Slots : t < j /\ root'[t].name = job'.name
      <3> SUFFICES ASSUME done[job.name] # None
                   PROVE  \E t \in Slots : t < j /\ root'[t].name = job.name
        BY <1>1, <1>7
      <3>1. PICK s \in Slots : HoldsDone(s, job.name)
        BY <1>0, <1>4 DEF DoneInv
      <3>2. s < j
        BY <1>4, <3>1, FreeIsPast
      <3>3. s # j
        BY <1>5, <3>2, Fat12Assumption DEF Slots
      <3> QED
        BY <1>6, <3>1, <3>2, <3>3 DEF HoldsDone
    <2> QED
      BY <1>6, <1>7, <2>1, <2>2, <2>3 DEF EntryAt
  <1>18. EntryInv'
    <2>1. job'.k \in 1..job'.size /\ job'.cluster = NewChain'[job'.k]
      BY <1>4, <1>7, <1>8, <1>9
    <2>2. \A i \in 1..job'.size : ~ (i < job'.k)
      BY <1>7
    <2>3. \E s \in Slots : EntryAt(s)'
      BY <1>5, <1>17
    <2> QED
      BY <1>1, <2>1, <2>2, <2>3 DEF EntryInv
  <1>19. DoneInv'
    <2> SUFFICES ASSUME NEW n \in Names, done'[n] # None
                 PROVE  boot' /\ \E s \in Slots : HoldsDone(s, n)'
      BY DEF DoneInv
    <2>1. PICK s \in Slots : HoldsDone(s, n)
      BY <1>0, <1>1 DEF DoneInv
    <2>2. s \in UsedSlots
      BY <2>1, NamedIsUsed, Fat12Assumption DEF HoldsDone
    <2>3. s < j
      BY <2>1, FreeIsPast
    <2>4. \A t \in Slots : t <= s => root'[t] = root[t]
      BY <1>5, <1>6, <2>3, Fat12Assumption DEF Slots
    <2>5. HoldsDone(s, n)'
      BY <1>1, <1>12, <2>1, <2>2, <2>4, HoldsKept
    <2> QED
      BY <1>1, <1>4, <2>5
  <1>20. LostInv'
    <2>1. AllFiles' = AllFiles \cup NewClusters
      BY <1>10, <1>11, <1>12 DEF AllFiles
    <2> QED
      BY <1>0, <1>1, <1>4, <2>1 DEF LostInv
  <1> QED
    BY <1>13, <1>14, <1>15, <1>16, <1>18, <1>19, <1>20 DEF FatInv

\* The slot of the file that is being written: its chain is the one in memory, and no
\* file that is read back is in it.
LEMMA EntrySlot ==
  ASSUME FatInv, pc \in {"clusters", "fat"}, NEW j \in Slots, EntryAt(j)
  PROVE  /\ j \in UsedSlots /\ Walk(j) = NewChain /\ FileClusters(j) = NewClusters
         /\ \A s \in Slots, n \in Names : HoldsDone(s, n) /\ done[n] # None => s # j
  <1>1. job.name \in Names /\ job.name # None /\ fats[1] = job.fat /\ job.size \in Nat \ {0}
    BY SpanSizes, Fat12Assumption DEF FatInv, NewInv, WrittenInv, Writing
  <1>2. root[j] = [name |-> job.name, first |-> job.first, size |-> job.size]
    BY DEF EntryAt
  <1>3. j \in UsedSlots
    BY <1>1, <1>2, NamedIsUsed
  <1>4. Walk(j) = NewChain
    BY <1>1, <1>2 DEF Walk, NewChain
  <1>5. FileClusters(j) = NewClusters
    BY <1>2, <1>3, <1>4, WalkFacts DEF FatInv, NewClusters
  <1>6. ASSUME NEW s \in Slots, NEW n \in Names, HoldsDone(s, n), done[n] # None, s = j
        PROVE  FALSE
    <2>1. n = job.name
      BY <1>2, <1>6 DEF HoldsDone
    <2>2. PICK t \in Slots : t < j /\ root[t].name = job.name
      BY <1>6, <2>1 DEF EntryAt
    <2> QED
      BY <1>6, <2>1, <2>2 DEF HoldsDone
  <1> QED
    BY <1>3, <1>4, <1>5, <1>6

\* The clusters are written along the chain, each with its own sectors.
LEMMA WriteClustersKeeps ==
  ASSUME FatInv, fat12_write_clusters
  PROVE  FatInv'
  <1>0. TypesInv /\ FilesInv /\ NewInv /\ AllocInv /\ ApartInv /\ WrittenInv /\ EntryInv /\ DoneInv /\ LostInv
    BY DEF FatInv
  <1> DEFINE c == job.cluster
  <1>1. pc = "clusters" /\ UNCHANGED <<boot, fats, root, done, lost, torn>>
    BY DEF fat12_write_clusters, history
  <1>2. PICK j \in Slots : EntryAt(j)
    BY <1>0, <1>1 DEF EntryInv
  <1>3. /\ j \in UsedSlots /\ FileClusters(j) = NewClusters
        /\ \A s \in Slots, n \in Names : HoldsDone(s, n) /\ done[n] # None => s # j
    BY <1>1, <1>2, EntrySlot
  <1>4. /\ job.size \in Nat \ {0} /\ fats[1] = job.fat /\ fats[2] = job.fat
        /\ SoundChain(job.fat, job.first, job.size)
        /\ \A i, k \in 1..job.size : i < k => NewChain[i] < NewChain[k]
    BY <1>0, <1>1, SpanSizes, Fat12Assumption DEF NewInv, WrittenInv, Writing
  <1>5. /\ job.k \in 1..job.size /\ c = NewChain[job.k]
        /\ \A i \in 1..job.size : i < job.k => OnDisk(i)
    BY <1>0, <1>1 DEF EntryInv
  <1>6. c \in NewClusters
    BY <1>5 DEF NewClusters
  <1>7. /\ c \in Clusters /\ (job.k < job.size => job.fat[c] \in Clusters /\ job.fat[c] = NewChain[job.k + 1])
        /\ (~ (job.k < job.size) => job.fat[c] = EOC)
    <2>1. /\ c \in Clusters /\ job.fat[c] = IF job.k = job.size THEN EOC ELSE NewChain[job.k + 1]
      BY <1>4, <1>5, SoundLinks DEF NewChain
    <2>2. job.k < job.size => job.k + 1 \in 1..job.size /\ job.k # job.size
      BY <1>4, <1>5
    <2>3. job.k < job.size => NewChain[job.k + 1] \in Clusters
      BY <1>4, <2>2, SoundLinks DEF NewChain
    <2>4. ~ (job.k < job.size) => job.k = job.size
      BY <1>4, <1>5
    <2> QED
      BY <2>1, <2>2, <2>3, <2>4
  <1>8. FilesInv' /\ UsedSlots' = UsedSlots /\ AllFiles' = AllFiles
        /\ \A s \in UsedSlots : Walk(s)' = Walk(s) /\ FileClusters(s)' = FileClusters(s)
    BY <1>0, <1>1, FilesKept
  <1>9. ASSUME job' \in Jobs, DOMAIN data' = OnDrive, pc' \in {"clusters", "fat"},
               job'.name = job.name, job'.content = job.content, job'.size = job.size,
               job'.first = job.first, job'.fat = job.fat, job'.fresh = job.fresh,
               \A e \in OnDrive : e # c => data'[e] = data[e]
        PROVE  /\ TypesInv' /\ NewInv' /\ AllocInv' /\ ApartInv' /\ WrittenInv' /\ DoneInv' /\ LostInv'
               /\ NewChain' = NewChain /\ \E s \in Slots : EntryAt(s)'
               /\ \A i \in 1..job.size : i < job.k => OnDisk(i)'
    <2>1. NewChain' = NewChain /\ NewClusters' = NewClusters
      BY <1>9 DEF NewChain, NewClusters
    <2>2. TypesInv'
      <3>1. job'.i \in 0..(num_fats * fat_size_16 - 1)
        BY <1>9 DEF Jobs, fat_writes
      <3> QED
        BY <1>0, <1>1, <1>8, <1>9, <3>1 DEF TypesInv, TypeOK
    <2>3. NewInv'
      BY <1>0, <1>1, <1>9, <2>1 DEF NewInv, Writing
    <2>4. AllocInv' /\ ApartInv' /\ WrittenInv' /\ LostInv'
      BY <1>0, <1>1, <1>4, <1>8, <1>9 DEF AllocInv, ApartInv, WrittenInv, LostInv, Idling
    <2>5. EntryAt(j)'
      BY <1>1, <1>2, <1>9 DEF EntryAt
    <2>6. DoneInv'
      <3> SUFFICES ASSUME NEW n \in Names, done'[n] # None
                   PROVE  boot' /\ \E s \in Slots : HoldsDone(s, n)'
        BY DEF DoneInv
      <3>1. boot /\ \E s \in Slots : HoldsDone(s, n)
        BY <1>0, <1>1 DEF DoneInv
      <3>2. PICK s \in Slots : HoldsDone(s, n)
        BY <3>1
      <3>3. s \in UsedSlots /\ s # j
        BY <1>1, <1>3, <3>2, NamedIsUsed, Fat12Assumption DEF HoldsDone
      <3>4. FileClusters(s) \cap NewClusters = {}
        BY <1>0, <1>3, <3>3 DEF FilesInv
      <3>5. \A k \in 1..root[s].size : Walk(s)[k] # c /\ Walk(s)[k] \in OnDrive
        BY <1>0, <1>6, <3>2, <3>3, <3>4, WalkFacts DEF HoldsDone
      <3>6. \A k \in 1..root[s].size : data'[Walk(s)[k]] = data[Walk(s)[k]]
        BY <1>9, <3>5
      <3>7. HoldsDone(s, n)'
        BY <1>1, <1>8, <3>2, <3>3, <3>6, HoldsKept
      <3> QED
        BY <1>1, <3>1, <3>7
    <2>7. ASSUME NEW i \in 1..job.size, i < job.k PROVE OnDisk(i)'
      <3>1. NewChain[i] # c
        <4>1. NewChain[i] < NewChain[job.k] /\ NewChain[i] \in Nat
          BY <1>4, <1>5, <2>7, SoundLinks, Geometry DEF NewChain
        <4> QED
          BY <1>5, <4>1
      <3>2. OnDisk(i)
        BY <1>5, <2>7
      <3> QED
        BY <1>9, <2>1, <3>1, <3>2 DEF OnDisk
    <2> QED
      BY <2>1, <2>2, <2>3, <2>4, <2>5, <2>6, <2>7
  <1>10. job \in Jobs /\ DOMAIN data = OnDrive
    BY <1>0 DEF TypesInv, TypeOK
  <1>11. CASE c \notin OnDrive
    <2>1. pc' = "fat" /\ job' = [job EXCEPT !.refused = TRUE] /\ data' = data
      BY <1>11 DEF fat12_write_clusters
    <2>2. /\ job' \in Jobs /\ job'.name = job.name /\ job'.content = job.content /\ job'.size = job.size
          /\ job'.first = job.first /\ job'.fat = job.fat /\ job'.fresh = job.fresh /\ job'.refused
      BY <1>10, <2>1 DEF Jobs
    <2>3. /\ TypesInv' /\ NewInv' /\ AllocInv' /\ ApartInv' /\ WrittenInv' /\ DoneInv' /\ LostInv'
          /\ \E s \in Slots : EntryAt(s)'
      BY <1>9, <1>10, <2>1, <2>2
    <2>4. EntryInv'
      BY <2>1, <2>2, <2>3 DEF EntryInv
    <2> QED
      BY <1>8, <2>3, <2>4 DEF FatInv
  <1>12. CASE c \in OnDrive /\ job.k < job.size
    <2>1. /\ data' = [data EXCEPT ![c] = <<job.content, job.k>>] /\ pc' = "clusters"
          /\ job' = [job EXCEPT !.cluster = job.fat[c], !.k = @ + 1]
      BY <1>1, <1>7, <1>12 DEF fat12_write_clusters
    <2>2. /\ job' \in Jobs /\ job'.name = job.name /\ job'.content = job.content /\ job'.size = job.size
          /\ job'.first = job.first /\ job'.fat = job.fat /\ job'.fresh = job.fresh
          /\ job'.k = job.k + 1 /\ job'.cluster = job.fat[c]
      <3>0. job.fat[c] \in Clusters
        BY <1>7, <1>12
      <3>1. job.fat[c] \in Entries
        BY <3>0, Geometry
      <3>2. job.k + 1 \in Nat
        BY <1>4, <1>5
      <3> QED
        BY <1>10, <2>1, <3>1, <3>2 DEF Jobs
    <2>3. DOMAIN data' = OnDrive /\ data'[c] = <<job.content, job.k>>
          /\ \A e \in OnDrive : e # c => data'[e] = data[e]
      BY <1>10, <1>12, <2>1
    <2>4. /\ TypesInv' /\ NewInv' /\ AllocInv' /\ ApartInv' /\ WrittenInv' /\ DoneInv' /\ LostInv'
          /\ NewChain' = NewChain /\ \E s \in Slots : EntryAt(s)'
          /\ \A i \in 1..job.size : i < job.k => OnDisk(i)'
      BY <1>9, <2>1, <2>2, <2>3
    <2>5. PICK k0 \in 1..job.size : k0 = job.k
      BY <1>5
    <2>6. OnDisk(k0)'
      <3>1. NewChain[k0] = c
        BY <1>5, <2>5
      <3> QED
        BY <1>12, <2>2, <2>3, <2>4, <2>5, <3>1 DEF OnDisk
    <2>7. EntryInv'
      <3>1. job'.k \in 1..job'.size /\ job'.cluster = NewChain'[job'.k]
        BY <1>4, <1>5, <1>7, <1>12, <2>2, <2>4
      <3>2. \A i \in 1..job.size : i < job.k + 1 => OnDisk(i)'
        <4> SUFFICES ASSUME NEW i \in 1..job.size, i < job.k + 1 PROVE OnDisk(i)'
          OBVIOUS
        <4>1. i = k0 \/ i < job.k
          BY <1>4, <1>5, <2>5
        <4> QED
          BY <2>4, <2>6, <4>1
      <3> QED
        BY <2>1, <2>2, <2>4, <3>1, <3>2 DEF EntryInv
    <2> QED
      BY <1>8, <2>4, <2>7 DEF FatInv
  <1>13. CASE c \in OnDrive /\ ~ (job.k < job.size)
    <2>1. /\ data' = [data EXCEPT ![c] = <<job.content, job.k>>] /\ pc' = "fat"
          /\ job' = [job EXCEPT !.fat[c] = EOC]
      BY <1>13 DEF fat12_write_clusters
    <2>2. job' = job
      <3>1. [job.fat EXCEPT ![c] = EOC] = job.fat
        BY <1>0, <1>7, <1>13, JobFacts
      <3> QED
        BY <1>10, <2>1, <3>1 DEF Jobs
    <2>3. DOMAIN data' = OnDrive /\ data'[c] = <<job.content, job.k>>
          /\ \A e \in OnDrive : e # c => data'[e] = data[e]
      BY <1>10, <1>13, <2>1
    <2>4. /\ TypesInv' /\ NewInv' /\ AllocInv' /\ ApartInv' /\ WrittenInv' /\ DoneInv' /\ LostInv'
          /\ NewChain' = NewChain /\ \E s \in Slots : EntryAt(s)'
          /\ \A i \in 1..job.size : i < job.k => OnDisk(i)'
      BY <1>9, <1>10, <2>1, <2>2, <2>3
    <2>5. \A i \in 1..job.size : OnDisk(i)'
      <3> SUFFICES ASSUME NEW i \in 1..job.size PROVE OnDisk(i)'
        OBVIOUS
      <3>1. CASE i = job.k
        <4>1. NewChain[i] = c
          BY <1>5, <3>1
        <4> QED
          BY <1>13, <2>2, <2>3, <2>4, <3>1, <4>1 DEF OnDisk
      <3>2. i = job.k \/ i < job.k
        BY <1>4, <1>5, <1>13
      <3> QED
        BY <2>4, <3>1, <3>2
    <2>6. EntryInv'
      BY <2>1, <2>2, <2>4, <2>5 DEF EntryInv
    <2> QED
      BY <1>8, <2>4, <2>6 DEF FatInv
  <1> QED
    BY <1>11, <1>12, <1>13

\* The second pass over the tables changes nothing in them.
LEMMA WriteFatAgainKeeps ==
  ASSUME FatInv, fat12_write_clusters_fat
  PROVE  FatInv'
  <1>0. TypesInv /\ FilesInv /\ NewInv /\ AllocInv /\ ApartInv /\ WrittenInv /\ EntryInv /\ DoneInv /\ LostInv
    BY DEF FatInv
  <1>1. pc = "fat" /\ write_fat_sector /\ UNCHANGED <<boot, root, data, lost>>
    BY DEF fat12_write_clusters_fat
  <1>2. /\ boot /\ job.name \in Names /\ job.size \in Nat \ {0}
        /\ fats[1] = job.fat /\ fats[2] = job.fat
    BY <1>0, <1>1, SpanSizes, Fat12Assumption DEF NewInv, WrittenInv, Writing
  <1>3. fats' = fats
    <2>1. /\ fats' \in [1..num_fats -> [Entries -> 0..EOC]]
          /\ \A f \in 1..num_fats, e \in Entries :
              fats'[f][e] = IF f = copy(job.i) /\ SectorOf(e) = job.i % fat_size_16
                              THEN job.fat[e] ELSE fats[f][e]
      BY <1>0, <1>1, SectorWritten
    <2>2. \A f \in 1..num_fats : fats[f] = job.fat
      BY <1>2 DEF num_fats
    <2>3. \A f \in 1..num_fats : \A e \in Entries : fats'[f][e] = fats[f][e]
      BY <2>1, <2>2
    <2>4. \A f \in 1..num_fats : fats'[f] = fats[f]
      <3> SUFFICES ASSUME NEW f \in 1..num_fats PROVE fats'[f] = fats[f]
        OBVIOUS
      <3>1. fats[f] \in [Entries -> 0..EOC] /\ fats'[f] \in [Entries -> 0..EOC]
        BY <1>0, <2>1, JobFacts
      <3> QED
        BY <2>3, <3>1
    <2>5. fats \in [1..num_fats -> [Entries -> 0..EOC]]
      BY <1>0, JobFacts
    <2>6. fats = [f \in 1..num_fats |-> fats[f]] /\ fats' = [f \in 1..num_fats |-> fats'[f]]
      BY <2>1, <2>5
    <2> QED
      BY <2>4, <2>6, Zenon
  <1>4. PICK j \in Slots : EntryAt(j)
    BY <1>0, <1>1 DEF EntryInv
  <1>5. FilesInv' /\ UsedSlots' = UsedSlots /\ AllFiles' = AllFiles
        /\ \A s \in UsedSlots : Walk(s)' = Walk(s) /\ FileClusters(s)' = FileClusters(s)
    BY <1>0, <1>1, <1>3, FilesKept
  <1>6. ASSUME pc' \in {"idle", "fat"}, job' \in Jobs, torn' \in BOOLEAN, DOMAIN done' = Names
        PROVE  TypesInv'
    <2>1. job'.i \in 0..(num_fats * fat_size_16 - 1)
      BY <1>6 DEF Jobs, fat_writes
    <2> QED
      BY <1>0, <1>1, <1>3, <1>5, <1>6, <2>1 DEF TypesInv, TypeOK
  <1>7. CASE job.i + 1 < fat_writes
    <2>1. job' = [job EXCEPT !.i = @ + 1] /\ UNCHANGED <<pc, done, torn>>
      BY <1>7 DEF fat12_write_clusters_fat
    <2>2. /\ job' \in Jobs /\ job'.name = job.name /\ job'.size = job.size /\ job'.content = job.content
          /\ job'.first = job.first /\ job'.fat = job.fat /\ job'.fresh = job.fresh /\ job'.refused = job.refused
      BY <1>0, <1>7, <2>1, JobFacts DEF Jobs
    <2>3. NewChain' = NewChain
      BY <2>2 DEF NewChain
    <2>4. TypesInv'
      BY <1>0, <1>1, <1>6, <2>1, <2>2 DEF TypesInv, TypeOK
    <2>5. NewInv'
      BY <1>0, <1>1, <2>1, <2>2, <2>3 DEF NewInv, Writing
    <2>6. AllocInv' /\ ApartInv' /\ WrittenInv' /\ LostInv'
      BY <1>0, <1>1, <1>2, <1>3, <1>5, <2>1, <2>2 DEF AllocInv, ApartInv, WrittenInv, LostInv, Idling
    <2>7. EntryInv'
      <3>1. EntryAt(j)'
        BY <1>1, <1>4, <2>1, <2>2 DEF EntryAt
      <3>2. ~job.refused => \A i \in 1..job.size : OnDisk(i)'
        BY <1>0, <1>1, <2>2, <2>3 DEF EntryInv, OnDisk
      <3> QED
        BY <1>1, <2>1, <2>2, <3>1, <3>2 DEF EntryInv
    <2>8. DoneInv'
      BY <1>0, <1>1, <1>5, <2>1, DoneKept
    <2> QED
      BY <1>5, <2>4, <2>5, <2>6, <2>7, <2>8 DEF FatInv
  <1>8. CASE ~ (job.i + 1 < fat_writes)
    <2>1. /\ pc' = "idle" /\ job' = NoJob /\ torn' = FALSE
          /\ done' = IF job.fresh /\ ~job.refused
                 THEN [done EXCEPT ![job.name] = [k \in 1..job.size |-> <<job.content, k>>]]
                 ELSE done
      BY <1>8 DEF fat12_write_clusters_fat
    <2>2. DOMAIN done = Names /\ DOMAIN done' = Names
      BY <1>0, <2>1 DEF TypesInv, TypeOK
    <2>3. TypesInv'
      BY <1>6, <2>1, <2>2, ZeroTypes
    <2>4. NewInv' /\ AllocInv' /\ ApartInv' /\ EntryInv'
      BY <2>1 DEF NewInv, AllocInv, ApartInv, EntryInv, Writing
    <2>5. WrittenInv' /\ LostInv'
      BY <1>0, <1>1, <1>2, <1>3, <1>5, <2>1 DEF WrittenInv, LostInv
    <2>6. DoneInv'
      <3> SUFFICES ASSUME NEW n \in Names, done'[n] # None
                   PROVE  boot' /\ \E s \in Slots : HoldsDone(s, n)'
        BY DEF DoneInv
      <3>1. CASE done'[n] = done[n]
        <4>1. PICK s \in Slots : HoldsDone(s, n)
          BY <1>0, <3>1 DEF DoneInv
        <4>2. s \in UsedSlots
          BY <4>1, NamedIsUsed, Fat12Assumption DEF HoldsDone
        <4>3. HoldsDone(s, n)'
          BY <1>1, <1>5, <3>1, <4>1, <4>2, HoldsKept
        <4> QED
          BY <1>1, <1>2, <4>3
      <3>2. CASE job.fresh /\ ~job.refused /\ n = job.name
        <4>1. j \in UsedSlots /\ Walk(j) = NewChain
          BY <1>1, <1>4, EntrySlot
        <4>2. root[j].name = n /\ root[j].size = job.size
          BY <1>4, <3>2 DEF EntryAt
        <4>3. \A t \in Slots : t < j => root[t].name \notin {n, None}
          BY <1>4, <3>2, Fat12Assumption DEF EntryAt, Slots
        <4>4. \A k \in 1..job.size : NewChain[k] \in OnDrive /\ data[NewChain[k]] = <<job.content, k>>
          BY <1>0, <1>1, <3>2 DEF EntryInv, OnDisk
        <4>5. done'[n] = [k \in 1..job.size |-> <<job.content, k>>]
          BY <2>1, <2>2, <3>2
        <4>6. done'[n] = [k \in 1..root[j].size |-> data[Walk(j)[k]]]
          BY <4>1, <4>2, <4>4, <4>5
        <4>7. HoldsDone(j, n)'
          BY <1>1, <1>5, <4>1, <4>2, <4>3, <4>4, <4>6 DEF HoldsDone
        <4> QED
          BY <1>1, <1>2, <4>7
      <3> QED
        BY <2>1, <2>2, <3>1, <3>2
    <2> QED
      BY <1>5, <2>3, <2>4, <2>5, <2>6 DEF FatInv
  <1> QED
    BY <1>7, <1>8

------------------------------------------------------------------------------
(* The theorems.                                                           *)

\* One case per action.
LEMMA FatStep == FatInv /\ [Next]_vars => FatInv'
  <1> SUFFICES ASSUME FatInv, [Next]_vars PROVE FatInv'
    OBVIOUS
  <1>1. CASE format_zero
    BY <1>1, FormatZeroKeeps
  <1>2. CASE format_boot
    BY <1>2, FormatBootKeeps
  <1>3. CASE fat_init
    BY <1>3, FatInitKeeps
  <1>4. CASE \E n \in Names, v \in Contents, z \in Sizes : fat12_alloc_clusters(n, v, z)
    BY <1>4, AllocKeeps
  <1>5. CASE fat12_write_fat
    BY <1>5, WriteFatKeeps
  <1>6. CASE fat12_write_dir_entry
    BY <1>6, WriteDirKeeps
  <1>7. CASE fat12_write_clusters
    BY <1>7, WriteClustersKeeps
  <1>8. CASE fat12_write_clusters_fat
    BY <1>8, WriteFatAgainKeeps
  <1>9. CASE crash
    BY <1>9, CrashKeeps
  <1>10. CASE UNCHANGED vars
    <2>1. UNCHANGED <<boot, fats, root, data, pc, job, done, lost, torn>>
      BY <1>10 DEF vars, disk, history
    <2>2. UNCHANGED <<UsedSlots, NewChain, NewClusters, free_slots, Writing, Idling, TypeOK>>
      BY <2>1 DEF UsedSlots, NewChain, NewClusters, free_slots, Writing, Idling, TypeOK
    <2>3. TypesInv' /\ NewInv' /\ AllocInv' /\ WrittenInv'
      BY <2>1, <2>2 DEF FatInv, TypesInv, NewInv, AllocInv, WrittenInv
    <2>4. /\ FilesInv' /\ AllFiles' = AllFiles
          /\ \A s \in UsedSlots : Walk(s)' = Walk(s) /\ FileClusters(s)' = FileClusters(s)
      BY <2>1, FilesKept DEF FatInv
    <2>5. DoneInv'
      BY <2>1, <2>4, DoneKept DEF FatInv
    <2>6. ApartInv' /\ LostInv'
      BY <2>1, <2>2, <2>4 DEF FatInv, ApartInv, LostInv
    <2>7. EntryInv'
      BY <2>1, <2>2 DEF FatInv, EntryInv, EntryAt, OnDisk
    <2> QED
      BY <2>3, <2>4, <2>5, <2>6, <2>7 DEF FatInv
  <1> QED
    BY <1>1, <1>2, <1>3, <1>4, <1>5, <1>6, <1>7, <1>8, <1>9, <1>10 DEF Next

\* FAT12's inductive invariant: what the table, its copy, the directory and the data are at
\* every point of every write.
THEOREM FatInvariant == Spec => []FatInv
  BY FatInit, FatStep, PTL DEF Spec

\* ChainsSound for every drive: at every moment of fat12_write_file, of formatting and of a
\* loss of power each directory entry starts a chain of its file's length that ends in an
\* end mark, no two files share a cluster, and the tables agree between operations.
THEOREM ChainsAreSound == Spec => []ChainsSound
  <1>1. FatInv => ChainsSound
    <2> SUFFICES ASSUME FatInv PROVE ChainsSound
      OBVIOUS
    <2>1. TypesInv /\ FilesInv /\ WrittenInv
      BY DEF FatInv
    <2>2. ASSUME NEW s \in UsedSlots
          PROVE  /\ \A k \in DOMAIN Walk(s) : Walk(s)[k] \in Clusters
                 /\ fats[1][Walk(s)[root[s].size]] = EOC
      <3>1. DOMAIN Walk(s) = 1..root[s].size
        BY <2>1, UsedFacts, ChainStep DEF Walk
      <3> QED
        BY <2>1, <3>1, WalkFacts
    <2> QED
      BY <2>1, <2>2 DEF ChainsSound, TypesInv, FilesInv, WrittenInv, Idling, Walk
  <1> QED
    BY <1>1, FatInvariant, PTL

\* fat12_read_file on a file whose clusters hold what was written.
LEMMA ReadsDone ==
  ASSUME FatInv, boot, NEW n \in Names, NEW s \in Slots, HoldsDone(s, n)
  PROVE  fat12_read_file(n) = done[n]
  <1>0. TypesInv /\ FilesInv
    BY DEF FatInv
  <1>1. s \in UsedSlots
    BY NamedIsUsed, Fat12Assumption DEF HoldsDone
  <1>2. s \in Nat /\ Slots \subseteq Nat
    BY Fat12Assumption DEF Slots
  <1>3. s \in found(n)
    <2>1. \A t \in 0..(s - 1) : t \in Slots /\ t < s
      BY <1>2, Fat12Assumption DEF Slots
    <2> QED
      BY <2>1 DEF HoldsDone, found
  <1>4. ASSUME NEW t \in found(n) PROVE t = s
    <2>1. /\ t \in Slots /\ t \in Nat /\ root[t].name = n
          /\ \A u \in 0..(t - 1) : root[u].name \notin {n, None}
      BY <1>2 DEF found
    <2>2. ~ (t < s)
      BY <2>1 DEF HoldsDone
    <2>3. ~ (s < t)
      <3>1. s < t => s \in 0..(t - 1)
        BY <1>2, <2>1
      <3> QED
        BY <2>1, <3>1 DEF HoldsDone
    <2> QED
      BY <1>2, <2>1, <2>2, <2>3
  <1>5. (CHOOSE t \in found(n) : TRUE) = s /\ found(n) # {}
    BY <1>3, <1>4
  <1>6. fat12_read_file(n) = file_data(s)
    BY <1>5 DEF fat12_read_file
  <1> DEFINE z == root[s].size
             w == Walk(s)
             m == Cardinality({k \in DOMAIN w : \A j \in 1..k : w[j] \in Clusters})
  <1>7. z \in Nat \ {0} /\ DOMAIN w = 1..z
    BY <1>0, <1>1, UsedFacts, ChainStep DEF Walk
  <1>8. \A k \in 1..z : w[k] \in Clusters /\ w[k] \in OnDrive
    BY <1>0, <1>1, WalkFacts DEF HoldsDone
  <1>9. file_data(s) = IF \A k \in 1..m : w[k] \in OnDrive THEN [k \in 1..m |-> data[w[k]]] ELSE <<>>
    BY DEF file_data, Walk
  <1>10. m = z
    <2> HIDE DEF z, w
    <2>1. \A k \in 1..z : \A j \in 1..k : j \in 1..z
      BY <1>7
    <2>2. {k \in DOMAIN w : \A j \in 1..k : w[j] \in Clusters} = 1..z
      BY <1>7, <1>8, <2>1
    <2>3. Cardinality(1..z) = z
      BY <1>7, FS_Interval
    <2> QED
      BY <2>2, <2>3
  <1> HIDE DEF m
  <1>11. file_data(s) = [k \in 1..z |-> data[w[k]]]
    BY <1>8, <1>9, <1>10
  <1> QED
    BY <1>6, <1>11 DEF HoldsDone

\* WrittenReadsBack for every drive: what fat12_write_file returned 0 for under a new name
\* is what fat12_read_file returns from then on, whatever is written after it and wherever
\* the power goes.
THEOREM WrittenIsReadBack == Spec => []WrittenReadsBack
  <1>1. FatInv => WrittenReadsBack
    <2> SUFFICES ASSUME FatInv, NEW n \in Names, done[n] # None
                 PROVE  fat12_read_file(n) = done[n]
      BY DEF WrittenReadsBack
    <2>1. boot /\ \E s \in Slots : HoldsDone(s, n)
      BY DEF FatInv, DoneInv
    <2> QED
      BY <2>1, ReadsDone
  <1> QED
    BY <1>1, FatInvariant, PTL

\* NoClusterLost for every drive: with no crash and no full directory the clusters the
\* first table marks used are exactly those of the files.
THEOREM NoClusterIsLost == Spec => []NoClusterLost
  <1>1. FatInv => NoClusterLost
    BY DEF FatInv, LostInv, NoClusterLost, AllFiles, UsedClusters
  <1> QED
    BY <1>1, FatInvariant, PTL
==============================================================================
