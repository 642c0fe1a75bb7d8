----------------------------- MODULE HeapProofs ------------------------------
(***************************************************************************)
(* The heap's invariants, for every memory map, request and parameter.     *)
(*                                                                         *)
(* The argument is at the level of sets of blocks: two lemmas say what     *)
(* linking a block in and out of the sorted list does to the set Free; the *)
(* action proofs then reason about Free, live and lost only.               *)
(***************************************************************************)
EXTENDS Heap, SequenceTheorems, TLAPS

------------------------------------------------------------------------------
(* Numbers and sequences.                                                  *)

\* A remainder is less than its modulus.
LEMMA ModRange ==
  ASSUME NEW x \in Int, NEW m \in Nat \ {0}
  PROVE  x % m \in 0..(m - 1)
  OBVIOUS

\* A number is its quotient times the modulus, and its remainder.
LEMMA ModDivision ==
  ASSUME NEW x \in Int, NEW m \in Nat \ {0}
  PROVE  x \div m \in Int /\ x = m * (x \div m) + (x % m)
  OBVIOUS

\* A multiple is what leaves no remainder.
LEMMA Multiples ==
  ASSUME NEW x \in Int, NEW m \in Nat \ {0}
  PROVE  x % m = 0 <=> \E k \in Int : x = m * k
  <1>1. ASSUME x % m = 0 PROVE \E k \in Int : x = m * k
    <2> DEFINE q == x \div m
               r == x % m
    <2>1. q \in Int /\ x = m * q + r
      BY ModDivision
    <2>2. r = 0
      BY <1>1
    <2> HIDE DEF q, r
    <2>3. m * q \in Int
      BY <2>1
    <2>4. x = m * q
      BY <2>1, <2>2, <2>3
    <2> QED
      BY <2>1, <2>4
  <1>2. ASSUME NEW k \in Int, x = m * k PROVE x % m = 0
    <2> DEFINE q == x \div m
               r == x % m
    <2>1. q \in Int /\ x = m * q + r
      BY ModDivision
    <2>2. r \in 0..(m - 1)
      BY ModRange
    <2> HIDE DEF q, r
    <2>3. r = m * (k - q)
      BY <1>2, <2>1, <2>2
    <2>4. k - q <= -1 \/ k - q = 0 \/ k - q >= 1
      BY <2>1
    <2>5. ASSUME NEW d \in Int, d >= 1 PROVE m * d >= m
      BY <2>5
    <2>6. ASSUME NEW d \in Int, d <= -1 PROVE m * d <= -m
      BY <2>6
    <2>7. k - q \in Int
      BY <2>1
    <2>8. r = 0
      BY <2>2, <2>3, <2>4, <2>5, <2>6, <2>7
    <2> QED
      BY <2>8 DEF r
  <1> QED
    BY <1>1, <1>2

\* Sums of multiples are multiples.
LEMMA SumOfMultiples ==
  ASSUME NEW m \in Nat \ {0}, NEW x \in Int, NEW y \in Int, x % m = 0, y % m = 0
  PROVE  (x + y) % m = 0
  <1>1. PICK j \in Int : x = m * j
    BY Multiples
  <1>2. PICK k \in Int : y = m * k
    BY Multiples
  <1>3. x + y = m * (j + k) /\ j + k \in Int /\ x + y \in Int
    BY <1>1, <1>2
  <1>4. \E d \in Int : x + y = m * d
    BY <1>3
  <1> QED
    BY <1>3, <1>4, Multiples

\* A multiple of a multiple is one (pages hold whole aligned blocks).
LEMMA MultipleOfMultiple ==
  ASSUME NEW m \in Nat \ {0}, NEW p \in Nat \ {0}, NEW x \in Int, p % m = 0, x % p = 0
  PROVE  x % m = 0
  <1>1. PICK j \in Int : p = m * j
    BY Multiples
  <1>2. PICK k \in Int : x = p * k
    BY Multiples
  <1>3. x = m * (j * k) /\ j * k \in Int
    BY <1>1, <1>2
  <1>4. \E d \in Int : x = m * d
    BY <1>3
  <1> QED
    BY <1>4, Multiples

\* Rounding down gives a multiple.
LEMMA RoundedIsMultiple ==
  ASSUME NEW x \in Int, NEW m \in Nat \ {0}
  PROVE  x - (x % m) \in Int /\ (x - (x % m)) % m = 0
  <1> DEFINE r == x % m
             q == x \div m
  <1>1. r \in Int
    BY ModRange
  <1>2. q \in Int /\ x = m * q + r
    BY ModDivision
  <1> HIDE DEF r, q
  <1>3. x - r = m * q /\ x - r \in Int
    BY <1>1, <1>2
  <1>4. \E k \in Int : x - r = m * k
    BY <1>2, <1>3
  <1>5. (x - r) % m = 0
    BY <1>3, <1>4, Multiples
  <1> QED
    BY <1>3, <1>5 DEF r

\* A new first element (a block linked in at the head of the free list).
LEMMA ConsProps ==
  ASSUME NEW S, NEW s \in Seq(S), NEW e \in S
  PROVE  /\ <<e>> \o s \in Seq(S)
         /\ Len(<<e>> \o s) = Len(s) + 1
         /\ \A j \in 1..(Len(s) + 1) : (<<e>> \o s)[j] = IF j = 1 THEN e ELSE s[j - 1]
  OBVIOUS

\* A new element after position i (a block linked in after its predecessor).
LEMMA InsertAtProps ==
  ASSUME NEW S, NEW s \in Seq(S), NEW i \in 0..Len(s), NEW e \in S
  PROVE  /\ InsertAt(s, i + 1, e) \in Seq(S)
         /\ Len(InsertAt(s, i + 1, e)) = Len(s) + 1
         /\ \A j \in 1..(Len(s) + 1) :
              InsertAt(s, i + 1, e)[j] = IF j <= i THEN s[j] ELSE IF j = i + 1 THEN e ELSE s[j - 1]
  <1> DEFINE p == SubSeq(s, 1, i)
             q == SubSeq(s, i + 1, Len(s))
             t == p \o <<e>>
  <1>1. p \in Seq(S) /\ Len(p) = i /\ \A j \in 1..i : p[j] = s[j]
    OBVIOUS
  <1>2. q \in Seq(S) /\ Len(q) = Len(s) - i /\ \A j \in 1..(Len(s) - i) : q[j] = s[i + j]
    OBVIOUS
  <1>3. InsertAt(s, i + 1, e) = t \o q
    <2>1. (i + 1) - 1 = i
      OBVIOUS
    <2> QED BY <2>1, Zenon DEF InsertAt
  <1> HIDE DEF p, q
  <1>4. /\ t \in Seq(S) /\ Len(t) = i + 1
        /\ \A j \in 1..(i + 1) : t[j] = IF j <= i THEN s[j] ELSE e
    BY <1>1
  <1> HIDE DEF t
  <1>5. /\ t \o q \in Seq(S) /\ Len(t \o q) = Len(t) + Len(q)
        /\ \A j \in 1..(Len(t) + Len(q)) :
             (t \o q)[j] = IF j <= Len(t) THEN t[j] ELSE q[j - Len(t)]
    BY <1>2, <1>4, ConcatProperties
  <1>6. Len(s) \in Nat
    BY LenProperties
  <1>7. ASSUME NEW j \in 1..(Len(s) + 1)
        PROVE  (t \o q)[j] = IF j <= i THEN s[j] ELSE IF j = i + 1 THEN e ELSE s[j - 1]
    <2>1. CASE j <= i + 1
      BY <2>1, <1>2, <1>4, <1>5, <1>6
    <2>2. CASE j > i + 1
      <3>1. PICK k \in 1..(Len(s) - i) : k = j - (i + 1)
        BY <2>2, <1>6
      <3>2. (t \o q)[j] = q[k]
        BY <2>2, <3>1, <1>2, <1>4, <1>5, <1>6
      <3>3. q[k] = s[i + k]
        BY <1>2
      <3>4. i + k = j - 1
        BY <3>1, <1>6
      <3> QED BY <3>2, <3>3, <3>4, <2>2, <1>6
    <2>3. j <= i + 1 \/ j > i + 1
      BY <1>6
    <2> QED BY <2>1, <2>2, <2>3, Zenon
  <1>8. Len(t \o q) = Len(s) + 1
    BY <1>2, <1>4, <1>5, <1>6
  <1> QED
    BY <1>3, <1>5, <1>7, <1>8, Zenon

\* One element of a sequence with one element more.
LEMMA InsertAtElement ==
  ASSUME NEW S, NEW s \in Seq(S), NEW i \in 0..Len(s), NEW e \in S, NEW j \in 1..(Len(s) + 1)
  PROVE  InsertAt(s, i + 1, e)[j] = IF j <= i THEN s[j] ELSE IF j = i + 1 THEN e ELSE s[j - 1]
  BY InsertAtProps

\* Position i is dropped (a block unlinked, a process table entry closed up).
LEMMA RemoveAtProps ==
  ASSUME NEW S, NEW s \in Seq(S), NEW i \in 1..Len(s)
  PROVE  /\ RemoveAt(s, i) \in Seq(S)
         /\ Len(RemoveAt(s, i)) = Len(s) - 1
         /\ \A j \in 1..(Len(s) - 1) :
              RemoveAt(s, i)[j] = IF j < i THEN s[j] ELSE s[j + 1]
  <1> DEFINE p == SubSeq(s, 1, i - 1)
             q == SubSeq(s, i + 1, Len(s))
  <1>1. p \in Seq(S) /\ Len(p) = i - 1 /\ \A j \in 1..(i - 1) : p[j] = s[j]
    OBVIOUS
  <1>2. q \in Seq(S) /\ Len(q) = Len(s) - i /\ \A j \in 1..(Len(s) - i) : q[j] = s[i + j]
    OBVIOUS
  <1>3. RemoveAt(s, i) = p \o q
    BY DEF RemoveAt
  <1> HIDE DEF p, q
  <1>4. /\ p \o q \in Seq(S) /\ Len(p \o q) = Len(p) + Len(q)
        /\ \A j \in 1..(Len(p) + Len(q)) :
             (p \o q)[j] = IF j <= Len(p) THEN p[j] ELSE q[j - Len(p)]
    BY <1>1, <1>2, ConcatProperties
  <1>5. Len(s) \in Nat
    BY LenProperties
  <1>6. ASSUME NEW j \in 1..(Len(s) - 1)
        PROVE  (p \o q)[j] = IF j < i THEN s[j] ELSE s[j + 1]
    <2>1. CASE j < i
      BY <2>1, <1>1, <1>2, <1>4, <1>5
    <2>2. CASE j >= i
      <3>1. PICK k \in 1..(Len(s) - i) : k = j - (i - 1)
        BY <2>2, <1>5
      <3>2. (p \o q)[j] = q[k]
        BY <2>2, <3>1, <1>1, <1>2, <1>4, <1>5
      <3>3. q[k] = s[i + k] /\ i + k = j + 1
        BY <3>1, <1>2
      <3> QED BY <3>2, <3>3, <2>2
    <2>3. j < i \/ j >= i
      BY <1>5
    <2> QED BY <2>1, <2>2, <2>3, Zenon
  <1>7. Len(p \o q) = Len(s) - 1
    BY <1>1, <1>2, <1>4, <1>5
  <1> QED
    BY <1>3, <1>4, <1>6, <1>7, Zenon

------------------------------------------------------------------------------
(* The inductive invariant.                                                *)

\* The inductive invariant.  BlocksApart and BlocksInsideRam need each other (a split
\* stays below the next block and inside its entry), FreeListSorted needs BlocksApart.
IInv ==
  /\ TypeOK
  /\ FreeListSorted
  /\ BlocksApart
  /\ BlocksInsideRam
  /\ EveryByteAccounted
  /\ RequestsFit

\* The members of a list are the values at its positions.
LEMMA FreeElems ==
  ASSUME free_list \in Seq(Addr)
  PROVE  /\ \A b : b \in Free <=> \E i \in 1..Len(free_list) : b = free_list[i]
         /\ Free \subseteq Addr
         /\ Len(free_list) \in Nat
  <1>1. Len(free_list) \in Nat /\ DOMAIN free_list = 1..Len(free_list)
    BY LenProperties
  <1>2. \A i \in 1..Len(free_list) : free_list[i] \in Addr
    BY ElementOfSeq
  <1> QED BY <1>1, <1>2 DEF Free, ToSet

\* Linking in a block that is not on the sorted list: the list stays sorted and gains
\* the block, or the insertion gives up and the block is lost (mem.c 256-278).
LEMMA InsertEffect ==
  ASSUME free_list \in Seq(Addr), FreeListSorted,
         NEW b \in Addr, b \notin Free, insert_free_block_sorted(b)
  PROVE  /\ free_list' \in Seq(Addr)
         /\ FreeListSorted'
         /\ \/ Free' = Free \cup {b} /\ lost' = lost
            \/ Free' = Free /\ lost' = lost \cup {b}
  <1> DEFINE n == Len(free_list)
  <1>0. n \in Nat /\ b \in Nat /\ \A i \in 1..n : free_list[i] \in Nat
    BY FreeElems, ElementOfSeq, SizesAssumption DEF Addr
  <1>1. CASE /\ free_list # <<>> => b < free_list[1]
             /\ free_list' = <<b>> \o free_list
             /\ UNCHANGED lost
    <2>1. /\ free_list' \in Seq(Addr) /\ Len(free_list') = n + 1
          /\ \A j \in 1..(n + 1) : free_list'[j] = IF j = 1 THEN b ELSE free_list[j - 1]
      BY <1>1, ConsProps
    <2>2. ASSUME NEW i \in 1..n PROVE b < free_list[i]
      <3>1. free_list # <<>>
        BY <1>0, EmptySeq
      <3>2. b < free_list[1] /\ (i = 1 \/ free_list[1] < free_list[i])
        BY <1>0, <1>1, <3>1 DEF FreeListSorted
      <3> QED BY <3>2, <1>0
    <2>3. FreeListSorted'
      <3> SUFFICES ASSUME NEW i \in 1..(n + 1), NEW j \in 1..(n + 1), i < j
                   PROVE  free_list'[i] < free_list'[j]
        BY <2>1 DEF FreeListSorted
      <3>1. PICK k \in 1..n : k = j - 1
        BY <1>0
      <3>2. free_list'[j] = free_list[k]
        BY <2>1, <3>1, <1>0
      <3>3. CASE i = 1
        BY <3>3, <3>2, <2>1, <2>2, <1>0
      <3>4. CASE i # 1
        <4>1. PICK l \in 1..n : l = i - 1
          BY <3>4, <1>0
        <4>2. free_list'[i] = free_list[l] /\ l < k
          BY <2>1, <3>1, <3>4, <4>1, <1>0
        <4> QED BY <3>2, <4>2 DEF FreeListSorted
      <3> QED BY <3>3, <3>4
    <2>4. Free' = Free \cup {b}
      <3>1. \A c : c \in Free' <=> \E i \in 1..(n + 1) : c = free_list'[i]
        <4>1. DOMAIN free_list' = 1..(n + 1)
          BY <2>1, LenProperties
        <4> QED BY <4>1 DEF Free, ToSet
      <3>2. ASSUME NEW c \in Free PROVE c \in Free'
        <4>1. PICK i \in 1..n : c = free_list[i]
          BY FreeElems
        <4>2. i + 1 \in 1..(n + 1) /\ free_list'[i + 1] = free_list[i]
          BY <2>1, <1>0
        <4> QED BY <4>1, <4>2, <3>1
      <3>3. ASSUME NEW c \in Free', c # b PROVE c \in Free
        <4>1. PICK i \in 1..(n + 1) : c = free_list'[i]
          BY <3>1
        <4>2. PICK k \in 1..n : k = i - 1
          BY <4>1, <3>3, <2>1, <1>0
        <4> QED BY <4>1, <4>2, <2>1, <1>0, FreeElems
      <3>4. b \in Free'
        BY <3>1, <2>1, <1>0
      <3> QED BY <3>2, <3>3, <3>4
    <2> QED BY <2>1, <2>3, <2>4, <1>1
  <1>2. ASSUME NEW p \in 1..n, free_list[1] <= b, InsertPoint(p, b),
               free_list' = InsertAt(free_list, p + 1, b), UNCHANGED lost
        PROVE  free_list' \in Seq(Addr) /\ FreeListSorted' /\ Free' = Free \cup {b}
    <2>1. /\ free_list' \in Seq(Addr) /\ Len(free_list') = n + 1
          /\ \A j \in 1..(n + 1) : free_list'[j] = IF j <= p THEN free_list[j]
                                   ELSE IF j = p + 1 THEN b ELSE free_list[j - 1]
      BY <1>2, InsertAtProps
    <2>2. ASSUME NEW i \in 1..p PROVE free_list[i] < b
      <3>1. free_list[i] # b /\ i \in 1..n
        BY <1>0, FreeElems
      <3>2. CASE i = 1
        BY <3>1, <3>2, <1>0, <1>2
      <3>3. CASE i # 1
        <4>1. PICK k \in 1..(p - 1) : k = i - 1
          BY <3>3, <1>0
        <4>2. k + 1 = i /\ free_list[k + 1] < b
          BY <4>1, <1>2 DEF InsertPoint
        <4> QED BY <4>2
      <3> QED BY <3>2, <3>3
    <2>3. ASSUME NEW i \in (p + 1)..n PROVE b < free_list[i]
      <3>1. i \in 1..n /\ p + 1 \in 1..n /\ free_list[p + 1] >= b /\ free_list[i] # b
        BY <1>0, <1>2, FreeElems DEF InsertPoint
      <3>2. i = p + 1 \/ free_list[p + 1] < free_list[i]
        BY <3>1, <1>0 DEF FreeListSorted
      <3> QED BY <3>1, <3>2, <1>0
    <2>4. FreeListSorted'
      <3> SUFFICES ASSUME NEW i \in 1..(n + 1), NEW j \in 1..(n + 1), i < j
                   PROVE  free_list'[i] < free_list'[j]
        BY <2>1 DEF FreeListSorted
      <3>1. CASE j <= p
        BY <3>1, <2>1, <1>0 DEF FreeListSorted
      <3>2. CASE j = p + 1
        <4>1. i \in 1..p /\ free_list'[i] = free_list[i] /\ free_list'[j] = b
          BY <3>2, <2>1, <1>0
        <4> QED BY <4>1, <2>2
      <3>3. CASE j > p + 1
        <4>1. PICK k \in (p + 1)..n : k = j - 1
          BY <3>3, <1>0
        <4>2. free_list'[j] = free_list[k]
          BY <4>1, <3>3, <2>1, <1>0
        <4>3. CASE i <= p
          <5>1. free_list'[i] = free_list[i] /\ i \in 1..n /\ k \in 1..n /\ i < k
            BY <4>1, <4>3, <2>1, <1>0
          <5> QED BY <4>2, <5>1 DEF FreeListSorted
        <4>4. CASE i = p + 1
          BY <4>2, <4>4, <2>1, <2>3, <1>0
        <4>5. CASE i > p + 1
          <5>1. PICK l \in (p + 1)..n : l = i - 1
            BY <4>5, <1>0
          <5>2. free_list'[i] = free_list[l] /\ l < k
            BY <5>1, <4>1, <4>5, <2>1, <1>0
          <5> QED BY <4>2, <5>2, <1>0 DEF FreeListSorted
        <4> QED BY <4>3, <4>4, <4>5, <1>0
      <3> QED BY <3>1, <3>2, <3>3, <1>0
    <2>5. Free' = Free \cup {b}
      <3>1. \A c : c \in Free' <=> \E i \in 1..(n + 1) : c = free_list'[i]
        <4>1. DOMAIN free_list' = 1..(n + 1)
          BY <2>1, LenProperties
        <4> QED BY <4>1 DEF Free, ToSet
      <3>2. ASSUME NEW c \in Free PROVE c \in Free'
        <4>1. PICK i \in 1..n : c = free_list[i]
          BY FreeElems
        <4>2. CASE i <= p
          BY <4>1, <4>2, <3>1, <2>1, <1>0
        <4>3. CASE i > p
          <5>1. i + 1 \in 1..(n + 1) /\ free_list'[i + 1] = free_list[i]
            BY <4>3, <2>1, <1>0
          <5> QED BY <4>1, <5>1, <3>1
        <4> QED BY <4>2, <4>3, <1>0
      <3>3. ASSUME NEW c \in Free', c # b PROVE c \in Free
        <4>1. PICK i \in 1..(n + 1) : c = free_list'[i]
          BY <3>1
        <4>2. CASE i <= p
          BY <4>1, <4>2, <2>1, <1>0, FreeElems
        <4>3. CASE i > p
          <5>1. PICK k \in 1..n : k = i - 1
            BY <4>1, <4>3, <1>0
          <5> QED BY <4>1, <4>3, <5>1, <3>3, <2>1, <1>0, FreeElems
        <4> QED BY <4>2, <4>3, <1>0
      <3>4. b \in Free'
        <4>1. p + 1 \in 1..(n + 1) /\ free_list'[p + 1] = b
          BY <2>1, <1>0
        <4> QED BY <3>1, <4>1
      <3> QED BY <3>2, <3>3, <3>4
    <2> QED BY <2>1, <2>4, <2>5
  <1>3. CASE /\ UNCHANGED free_list /\ lost' = lost \cup {b}
    BY <1>3 DEF FreeListSorted, Free
  <1> QED
    BY <1>1, <1>2, <1>3 DEF insert_free_block_sorted

\* align_up never rounds down.
LEMMA AlignUpProps ==
  ASSUME NEW n \in Nat, NEW a \in Nat \ {0}
  PROVE  align_up(n, a) \in Nat /\ n <= align_up(n, a)
  <1>1. (n + a - 1) \in Nat /\ (n + a - 1) % a \in 0..(a - 1)
    OBVIOUS
  <1> QED BY <1>1 DEF align_up

\* What the walk of the memory map knows of one of its entries.
LEMMA EntryProps ==
  ASSUME TypeOK, NEW i \in 1..Len(memmap)
  PROVE  LET e == memmap[i]
         IN  /\ e.base \in Nat /\ e.length \in Nat /\ e.usable \in BOOLEAN
             /\ EntryEnd(e) \in Nat /\ EntryEnd(e) <= MAX_ADDR
             /\ HeapStart(e) \in Nat /\ e.base <= HeapStart(e)
             /\ \A j \in 1..Len(memmap) : j < i => EntryEnd(memmap[j]) <= e.base
  <1> DEFINE e == memmap[i]
  <1>1. e \in [base : Nat, length : Nat, usable : BOOLEAN]
    BY MemMapAssumption, ElementOfSeq DEF TypeOK
  <1>2. EntryEnd(e) \in Nat /\ EntryEnd(e) <= MAX_ADDR
    BY <1>1, MemMapAssumption DEF TypeOK, EntryEnd
  <1>3. align_up(e.base, ALIGN_SIZE) \in Nat /\ e.base <= align_up(e.base, ALIGN_SIZE)
    BY <1>1, AlignUpProps, SizesAssumption
  <1>4. HeapStart(e) \in Nat /\ e.base <= HeapStart(e)
    BY <1>1, <1>3 DEF HeapStart, TypeOK
  <1>5. \A j \in 1..Len(memmap) : j < i => EntryEnd(memmap[j]) <= e.base
    BY MemMapAssumption DEF TypeOK
  <1> QED BY <1>1, <1>2, <1>4, <1>5

\* The entries walked so far, by index.
LEMMA WalkedProps ==
  ASSUME TypeOK
  PROVE  \A e : e \in Walked <=>
           \E i \in 1..Len(memmap) : i < entry /\ e = memmap[i] /\ InHeap(e)
  <1>1. Len(memmap) \in Nat /\ entry \in 0..(Len(memmap) + 1)
    BY MemMapAssumption, LenProperties DEF TypeOK
  <1>2. \A i : i \in 1..Min2(entry - 1, Len(memmap)) <=> i \in 1..Len(memmap) /\ i < entry
    BY <1>1 DEF Min2
  <1> QED BY <1>2 DEF Walked

\* The bounds of a block, from the entry it lies in.
LEMMA BlockProps ==
  ASSUME TypeOK, BlocksInsideRam, NEW b \in Blocks
  PROVE  b \in Nat /\ b \in Addr /\ size[b] \in Nat /\ BlockEnd(b) \in Nat
         /\ BlockEnd(b) <= MAX_ADDR /\ b < BlockEnd(b)
  <1>1. b \in Addr
    BY FreeElems DEF TypeOK, Blocks
  <1>2. b \in Nat /\ size[b] \in Nat /\ BlockEnd(b) \in Nat /\ b < BlockEnd(b)
    BY <1>1, SizesAssumption DEF Addr, TypeOK, BlockEnd
  <1>3. PICK e \in Walked : BlockEnd(b) <= EntryEnd(e)
    BY DEF BlocksInsideRam
  <1>4. EntryEnd(e) \in Nat /\ EntryEnd(e) <= MAX_ADDR
    BY <1>3, WalkedProps, EntryProps
  <1> QED BY <1>1, <1>2, <1>3, <1>4, SizesAssumption

\* Linking out the block at i for a size of n that it can hold: the block leaves the
\* list, and its tail takes its place if it is long enough (mem.c 365-377).
LEMMA UnlinkEffect ==
  ASSUME TypeOK, FreeListSorted, BlocksApart, BlocksInsideRam,
         NEW i \in 1..Len(free_list), NEW n \in Nat,
         size[free_list[i]] >= n, unlink(i, n)
  PROVE  LET b  == free_list[i]
             nb == b + HDR + n
         IN  /\ free_list' \in Seq(Addr) /\ FreeListSorted'
             /\ b \in Free
             /\ \/ /\ splits(b, n) /\ nb \in Addr /\ nb < BlockEnd(b)
                   /\ Free' = (Free \ {b}) \cup {nb}
                   /\ size' = [size EXCEPT ![nb] = size[b] - n - HDR, ![b] = n]
                \/ /\ ~splits(b, n)
                   /\ Free' = Free \ {b}
                   /\ size' = size
  <1> DEFINE b  == free_list[i]
             nb == b + HDR + n
             L  == Len(free_list)
  <1>0. L \in Nat /\ free_list \in Seq(Addr)
        /\ \A k \in 1..L : free_list[k] \in Nat /\ free_list[k] \in Blocks
    <2>1. L \in Nat /\ free_list \in Seq(Addr) /\ \A k \in 1..L : free_list[k] \in Free
      BY FreeElems DEF TypeOK
    <2>2. Free \subseteq Nat
      BY FreeElems, SizesAssumption DEF TypeOK, Addr
    <2> QED BY <2>1, <2>2 DEF Blocks
  <1>1. b \in Free /\ b \in Blocks /\ b \in Nat /\ b \in Addr /\ size[b] \in Nat
        /\ BlockEnd(b) \in Nat /\ BlockEnd(b) <= MAX_ADDR
    BY <1>0, BlockProps, FreeElems
  <1>2. CASE splits(b, n)
    <2>1. free_list' = [free_list EXCEPT ![i] = nb]
          /\ size' = [size EXCEPT ![nb] = size[b] - n - HDR, ![b] = n]
      BY <1>2 DEF unlink
    <2>2. nb \in Nat /\ b < nb /\ nb < BlockEnd(b) /\ nb \in Addr
      BY <1>1, <1>2, SizesAssumption DEF splits, BlockEnd, Addr
    <2>3. /\ free_list' \in Seq(Addr) /\ Len(free_list') = L
          /\ \A j \in 1..L : free_list'[j] = IF j = i THEN nb ELSE free_list[j]
      BY <1>0, <2>1, <2>2, ExceptSeq
    <2>4. ASSUME NEW j \in 1..L, i < j PROVE nb < free_list[j]
      <3>1. b < free_list[j] /\ free_list[j] \in Blocks
        BY <1>0, <2>4 DEF FreeListSorted
      <3>2. BlockEnd(b) <= free_list[j]
        BY <1>1, <3>1 DEF BlocksApart
      <3> QED BY <3>2, <2>2, <1>0, <1>1
    <2>5. FreeListSorted'
      <3> SUFFICES ASSUME NEW j \in 1..L, NEW k \in 1..L, j < k
                   PROVE  free_list'[j] < free_list'[k]
        BY <2>3 DEF FreeListSorted
      <3>1. free_list[j] < free_list[k]
        BY DEF FreeListSorted
      <3>2. CASE k = i
        <4>1. free_list'[j] = free_list[j] /\ free_list'[k] = nb
          BY <3>2, <2>3
        <4> QED BY <4>1, <3>1, <3>2, <2>2, <1>0
      <3>3. CASE j = i
        <4>1. free_list'[j] = nb /\ free_list'[k] = free_list[k]
          BY <3>3, <2>3
        <4> QED BY <4>1, <3>3, <2>4
      <3>4. CASE j # i /\ k # i
        BY <3>1, <3>4, <2>3
      <3> QED BY <3>2, <3>3, <3>4
    <2>6. Free' = (Free \ {b}) \cup {nb}
      <3>1. \A c : c \in Free' <=> \E j \in 1..L : c = free_list'[j]
        <4>1. DOMAIN free_list' = 1..L
          BY <2>3, LenProperties
        <4> QED BY <4>1 DEF Free, ToSet
      <3>2. \A j \in 1..L : free_list[j] = b => j = i
        BY <1>0 DEF FreeListSorted
      <3>3. \A c : c \in Free <=> \E j \in 1..L : c = free_list[j]
        BY <1>0, FreeElems
      <3> QED BY <3>1, <3>2, <3>3, <2>3
    <2> QED BY <1>1, <1>2, <2>1, <2>2, <2>3, <2>5, <2>6
  <1>3. CASE ~splits(b, n)
    <2>1. free_list' = RemoveAt(free_list, i) /\ size' = size
      BY <1>3 DEF unlink
    <2>2. /\ free_list' \in Seq(Addr) /\ Len(free_list') = L - 1
          /\ \A j \in 1..(L - 1) : free_list'[j] = IF j < i THEN free_list[j] ELSE free_list[j + 1]
      BY <1>0, <2>1, RemoveAtProps
    <2>3. FreeListSorted'
      <3> SUFFICES ASSUME NEW j \in 1..(L - 1), NEW k \in 1..(L - 1), j < k
                   PROVE  free_list'[j] < free_list'[k]
        BY <2>2 DEF FreeListSorted
      <3>0. \A l \in 1..(L - 1) : \E ll \in 1..L :
              free_list'[l] = free_list[ll] /\ ll = IF l < i THEN l ELSE l + 1
        BY <2>2, <1>0
      <3>1. PICK jj \in 1..L : free_list'[j] = free_list[jj] /\ jj = IF j < i THEN j ELSE j + 1
        BY <3>0
      <3>2. PICK kk \in 1..L : free_list'[k] = free_list[kk] /\ kk = IF k < i THEN k ELSE k + 1
        BY <3>0
      <3>3. jj < kk
        BY <3>1, <3>2, <1>0
      <3> QED BY <3>1, <3>2, <3>3 DEF FreeListSorted
    <2>4. Free' = Free \ {b}
      <3>1. \A c : c \in Free' <=> \E j \in 1..(L - 1) : c = free_list'[j]
        <4>1. DOMAIN free_list' = 1..(L - 1)
          BY <2>2, LenProperties
        <4> QED BY <4>1 DEF Free, ToSet
      <3>2. \A j \in 1..L : free_list[j] = b => j = i
        BY <1>0 DEF FreeListSorted
      <3>3. \A c : c \in Free <=> \E j \in 1..L : c = free_list[j]
        BY <1>0, FreeElems
      <3>4. ASSUME NEW c \in Free', NEW j \in 1..(L - 1), c = free_list'[j]
            PROVE  c \in Free \ {b}
        <4>1. PICK jj \in 1..L : c = free_list[jj] /\ jj # i
          BY <3>4, <2>2, <1>0
        <4> QED BY <4>1, <3>2, <3>3
      <3>5. ASSUME NEW c \in Free \ {b} PROVE c \in Free'
        <4>1. PICK j \in 1..L : c = free_list[j] /\ j # i
          BY <3>3, <3>2
        <4>2. CASE j < i
          <5>1. j \in 1..(L - 1) /\ free_list'[j] = free_list[j]
            BY <4>2, <2>2, <1>0
          <5> QED BY <4>1, <5>1, <3>1
        <4>3. CASE j > i
          <5>1. PICK k \in 1..(L - 1) : k = j - 1
            BY <4>3, <1>0
          <5>2. free_list'[k] = free_list[k + 1] /\ k + 1 = j
            BY <5>1, <4>3, <2>2, <1>0
          <5> QED BY <4>1, <5>2, <3>1
        <4> QED BY <4>1, <4>2, <4>3, <1>0
      <3> QED BY <3>1, <3>4, <3>5
    <2> QED BY <1>1, <1>3, <2>1, <2>2, <2>3, <2>4
  <1> QED BY <1>2, <1>3

\* Boot data that does not change leaves the heap's part of the map alone.
LEMMA WalkedSame ==
  ASSUME UNCHANGED bootVars
  PROVE  Walked' = Walked /\ pool_start' = pool_start /\ pool_end' = pool_end
         /\ \A e : HeapStart(e)' = HeapStart(e)
  BY DEF bootVars, Walked, InHeap, HeapStart

\* The part of the invariant that speaks of the set of blocks.
BlockInv == BlocksApart /\ BlocksInsideRam /\ EveryByteAccounted

\* Moving blocks between owners keeps it: only the set and the sizes matter.
LEMMA SameBlocks ==
  ASSUME BlockInv, UNCHANGED bootVars, UNCHANGED size, Blocks' = Blocks,
         live' \cap Free' = {}, live' \cap lost' = {}, lost' \cap Free' = {}
  PROVE  BlockInv'
  <1>1. \A c : BlockEnd(c)' = BlockEnd(c)
    BY DEF BlockEnd
  <1>2. BlocksApart'
    BY <1>1 DEF BlockInv, BlocksApart
  <1>3. BlocksInsideRam'
    BY <1>1, WalkedSame DEF BlockInv, BlocksInsideRam
  <1>4. EveryByteAccounted'
    BY <1>1, WalkedSame DEF BlockInv, EveryByteAccounted
  <1> QED BY <1>2, <1>3, <1>4 DEF BlockInv

\* kmalloc's critical section, in either context, keeps the blocks apart, inside RAM
\* and covering every byte; the block taken can hold what was searched for.
LEMMA TakeEffect ==
  ASSUME TypeOK, FreeListSorted, BlockInv,
         NEW i \in 1..Len(free_list), NEW n \in Nat,
         size[free_list[i]] >= n, unlink(i, n),
         live' = live \cup {free_list[i]}, UNCHANGED <<bootVars, lost>>
  PROVE  /\ free_list' \in Seq(Addr) /\ FreeListSorted' /\ BlockInv'
         /\ free_list[i] \in Addr /\ free_list[i] \notin live
         /\ size' \in [Addr -> Nat]
         /\ size'[free_list[i]] >= n
         /\ \A c \in live : size'[c] = size[c]
  <1>0. PICK b : b = free_list[i]
    OBVIOUS
  <1> DEFINE nb == b + HDR + n
  <1>1. /\ free_list' \in Seq(Addr) /\ FreeListSorted'
        /\ b \in Free /\ b \in Blocks /\ b \notin live /\ b \notin lost
        /\ b \in Addr /\ b \in Nat /\ size[b] \in Nat /\ BlockEnd(b) \in Nat
    BY <1>0, UnlinkEffect, BlockProps DEF BlockInv, BlocksApart, Blocks
  <1>2. CASE ~splits(b, n) /\ Free' = Free \ {b} /\ size' = size
    <2>1. Blocks' = Blocks
      BY <1>0, <1>1, <1>2 DEF Blocks
    <2>2. live' \cap Free' = {} /\ live' \cap lost' = {} /\ lost' \cap Free' = {}
      BY <1>0, <1>1, <1>2 DEF BlockInv, BlocksApart
    <2>3. BlockInv'
      BY <1>2, <2>1, <2>2, SameBlocks
    <2> QED BY <1>0, <1>1, <1>2, <2>3 DEF TypeOK
  <1>3. CASE /\ splits(b, n) /\ nb \in Addr /\ nb < BlockEnd(b)
             /\ Free' = (Free \ {b}) \cup {nb}
             /\ size' = [size EXCEPT ![nb] = size[b] - n - HDR, ![b] = n]
    <2>1. nb \in Nat /\ b < nb /\ size[b] - n - HDR \in Nat
      BY <1>1, <1>3, SizesAssumption DEF splits
    <2>2. size' \in [Addr -> Nat] /\ size'[b] = n /\ size'[nb] = size[b] - n - HDR
          /\ \A c \in Addr : c # b /\ c # nb => size'[c] = size[c]
      <3>1. b # nb /\ n \in Nat
        BY <1>1, <2>1
      <3>2. size \in [Addr -> Nat]
        BY DEF TypeOK
      <3> HIDE DEF nb
      <3> QED BY <1>1, <1>3, <2>1, <3>1, <3>2
    <2>3. nb \notin Blocks
      <3>1. ASSUME nb \in Blocks PROVE FALSE
        <4>1. BlockEnd(b) <= nb
          BY <3>1, <2>1, <1>1 DEF BlockInv, BlocksApart
        <4> QED BY <4>1, <1>3, <1>1, <2>1
      <3> QED BY <3>1
    <2>4. Blocks' = Blocks \cup {nb}
      BY <1>0, <1>1, <1>3 DEF Blocks
    <2>5. BlockEnd(b)' = nb /\ BlockEnd(nb)' = BlockEnd(b)
          /\ \A c \in Blocks : c # b => BlockEnd(c)' = BlockEnd(c)
      <3>1. BlockEnd(b)' = nb
        BY <2>2 DEF BlockEnd
      <3>2. BlockEnd(nb)' = BlockEnd(b)
        BY <2>2, <1>1, SizesAssumption DEF BlockEnd
      <3>3. ASSUME NEW c \in Blocks, c # b PROVE BlockEnd(c)' = BlockEnd(c)
        BY <3>3, <2>2, <2>3, BlockProps DEF BlockEnd, BlockInv
      <3> QED BY <3>1, <3>2, <3>3
    <2>6. BlocksApart'
      <3>1. live' \cap Free' = {} /\ live' \cap lost' = {} /\ lost' \cap Free' = {}
        BY <1>0, <1>1, <1>3, <2>1, <2>3 DEF BlockInv, BlocksApart, Blocks
      <3> SUFFICES ASSUME NEW c \in Blocks \cup {nb}, NEW d \in Blocks \cup {nb}, c < d
                   PROVE  BlockEnd(c)' <= d
        BY <2>4, <3>1 DEF BlocksApart
      <3>2. CASE c = nb
        <4>1. d \in Blocks /\ b < d
          BY <3>2, <2>1, <1>1, BlockProps DEF BlockInv
        <4> QED BY <4>1, <3>2, <2>5, <1>1 DEF BlockInv, BlocksApart
      <3>3. CASE c = b
        <4>1. d = nb \/ BlockEnd(b) <= d
          BY <3>3, <1>1 DEF BlockInv, BlocksApart
        <4>2. d \in Nat
          BY <2>1, BlockProps DEF BlockInv
        <4> QED BY <4>1, <4>2, <3>3, <2>5, <2>1, <1>3, <1>1
      <3>4. CASE c # b /\ c # nb
        <4>1. c \in Blocks /\ BlockEnd(c)' = BlockEnd(c) /\ BlockEnd(c) \in Nat /\ c \in Nat
          BY <3>4, <2>5, BlockProps DEF BlockInv
        <4>2. CASE d # nb
          BY <4>1, <4>2 DEF BlockInv, BlocksApart
        <4>3. CASE d = nb
          <5>1. CASE c < b
            BY <5>1, <4>1, <4>3, <2>1, <1>1 DEF BlockInv, BlocksApart
          <5>2. CASE b < c
            <6>1. BlockEnd(b) <= c
              BY <5>2, <4>1, <1>1 DEF BlockInv, BlocksApart
            <6> QED BY <6>1, <4>1, <4>3, <2>1, <1>1, <1>3
          <5> QED BY <5>1, <5>2, <4>1, <3>4, <1>1
        <4> QED BY <4>2, <4>3
      <3> QED BY <3>2, <3>3, <3>4
    <2>7. BlocksInsideRam'
      <3> SUFFICES ASSUME NEW c \in Blocks \cup {nb}
                   PROVE  \E e \in Walked : /\ HeapStart(e) <= c /\ BlockEnd(c)' <= EntryEnd(e)
                                            /\ BlockEnd(c)' <= pool_start \/ pool_end <= c
        BY <2>4, WalkedSame DEF BlocksInsideRam
      <3>1. CASE c # b /\ c # nb
        BY <3>1, <2>5 DEF BlockInv, BlocksInsideRam
      <3>2. CASE c = b \/ c = nb
        <4>1. PICK e \in Walked : /\ HeapStart(e) <= b /\ BlockEnd(b) <= EntryEnd(e)
                                  /\ BlockEnd(b) <= pool_start \/ pool_end <= b
          BY <1>1 DEF BlockInv, BlocksInsideRam
        <4>2. HeapStart(e) \in Nat /\ EntryEnd(e) \in Nat /\ pool_start \in Nat /\ pool_end \in Nat
          BY WalkedProps, EntryProps DEF TypeOK
        <4>3. HeapStart(e) <= c /\ BlockEnd(c)' <= EntryEnd(e)
              /\ (BlockEnd(c)' <= pool_start \/ pool_end <= c)
          BY <3>2, <4>1, <4>2, <2>1, <2>5, <1>1, <1>3
        <4> QED BY <4>3
      <3> QED BY <3>1, <3>2
    <2>8. EveryByteAccounted'
      <3> SUFFICES ASSUME NEW e \in Walked, NEW a \in HeapStart(e)..(EntryEnd(e) - 1)
                   PROVE  \E c \in Blocks \cup {nb} : c <= a /\ a < BlockEnd(c)'
        BY <2>4, WalkedSame DEF EveryByteAccounted
      <3>1. PICK c \in Blocks : c <= a /\ a < BlockEnd(c)
        BY DEF BlockInv, EveryByteAccounted
      <3>2. a \in Int
        <4>1. HeapStart(e) \in Nat /\ EntryEnd(e) \in Nat
          BY WalkedProps, EntryProps
        <4> QED BY <4>1
      <3>3. CASE c # b
        BY <3>1, <3>3, <2>5
      <3>4. CASE c = b /\ a < nb
        BY <3>1, <3>4, <2>5, <1>1
      <3>5. CASE c = b /\ a >= nb
        BY <3>1, <3>5, <2>5
      <3> QED BY <3>2, <3>3, <3>4, <3>5, <2>1
    <2>9. \A c \in live : size'[c] = size[c]
      BY <2>2, <2>3, <1>1 DEF Blocks, TypeOK
    <2> QED BY <1>0, <1>1, <2>1, <2>2, <2>6, <2>7, <2>8, <2>9 DEF BlockInv
  <1> QED BY <1>0, <1>2, <1>3, UnlinkEffect DEF BlockInv

\* alloc_size is at least what is asked for.
LEMMA AllocSizeProps ==
  ASSUME NEW n \in Nat
  PROVE  alloc_size(n) \in Nat /\ n <= alloc_size(n)
  BY AlignUpProps, SizesAssumption DEF alloc_size, Max2

\* init_paging runs before any block exists.
LEMMA PagingKeeps == IInv /\ init_paging => IInv'
  <1> SUFFICES ASSUME IInv, init_paging PROVE IInv'
    OBVIOUS
  <1>1. Blocks = {}
    <2>1. Walked = {}
      BY WalkedProps, MemMapAssumption, LenProperties DEF IInv, init_paging
    <2> QED BY <2>1 DEF IInv, BlocksInsideRam
  <1>2. UNCHANGED <<memmap, free_list, size, live, want, lost, mainVars>> /\ entry = 0 /\ entry' = 1
    BY DEF init_paging
  <1>3. pool_start' \in Nat /\ pool_end' \in Nat
    <2>1. ASSUME NEW i \in 1..Len(memmap)
          PROVE  /\ align_up(memmap[i].base, PAGE_SIZE) \in Nat
                 /\ Min2(align_up(memmap[i].base, PAGE_SIZE) + NEEDED_MEM, EntryEnd(memmap[i])) \in Nat
      <3>1. memmap[i].base \in Nat /\ EntryEnd(memmap[i]) \in Nat
        BY EntryProps DEF IInv
      <3>2. align_up(memmap[i].base, PAGE_SIZE) \in Nat
        BY <3>1, AlignUpProps, SizesAssumption
      <3> QED BY <3>1, <3>2, SizesAssumption DEF Min2
    <2> QED BY <2>1 DEF init_paging, IInv, TypeOK
  <1>4. TypeOK'
    <2>1. Len(memmap) \in Nat
      BY MemMapAssumption, LenProperties DEF IInv, TypeOK
    <2> QED BY <2>1, <1>2, <1>3 DEF IInv, TypeOK, mainVars
  <1>5. Walked' = {}
    BY <1>4, <1>2, WalkedProps, MemMapAssumption, LenProperties DEF Walked, Min2, TypeOK
  <1>6. Blocks' = {} /\ FreeListSorted' /\ RequestsFit'
    BY <1>1, <1>2 DEF Blocks, Free, IInv, FreeListSorted, RequestsFit, mainVars
  <1>7. BlocksApart' /\ BlocksInsideRam' /\ EveryByteAccounted'
    BY <1>5, <1>6 DEF BlocksApart, BlocksInsideRam, EveryByteAccounted, Blocks
  <1> QED BY <1>4, <1>6, <1>7 DEF IInv

\* Adding a map entry: its heap part lies above every block there is and beside the pool.
LEMMA EntryKeeps == IInv /\ init_allocator_entry => IInv'
  <1> SUFFICES ASSUME IInv, init_allocator_entry PROVE IInv'
    OBVIOUS
  <1>0. PICK e : e = memmap[entry]
    OBVIOUS
  <1>1. PICK b : b = HeapStart(e)
    OBVIOUS
  <1>2. /\ entry \in 1..Len(memmap) /\ entry \in Nat /\ entry' = entry + 1 /\ Len(memmap) \in Nat
        /\ UNCHANGED <<memmap, pool_start, pool_end, live, want, mainVars>>
    BY MemMapAssumption, LenProperties DEF init_allocator_entry, IInv, TypeOK
  <1>3. /\ b \in Nat /\ EntryEnd(e) \in Nat /\ EntryEnd(e) <= MAX_ADDR /\ e.base \in Nat /\ e.base <= b
        /\ \A j \in 1..Len(memmap) : j < entry => EntryEnd(memmap[j]) <= e.base
    BY <1>0, <1>1, <1>2, EntryProps DEF IInv
  <1>4. \A f : HeapStart(f)' = HeapStart(f) /\ InHeap(f)' = InHeap(f)
    BY <1>2 DEF HeapStart, InHeap
  <1>5. TypeOK => (free_list' \in Seq(Addr) /\ size' \in [Addr -> Nat] /\ lost' \subseteq Addr => TypeOK')
    BY <1>2 DEF TypeOK, mainVars
  <1>6. CASE ~InHeap(e)
    <2>1. UNCHANGED <<size, free_list, lost>>
      BY <1>0, <1>6 DEF init_allocator_entry
    <2>2. TypeOK'
      BY <2>1, <1>5 DEF IInv, TypeOK
    <2>3. Walked' = Walked
      <3>1. \A f : f \in Walked' <=> \E i \in 1..Len(memmap) : i < entry + 1 /\ f = memmap[i] /\ InHeap(f)
        <4>1. \A i : i \in 1..Min2(entry' - 1, Len(memmap)) <=> i \in 1..Len(memmap) /\ i < entry + 1
          BY <1>2 DEF Min2
        <4> QED BY <4>1, <1>2, <1>4 DEF Walked
      <3>2. \A i \in 1..Len(memmap) : i < entry + 1 <=> i < entry \/ i = entry
        BY <1>2
      <3> QED BY <3>1, <3>2, <1>0, <1>6, WalkedProps DEF IInv
    <2>4. Blocks' = Blocks /\ Free' = Free /\ \A c : BlockEnd(c)' = BlockEnd(c)
      BY <2>1, <1>2 DEF Blocks, Free, BlockEnd
    <2>5. BlocksApart'
      BY <2>1, <2>4, <1>2 DEF BlocksApart, IInv
    <2>6. BlocksInsideRam' /\ EveryByteAccounted'
      BY <2>3, <2>4, <1>2, <1>4 DEF BlocksInsideRam, EveryByteAccounted, IInv
    <2>7. FreeListSorted' /\ RequestsFit'
      BY <2>1, <1>2 DEF FreeListSorted, RequestsFit, IInv, mainVars
    <2> QED BY <2>2, <2>5, <2>6, <2>7 DEF IInv
  <1>7. CASE InHeap(e)
    <2>1. size' = [size EXCEPT ![b] = EntryEnd(e) - b - HDR] /\ insert_free_block_sorted(b)
      BY <1>0, <1>1, <1>7 DEF init_allocator_entry
    <2>2. EntryEnd(e) > b + HDR /\ b \in Addr /\ EntryEnd(e) - b - HDR \in Nat
      BY <1>1, <1>3, <1>7, SizesAssumption DEF InHeap, Addr
    <2>3. ASSUME NEW c \in Blocks PROVE BlockEnd(c) <= b /\ c < b /\ c \in Addr
      <3>1. PICK f \in Walked : BlockEnd(c) <= EntryEnd(f)
        BY DEF IInv, BlocksInsideRam
      <3>2. EntryEnd(f) <= e.base /\ EntryEnd(f) \in Nat
        BY <3>1, <1>3, WalkedProps, EntryProps DEF IInv
      <3>3. c \in Nat /\ c \in Addr /\ BlockEnd(c) \in Nat /\ c < BlockEnd(c)
        BY BlockProps DEF IInv
      <3> QED BY <3>1, <3>2, <3>3, <1>3
    <2>4. b \notin Blocks
      BY <2>3, <1>3
    <2>5. /\ free_list' \in Seq(Addr) /\ FreeListSorted'
          /\ \/ Free' = Free \cup {b} /\ lost' = lost
             \/ Free' = Free /\ lost' = lost \cup {b}
      BY <2>1, <2>2, <2>4, InsertEffect DEF IInv, TypeOK, Blocks
    <2>6. size' \in [Addr -> Nat] /\ size'[b] = EntryEnd(e) - b - HDR
          /\ \A c \in Addr : c # b => size'[c] = size[c]
      BY <2>1, <2>2 DEF IInv, TypeOK
    <2>7. TypeOK'
      BY <2>5, <2>6, <2>2, <1>5 DEF IInv, TypeOK
    <2>8. Blocks' = Blocks \cup {b}
      BY <2>5, <1>2 DEF Blocks
    <2>9. BlockEnd(b)' = EntryEnd(e) /\ \A c \in Blocks : BlockEnd(c)' = BlockEnd(c)
      <3>1. BlockEnd(b)' = EntryEnd(e)
        BY <2>6, <1>3, SizesAssumption DEF BlockEnd
      <3>2. ASSUME NEW c \in Blocks PROVE BlockEnd(c)' = BlockEnd(c)
        BY <2>6, <2>3, <2>4 DEF BlockEnd
      <3> QED BY <3>1, <3>2
    <2>10. \A f : f \in Walked' <=> f \in Walked \/ f = e
      <3>1. \A f : f \in Walked' <=> \E i \in 1..Len(memmap) : i < entry + 1 /\ f = memmap[i] /\ InHeap(f)
        <4>1. \A i : i \in 1..Min2(entry' - 1, Len(memmap)) <=> i \in 1..Len(memmap) /\ i < entry + 1
          BY <1>2 DEF Min2
        <4> QED BY <4>1, <1>2, <1>4 DEF Walked
      <3>2. \A i \in 1..Len(memmap) : i < entry + 1 <=> i < entry \/ i = entry
        BY <1>2
      <3> QED BY <3>1, <3>2, <1>0, <1>2, <1>7, WalkedProps DEF IInv
    <2>11. BlocksApart'
      <3>1. live' \cap Free' = {} /\ live' \cap lost' = {} /\ lost' \cap Free' = {}
        BY <2>4, <2>5, <1>2 DEF IInv, BlocksApart, Blocks
      <3>2. ASSUME NEW c \in Blocks \cup {b}, NEW d \in Blocks \cup {b}, c < d
            PROVE  BlockEnd(c)' <= d
        <4>1. c \in Nat /\ d \in Nat
          BY <1>3, BlockProps DEF IInv
        <4>2. c # b
          BY <3>2, <4>1, <2>3, <1>3
        <4>3. c \in Blocks /\ BlockEnd(c)' = BlockEnd(c)
          BY <4>2, <2>9
        <4>4. CASE d = b
          BY <4>3, <4>4, <2>3
        <4>5. CASE d # b
          BY <4>3, <4>5, <3>2 DEF IInv, BlocksApart
        <4> QED BY <4>4, <4>5
      <3> QED BY <2>8, <3>1, <3>2 DEF BlocksApart
    <2>12. BlocksInsideRam'
      <3>1. /\ HeapStart(e) <= b /\ BlockEnd(b)' <= EntryEnd(e)
            /\ BlockEnd(b)' <= pool_start \/ pool_end <= b
        <4>1. align_up(e.base, ALIGN_SIZE) \in Nat /\ pool_start \in Nat /\ pool_end \in Nat
          BY <1>3, AlignUpProps, SizesAssumption DEF IInv, TypeOK
        <4> QED BY <4>1, <2>9, <1>1, <1>3 DEF HeapStart
      <3>2. ASSUME NEW c \in Blocks
            PROVE  \E f \in Walked : /\ HeapStart(f) <= c /\ BlockEnd(c)' <= EntryEnd(f)
                                     /\ BlockEnd(c)' <= pool_start \/ pool_end <= c
        BY <2>9 DEF IInv, BlocksInsideRam
      <3> QED BY <3>1, <3>2, <2>8, <2>10, <1>2, <1>4 DEF BlocksInsideRam
    <2>13. EveryByteAccounted'
      <3> SUFFICES ASSUME NEW f, f \in Walked \/ f = e, NEW a \in HeapStart(f)..(EntryEnd(f) - 1)
                   PROVE  \E c \in Blocks \cup {b} : c <= a /\ a < BlockEnd(c)'
        BY <2>8, <2>10, <1>4 DEF EveryByteAccounted
      <3>1. CASE f \in Walked
        BY <3>1, <2>9 DEF IInv, EveryByteAccounted
      <3>2. CASE f = e
        BY <3>2, <2>9, <1>1, <1>3
      <3> QED BY <3>1, <3>2
    <2>14. RequestsFit'
      BY <2>6, <2>3, <2>4, <1>2 DEF IInv, RequestsFit, Blocks, mainVars
    <2> QED BY <2>5, <2>7, <2>11, <2>12, <2>13, <2>14 DEF IInv
  <1> QED BY <1>6, <1>7

\* A kmalloc that takes a block, called by main or by an interrupt handler.
LEMMA TakeKeeps ==
  ASSUME IInv, NEW i \in 1..Len(free_list), NEW n \in Nat,
         size[free_list[i]] >= alloc_size(n), unlink(i, alloc_size(n)),
         live' = live \cup {free_list[i]}, want' = [want EXCEPT ![free_list[i]] = n],
         UNCHANGED <<bootVars, lost>>,
         main_pc' \in {"idle", "search", "zero"}, main_want' \in Nat, main_block' \in Addr,
         main_pc' = "zero" =>
           \/ main_block' = free_list[i] /\ main_want' = n
           \/ main_pc = "zero" /\ main_block' = main_block /\ main_want' = main_want
  PROVE  IInv'
  <1>0. PICK b : b = free_list[i]
    OBVIOUS
  <1>1. alloc_size(n) \in Nat /\ n <= alloc_size(n)
    BY AllocSizeProps
  <1>2. /\ free_list' \in Seq(Addr) /\ FreeListSorted' /\ BlockInv'
        /\ b \in Addr /\ b \notin live /\ size' \in [Addr -> Nat]
        /\ size'[b] >= alloc_size(n) /\ \A c \in live : size'[c] = size[c]
    BY <1>0, <1>1, TakeEffect DEF IInv, BlockInv
  <1>3. TypeOK'
    BY <1>0, <1>2 DEF IInv, TypeOK, bootVars
  <1>4. RequestsFit'
    <2>1. ASSUME NEW c \in live \cup {b} PROVE want'[c] <= size'[c]
      <3>1. CASE c = b
        <4>1. want'[c] = n
          BY <3>1, <1>0, <1>2 DEF IInv, TypeOK
        <4>2. size'[c] \in Nat
          BY <3>1, <1>2
        <4> QED BY <4>1, <4>2, <3>1, <1>1, <1>2
      <3>2. CASE c # b
        BY <3>2, <1>0, <1>2 DEF IInv, TypeOK, RequestsFit
      <3> QED BY <3>1, <3>2
    <2>2. ASSUME main_pc' = "zero"
          PROVE  main_block' \in live' /\ alloc_size(main_want') <= size'[main_block']
      <3>1. CASE main_block' = b /\ main_want' = n
        <4>1. size'[b] \in Nat
          BY <1>2
        <4> QED BY <3>1, <4>1, <1>0, <1>1, <1>2
      <3>2. CASE main_pc = "zero" /\ main_block' = main_block /\ main_want' = main_want
        BY <3>2, <1>2 DEF IInv, RequestsFit
      <3> QED BY <2>2, <3>1, <3>2, <1>0
    <2>3. alloc_size(main_want)' = alloc_size(main_want')
      BY DEF alloc_size, align_up, Max2
    <2> QED BY <2>1, <2>2, <2>3, <1>0 DEF RequestsFit
  <1> QED BY <1>2, <1>3, <1>4 DEF IInv, BlockInv

\* kfree gives a block from its holder to the list, or loses it.
LEMMA FreeKeeps == ASSUME IInv, NEW b \in live, kfree(b) PROVE IInv'
  <1>1. /\ b \in live /\ b \notin InHand /\ insert_free_block_sorted(b) /\ live' = live \ {b}
        /\ want' = [want EXCEPT ![b] = 0] /\ UNCHANGED <<bootVars, size, mainVars>>
    BY DEF kfree
  <1>2. b \in Addr /\ b \notin Free /\ b \notin lost
    BY DEF IInv, TypeOK, BlocksApart
  <1>3. /\ free_list' \in Seq(Addr) /\ FreeListSorted'
        /\ \/ Free' = Free \cup {b} /\ lost' = lost
           \/ Free' = Free /\ lost' = lost \cup {b}
    BY <1>1, <1>2, InsertEffect DEF IInv, TypeOK
  <1>4. TypeOK'
    BY <1>1, <1>2, <1>3 DEF IInv, TypeOK, bootVars, mainVars
  <1>5. Blocks' = Blocks
    BY <1>1, <1>3 DEF Blocks
  <1>6. live' \cap Free' = {} /\ live' \cap lost' = {} /\ lost' \cap Free' = {}
    BY <1>1, <1>2, <1>3 DEF IInv, BlocksApart
  <1>7. BlockInv'
    BY <1>1, <1>5, <1>6, SameBlocks DEF IInv, BlockInv
  <1>8. RequestsFit'
    <2>1. \A c \in live' : want'[c] = want[c] /\ size'[c] = size[c] /\ c \in live
      BY <1>1 DEF IInv, TypeOK
    <2>2. main_pc' = main_pc /\ main_block' = main_block /\ main_want' = main_want /\ size' = size
      BY <1>1 DEF mainVars
    <2>3. main_pc = "zero" => main_block # b
      BY <1>1 DEF InHand
    <2>4. alloc_size(main_want)' = alloc_size(main_want)
      BY <2>2 DEF alloc_size, align_up, Max2
    <2> QED BY <2>1, <2>2, <2>3, <2>4, <1>1 DEF IInv, RequestsFit
  <1> QED BY <1>3, <1>4, <1>7, <1>8 DEF IInv, BlockInv

\* A step that only moves main along leaves every block where it is.
LEMMA MainKeeps ==
  ASSUME IInv, UNCHANGED <<bootVars, free_list, size, live, want, lost>>,
         main_pc' \in {"idle", "search"}, main_want' \in Nat, main_block' \in Addr
  PROVE  IInv'
  <1>1. Blocks' = Blocks /\ Free' = Free
    BY DEF Blocks, Free
  <1>2. BlockInv'
    BY <1>1, SameBlocks DEF IInv, BlockInv, BlocksApart
  <1>3. TypeOK' /\ FreeListSorted' /\ RequestsFit'
    BY DEF IInv, TypeOK, FreeListSorted, RequestsFit, bootVars
  <1> QED BY <1>2, <1>3 DEF IInv, BlockInv

\* Initially.
LEMMA InitIInv == Init => IInv
  <1> SUFFICES ASSUME Init PROVE IInv
    OBVIOUS
  <1>1. free_list = <<>> /\ Len(free_list) = 0 /\ Free = {} /\ Blocks = {} /\ 0 \in Addr
    BY SizesAssumption DEF Init, Free, ToSet, Blocks, Addr
  <1>2. TypeOK
    BY <1>1, SizesAssumption, MemMapAssumption, LenProperties DEF Init, TypeOK
  <1>3. Walked = {}
    BY <1>2, WalkedProps DEF Init
  <1> QED
    BY <1>1, <1>2, <1>3 DEF IInv, Init, FreeListSorted, BlocksApart, BlocksInsideRam,
       EveryByteAccounted, RequestsFit

\* One case per action.
LEMMA NextIInv == IInv /\ [Next]_vars => IInv'
  <1> SUFFICES ASSUME IInv, [Next]_vars PROVE IInv'
    OBVIOUS
  <1>1. CASE init_paging
    BY <1>1, PagingKeeps
  <1>2. CASE init_allocator_entry
    BY <1>2, EntryKeeps
  <1>3. ASSUME NEW n \in Requests, main_kmalloc(n) PROVE IInv'
    BY <1>3, MainKeeps, SizesAssumption DEF main_kmalloc, IInv, TypeOK
  <1>4. CASE main_take
    <2>1. PICK i \in 1..Len(free_list) :
            /\ size[free_list[i]] >= alloc_size(main_want) /\ unlink(i, alloc_size(main_want))
            /\ live' = live \cup {free_list[i]} /\ want' = [want EXCEPT ![free_list[i]] = main_want]
            /\ main_block' = free_list[i]
      BY <1>4 DEF main_take, FirstFit
    <2>2. main_want \in Nat /\ main_want' = main_want /\ main_pc' = "zero" /\ UNCHANGED <<bootVars, lost>>
      BY <1>4 DEF main_take, IInv, TypeOK
    <2>3. free_list[i] \in Addr
      BY ElementOfSeq DEF IInv, TypeOK
    <2> QED BY <2>1, <2>2, <2>3, TakeKeeps
  <1>5. CASE main_fail
    BY <1>5, MainKeeps, SizesAssumption DEF main_fail, Addr
  <1>6. CASE main_zero
    BY <1>6, MainKeeps, SizesAssumption DEF main_zero, Addr
  <1>7. ASSUME NEW n \in Requests, irq_kmalloc(n) PROVE IInv'
    <2>1. PICK i \in 1..Len(free_list) :
            /\ size[free_list[i]] >= alloc_size(n) /\ unlink(i, alloc_size(n))
            /\ live' = live \cup {free_list[i]} /\ want' = [want EXCEPT ![free_list[i]] = n]
      BY <1>7 DEF irq_kmalloc, FirstFit
    <2>2. n \in Nat /\ UNCHANGED <<bootVars, lost, mainVars>>
      BY <1>7, SizesAssumption DEF irq_kmalloc
    <2>3. /\ main_pc' = main_pc /\ main_want' = main_want /\ main_block' = main_block
          /\ main_pc \in {"idle", "search", "zero"} /\ main_want \in Nat /\ main_block \in Addr
      BY <2>2 DEF mainVars, IInv, TypeOK
    <2> QED BY <2>1, <2>2, <2>3, TakeKeeps
  <1>8. ASSUME NEW b \in live, kfree(b) PROVE IInv'
    BY <1>8, FreeKeeps
  <1>9. CASE UNCHANGED vars
    <2>1. UNCHANGED <<bootVars, free_list, size, live, want, lost, main_pc, main_want, main_block>>
      BY <1>9 DEF vars, mainVars
    <2>2. BlockInv'
      BY <2>1, SameBlocks DEF IInv, BlockInv, BlocksApart, Blocks, Free
    <2>3. TypeOK' /\ FreeListSorted' /\ RequestsFit'
      BY <2>1 DEF IInv, TypeOK, FreeListSorted, RequestsFit, bootVars, alloc_size, align_up, Max2
    <2> QED BY <2>2, <2>3 DEF IInv, BlockInv
  <1> QED BY <1>1, <1>2, <1>3, <1>4, <1>5, <1>6, <1>7, <1>8, <1>9 DEF Next

\* Every reachable state of the heap satisfies the inductive invariant.
LEMMA Invariance == Spec => []IInv
  BY InitIInv, NextIInv, PTL DEF Spec

\* The types of the heap's variables, for every memory map: the list and the size
\* fields stay inside the machine's addresses (mem.c 256-412).
THEOREM HeapTypes == Spec => []TypeOK
  <1>1. IInv => TypeOK
    BY DEF IInv
  <1> QED BY <1>1, Invariance, PTL

\* The free list of insert_free_block_sorted and kmalloc is always strictly sorted.
THEOREM ListStaysSorted == Spec => []FreeListSorted
  <1>1. IInv => FreeListSorted
    BY DEF IInv
  <1> QED BY <1>1, Invariance, PTL

\* No two blocks ever overlap and none has two owners, whatever kmalloc and kfree do.
THEOREM BlocksStayApart == Spec => []BlocksApart
  <1>1. IInv => BlocksApart
    BY DEF IInv
  <1> QED BY <1>1, Invariance, PTL

\* The heap never leaves usable RAM and never enters the page-table pool.
THEOREM BlocksStayInside == Spec => []BlocksInsideRam
  <1>1. IInv => BlocksInsideRam
    BY DEF IInv
  <1> QED BY <1>1, Invariance, PTL

\* Every byte of the heap is always in some block.
THEOREM NoByteDisappears == Spec => []EveryByteAccounted
  <1>1. IInv => EveryByteAccounted
    BY DEF IInv
  <1> QED BY <1>1, Invariance, PTL

\* A holder always has what it asked for, and main clears only its own block.
THEOREM RequestsAlwaysFit == Spec => []RequestsFit
  <1>1. IInv => RequestsFit
    BY DEF IInv
  <1> QED BY <1>1, Invariance, PTL

------------------------------------------------------------------------------
(* The heap implements Allocator.  On top of IInv this needs that blocks   *)
(* are aligned: the pool ends at a page, headers and allocation sizes are  *)
(* multiples of ALIGN_SIZE, so the tail of a split block starts at one.    *)

Aligned(a) == a % ALIGN_SIZE = 0

\* The part of the invariant that is about alignment.
AlignInv == Aligned(pool_end) /\ \A b \in Blocks : Aligned(b)

\* Aligned sizes add up to aligned ones.
LEMMA AlignedSum ==
  ASSUME NEW a \in Nat, NEW b \in Nat, Aligned(a), Aligned(b)
  PROVE  Aligned(a + b)
  <1>1. a \in Int /\ b \in Int /\ ALIGN_SIZE \in Nat \ {0}
    BY SizesAssumption
  <1> QED
    BY <1>1, SumOfMultiples, Zenon DEF Aligned

\* What is on a page boundary is aligned.
LEMMA AlignedPages ==
  ASSUME NEW a \in Nat, a % PAGE_SIZE = 0
  PROVE  Aligned(a)
  <1>1. a \in Int /\ ALIGN_SIZE \in Nat \ {0} /\ PAGE_SIZE \in Nat \ {0} /\ PAGE_SIZE % ALIGN_SIZE = 0
    BY SizesAssumption, AlignmentAssumption
  <1> QED
    BY <1>1, MultipleOfMultiple, Zenon DEF Aligned

\* align_up rounds to a multiple.
LEMMA AlignUpMultiple ==
  ASSUME NEW n \in Nat, NEW a \in Nat \ {0}
  PROVE  align_up(n, a) % a = 0
  <1>1. PICK t \in Int : t = n + a - 1
    OBVIOUS
  <1>2. align_up(n, a) = t - (t % a)
    BY <1>1 DEF align_up
  <1> QED
    BY <1>2, RoundedIsMultiple

\* alloc_size is aligned.
LEMMA AllocSizeAligned ==
  ASSUME NEW n \in Nat
  PROVE  Aligned(alloc_size(n))
  BY AlignUpMultiple, SizesAssumption, AlignmentAssumption DEF alloc_size, Max2, Aligned

\* The heap's part of an entry starts at a multiple of ALIGN_SIZE.
LEMMA HeapStartAligned ==
  ASSUME TypeOK, AlignInv, NEW i \in 1..Len(memmap)
  PROVE  Aligned(HeapStart(memmap[i]))
  <1>1. memmap[i].base \in Nat
    BY EntryProps
  <1>2. Aligned(align_up(memmap[i].base, ALIGN_SIZE))
    BY <1>1, AlignUpMultiple, SizesAssumption DEF Aligned
  <1> QED
    BY <1>2 DEF HeapStart, AlignInv

\* A list with one block more, block by block.
LEMMA InsertedBlock ==
  ASSUME NEW s \in Seq(Addr), NEW p \in 1..Len(s), NEW b \in Addr
  PROVE  \A j \in 1..(Len(s) + 1) :
           InsertAt(s, p + 1, b)[j] = IF j <= p THEN s[j] ELSE IF j = p + 1 THEN b ELSE s[j - 1]
  <1>1. p \in 0..Len(s)
    BY LenProperties
  <1> QED
    BY <1>1, InsertAtElement

\* Insertion adds the block it is called for and no other.
LEMMA InsertWithin ==
  ASSUME free_list \in Seq(Addr), NEW b \in Addr, insert_free_block_sorted(b)
  PROVE  Free' \subseteq Free \cup {b} /\ lost' \subseteq lost \cup {b}
  <1> DEFINE n == Len(free_list)
  <1>0. n \in Nat
    BY LenProperties
  <1>1. ASSUME free_list' \in Seq(Addr),
               \A j \in 1..Len(free_list') : free_list'[j] = b \/ \E i \in 1..n : free_list'[j] = free_list[i]
        PROVE  Free' \subseteq Free \cup {b}
    <2>1. \A c : c \in Free' => \E j \in 1..Len(free_list') : c = free_list'[j]
      BY <1>1, LenProperties DEF Free, ToSet
    <2>2. \A c : c \in Free <=> \E i \in 1..n : c = free_list[i]
      BY FreeElems
    <2> QED
      BY <1>1, <2>1, <2>2
  <1>2. CASE free_list' = <<b>> \o free_list /\ UNCHANGED lost
    <2>1. /\ free_list' \in Seq(Addr) /\ Len(free_list') = n + 1
          /\ \A j \in 1..(n + 1) : free_list'[j] = IF j = 1 THEN b ELSE free_list[j - 1]
      BY <1>2, ConsProps
    <2>2. \A j \in 1..(n + 1) : j # 1 => j - 1 \in 1..n
      BY <1>0
    <2>3. \A j \in 1..Len(free_list') : free_list'[j] = b \/ \E i \in 1..n : free_list'[j] = free_list[i]
      BY <2>1, <2>2
    <2> QED
      BY <1>1, <1>2, <2>1, <2>3
  <1>3. ASSUME NEW p \in 1..n, free_list' = InsertAt(free_list, p + 1, b), UNCHANGED lost
        PROVE  Free' \subseteq Free \cup {b} /\ lost' \subseteq lost \cup {b}
    <2>1. free_list' \in Seq(Addr) /\ Len(free_list') = n + 1
      BY <1>0, <1>3, InsertAtProps
    <2>2. \A j \in 1..(n + 1) : free_list'[j] = IF j <= p THEN free_list[j]
                                 ELSE IF j = p + 1 THEN b ELSE free_list[j - 1]
      BY <1>3, InsertedBlock
    <2>3. ASSUME NEW j \in 1..Len(free_list')
          PROVE  free_list'[j] = b \/ \E i \in 1..n : free_list'[j] = free_list[i]
      <3>1. CASE j <= p
        <4>1. j \in 1..n /\ free_list'[j] = free_list[j]
          BY <1>0, <2>1, <2>2, <3>1
        <4> QED
          BY <4>1
      <3>2. CASE j = p + 1
        BY <1>0, <2>1, <2>2, <3>2
      <3>3. CASE j > p + 1
        <4>1. j - 1 \in 1..n /\ free_list'[j] = free_list[j - 1]
          BY <1>0, <2>1, <2>2, <3>3
        <4> QED
          BY <4>1
      <3> QED
        BY <1>0, <2>1, <3>1, <3>2, <3>3
    <2> QED
      BY <1>1, <1>3, <2>1, <2>3
  <1>4. CASE UNCHANGED free_list /\ lost' = lost \cup {b}
    BY <1>4 DEF Free
  <1> QED
    BY <1>2, <1>3, <1>4 DEF insert_free_block_sorted

------------------------------------------------------------------------------
(* Blocks stay aligned.                                                    *)

\* init_paging starts the pool on a page boundary.
LEMMA PagingAligns ==
  ASSUME IInv, AlignInv, init_paging
  PROVE  AlignInv'
  <1>1. Blocks' = Blocks
    BY DEF init_paging, Blocks, Free
  <1>2. Aligned(pool_end')
    <2>1. ASSUME NEW i \in 1..Len(memmap), PoolEntry(i),
                 pool_end' = Min2(align_up(memmap[i].base, PAGE_SIZE) + NEEDED_MEM, EntryEnd(memmap[i]))
          PROVE  Aligned(pool_end')
      <3>1. /\ memmap[i].base \in Nat /\ memmap[i].length \in Nat
            /\ memmap[i].base % PAGE_SIZE = 0 /\ memmap[i].length % PAGE_SIZE = 0
        BY <2>1, EntryProps, AlignmentAssumption DEF IInv, TypeOK, PoolEntry, HoldsPool
      <3>2. PICK u \in Nat : u = align_up(memmap[i].base, PAGE_SIZE)
        BY <3>1, AlignUpProps, SizesAssumption
      <3>3. u % PAGE_SIZE = 0
        BY <3>1, <3>2, AlignUpMultiple, SizesAssumption
      <3>4. (u + NEEDED_MEM) % PAGE_SIZE = 0
        <4>1. u \in Int /\ NEEDED_MEM \in Int /\ PAGE_SIZE \in Nat \ {0} /\ NEEDED_MEM % PAGE_SIZE = 0
          BY SizesAssumption, AlignmentAssumption
        <4> QED
          BY <3>3, <4>1, SumOfMultiples, Zenon
      <3>5. EntryEnd(memmap[i]) % PAGE_SIZE = 0 /\ EntryEnd(memmap[i]) \in Nat
        <4>1. memmap[i].base \in Int /\ memmap[i].length \in Int /\ PAGE_SIZE \in Nat \ {0}
              /\ EntryEnd(memmap[i]) \in Nat
          BY <3>1, SizesAssumption DEF EntryEnd
        <4> QED
          BY <3>1, <4>1, SumOfMultiples, Zenon DEF EntryEnd
      <3>6. Aligned(u + NEEDED_MEM) /\ Aligned(EntryEnd(memmap[i]))
        BY <3>4, <3>5, AlignedPages, SizesAssumption
      <3> QED
        BY <2>1, <3>2, <3>6 DEF Min2
    <2>2. CASE UNCHANGED pool_end
      BY <2>2 DEF AlignInv
    <2> QED
      BY <2>1, <2>2 DEF init_paging
  <1> QED
    BY <1>1, <1>2 DEF AlignInv, Aligned

\* init_allocator_entry makes an aligned block.
LEMMA EntryAligns ==
  ASSUME IInv, AlignInv, init_allocator_entry
  PROVE  AlignInv'
  <1>0. PICK b : b = HeapStart(memmap[entry])
    OBVIOUS
  <1>1. entry \in 1..Len(memmap) /\ pool_end' = pool_end /\ live' = live
    BY DEF init_allocator_entry
  <1>2. CASE ~InHeap(memmap[entry])
    <2>1. Blocks' = Blocks
      BY <1>1, <1>2 DEF init_allocator_entry, Blocks, Free
    <2> QED
      BY <1>1, <2>1 DEF AlignInv, Aligned
  <1>3. CASE InHeap(memmap[entry])
    <2>1. insert_free_block_sorted(b)
      BY <1>0, <1>3 DEF init_allocator_entry
    <2>2. b \in Addr /\ Aligned(b)
      <3>1. /\ b \in Nat /\ EntryEnd(memmap[entry]) \in Nat /\ EntryEnd(memmap[entry]) <= MAX_ADDR
            /\ EntryEnd(memmap[entry]) > b + HDR
        BY <1>0, <1>1, <1>3, EntryProps DEF IInv, InHeap
      <3> QED
        BY <1>0, <1>1, <3>1, HeapStartAligned, SizesAssumption DEF IInv, Addr
    <2>3. Blocks' \subseteq Blocks \cup {b}
      BY <1>1, <2>1, <2>2, InsertWithin DEF IInv, TypeOK, Blocks
    <2> QED
      BY <1>1, <2>2, <2>3 DEF AlignInv, Aligned
  <1> QED
    BY <1>2, <1>3

\* A block taken, whole or split, leaves aligned ones.
LEMMA TakeAligns ==
  ASSUME IInv, AlignInv, NEW i \in 1..Len(free_list), NEW n \in Nat,
         size[free_list[i]] >= alloc_size(n), unlink(i, alloc_size(n)),
         live' = live \cup {free_list[i]}, UNCHANGED <<bootVars, lost>>
  PROVE  AlignInv'
  <1>0. PICK b : b = free_list[i]
    OBVIOUS
  <1>1. PICK s \in Nat : s = alloc_size(n) /\ Aligned(s)
    BY AllocSizeProps, AllocSizeAligned
  <1>2. b \in Free /\ (Free' = (Free \ {b}) \cup {b + HDR + s} \/ Free' = Free \ {b})
    BY <1>0, <1>1, UnlinkEffect DEF IInv
  <1>3. b \in Blocks /\ b \in Nat /\ Aligned(b)
    BY <1>2, BlockProps DEF IInv, Blocks, AlignInv
  <1>4. Aligned(HDR) /\ HDR \in Nat
    BY SizesAssumption, AlignmentAssumption DEF Aligned
  <1>5. Aligned(b + HDR) /\ b + HDR \in Nat
    <2>1. Aligned(b + HDR)
      BY <1>3, <1>4, AlignedSum, Zenon
    <2> QED
      BY <1>3, <1>4, <2>1
  <1>6. Aligned(b + HDR + s)
    BY <1>1, <1>5, AlignedSum
  <1>7. Blocks' \subseteq Blocks \cup {b + HDR + s}
    BY <1>0, <1>2 DEF Blocks
  <1>8. pool_end' = pool_end
    BY DEF bootVars
  <1> QED
    BY <1>6, <1>7, <1>8 DEF AlignInv, Aligned

\* A block given back and merged stays aligned.
LEMMA FreeAligns ==
  ASSUME IInv, AlignInv, NEW b \in live, kfree(b)
  PROVE  AlignInv'
  <1>1. insert_free_block_sorted(b) /\ live' = live \ {b} /\ pool_end' = pool_end
    BY DEF kfree, bootVars
  <1>2. Free' \subseteq Free \cup {b} /\ lost' \subseteq lost \cup {b}
    BY <1>1, InsertWithin DEF IInv, TypeOK
  <1>3. Blocks' \subseteq Blocks
    BY <1>1, <1>2 DEF Blocks
  <1> QED
    BY <1>1, <1>3 DEF AlignInv, Aligned

\* Initially.
LEMMA InitAligns == Init => AlignInv
  BY SizesAssumption DEF Init, AlignInv, Aligned, Blocks, Free, ToSet

\* Steps that leave the blocks alone.
LEMMA StillAligns ==
  ASSUME AlignInv, UNCHANGED <<pool_end, free_list, live, lost>>
  PROVE  AlignInv'
  BY DEF AlignInv, Aligned, Blocks, Free

\* What a kmalloc of either context does, once it has found a block.
Takes(i, n) ==
  /\ size[free_list[i]] >= alloc_size(n) /\ unlink(i, alloc_size(n))
  /\ live' = live \cup {free_list[i]} /\ want' = [want EXCEPT ![free_list[i]] = n]
  /\ UNCHANGED <<bootVars, lost>>

\* The steps: a block taken, a block freed, the walk of the map, and the steps that leave
\* every block with its owner.
LEMMA StepKinds ==
  ASSUME IInv, [Next]_vars
  PROVE  \/ \E i \in 1..Len(free_list), n \in Nat : Takes(i, n)
         \/ \E b \in live : kfree(b)
         \/ init_paging
         \/ init_allocator_entry
         \/ UNCHANGED <<memmap, pool_end, free_list, live, lost, want>>
  <1>1. CASE main_take
    <2>1. main_want \in Nat
      BY DEF IInv, TypeOK
    <2>2. \E i \in 1..Len(free_list) : Takes(i, main_want)
      BY <1>1 DEF main_take, FirstFit, Takes
    <2> QED
      BY <2>1, <2>2
  <1>2. ASSUME NEW n \in Requests, irq_kmalloc(n)
        PROVE  \E i \in 1..Len(free_list) : Takes(i, n)
    BY <1>2 DEF irq_kmalloc, FirstFit, Takes
  <1>3. CASE (\E n \in Requests : main_kmalloc(n)) \/ main_fail \/ main_zero \/ UNCHANGED vars
    BY <1>3 DEF main_kmalloc, main_fail, main_zero, vars, bootVars
  <1> QED
    BY <1>1, <1>2, <1>3, SizesAssumption DEF Next

\* One case per action.
LEMMA NextAligns ==
  ASSUME IInv, AlignInv, [Next]_vars
  PROVE  AlignInv'
  <1>1. ASSUME NEW i \in 1..Len(free_list), NEW n \in Nat, Takes(i, n) PROVE AlignInv'
    BY <1>1, TakeAligns DEF Takes
  <1>2. ASSUME NEW b \in live, kfree(b) PROVE AlignInv'
    BY <1>2, FreeAligns
  <1> QED
    BY <1>1, <1>2, StepKinds, PagingAligns, EntryAligns, StillAligns

\* The heap's invariant and the alignment of its blocks, in every reachable state.
LEMMA AlignedInvariance == Spec => [](IInv /\ AlignInv)
  <1>1. Init => AlignInv
    BY InitAligns
  <1>2. IInv /\ AlignInv /\ [Next]_vars => AlignInv'
    BY NextAligns
  <1> QED
    BY <1>1, <1>2, Invariance, PTL DEF Spec

------------------------------------------------------------------------------
(* The refinement.                                                         *)

\* The ranges callers hold.
Owned == {Payload(b) : b \in live}

\* A block that a caller gets is a range that Allocator may grant.
LEMMA TakeGrants ==
  ASSUME IInv, IInv', AlignInv', NEW b \in Addr, NEW n \in Nat, b \notin live,
         live' = live \cup {b}, want' = [want EXCEPT ![b] = n], UNCHANGED bootVars
  PROVE  Promise!Next
  <1> DEFINE r == [lo |-> b + HDR, hi |-> b + HDR + n]
  <1>1. /\ want \in [Addr -> Nat] /\ live \subseteq Addr /\ b \in Nat /\ HDR \in Nat
        /\ size' \in [Addr -> Nat] /\ \A c \in live : c \in Nat /\ c \in Addr /\ c # b
    <2>1. want \in [Addr -> Nat] /\ live \subseteq Addr /\ size' \in [Addr -> Nat]
      BY DEF IInv, TypeOK
    <2>2. Addr \subseteq Nat /\ HDR \in Nat
      BY SizesAssumption DEF Addr
    <2> QED
      BY <2>1, <2>2
  <1>2. want'[b] = n /\ \A c \in live : want'[c] = want[c]
    BY <1>1
  <1>3. Payload(b)' = r /\ \A c \in live : Payload(c)' = Payload(c)
    BY <1>2 DEF Payload
  <1>4. Owned' = Owned \cup {r}
    BY <1>3 DEF Owned
  <1>5. r \notin Owned
    <2> SUFFICES ASSUME NEW c \in live PROVE r # Payload(c)
      BY DEF Owned
    <2>1. Payload(c).lo = c + HDR /\ r.lo = b + HDR
      BY DEF Payload
    <2> QED
      BY <1>1, <2>1
  <1>6. r.lo % ALIGN_SIZE = 0
    <2>1. b \in Blocks'
      BY DEF Blocks
    <2>2. Aligned(b) /\ Aligned(HDR)
      BY <2>1, AlignmentAssumption DEF AlignInv, Aligned
    <2>3. Aligned(b + HDR)
      BY <1>1, <2>2, AlignedSum, Zenon
    <2> QED
      BY <2>3 DEF Aligned
  <1>7. /\ \A c \in live' : want'[c] <= size'[c] /\ size'[c] \in Nat /\ want'[c] \in Nat
        /\ \A c, d \in live' : c < d => c + HDR + size'[c] <= d
    BY <1>1 DEF IInv, RequestsFit, BlocksApart, Blocks, BlockEnd, TypeOK
  <1>8. Promise!Range2Set(r) \subseteq HeapRam
    <2>1. PICK e \in Walked : HeapStart(e) <= b /\ b + HDR + size'[b] <= EntryEnd(e)
      BY WalkedSame DEF IInv, BlocksInsideRam, Blocks, BlockEnd
    <2>2. PICK i \in 1..Len(memmap) : e = memmap[i] /\ InHeap(e)
      BY <2>1, WalkedProps DEF IInv
    <2>3. /\ e.usable /\ e.base \in Nat /\ EntryEnd(e) \in Nat /\ EntryEnd(e) <= MAX_ADDR
          /\ HeapStart(e) \in Nat /\ e.base <= HeapStart(e)
      BY <2>2, EntryProps DEF IInv, InHeap
    <2>4. n <= size'[b] /\ size'[b] \in Nat
      BY <1>2, <1>7
    <2> SUFFICES ASSUME NEW a \in (b + HDR)..(b + HDR + n - 1) PROVE a \in HeapRam
      <3>1. r.lo = b + HDR /\ r.hi = b + HDR + n
        OBVIOUS
      <3> QED
        BY <1>1, <3>1 DEF Promise!Range2Set
    <2>5. ASSUME NEW B \in Nat, NEW E \in Nat, NEW S \in Nat, NEW s \in Nat,
                 B <= S, S <= b, b + HDR + s <= E, n <= s, E <= MAX_ADDR
          PROVE  a \in 0..MAX_ADDR /\ B <= a /\ a < E
      BY <1>1, <2>5, SizesAssumption
    <2>6. a \in Addr /\ e.base <= a /\ a < EntryEnd(e)
      BY <2>1, <2>3, <2>4, <2>5 DEF Addr
    <2> QED
      BY <2>2, <2>3, <2>6 DEF HeapRam
  <1>9. \A o \in Owned : Promise!Range2Set(r) \cap Promise!Range2Set(o) = {}
    <2> SUFFICES ASSUME NEW c \in live, NEW a \in (b + HDR)..(b + HDR + n - 1),
                        a \in (c + HDR)..(c + HDR + want[c] - 1)
                 PROVE  FALSE
      <3>1. r.lo = b + HDR /\ r.hi = b + HDR + n
        OBVIOUS
      <3>2. Promise!Range2Set(r) = (b + HDR)..(b + HDR + n - 1)
        BY <1>1, <3>1 DEF Promise!Range2Set
      <3>3. \A c \in live : Promise!Range2Set(Payload(c)) = (c + HDR)..(c + HDR + want[c] - 1)
        <4> SUFFICES ASSUME NEW c \in live
                     PROVE  Promise!Range2Set(Payload(c)) = (c + HDR)..(c + HDR + want[c] - 1)
          OBVIOUS
        <4>1. Payload(c).lo = c + HDR /\ Payload(c).hi = c + HDR + want[c]
          BY DEF Payload
        <4> QED
          BY <1>1, <4>1 DEF Promise!Range2Set
      <3> HIDE DEF r
      <3> QED
        BY <3>2, <3>3, Zenon DEF Owned
    <2>1. want[c] <= size'[c] /\ n <= size'[b] /\ size'[c] \in Nat /\ size'[b] \in Nat /\ want[c] \in Nat
      BY <1>2, <1>7
    <2>2. b < c \/ c < b
      BY <1>1
    <2>3. CASE b < c
      <3>1. b + HDR + size'[b] <= c
        BY <1>7, <2>3
      <3> QED
        BY <1>1, <2>1, <3>1
    <2>4. CASE c < b
      <3>1. c + HDR + size'[c] <= b
        BY <1>7, <2>4
      <3> QED
        BY <1>1, <2>1, <3>1
    <2> QED
      BY <2>2, <2>3, <2>4
  <1>10. HeapRam' = HeapRam
    BY DEF HeapRam, EntryEnd, bootVars
  <1>11. r \in Owned' \ Owned
    BY <1>4, <1>5
  <1>12. Promise!Grant(r)
    BY <1>4, <1>6, <1>8, <1>9 DEF Promise!Grant, Owned
  <1> HIDE DEF r
  <1> QED
    BY <1>10, <1>11, <1>12 DEF Promise!Next, Owned

\* kfree takes one range away, its holder's.
LEMMA FreeReleases ==
  ASSUME IInv, NEW b \in live, kfree(b)
  PROVE  Promise!Next
  <1>1. live' = live \ {b} /\ want' = [want EXCEPT ![b] = 0] /\ UNCHANGED memmap
    BY DEF kfree, bootVars
  <1>2. \A c \in live : c \in Nat /\ c \in Addr /\ (c # b => want'[c] = want[c])
    BY <1>1, SizesAssumption DEF IInv, TypeOK, Addr
  <1>3. \A c \in live : c # b => Payload(c)' = Payload(c)
    BY <1>2 DEF Payload
  <1>4. \A c \in live : c # b => Payload(c) # Payload(b)
    <2> SUFFICES ASSUME NEW c \in live, c # b PROVE Payload(c) # Payload(b)
      OBVIOUS
    <2>1. Payload(c).lo = c + HDR /\ Payload(b).lo = b + HDR
      BY DEF Payload
    <2> QED
      BY <1>2, <2>1, SizesAssumption
  <1>5. Owned' = Owned \ {Payload(b)} /\ Payload(b) \in Owned
    BY <1>1, <1>3, <1>4 DEF Owned
  <1>6. HeapRam' = HeapRam
    BY <1>1 DEF HeapRam, EntryEnd
  <1>7. Promise!Release(Payload(b))
    BY <1>5 DEF Promise!Release, Owned
  <1> QED
    BY <1>5, <1>6, <1>7 DEF Promise!Next, Owned

\* A step that leaves the held blocks and the map alone.
LEMMA OthersStutter ==
  ASSUME UNCHANGED <<memmap, live, want>>
  PROVE  HeapRam' = HeapRam /\ Owned' = Owned
  BY DEF HeapRam, EntryEnd, Owned, Payload

LEMMA NextRefines ==
  ASSUME IInv, IInv', AlignInv', [Next]_vars
  PROVE  Promise!Next \/ (HeapRam' = HeapRam /\ Owned' = Owned)
  <1>1. ASSUME NEW i \in 1..Len(free_list), NEW n \in Nat, Takes(i, n) PROVE Promise!Next
    <2>1. PICK b : b = free_list[i]
      OBVIOUS
    <2>2. b \in Addr /\ b \notin live
      <3>1. b \in Free
        BY <2>1, FreeElems DEF IInv, TypeOK
      <3> QED
        BY <3>1, FreeElems DEF IInv, TypeOK, BlocksApart
    <2>3. live' = live \cup {b} /\ want' = [want EXCEPT ![b] = n] /\ UNCHANGED bootVars
      BY <1>1, <2>1 DEF Takes
    <2> QED
      BY <2>2, <2>3, TakeGrants
  <1>2. ASSUME NEW b \in live, kfree(b) PROVE Promise!Next
    BY <1>2, FreeReleases
  <1>3. CASE init_paging
    BY <1>3, OthersStutter DEF init_paging
  <1>4. CASE init_allocator_entry
    BY <1>4, OthersStutter DEF init_allocator_entry
  <1> QED
    BY <1>1, <1>2, <1>3, <1>4, StepKinds, OthersStutter

\* The heap implements Allocator: whatever the memory map and the calls, callers are only
\* given aligned ranges of usable RAM that nobody else holds, and keep them until kfree.
THEOREM HeapImplementsAllocator == Spec => ImplementsAllocator
  <1>1. Init => Promise!Init
    <2> SUFFICES ASSUME Init PROVE Promise!Init
      OBVIOUS
    <2>1. HeapRam \subseteq Nat
      BY SizesAssumption DEF HeapRam, Addr
    <2>2. {Payload(b) : b \in live} = {}
      BY DEF Init
    <2> QED
      BY <2>1, <2>2 DEF Promise!Init
  <1>2. IInv /\ IInv' /\ AlignInv' /\ [Next]_vars =>
          [Promise!Next]_<<HeapRam, {Payload(b) : b \in live}>>
    BY NextRefines DEF Owned
  <1> QED
    BY <1>1, <1>2, AlignedInvariance, PTL DEF Spec, ImplementsAllocator, Promise!Spec
==============================================================================
