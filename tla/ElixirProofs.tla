---------------------------- MODULE ElixirProofs -----------------------------
(***************************************************************************)
(* Elixir's invariants and its action property, for drives, tables, paths  *)
(* and names of any length and any number of calls.                        *)
(***************************************************************************)
EXTENDS Elixir, SequenceTheorems, WellFoundedInduction, TLAPS

------------------------------------------------------------------------------
(* Numbers and sequences.                                                  *)

\* A search upwards that can succeed stops at a first success.
LEMMA LeastNat ==
  ASSUME NEW S, S \subseteq Nat, S # {}
  PROVE  \E x \in S : \A y \in S : x <= y
  <1>1. PICK x \in S : \A y \in S : ~ (<<y, x>> \in OpToRel(<, Nat))
    BY NatLessThanWellFounded, WFMin, Zenon
  <1>2. \A y \in S : ~ (y < x)
    BY <1>1 DEF OpToRel
  <1> QED
    BY <1>2

\* The first free entry of a table is a free entry, and none before it is free.
LEMMA MinProps ==
  ASSUME NEW S, S \subseteq Nat, S # {}
  PROVE  Min(S) \in S /\ \A y \in S : Min(S) <= y
  BY LeastNat, Zenon DEF Min

\* Position i is dropped (a block unlinked, a process table entry closed up).
LEMMA RemoveAtProps ==
  ASSUME NEW S, NEW s \in Seq(S), NEW i \in 1..Len(s)
  PROVE  /\ RemoveAt(s, i) \in Seq(S)
         /\ Len(RemoveAt(s, i)) = Len(s) - 1
         /\ \A j \in 1..(Len(s) - 1) :
              RemoveAt(s, i)[j] = IF j < i THEN s[j] ELSE s[j + 1]
  <1> DEFINE p == SubSeq(s, 1, i - 1)
             q == SubSeq(s, i + 1, Len(s))
  <1>1. p \in Seq(S) /\ Len(p) = i - 1 /\ \A j \in 1..(i - 1) : p[j] = s[j]
    OBVIOUS
  <1>2. q \in Seq(S) /\ Len(q) = Len(s) - i /\ \A j \in 1..(Len(s) - i) : q[j] = s[i + j]
    OBVIOUS
  <1>3. RemoveAt(s, i) = p \o q
    BY DEF RemoveAt
  <1> HIDE DEF p, q
  <1>4. /\ p \o q \in Seq(S) /\ Len(p \o q) = Len(p) + Len(q)
        /\ \A j \in 1..(Len(p) + Len(q)) :
             (p \o q)[j] = IF j <= Len(p) THEN p[j] ELSE q[j - Len(p)]
    BY <1>1, <1>2, ConcatProperties
  <1>5. Len(s) \in Nat
    BY LenProperties
  <1>6. ASSUME NEW j \in 1..(Len(s) - 1)
        PROVE  (p \o q)[j] = IF j < i THEN s[j] ELSE s[j + 1]
    <2>1. CASE j < i
      BY <2>1, <1>1, <1>2, <1>4, <1>5
    <2>2. CASE j >= i
      <3>1. PICK k \in 1..(Len(s) - i) : k = j - (i - 1)
        BY <2>2, <1>5
      <3>2. (p \o q)[j] = q[k]
        BY <2>2, <3>1, <1>1, <1>2, <1>4, <1>5
      <3>3. q[k] = s[i + k] /\ i + k = j + 1
        BY <3>1, <1>2
      <3> QED BY <3>2, <3>3, <2>2
    <2>3. j < i \/ j >= i
      BY <1>5
    <2> QED BY <2>1, <2>2, <2>3, Zenon
  <1>7. Len(p \o q) = Len(s) - 1
    BY <1>1, <1>2, <1>4, <1>5
  <1> QED
    BY <1>3, <1>4, <1>6, <1>7, Zenon

------------------------------------------------------------------------------
(* What the recursive definitions compute.                                 *)

\* A set of numbers up to n has a greatest one.
LEMMA MaxProps ==
  ASSUME NEW n \in Nat, NEW S, S \subseteq 1..n, S # {}
  PROVE  Max(S) \in S /\ Max(S) \in 1..n
  <1> DEFINE D == {k \in 0..n : n - k \in S}
  <1>1. D \subseteq Nat
    OBVIOUS
  <1>2. D # {}
    <2>1. PICK x \in S : x \in 1..n
      OBVIOUS
    <2>2. n - x \in 0..n /\ n - (n - x) = x
      BY <2>1
    <2> QED
      BY <2>1, <2>2
  <1> HIDE DEF D
  <1>3. PICK k \in D : \A y \in D : k <= y
    BY <1>1, <1>2, LeastNat
  <1>4. k \in 0..n /\ n - k \in S
    BY <1>3 DEF D
  <1>5. ASSUME NEW y \in S PROVE y <= n - k
    <2>1. y \in 1..n
      OBVIOUS
    <2>2. n - y \in 0..n /\ n - (n - y) = y
      BY <2>1
    <2>3. n - y \in D
      BY <2>2 DEF D
    <2>4. k <= n - y
      BY <1>3, <2>3
    <2> QED
      BY <1>4, <2>1, <2>4
  <1>6. \E x \in S : \A y \in S : x >= y
    <2>1. \A y \in S : n - k >= y
      BY <1>4, <1>5
    <2> QED
      BY <1>4, <2>1
  <1>7. Max(S) \in S
    BY <1>6 DEF Max
  <1> QED
    BY <1>7

\* The sums that claimed takes the last of.
LEMMA ClaimedSums ==
  ASSUME NEW t, t.num_entries \in Nat, \A i \in 1..t.num_entries : t.entries[i].size \in Nat
  PROVE  \E f : /\ claimed(t) = f[t.num_entries] /\ f[0] = 0
                /\ \A i \in 0..t.num_entries : f[i] \in Nat
                /\ \A i \in 1..t.num_entries : f[i] = f[i - 1] + t.entries[i].size
  <1> DEFINE n == t.num_entries
             z(i) == t.entries[i].size
             Def(w, m) == w = [i \in 0..m |-> IF i = 0 THEN 0 ELSE w[i - 1] + z(i)]
             Bad == {m \in 0..n : ~ \E w : Def(w, m)}
  <1>0. n \in Nat /\ \A i \in 1..n : z(i) \in Nat
    OBVIOUS
  <1>1. Bad = {}
    <2>1. ASSUME Bad # {} PROVE FALSE
      <3>0. Bad \subseteq Nat
        BY <1>0
      <3> HIDE DEF Bad
      <3>1. PICK m \in Bad : \A y \in Bad : m <= y
        BY <2>1, <3>0, LeastNat
      <3>2. m \in 0..n /\ ~ \E w : Def(w, m)
        BY <3>1 DEF Bad
      <3> HIDE DEF z, n
      <3>3. m # 0
        <4>1. ASSUME m = 0 PROVE FALSE
          <5> DEFINE u == [i \in 0..m |-> 0]
          <5>1. u = [i \in 0..m |-> IF i = 0 THEN 0 ELSE u[i - 1] + z(i)]
            BY <4>1
          <5> QED
            BY <3>2, <5>1
        <4> QED
          BY <4>1
      <3>4. m - 1 \in 0..n /\ m - 1 \notin Bad
        BY <1>0, <3>0, <3>1, <3>2, <3>3
      <3>5. PICK w : Def(w, m - 1)
        BY <3>4 DEF Bad
      <3> DEFINE v == [i \in 0..m |-> IF i < m THEN w[i] ELSE w[m - 1] + z(m)]
      <3>6. \A i \in 0..m : v[i] = IF i = 0 THEN 0 ELSE v[i - 1] + z(i)
        <4> SUFFICES ASSUME NEW i \in 0..m
                     PROVE  v[i] = IF i = 0 THEN 0 ELSE v[i - 1] + z(i)
          OBVIOUS
        <4>0. m \in Nat \ {0}
          BY <1>0, <3>2, <3>3
        <4>1. i # 0 => v[i - 1] = w[i - 1]
          BY <4>0
        <4>2. CASE i < m
          <5>1. i \in 0..(m - 1) /\ v[i] = w[i]
            BY <4>0, <4>2
          <5>2. w[i] = IF i = 0 THEN 0 ELSE w[i - 1] + z(i)
            BY <3>5, <5>1
          <5> QED
            BY <4>1, <5>1, <5>2
        <4>3. CASE i = m
          <5>1. v[i] = w[m - 1] + z(m)
            BY <4>0, <4>3
          <5> QED
            BY <4>0, <4>1, <4>3, <5>1
        <4> QED
          BY <4>0, <4>2, <4>3
      <3>7. v = [i \in 0..m |-> v[i]]
        OBVIOUS
      <3> HIDE DEF v
      <3>8. Def(v, m)
        BY <3>6, <3>7
      <3> QED
        BY <3>2, <3>8
    <2> QED
      BY <2>1
  <1>2. \E w : Def(w, n)
    BY <1>0, <1>1
  <1> DEFINE f == CHOOSE w : Def(w, n)
  <1>3. claimed(t) = f[n]
    BY DEF claimed
  <1> HIDE DEF Def
  <1>4. Def(f, n)
    BY <1>2
  <1> HIDE DEF f, z, n
  <1>5. f[0] = 0 /\ \A i \in 1..n : f[i] = f[i - 1] + z(i)
    BY <1>0, <1>4 DEF Def
  <1>6. \A i \in 0..n : f[i] \in Nat
    <2> DEFINE Wrong == {i \in 0..n : f[i] \notin Nat}
    <2>1. ASSUME Wrong # {} PROVE FALSE
      <3>0. Wrong \subseteq Nat
        BY <1>0
      <3>1. PICK m \in Wrong : \A y \in Wrong : m <= y
        BY <2>1, <3>0, LeastNat, Zenon
      <3>2. m \in 0..n /\ m # 0 /\ f[m] \notin Nat
        BY <1>5, <3>1
      <3>3. m - 1 \in 0..n /\ m - 1 \notin Wrong
        BY <1>0, <3>1, <3>2
      <3>4. m \in 1..n /\ f[m - 1] \in Nat /\ z(m) \in Nat
        BY <1>0, <3>2, <3>3
      <3> QED
        BY <1>5, <3>2, <3>4
    <2> QED
      BY <2>1
  <1> QED
    BY <1>3, <1>5, <1>6 DEF n, z

\* The directories that directory passes through.
LEMMA DirectoryWalk ==
  ASSUME NEW q, NEW n \in Nat
  PROVE  \E f : /\ directory(q, n) = f[n] /\ f[0] = ROOT
                /\ \A k \in 1..n : f[k] = IF q[k] = <<>> THEN f[k - 1] ELSE descend(f[k - 1], q[k])
  <1> DEFINE To(b, k) == IF q[k] = <<>> THEN b ELSE descend(b, q[k])
             Def(w, m) == w = [k \in 0..m |-> IF k = 0 THEN ROOT ELSE To(w[k - 1], k)]
             Bad == {m \in 0..n : ~ \E w : Def(w, m)}
  <1>1. Bad = {}
    <2>1. ASSUME Bad # {} PROVE FALSE
      <3>0. Bad \subseteq Nat
        OBVIOUS
      <3> HIDE DEF Bad
      <3>1. PICK m \in Bad : \A y \in Bad : m <= y
        BY <2>1, <3>0, LeastNat
      <3>2. m \in 0..n /\ ~ \E w : Def(w, m)
        BY <3>1 DEF Bad
      <3> HIDE DEF To
      <3>3. m # 0
        <4>1. ASSUME m = 0 PROVE FALSE
          <5> DEFINE u == [k \in 0..m |-> ROOT]
          <5>1. u = [k \in 0..m |-> IF k = 0 THEN ROOT ELSE To(u[k - 1], k)]
            BY <4>1
          <5> QED
            BY <3>2, <5>1
        <4> QED
          BY <4>1
      <3>4. m - 1 \in 0..n /\ m - 1 \notin Bad
        BY <3>0, <3>1, <3>2, <3>3
      <3>5. PICK w : Def(w, m - 1)
        BY <3>4 DEF Bad
      <3> DEFINE v == [k \in 0..m |-> IF k < m THEN w[k] ELSE To(w[m - 1], m)]
      <3>6. \A k \in 0..m : v[k] = IF k = 0 THEN ROOT ELSE To(v[k - 1], k)
        <4> SUFFICES ASSUME NEW k \in 0..m
                     PROVE  v[k] = IF k = 0 THEN ROOT ELSE To(v[k - 1], k)
          OBVIOUS
        <4>0. m \in Nat \ {0}
          BY <3>2, <3>3
        <4>1. k # 0 => v[k - 1] = w[k - 1]
          BY <4>0
        <4>2. CASE k < m
          <5>1. k \in 0..(m - 1) /\ v[k] = w[k]
            BY <4>0, <4>2
          <5>2. w[k] = IF k = 0 THEN ROOT ELSE To(w[k - 1], k)
            BY <3>5, <5>1
          <5> QED
            BY <4>1, <5>1, <5>2
        <4>3. CASE k = m
          <5>1. v[k] = To(w[m - 1], m)
            BY <4>0, <4>3
          <5> QED
            BY <4>0, <4>1, <4>3, <5>1
        <4> QED
          BY <4>0, <4>2, <4>3
      <3>7. v = [k \in 0..m |-> v[k]]
        OBVIOUS
      <3> HIDE DEF v
      <3>8. Def(v, m)
        BY <3>6, <3>7
      <3> QED
        BY <3>2, <3>8
    <2> QED
      BY <2>1
  <1>2. \E w : Def(w, n)
    BY <1>1
  <1> DEFINE f == CHOOSE w : Def(w, n)
  <1>3. directory(q, n) = f[n]
    BY DEF directory
  <1> HIDE DEF Def
  <1>4. Def(f, n)
    BY <1>2
  <1> HIDE DEF f, To
  <1>5. f[0] = ROOT /\ \A k \in 1..n : f[k] = To(f[k - 1], k)
    BY <1>4 DEF Def
  <1> QED
    BY <1>3, <1>5 DEF To

------------------------------------------------------------------------------
(* The inductive invariant.                                                *)

\* The types of what a block holds; the entries of a table, behind its end too.
EntryType ==
  [name : Seq(STRING), type : {FILE, DIRECTORY}, start : Nat, size : Nat, bytes : Nat,
   holds : Nat]
TableType ==
  [kind : {"table"}, num_entries : 0..ELIXIR_MAX_FILES, entries : [1..ELIXIR_MAX_FILES -> EntryType]]
DataType == [kind : {"data"}, of : Nat, nth : Nat]
MountType == [free_blocks : Int, bitmap : SUBSET (0..(TOTAL - 1))]

RootTable == Table(ROOT)
Reserved == 0..(DATA_START - 1)
Starts(t) == {t.entries[i].start : i \in 1..t.num_entries}

Updating == job.op \in {"table", "bitmap", "superblock"}
Formats == job.op \in {"format_bitmap", "format_table"}

TypesInv ==
  /\ TypeOK
  /\ blocks \in [Blocks -> TableType \cup DataType]
  /\ job = NoJob \/ Updating \/ Formats
  /\ fs # None \/ Updating => fs \in MountType
  /\ calls \in Nat

\* The entries of a table lie on the drive.
Whole(t) ==
  \A i \in 1..t.num_entries :
    /\ t.entries[i].start \in DataBlocks /\ t.entries[i].size \in Nat \ {0}
    /\ t.entries[i].start + t.entries[i].size <= TOTAL

\* Only the root directory has entries.
TreeInv == Whole(RootTable) /\ \A b \in DataBlocks : Table(b).num_entries = 0

\* On a drive with the blocks B, those of a file hold what it was written with, but for
\* the ones in seen.
Holds(B, e, seen) ==
  e.type = FILE => \A b \in Extent(e) \ seen : B[b] = Data(e.holds, b - e.start)

\* Table u has one entry more than t.
Added(t, u) ==
  /\ u.num_entries = t.num_entries + 1
  /\ \A k \in 1..t.num_entries : u.entries[k] = t.entries[k]
  /\ "large" \notin fault => u.entries[u.num_entries].size = 1
  /\ Holds(blocks, u.entries[u.num_entries], {})

\* Table u is t without entry i, whose blocks are given back.
Removed(t, u, i) ==
  /\ u.num_entries = t.num_entries - 1
  /\ \A k \in 1..u.num_entries : u.entries[k] = IF k < i THEN t.entries[k] ELSE t.entries[k + 1]
  /\ Extent(t.entries[i]) \cap fs.bitmap = {}

\* The table about to be written is the root's with one entry more or less.
JobInv ==
  job.op = "table" =>
    /\ job.ft = ROOT /\ job.table \in TableType /\ Whole(job.table)
    /\ \/ Added(RootTable, job.table)
       \/ \E i \in 1..RootTable.num_entries : Removed(RootTable, job.table, i)

\* The blocks of files hold their data, but for those that were free for a while or that a
\* longer file ran over.
HoldInv ==
  /\ fs # None => \A i \in 1..RootTable.num_entries : Extent(RootTable.entries[i]) \ fs.bitmap \subseteq exposed
  /\ \A i \in 1..RootTable.num_entries :
       /\ "large" \notin fault => RootTable.entries[i].size = 1
       /\ Holds(blocks, RootTable.entries[i], exposed)

\* The free blocks and those of the entries are all there are, and the marks are theirs.
Balanced(t, free, marks) ==
  /\ free + claimed(t) = TOTAL - DATA_START
  /\ "large" \notin fault =>
       /\ marks = Reserved \cup Starts(t)
       /\ \A i, j \in 1..t.num_entries : i # j => t.entries[i].start # t.entries[j].start

\* What memory and disk say of the books at each point of a call.
BookInv ==
  /\ fs # None \/ Updating \/ Formats => sb.magic
  /\ Formats => fs = None /\ sb.free_blocks = TOTAL - DATA_START
  /\ job.op = "format_table" => bitmap = Reserved
  /\ "cut" \notin fault =>
       /\ job = NoJob /\ sb.magic =>
            /\ Balanced(RootTable, sb.free_blocks, bitmap)
            /\ fs # None => fs = [free_blocks |-> sb.free_blocks, bitmap |-> bitmap]
       /\ job.op = "table" => Balanced(job.table, fs.free_blocks, fs.bitmap)
       /\ job.op \in {"bitmap", "superblock"} => Balanced(RootTable, fs.free_blocks, fs.bitmap)
       /\ job.op = "superblock" => bitmap = fs.bitmap

ElixirInv == TypesInv /\ TreeInv /\ JobInv /\ HoldInv /\ BookInv

------------------------------------------------------------------------------
(* Tables.                                                                 *)

\* A new directory is a table without entries.
LEMMA EmptyTableType == EmptyTable \in TableType /\ EmptyTable.num_entries = 0
  <1>1. <<>> \in Seq(STRING)
    OBVIOUS
  <1>2. NoEntry \in EntryType
    BY <1>1 DEF NoEntry, EntryType
  <1> QED
    BY <1>2, ElixirAssumption DEF EmptyTable, TableType

\* What elixir.c reads as a table is one.
LEMMA TableAt ==
  ASSUME TypesInv, NEW b \in Blocks
  PROVE  Table(b) \in TableType
  <1>1. blocks[b] \in TableType \cup DataType
    BY DEF TypesInv
  <1>2. blocks[b].kind = "table" => blocks[b] \in TableType
    BY <1>1 DEF DataType
  <1> QED
    BY <1>2, EmptyTableType DEF Table

\* The parts of a table.
LEMMA TableParts ==
  ASSUME NEW t \in TableType
  PROVE  /\ t.num_entries \in Nat /\ t.num_entries <= ELIXIR_MAX_FILES
         /\ \A i \in 1..t.num_entries : i \in 1..ELIXIR_MAX_FILES
         /\ \A i \in 1..ELIXIR_MAX_FILES :
              /\ t.entries[i] \in EntryType /\ t.entries[i].name \in Seq(STRING)
              /\ t.entries[i].type \in {FILE, DIRECTORY} /\ t.entries[i].start \in Nat
              /\ t.entries[i].size \in Nat /\ t.entries[i].holds \in Nat
  <1>1. t.num_entries \in 0..ELIXIR_MAX_FILES /\ t.entries \in [1..ELIXIR_MAX_FILES -> EntryType]
    BY DEF TableType
  <1>2. \A i \in 1..t.num_entries : i \in 1..ELIXIR_MAX_FILES
    BY <1>1, ElixirAssumption
  <1>3. \A i \in 1..ELIXIR_MAX_FILES : t.entries[i] \in EntryType
    BY <1>1
  <1>4. \A e \in EntryType : /\ e.name \in Seq(STRING) /\ e.type \in {FILE, DIRECTORY}
                             /\ e.start \in Nat /\ e.size \in Nat /\ e.holds \in Nat
    BY DEF EntryType
  <1>5. t.num_entries \in Nat /\ t.num_entries <= ELIXIR_MAX_FILES
    BY <1>1, ElixirAssumption
  <1> QED
    BY <1>2, <1>3, <1>4, <1>5

\* What a table claims is a number, and depends on the sizes of its entries.
LEMMA ClaimedOf ==
  ASSUME NEW t \in TableType
  PROVE  \E f : /\ claimed(t) = f[t.num_entries] /\ f[0] = 0 /\ claimed(t) \in Nat
                /\ \A i \in 0..t.num_entries : f[i] \in Nat
                /\ \A i \in 1..t.num_entries : f[i] = f[i - 1] + t.entries[i].size
  <1>1. t.num_entries \in Nat /\ \A i \in 1..t.num_entries : t.entries[i].size \in Nat
    BY TableParts
  <1>2. t.num_entries \in 0..t.num_entries
    BY <1>1
  <1> QED
    BY <1>1, <1>2, ClaimedSums

\* Two tables claim the same as far as their entries have the same sizes.
LEMMA SumsAgree ==
  ASSUME NEW f, NEW g, NEW n \in Nat, f[0] = 0, g[0] = 0,
         \A i \in 1..n : \E z : f[i] = f[i - 1] + z /\ g[i] = g[i - 1] + z
  PROVE  \A i \in 0..n : f[i] = g[i]
  <1> DEFINE Wrong == {i \in 0..n : f[i] # g[i]}
  <1>1. ASSUME Wrong # {} PROVE FALSE
    <2>0. Wrong \subseteq Nat
      OBVIOUS
    <2>1. PICK m \in Wrong : \A y \in Wrong : m <= y
      BY <1>1, <2>0, LeastNat, Zenon
    <2>2. m \in 0..n /\ m # 0 /\ f[m] # g[m]
      BY <2>1
    <2>3. m - 1 \in 0..n /\ m - 1 \notin Wrong
      BY <2>1, <2>2
    <2>4. m \in 1..n /\ f[m - 1] = g[m - 1]
      BY <2>2, <2>3
    <2> QED
      BY <2>2, <2>4
  <1> QED
    BY <1>1

\* Tables with the same sizes claim the same.
LEMMA ClaimedSame ==
  ASSUME NEW t \in TableType, NEW u \in TableType, u.num_entries = t.num_entries,
         \A i \in 1..t.num_entries : t.entries[i].size = u.entries[i].size
  PROVE  claimed(u) = claimed(t)
  <1>0. t.num_entries \in Nat /\ t.num_entries \in 0..t.num_entries
    BY TableParts
  <1>1. PICK f : /\ claimed(t) = f[t.num_entries] /\ f[0] = 0
                 /\ \A i \in 1..t.num_entries : f[i] = f[i - 1] + t.entries[i].size
    BY ClaimedOf
  <1>2. PICK g : /\ claimed(u) = g[u.num_entries] /\ g[0] = 0
                 /\ \A i \in 1..u.num_entries : g[i] = g[i - 1] + u.entries[i].size
    BY ClaimedOf
  <1>3. \A i \in 0..t.num_entries : f[i] = g[i]
    <2>1. \A i \in 1..t.num_entries : \E z : f[i] = f[i - 1] + z /\ g[i] = g[i - 1] + z
      BY <1>0, <1>1, <1>2
    <2>2. f[0] = 0 /\ g[0] = 0
      BY <1>1, <1>2
    <2> QED
      BY <1>0, <2>1, <2>2, SumsAgree
  <1> QED
    BY <1>0, <1>1, <1>2, <1>3

\* An entry more claims its size more.
LEMMA ClaimedMore ==
  ASSUME NEW t \in TableType, NEW u \in TableType, u.num_entries = t.num_entries + 1,
         \A k \in 1..t.num_entries : u.entries[k] = t.entries[k]
  PROVE  claimed(u) = claimed(t) + u.entries[u.num_entries].size
  <1> DEFINE n == t.num_entries
  <1>0. n \in Nat /\ u.num_entries = n + 1
    BY TableParts
  <1>1. PICK f : /\ claimed(t) = f[t.num_entries] /\ f[0] = 0
                 /\ \A i \in 1..t.num_entries : f[i] = f[i - 1] + t.entries[i].size
    BY ClaimedOf
  <1>2. PICK g : /\ claimed(u) = g[u.num_entries] /\ g[0] = 0
                 /\ \A i \in 1..u.num_entries : g[i] = g[i - 1] + u.entries[i].size
    BY ClaimedOf
  <1>3. \A i \in 1..n : g[i] = g[i - 1] + u.entries[i].size
    BY <1>0, <1>2
  <1>4. \A i \in 0..n : f[i] = g[i]
    <2>1. \A i \in 1..n : \E z : f[i] = f[i - 1] + z /\ g[i] = g[i - 1] + z
      BY <1>0, <1>1, <1>3
    <2>2. f[0] = 0 /\ g[0] = 0
      BY <1>1, <1>2
    <2> QED
      BY <1>0, <2>1, <2>2, SumsAgree
  <1>5. n \in 0..n /\ n + 1 \in 1..u.num_entries /\ (n + 1) - 1 = n
    BY <1>0
  <1>6. g[n + 1] = g[n] + u.entries[n + 1].size
    BY <1>2, <1>5
  <1> QED
    BY <1>0, <1>1, <1>2, <1>4, <1>5, <1>6

\* An entry less claims its size less, wherever it was.
LEMMA ClaimedLess ==
  ASSUME NEW t \in TableType, NEW u \in TableType, NEW j \in 1..t.num_entries,
         u.num_entries = t.num_entries - 1,
         \A k \in 1..u.num_entries : u.entries[k] = IF k < j THEN t.entries[k] ELSE t.entries[k + 1]
  PROVE  claimed(u) = claimed(t) - t.entries[j].size
  <1> DEFINE n == t.num_entries
             z(i) == t.entries[i].size
  <1>0. n \in Nat /\ u.num_entries = n - 1 /\ j \in 1..n /\ u.num_entries \in Nat
    BY TableParts
  <1>1. PICK f : /\ claimed(t) = f[n] /\ f[0] = 0
                 /\ \A i \in 0..n : f[i] \in Nat
                 /\ \A i \in 1..n : f[i] = f[i - 1] + z(i)
    BY ClaimedOf
  <1>2. PICK g : /\ claimed(u) = g[u.num_entries] /\ g[0] = 0
                 /\ \A i \in 0..u.num_entries : g[i] \in Nat
                 /\ \A i \in 1..u.num_entries : g[i] = g[i - 1] + u.entries[i].size
    BY ClaimedOf
  <1>3. \A i \in 1..n : z(i) \in Nat
    BY TableParts
  <1>4. \A i \in 1..(n - 1) : g[i] = g[i - 1] + (IF i < j THEN z(i) ELSE z(i + 1))
    BY <1>0, <1>2
  <1> HIDE DEF z, n
  <1> DEFINE Wrong == {i \in 0..(n - 1) : g[i] # IF i < j THEN f[i] ELSE f[i + 1] - z(j)}
  <1>5. ASSUME Wrong # {} PROVE FALSE
    <2>0. Wrong \subseteq Nat
      BY <1>0
    <2>1. PICK m \in Wrong : \A y \in Wrong : m <= y
      BY <1>5, <2>0, LeastNat, Zenon
    <2>2. m \in 0..(n - 1) /\ g[m] # IF m < j THEN f[m] ELSE f[m + 1] - z(j)
      BY <2>1
    <2>3. m # 0
      BY <1>0, <1>1, <1>2, <2>2
    <2>4. m - 1 \in 0..(n - 1) /\ m - 1 \notin Wrong /\ m \in 1..(n - 1)
      BY <1>0, <2>0, <2>1, <2>2, <2>3
    <2>5. g[m - 1] = IF m - 1 < j THEN f[m - 1] ELSE f[(m - 1) + 1] - z(j)
      BY <2>4
    <2>6. g[m] = g[m - 1] + (IF m < j THEN z(m) ELSE z(m + 1))
      BY <1>4, <2>4
    <2>7. m \in 1..n /\ m + 1 \in 1..n /\ m - 1 \in 0..n /\ m \in 0..n /\ m + 1 \in 0..n
      BY <1>0, <2>4
    <2>8. f[m] = f[m - 1] + z(m) /\ f[m + 1] = f[m] + z(m + 1) /\ f[m - 1] \in Nat /\ f[m] \in Nat /\ f[m + 1] \in Nat
          /\ z(m) \in Nat /\ z(m + 1) \in Nat /\ z(j) \in Nat
      <3>1. (m + 1) - 1 = m
        BY <2>7
      <3> QED
        BY <1>0, <1>1, <1>3, <2>7, <3>1
    <2>9. CASE m < j
      <3>1. m - 1 < j
        BY <1>0, <2>7, <2>9
      <3> QED
        BY <2>2, <2>5, <2>6, <2>8, <2>9, <3>1
    <2>10. CASE m = j
      <3>1. m - 1 < j /\ ~ (m < j)
        BY <1>0, <2>7, <2>10
      <3> QED
        BY <2>2, <2>5, <2>6, <2>8, <2>10, <3>1
    <2>11. CASE m > j
      <3>1. ~ (m - 1 < j) /\ ~ (m < j) /\ (m - 1) + 1 = m
        BY <1>0, <2>7, <2>11
      <3>2. g[m - 1] = f[m] - z(j)
        BY <2>5, <3>1
      <3> QED
        BY <2>2, <2>6, <2>8, <3>1, <3>2
    <2> QED
      BY <1>0, <2>7, <2>9, <2>10, <2>11
  <1>6. n - 1 \in 0..(n - 1)
    BY <1>0
  <1>7. g[n - 1] = IF n - 1 < j THEN f[n - 1] ELSE f[(n - 1) + 1] - z(j)
    BY <1>5, <1>6
  <1>8. CASE n - 1 < j
    <2>1. j = n /\ n \in 1..n /\ n - 1 \in 0..n
      BY <1>0, <1>8
    <2>2. f[n] = f[n - 1] + z(n) /\ f[n - 1] \in Nat /\ z(n) \in Nat
      BY <1>1, <1>3, <2>1
    <2>3. g[n - 1] = f[n] - z(j)
      BY <1>7, <1>8, <2>1, <2>2
    <2> QED
      BY <1>0, <1>1, <1>2, <2>3 DEF z, n
  <1>9. CASE ~ (n - 1 < j)
    <2>1. (n - 1) + 1 = n
      BY <1>0
    <2> QED
      BY <1>0, <1>1, <1>2, <1>7, <1>9, <2>1 DEF z, n
  <1> QED
    BY <1>8, <1>9

------------------------------------------------------------------------------
(* Names and paths.                                                        *)

\* index finds an entry with the name exactly when there is one.
LEMMA IndexProps ==
  ASSUME NEW t \in TableType, NEW name
  PROVE  /\ index(t, name) # 0 => index(t, name) \in 1..t.num_entries
                                  /\ t.entries[index(t, name)].name = name
         /\ \A i \in 1..t.num_entries : t.entries[i].name = name => index(t, name) # 0
  <1> DEFINE I == {i \in 1..t.num_entries : t.entries[i].name = name}
  <1>0. t.num_entries \in Nat
    BY TableParts
  <1>1. index(t, name) = IF I = {} THEN 0 ELSE Min(I)
    BY DEF index
  <1>2. I \subseteq Nat
    BY <1>0
  <1>3. I # {} => Min(I) \in I
    BY <1>2, MinProps
  <1>4. I # {} => Min(I) # 0 /\ Min(I) \in 1..t.num_entries /\ t.entries[Min(I)].name = name
    BY <1>0, <1>3
  <1> HIDE DEF I
  <1>5. \A i \in 1..t.num_entries : t.entries[i].name = name => I # {}
    BY DEF I
  <1> QED
    BY <1>1, <1>4, <1>5

\* A directory's table is on the drive.
LEMMA DescendRange ==
  ASSUME TypesInv, TreeInv, NEW b \in Blocks \cup {None}, NEW name
  PROVE  descend(b, name) \in Blocks \cup {None}
  <1>1. CASE b = None
    BY <1>1 DEF descend
  <1>2. CASE b # None
    <2> DEFINE t == Table(b)
               i == index(t, name)
    <2>1. b \in Blocks /\ t \in TableType
      BY <1>2, TableAt
    <2>2. descend(b, name) = IF i = 0 THEN None
                             ELSE IF t.entries[i].type = DIRECTORY THEN t.entries[i].start ELSE None
      BY <1>2 DEF descend
    <2>3. i # 0 => i \in 1..t.num_entries
      BY <2>1, IndexProps
    <2>4. i # 0 => b = ROOT
      <3>1. b # ROOT => t.num_entries = 0
        BY <2>1 DEF TreeInv, Blocks
      <3>2. t.num_entries = 0 => ~ (i \in 1..t.num_entries)
        OBVIOUS
      <3> QED
        BY <2>3, <3>1, <3>2
    <2>5. i # 0 => t.entries[i].start \in Blocks
      BY <2>3, <2>4 DEF TreeInv, Whole, RootTable, Blocks
    <2> QED
      BY <2>2, <2>5
  <1> QED
    BY <1>1, <1>2

\* A walk along a path stays on the drive.
LEMMA DirectoryRange ==
  ASSUME TypesInv, TreeInv, NEW q, NEW n \in Nat
  PROVE  directory(q, n) \in Blocks \cup {None}
  <1>1. PICK f : /\ directory(q, n) = f[n] /\ f[0] = ROOT
                 /\ \A k \in 1..n : f[k] = IF q[k] = <<>> THEN f[k - 1] ELSE descend(f[k - 1], q[k])
    BY DirectoryWalk
  <1> DEFINE Wrong == {k \in 0..n : f[k] \notin Blocks \cup {None}}
  <1>2. ASSUME Wrong # {} PROVE FALSE
    <2>0. Wrong \subseteq Nat
      OBVIOUS
    <2>1. PICK m \in Wrong : \A y \in Wrong : m <= y
      BY <1>2, <2>0, LeastNat, Zenon
    <2>2. m \in 0..n /\ f[m] \notin Blocks \cup {None}
      BY <2>1
    <2>3. m # 0
      BY <1>1, <2>2 DEF Blocks
    <2>4. m - 1 \in 0..n /\ m - 1 \notin Wrong /\ m \in 1..n
      BY <2>0, <2>1, <2>2, <2>3
    <2>5. f[m - 1] \in Blocks \cup {None}
      BY <2>4
    <2>6. f[m] = IF q[m] = <<>> THEN f[m - 1] ELSE descend(f[m - 1], q[m])
      BY <1>1, <2>4
    <2>7. descend(f[m - 1], q[m]) \in Blocks \cup {None}
      BY <2>5, DescendRange
    <2> QED
      BY <2>2, <2>5, <2>6, <2>7
  <1>3. n \in 0..n
    OBVIOUS
  <1> QED
    BY <1>1, <1>2, <1>3

\* What is found is an entry of the root directory.
LEMMA FoundInRoot ==
  ASSUME TypesInv, TreeInv, NEW q, Len(q) \in Nat,
         NEW r, r = elixir_get_file_entry_from_path(q), r.found
  PROVE  r.ft = ROOT /\ r.i \in 1..RootTable.num_entries /\ r.entry = RootTable.entries[r.i]
  <1> DEFINE tokens == {k \in 1..Len(q) : q[k] # <<>>}
             b == IF tokens = {} THEN None ELSE directory(q, Max(tokens) - 1)
             i == IF b = None THEN 0 ELSE index(Table(b), q[Max(tokens)])
  <1>1. r = [ft |-> b, i |-> i, found |-> i # 0, entry |-> IF i = 0 THEN NoEntry ELSE Table(b).entries[i]]
    BY DEF elixir_get_file_entry_from_path
  <1>2. tokens # {} => Max(tokens) - 1 \in Nat
    <2>1. tokens \subseteq 1..Len(q)
      OBVIOUS
    <2> HIDE DEF tokens
    <2>2. tokens # {} => Max(tokens) \in 1..Len(q)
      BY <2>1, MaxProps
    <2> QED
      BY <2>2
  <1> HIDE DEF tokens
  <1>3. b \in Blocks \cup {None}
    BY <1>2, DirectoryRange
  <1> HIDE DEF b
  <1>4. i # 0 /\ r.ft = b /\ r.i = i /\ r.entry = Table(b).entries[i]
    <2> HIDE DEF i
    <2>1. PICK x \in BOOLEAN, e \in {IF i = 0 THEN NoEntry ELSE Table(b).entries[i]} : x = (i # 0)
      OBVIOUS
    <2>2. r = [ft |-> b, i |-> i, found |-> x, entry |-> e]
      BY <1>1, <2>1, Zenon
    <2>3. r.found = x /\ r.ft = b /\ r.i = i /\ r.entry = e
      BY <2>2
    <2> QED
      BY <2>1, <2>3
  <1>5. b \in Blocks /\ i = index(Table(b), q[Max(tokens)])
    BY <1>3, <1>4
  <1> HIDE DEF i
  <1>6. i \in 1..Table(b).num_entries
    BY <1>4, <1>5, TableAt, IndexProps
  <1>7. b = ROOT
    <2>1. b # ROOT => Table(b).num_entries = 0
      BY <1>5 DEF TreeInv, Blocks
    <2>2. Table(b).num_entries = 0 => ~ (i \in 1..Table(b).num_entries)
      OBVIOUS
    <2> QED
      BY <1>6, <2>1, <2>2
  <1> QED
    BY <1>4, <1>6, <1>7 DEF RootTable

\* A copy of a path is a path.
LEMMA PathCopyType ==
  ASSUME NEW p \in Seq(Seq(STRING)) \ {<<>>}, NEW g \in Seq(Seq(STRING)) \ {<<>>}
  PROVE  /\ path_copy(p, g) \in Seq(Seq(STRING)) \ {<<>>} /\ Len(path_copy(p, g)) \in Nat
         /\ Last(path_copy(p, g)) \in Seq(STRING) /\ Front(path_copy(p, g)) \in Seq(Seq(STRING))
  <1> DEFINE S == Seq(STRING)
             a == Front(p)
             c == <<Last(p) \o Head(g)>>
             q == path_copy(p, g)
  <1>1. Len(p) \in Nat \ {0} /\ Len(g) \in Nat \ {0}
    BY LenProperties, EmptySeq
  <1>2. a \in Seq(S)
    BY <1>1 DEF Front
  <1>3. Last(p) \in S /\ Head(g) \in S
    BY <1>1 DEF Last
  <1>4. Last(p) \o Head(g) \in S
    BY <1>3
  <1>5. c \in Seq(S) /\ Len(c) = 1
    BY <1>4
  <1>6. Tail(g) \in Seq(S)
    BY <1>1
  <1> HIDE DEF a, c, S
  <1>7. a \o c \in Seq(S) /\ Len(a \o c) = Len(a) + 1 /\ Len(a) \in Nat
    BY <1>2, <1>5, ConcatProperties, LenProperties
  <1>8. (a \o c) \o Tail(g) \in Seq(S) /\ Len((a \o c) \o Tail(g)) \in Nat \ {0}
    BY <1>6, <1>7
  <1>9. q = (a \o c) \o Tail(g)
    BY DEF path_copy, a, c
  <1> HIDE DEF q
  <1>10. q \in Seq(S) /\ Len(q) \in Nat \ {0}
    BY <1>8, <1>9
  <1>11. q # <<>>
    BY <1>10
  <1>12. Last(q) \in S /\ Front(q) \in Seq(S)
    BY <1>10 DEF Last, Front
  <1> QED
    BY <1>10, <1>11, <1>12 DEF q, S

\* A name copied over another is a name.
LEMMA StrcpyType ==
  ASSUME NEW old \in Seq(STRING), NEW src \in Seq(STRING)
  PROVE  strcpy(old, src) \in Seq(STRING)
  BY DEF strcpy

------------------------------------------------------------------------------
(* Steps that leave the blocks alone.                                      *)

\* Entries that lie on the drive take data blocks, their first among them.
LEMMA ExtentOnDrive ==
  ASSUME NEW t \in TableType, Whole(t), NEW i \in 1..t.num_entries
  PROVE  /\ Extent(t.entries[i]) \subseteq DataBlocks /\ t.entries[i].start \in Extent(t.entries[i])
         /\ t.entries[i].start \in DataBlocks /\ t.entries[i].start # ROOT
  <1> DEFINE a == t.entries[i].start
             z == t.entries[i].size
  <1>1. a \in DataBlocks /\ z \in Nat \ {0} /\ a + z <= TOTAL
    BY DEF Whole
  <1> HIDE DEF a, z
  <1>2. DATA_START \in Nat /\ TOTAL \in Nat
    BY ElixirAssumption
  <1>3. a..(a + z - 1) \subseteq DataBlocks /\ a \in a..(a + z - 1) /\ a # ROOT
    BY <1>1, <1>2 DEF DataBlocks, ROOT
  <1> QED
    BY <1>1, <1>3 DEF Extent, a, z

\* The history of exposed blocks after a step.
LEMMA ObserveStep ==
  ASSUME NEW over, Observe(over), RootTable' \in TableType, Whole(RootTable')
  PROVE  /\ exposed' \subseteq DataBlocks
         /\ fs' # None => \A i \in 1..RootTable'.num_entries :
                            Extent(RootTable'.entries[i]) \ fs'.bitmap \subseteq exposed'
         /\ \A i \in 1..RootTable'.num_entries :
              \A b \in Extent(RootTable'.entries[i]) : b \notin exposed' => b \notin exposed \cup over
  <1> DEFINE t == RootTable'
             used == UNION {Extent(e) : e \in Live(t)}
  <1>1. exposed' = ((exposed \cup over) \cap used) \cup (IF fs' = None THEN {} ELSE used \ fs'.bitmap)
    BY DEF Observe, RootTable
  <1>2. \A i \in 1..t.num_entries : Extent(t.entries[i]) \subseteq used
    BY DEF Live
  <1>4. used \subseteq DataBlocks
    <2>1. \A i \in 1..t.num_entries : Extent(t.entries[i]) \subseteq DataBlocks
      BY ExtentOnDrive
    <2>2. \A e \in Live(t) : Extent(e) \subseteq DataBlocks
      BY <2>1 DEF Live
    <2> HIDE DEF t
    <2>3. ASSUME NEW x \in used PROVE x \in DataBlocks
      <3>1. PICK e \in Live(t) : x \in Extent(e)
        OBVIOUS
      <3> QED
        BY <2>2, <3>1
    <2> QED
      BY <2>3
  <1> HIDE DEF used, t
  <1>5. exposed' \subseteq DataBlocks
    BY <1>1, <1>4
  <1>6. fs' # None => \A i \in 1..t.num_entries : Extent(t.entries[i]) \ fs'.bitmap \subseteq exposed'
    BY <1>1, <1>2
  <1>7. \A i \in 1..t.num_entries : \A b \in Extent(t.entries[i]) : b \notin exposed' => b \notin exposed \cup over
    BY <1>1, <1>2
  <1> QED
    BY <1>5, <1>6, <1>7 DEF t

\* Blocks that are still looked at and still the same hold the same.
LEMMA HoldsStill ==
  ASSUME NEW B, NEW C, NEW e, NEW seen, NEW now, Holds(B, e, seen),
         \A b \in Extent(e) : b \notin now => b \notin seen /\ C[b] = B[b]
  PROVE  Holds(C, e, now)
  BY DEF Holds

\* What a step must keep of the files' data.
LEMMA RootObserved ==
  ASSUME NEW over, Observe(over), NEW u \in TableType, Whole(u), RootTable' = u,
         \A i \in 1..u.num_entries :
           /\ "large" \notin fault' => u.entries[i].size = 1
           /\ Holds(blocks', u.entries[i], exposed \cup over)
  PROVE  HoldInv' /\ exposed' \subseteq DataBlocks
  <1>1. /\ exposed' \subseteq DataBlocks
        /\ fs' # None => \A i \in 1..RootTable'.num_entries :
                           Extent(RootTable'.entries[i]) \ fs'.bitmap \subseteq exposed'
        /\ \A i \in 1..RootTable'.num_entries :
             \A b \in Extent(RootTable'.entries[i]) : b \notin exposed' => b \notin exposed \cup over
    BY ObserveStep
  <1>2. ASSUME NEW i \in 1..u.num_entries PROVE Holds(blocks', u.entries[i], exposed')
    <2>1. Holds(blocks', u.entries[i], exposed \cup over)
      OBVIOUS
    <2>2. \A b \in Extent(u.entries[i]) : b \notin exposed' => b \notin exposed \cup over
      BY <1>1
    <2> QED
      BY <2>1, <2>2, HoldsStill
  <1>3. HoldInv'
    BY <1>1, <1>2 DEF HoldInv
  <1> QED
    BY <1>1, <1>3

\* A step that writes no block keeps tree and data.
LEMMA SameBlocks ==
  ASSUME ElixirInv, Observe({}), blocks' = blocks, "large" \notin fault' => "large" \notin fault
  PROVE  RootTable' = RootTable /\ TreeInv' /\ HoldInv' /\ exposed' \subseteq DataBlocks
  <1>0. TypesInv /\ TreeInv /\ HoldInv
    BY DEF ElixirInv
  <1>1. \A b : Table(b)' = Table(b)
    BY DEF Table
  <1>2. RootTable' = RootTable
    BY <1>1 DEF RootTable
  <1>3. TreeInv'
    BY <1>0, <1>1, <1>2 DEF TreeInv
  <1>4. RootTable \in TableType /\ Whole(RootTable)
    BY <1>0, TableAt DEF TreeInv, Blocks, RootTable
  <1>5. exposed \cup {} = exposed
    OBVIOUS
  <1>6. \A i \in 1..RootTable.num_entries :
          /\ "large" \notin fault' => RootTable.entries[i].size = 1
          /\ Holds(blocks', RootTable.entries[i], exposed \cup {})
    BY <1>0, <1>5 DEF HoldInv
  <1>7. HoldInv' /\ exposed' \subseteq DataBlocks
    BY <1>2, <1>4, <1>6, RootObserved
  <1> QED
    BY <1>2, <1>3, <1>7

\* No job is none of the others.
LEMMA NoJobFacts ==
  ASSUME job = NoJob
  PROVE  job.op = "none" /\ ~Updating /\ ~Formats
  BY DEF NoJob, Updating, Formats

\* The parts of a mounted file system.
LEMMA MountTypeParts ==
  ASSUME NEW m \in MountType
  PROVE  m.free_blocks \in Int /\ m.bitmap \subseteq 0..(TOTAL - 1)
         /\ m = [free_blocks |-> m.free_blocks, bitmap |-> m.bitmap]
  BY DEF MountType

\* The superblock of a new file system; the old table still stands.
LEMMA FormatKeeps ==
  ASSUME ElixirInv, Observe({}), elixir_format
  PROVE  ElixirInv'
  <1>1. /\ fs = None /\ job = NoJob /\ job' = [op |-> "format_bitmap"]
        /\ sb' = [magic |-> TRUE, free_blocks |-> TOTAL - DATA_START]
        /\ UNCHANGED <<bitmap, blocks, fs, calls, fault>>
    BY DEF elixir_format
  <1>2. RootTable' = RootTable /\ TreeInv' /\ HoldInv' /\ exposed' \subseteq DataBlocks
    BY <1>1, SameBlocks
  <1>3. job'.op = "format_bitmap" /\ job' # NoJob
    BY <1>1 DEF NoJob
  <1>4. TypesInv'
    BY <1>1, <1>2, <1>3, ElixirAssumption DEF ElixirInv, TypesInv, TypeOK, Formats, Updating
  <1>5. JobInv' /\ BookInv'
    BY <1>1, <1>3 DEF JobInv, BookInv, Formats, Updating
  <1> QED
    BY <1>2, <1>4, <1>5 DEF ElixirInv

\* The bitmap of a new file system marks what is reserved.
LEMMA FormatBitmapKeeps ==
  ASSUME ElixirInv, Observe({}), format_bitmap
  PROVE  ElixirInv'
  <1>1. /\ job.op = "format_bitmap" /\ job' = [op |-> "format_table"] /\ bitmap' = Reserved
        /\ UNCHANGED <<sb, blocks, fs, calls, fault>>
    BY DEF format_bitmap, Reserved
  <1>2. RootTable' = RootTable /\ TreeInv' /\ HoldInv' /\ exposed' \subseteq DataBlocks
    BY <1>1, SameBlocks
  <1>3. job'.op = "format_table" /\ job' # NoJob
    BY <1>1 DEF NoJob
  <1>4. Reserved \subseteq 0..(TOTAL - 1)
    BY ElixirAssumption DEF Reserved
  <1>5. fs = None /\ sb.free_blocks = TOTAL - DATA_START /\ sb.magic
    BY <1>1 DEF ElixirInv, BookInv, Formats
  <1>6. TypesInv'
    BY <1>1, <1>2, <1>3, <1>4, <1>5 DEF ElixirInv, TypesInv, TypeOK, Formats, Updating
  <1>7. JobInv' /\ BookInv'
    BY <1>1, <1>3, <1>5 DEF JobInv, BookInv, Formats, Updating
  <1> QED
    BY <1>2, <1>6, <1>7 DEF ElixirInv

\* Memory is what the disk says.
LEMMA MountKeeps ==
  ASSUME ElixirInv, Observe({}), elixir_mount
  PROVE  ElixirInv'
  <1>1. /\ job = NoJob /\ sb.magic /\ fs' = [free_blocks |-> sb.free_blocks, bitmap |-> bitmap]
        /\ UNCHANGED <<sb, bitmap, blocks, job, calls, fault>>
    BY DEF elixir_mount, disk
  <1>2. RootTable' = RootTable /\ TreeInv' /\ HoldInv' /\ exposed' \subseteq DataBlocks
    BY <1>1, SameBlocks
  <1>3. job.op = "none" /\ ~Updating /\ ~Formats
    BY <1>1, NoJobFacts
  <1>4. fs' \in MountType /\ fs'.free_blocks \in Int /\ fs'.bitmap \subseteq 0..(TOTAL - 1)
    <2>1. sb.free_blocks \in Int /\ bitmap \subseteq 0..(TOTAL - 1)
      BY DEF ElixirInv, TypesInv, TypeOK
    <2> QED
      BY <1>1, <2>1 DEF MountType
  <1>5. TypesInv'
    BY <1>1, <1>2, <1>4 DEF ElixirInv, TypesInv, TypeOK
  <1>6. JobInv'
    BY <1>1, <1>3 DEF JobInv
  <1>7. BookInv'
    <2>1. "cut" \notin fault => Balanced(RootTable, sb.free_blocks, bitmap)
      BY <1>1 DEF ElixirInv, BookInv
    <2>2. "cut" \notin fault => Balanced(RootTable, sb.free_blocks, bitmap)'
      BY <1>1, <1>2, <2>1 DEF Balanced
    <2> QED
      BY <1>1, <1>3, <2>2 DEF BookInv, Updating, Formats
  <1> QED
    BY <1>2, <1>5, <1>6, <1>7 DEF ElixirInv

\* Memory is dropped.
LEMMA UnmountKeeps ==
  ASSUME ElixirInv, Observe({}), elixir_unmount
  PROVE  ElixirInv'
  <1>1. job = NoJob /\ fs' = None /\ UNCHANGED <<sb, bitmap, blocks, job, calls, fault>>
    BY DEF elixir_unmount, disk
  <1>2. RootTable' = RootTable /\ TreeInv' /\ HoldInv' /\ exposed' \subseteq DataBlocks
    BY <1>1, SameBlocks
  <1>3. job.op = "none" /\ ~Updating /\ ~Formats
    BY <1>1, NoJobFacts
  <1>4. TypesInv'
    BY <1>1, <1>2, <1>3 DEF ElixirInv, TypesInv, TypeOK, Updating
  <1>5. JobInv'
    BY <1>1, <1>3 DEF JobInv
  <1>6. BookInv'
    BY <1>1, <1>2, <1>3 DEF ElixirInv, BookInv, Balanced, Updating, Formats
  <1> QED
    BY <1>2, <1>4, <1>5, <1>6 DEF ElixirInv

\* A call that is cut short leaves what it has written.
LEMMA CallFailsKeeps ==
  ASSUME ElixirInv, Observe({}), call_fails
  PROVE  ElixirInv'
  <1>1. job' = NoJob /\ fault' = fault \cup {"cut"} /\ UNCHANGED <<sb, bitmap, blocks, fs, calls>>
    BY DEF call_fails, disk
  <1>2. RootTable' = RootTable /\ TreeInv' /\ HoldInv' /\ exposed' \subseteq DataBlocks
    BY <1>1, SameBlocks
  <1>3. job'.op = "none" /\ ~Updating' /\ ~Formats'
    BY <1>1 DEF NoJob, Updating, Formats
  <1>4. TypesInv'
    BY <1>1, <1>2, <1>3 DEF ElixirInv, TypesInv, TypeOK
  <1>5. JobInv' /\ BookInv'
    BY <1>1, <1>3 DEF ElixirInv, JobInv, BookInv
  <1> QED
    BY <1>2, <1>4, <1>5 DEF ElixirInv

\* So does a machine that stops.
LEMMA CrashKeeps ==
  ASSUME ElixirInv, Observe({}), crash
  PROVE  ElixirInv'
  <1>1. /\ job' = NoJob /\ fs' = None /\ UNCHANGED <<sb, bitmap, blocks, calls>>
        /\ fault' = IF job = NoJob THEN fault ELSE fault \cup {"cut"}
    BY DEF crash, disk
  <1>2. RootTable' = RootTable /\ TreeInv' /\ HoldInv' /\ exposed' \subseteq DataBlocks
    BY <1>1, SameBlocks
  <1>3. job'.op = "none" /\ ~Updating' /\ ~Formats'
    BY <1>1 DEF NoJob, Updating, Formats
  <1>4. TypesInv'
    BY <1>1, <1>2, <1>3 DEF ElixirInv, TypesInv, TypeOK
  <1>5. JobInv'
    BY <1>3 DEF JobInv
  <1>6. BookInv'
    BY <1>1, <1>2, <1>3 DEF ElixirInv, BookInv, Balanced
  <1> QED
    BY <1>2, <1>4, <1>5, <1>6 DEF ElixirInv

\* The bitmap catches up with memory.
LEMMA WriteBitmapKeeps ==
  ASSUME ElixirInv, Observe({}), write_bitmap
  PROVE  ElixirInv'
  <1>1. /\ job.op = "bitmap" /\ job' = [op |-> "superblock"] /\ bitmap' = fs.bitmap
        /\ UNCHANGED <<sb, blocks, fs, calls, fault>>
    BY DEF write_bitmap
  <1>2. RootTable' = RootTable /\ TreeInv' /\ HoldInv' /\ exposed' \subseteq DataBlocks
    BY <1>1, SameBlocks
  <1>3. job'.op = "superblock" /\ job' # NoJob
    BY <1>1 DEF NoJob
  <1>4. fs \in MountType /\ fs.bitmap \subseteq 0..(TOTAL - 1) /\ sb.magic
    BY <1>1, MountTypeParts DEF ElixirInv, TypesInv, Updating, BookInv
  <1>5. TypesInv'
    BY <1>1, <1>2, <1>3, <1>4 DEF ElixirInv, TypesInv, TypeOK, Updating
  <1>6. JobInv'
    BY <1>3 DEF JobInv
  <1>7. BookInv'
    BY <1>1, <1>2, <1>3, <1>4 DEF ElixirInv, BookInv, Balanced, Formats
  <1> QED
    BY <1>2, <1>5, <1>6, <1>7 DEF ElixirInv

\* The superblock catches up with memory, and the call is over.
LEMMA WriteSuperblockKeeps ==
  ASSUME ElixirInv, Observe({}), write_superblock
  PROVE  ElixirInv'
  <1>1. /\ job.op = "superblock" /\ job' = NoJob /\ sb' = [sb EXCEPT !.free_blocks = fs.free_blocks]
        /\ UNCHANGED <<bitmap, blocks, fs, calls, fault>>
    BY DEF write_superblock
  <1>2. RootTable' = RootTable /\ TreeInv' /\ HoldInv' /\ exposed' \subseteq DataBlocks
    BY <1>1, SameBlocks
  <1>3. job'.op = "none" /\ ~Updating' /\ ~Formats'
    BY <1>1 DEF NoJob, Updating, Formats
  <1>4. /\ fs \in MountType /\ fs.free_blocks \in Int /\ sb.magic
        /\ fs = [free_blocks |-> fs.free_blocks, bitmap |-> fs.bitmap]
    BY <1>1, MountTypeParts DEF ElixirInv, TypesInv, Updating, BookInv
  <1>5. sb' \in [magic : BOOLEAN, free_blocks : Int] /\ sb'.free_blocks = fs.free_blocks /\ sb'.magic
    BY <1>1, <1>4 DEF ElixirInv, TypesInv, TypeOK
  <1>6. TypesInv'
    BY <1>1, <1>2, <1>3, <1>4, <1>5 DEF ElixirInv, TypesInv, TypeOK
  <1>7. JobInv'
    BY <1>3 DEF JobInv
  <1>8. BookInv'
    <2>1. "cut" \notin fault => Balanced(RootTable, fs.free_blocks, fs.bitmap) /\ bitmap = fs.bitmap
      BY <1>1 DEF ElixirInv, BookInv
    <2>2. "cut" \notin fault => Balanced(RootTable, sb.free_blocks, bitmap)'
      BY <1>1, <1>2, <1>5, <2>1 DEF Balanced
    <2> QED
      BY <1>1, <1>3, <1>4, <1>5, <2>1, <2>2 DEF BookInv
  <1> QED
    BY <1>2, <1>6, <1>7, <1>8 DEF ElixirInv

------------------------------------------------------------------------------
(* Steps that write the root directory's table.                            *)

\* Only the root directory's table changes.
LEMMA RootWritten ==
  ASSUME TypesInv, TreeInv, NEW u \in TableType, Whole(u), blocks' = [blocks EXCEPT ![ROOT] = u]
  PROVE  /\ RootTable' = u /\ TreeInv' /\ blocks' \in [Blocks -> TableType \cup DataType]
         /\ \A b \in DataBlocks : blocks'[b] = blocks[b]
  <1>0. blocks \in [Blocks -> TableType \cup DataType] /\ ROOT \in Blocks
    BY DEF TypesInv, Blocks
  <1>1. blocks' \in [Blocks -> TableType \cup DataType] /\ blocks'[ROOT] = u
    BY <1>0
  <1>2. \A b \in DataBlocks : blocks'[b] = blocks[b]
    <2>1. \A b \in DataBlocks : b # ROOT /\ b \in Blocks
      BY ElixirAssumption DEF DataBlocks, ROOT, Blocks
    <2> QED
      BY <1>0, <2>1
  <1>3. RootTable' = u
    <2>1. u.kind = "table"
      BY DEF TableType
    <2> QED
      BY <1>1, <2>1 DEF RootTable, Table
  <1>4. \A b \in DataBlocks : Table(b)' = Table(b)
    BY <1>2 DEF Table
  <1>5. TreeInv'
    BY <1>3, <1>4 DEF TreeInv
  <1> QED
    BY <1>1, <1>2, <1>3, <1>5

\* Formatting ends with an empty root directory.
LEMMA FormatTableKeeps ==
  ASSUME ElixirInv, Observe({}), format_table
  PROVE  ElixirInv'
  <1> DEFINE u == EmptyTable
  <1>0. TypesInv /\ TreeInv /\ BookInv /\ exposed \subseteq DataBlocks
    BY DEF ElixirInv, TypesInv, TypeOK
  <1>1. /\ job.op = "format_table" /\ blocks' = [blocks EXCEPT ![ROOT] = u]
        /\ job' = NoJob /\ fault' = {} /\ UNCHANGED <<sb, bitmap, fs, calls>>
    BY DEF format_table
  <1>2. u \in TableType /\ u.num_entries = 0
    BY EmptyTableType
  <1> HIDE DEF u
  <1>3. Whole(u)
    BY <1>2 DEF Whole
  <1>4. RootTable' = u /\ TreeInv' /\ blocks' \in [Blocks -> TableType \cup DataType]
    BY <1>0, <1>1, <1>2, <1>3, RootWritten
  <1>5. HoldInv' /\ exposed' \subseteq DataBlocks
    <2>1. \A i \in 1..u.num_entries :
            /\ "large" \notin fault' => u.entries[i].size = 1
            /\ Holds(blocks', u.entries[i], exposed \cup {})
      BY <1>2
    <2> QED
      BY <1>2, <1>3, <1>4, <2>1, RootObserved
  <1>6. job'.op = "none" /\ ~Updating' /\ ~Formats'
    BY <1>1 DEF NoJob, Updating, Formats
  <1>7. fs = None /\ sb.magic /\ sb.free_blocks = TOTAL - DATA_START /\ bitmap = Reserved
    BY <1>0, <1>1 DEF BookInv, Formats
  <1>8. TypesInv'
    BY <1>0, <1>1, <1>4, <1>5, <1>6, <1>7 DEF TypesInv, TypeOK
  <1>9. JobInv'
    BY <1>6 DEF JobInv
  <1>10. BookInv'
    <2>1. claimed(u) = 0
      BY <1>2, ClaimedOf
    <2>2. Starts(u) = {} /\ \A i, j \in 1..u.num_entries : i # j => u.entries[i].start # u.entries[j].start
      BY <1>2 DEF Starts
    <2>3. Balanced(RootTable, sb.free_blocks, bitmap)'
      BY <1>1, <1>4, <1>7, <2>1, <2>2, ElixirAssumption DEF Balanced
    <2> QED
      BY <1>1, <1>6, <1>7, <2>3 DEF BookInv
  <1> QED
    BY <1>4, <1>5, <1>8, <1>9, <1>10 DEF ElixirInv

\* The entries of the table about to be written are entries of the root directory, but
\* for a new one, whose blocks hold its data already.
LEMMA EntriesToWrite ==
  ASSUME ElixirInv, job.op = "table", NEW i \in 1..job.table.num_entries
  PROVE  /\ "large" \notin fault => job.table.entries[i].size = 1
         /\ Holds(blocks, job.table.entries[i], exposed)
  <1> DEFINE t == RootTable
             u == job.table
             Good(e) == ("large" \notin fault => e.size = 1) /\ Holds(blocks, e, exposed)
  <1>0. JobInv /\ HoldInv /\ TypesInv
    BY DEF ElixirInv
  <1>1. u \in TableType /\ (Added(t, u) \/ \E j \in 1..t.num_entries : Removed(t, u, j))
    BY <1>0 DEF JobInv
  <1>2. t \in TableType
    BY <1>0, TableAt DEF RootTable, Blocks
  <1>3. t.num_entries \in Nat /\ u.num_entries \in Nat /\ i \in 1..u.num_entries
    BY <1>1, <1>2, TableParts
  <1>4. \A k \in 1..t.num_entries : Good(t.entries[k])
    BY <1>0 DEF HoldInv
  <1> HIDE DEF t, u
  <1>5. Good(u.entries[i])
    <2>1. CASE Added(t, u)
      <3>1. /\ u.num_entries = t.num_entries + 1 /\ \A k \in 1..t.num_entries : u.entries[k] = t.entries[k]
            /\ "large" \notin fault => u.entries[u.num_entries].size = 1
            /\ Holds(blocks, u.entries[u.num_entries], {})
        BY <2>1 DEF Added
      <3>2. CASE i \in 1..t.num_entries
        BY <1>4, <3>1, <3>2
      <3>3. CASE i = u.num_entries
        <4>1. Holds(blocks, u.entries[i], exposed)
          BY <3>1, <3>3, HoldsStill
        <4> QED
          BY <3>1, <3>3, <4>1
      <3> QED
        BY <1>3, <3>1, <3>2, <3>3
    <2>2. ASSUME NEW j \in 1..t.num_entries, Removed(t, u, j) PROVE Good(u.entries[i])
      <3>1. u.num_entries = t.num_entries - 1 /\ u.entries[i] = IF i < j THEN t.entries[i] ELSE t.entries[i + 1]
        BY <1>3, <2>2 DEF Removed
      <3>2. i \in 1..t.num_entries /\ i + 1 \in 1..t.num_entries
        BY <1>3, <3>1
      <3>3. PICK k \in 1..t.num_entries : u.entries[i] = t.entries[k]
        BY <3>1, <3>2
      <3> HIDE DEF Good
      <3> QED
        BY <1>4, <3>3
    <2> QED
      BY <1>1, <2>1, <2>2
  <1> QED
    BY <1>5 DEF u

\* The root directory becomes the table the call has made.
LEMMA WriteTableKeeps ==
  ASSUME ElixirInv, Observe({}), write_table
  PROVE  ElixirInv'
  <1>0. TypesInv /\ TreeInv /\ JobInv /\ BookInv /\ exposed \subseteq DataBlocks
    BY DEF ElixirInv, TypesInv, TypeOK
  <1>1. PICK u : u = job.table
    OBVIOUS
  <1>2. /\ job.op = "table" /\ job' = [op |-> "bitmap"]
        /\ UNCHANGED <<sb, bitmap, fs, calls, fault>>
    BY DEF write_table
  <1>3. job.ft = ROOT /\ u \in TableType /\ Whole(u)
    BY <1>0, <1>1, <1>2 DEF JobInv
  <1>4. blocks' = [blocks EXCEPT ![ROOT] = u]
    BY <1>1, <1>3 DEF write_table
  <1>5. /\ RootTable' = u /\ TreeInv' /\ blocks' \in [Blocks -> TableType \cup DataType]
        /\ \A b \in DataBlocks : blocks'[b] = blocks[b]
    BY <1>0, <1>3, <1>4, RootWritten
  <1>6. HoldInv' /\ exposed' \subseteq DataBlocks
    <2>1. ASSUME NEW i \in 1..u.num_entries
          PROVE  /\ "large" \notin fault' => u.entries[i].size = 1
                 /\ Holds(blocks', u.entries[i], exposed \cup {})
      <3>1. ("large" \notin fault => u.entries[i].size = 1) /\ Holds(blocks, u.entries[i], exposed)
        BY <1>1, <1>2, <2>1, EntriesToWrite
      <3>2. Extent(u.entries[i]) \subseteq DataBlocks
        BY <1>3, ExtentOnDrive
      <3>3. \A b \in Extent(u.entries[i]) : b \notin exposed \cup {} => b \notin exposed /\ blocks'[b] = blocks[b]
        BY <1>5, <3>2
      <3>4. Holds(blocks', u.entries[i], exposed \cup {})
        BY <3>1, <3>3, HoldsStill
      <3> QED
        BY <1>2, <3>1, <3>4
    <2> QED
      BY <1>3, <1>5, <2>1, RootObserved
  <1>7. job'.op = "bitmap" /\ job' # NoJob
    BY <1>2 DEF NoJob
  <1>8. fs \in MountType /\ sb.magic
    BY <1>0, <1>2 DEF TypesInv, Updating, BookInv
  <1>9. TypesInv'
    BY <1>0, <1>2, <1>5, <1>6, <1>7, <1>8 DEF TypesInv, TypeOK, Updating
  <1>10. JobInv'
    BY <1>7 DEF JobInv
  <1>11. BookInv'
    <2>1. "cut" \notin fault => Balanced(u, fs.free_blocks, fs.bitmap)
      BY <1>0, <1>1, <1>2 DEF BookInv
    <2>2. "cut" \notin fault => Balanced(RootTable, fs.free_blocks, fs.bitmap)'
      BY <1>2, <1>5, <2>1 DEF Balanced
    <2> QED
      BY <1>2, <1>7, <1>8, <2>2 DEF BookInv, Formats
  <1> QED
    BY <1>5, <1>6, <1>9, <1>10, <1>11 DEF ElixirInv

\* A root directory with entries is read as it is.
LEMMA RootIsTable ==
  ASSUME RootTable.num_entries # 0
  PROVE  blocks[ROOT] = RootTable
  BY EmptyTableType DEF RootTable, Table

\* What a caller asks for, and what stands behind it.
LEMMA CopyOfPath ==
  ASSUME NEW p \in Paths, NEW g \in Garbage
  PROVE  /\ path_copy(p, g) \in Seq(Seq(STRING)) \ {<<>>} /\ Len(path_copy(p, g)) \in Nat
         /\ Last(path_copy(p, g)) \in Seq(STRING) /\ Front(path_copy(p, g)) \in Seq(Seq(STRING))
  <1>1. p \in Seq(Seq(STRING)) \ {<<>>} /\ g \in Seq(Seq(STRING)) \ {<<>>}
    BY ElixirAssumption
  <1> QED
    BY <1>1, PathCopyType

\* An entry with another name.
LEMMA Renamed ==
  ASSUME NEW e \in EntryType, NEW name \in Seq(STRING)
  PROVE  /\ [e EXCEPT !.name = name] \in EntryType
         /\ [e EXCEPT !.name = name].type = e.type /\ [e EXCEPT !.name = name].start = e.start
         /\ [e EXCEPT !.name = name].size = e.size /\ [e EXCEPT !.name = name].holds = e.holds
  BY DEF EntryType

\* What elixir_rename_file does to the root directory.
LEMMA RenameStep ==
  ASSUME ElixirInv, NEW old_path \in Paths, NEW new_path \in Paths,
         elixir_rename_file(old_path, new_path)
  PROVE  /\ fs # None /\ job = NoJob /\ calls' = calls + 1 /\ UNCHANGED <<sb, bitmap, fs, job, fault>>
         /\ \E i \in 1..RootTable.num_entries, name \in Seq(STRING), u \in TableType :
              /\ blocks' = [blocks EXCEPT ![ROOT] = u]
              /\ u.num_entries = RootTable.num_entries
              /\ \A k \in 1..ELIXIR_MAX_FILES :
                   u.entries[k] = IF k = i THEN [RootTable.entries[i] EXCEPT !.name = name]
                                  ELSE RootTable.entries[k]
  <1>0. TypesInv /\ TreeInv
    BY DEF ElixirInv
  <1> DEFINE t == RootTable
  <1>1. PICK g \in Garbage, h \in Garbage, k \in Garbage :
          LET old == path_copy(old_path, g)
              new == path_copy(new_path, h)
              r == elixir_get_file_entry_from_path(path_copy(old_path, k))
              i == index(Table(r.ft), Last(old))
          IN  /\ fs # None /\ job = NoJob /\ r.found /\ i # 0
              /\ blocks' = [blocks EXCEPT ![r.ft].entries[i].name = strcpy(@, Last(new))]
              /\ calls' = calls + 1
              /\ UNCHANGED <<sb, bitmap, fs, job, fault>>
    BY DEF elixir_rename_file
  <1>2. PICK r : r = elixir_get_file_entry_from_path(path_copy(old_path, k))
    OBVIOUS
  <1>3. PICK last : last = Last(path_copy(new_path, h))
    OBVIOUS
  <1>4. PICK i : i = index(Table(r.ft), Last(path_copy(old_path, g)))
    OBVIOUS
  <1>5. /\ fs # None /\ job = NoJob /\ r.found /\ i # 0
        /\ blocks' = [blocks EXCEPT ![r.ft].entries[i].name = strcpy(@, last)]
        /\ calls' = calls + 1
        /\ UNCHANGED <<sb, bitmap, fs, job, fault>>
    BY <1>1, <1>2, <1>3, <1>4
  <1>6. r.ft = ROOT
    <2>1. Len(path_copy(old_path, k)) \in Nat
      BY CopyOfPath
    <2> QED
      BY <1>0, <1>2, <1>5, <2>1, FoundInRoot
  <1>7. last \in Seq(STRING)
    BY <1>3, CopyOfPath
  <1>8. t \in TableType
    BY <1>0, TableAt DEF Blocks, RootTable
  <1>9. i \in 1..t.num_entries
    BY <1>4, <1>5, <1>6, <1>8, IndexProps DEF RootTable
  <1>10. blocks[ROOT] = t
    <2>1. t.num_entries # 0
      BY <1>8, <1>9, TableParts
    <2> QED
      BY <2>1, RootIsTable
  <1> HIDE DEF t
  <1> DEFINE name == strcpy(t.entries[i].name, last)
             e == [t.entries[i] EXCEPT !.name = name]
             u == [t EXCEPT !.entries = [t.entries EXCEPT ![i] = e]]
  <1>11. i \in 1..ELIXIR_MAX_FILES /\ t.entries[i] \in EntryType /\ t.entries[i].name \in Seq(STRING)
    BY <1>8, <1>9, TableParts
  <1>12. name \in Seq(STRING)
    BY <1>7, <1>11, StrcpyType
  <1>13. blocks' = [blocks EXCEPT ![ROOT] = u]
    <2>1. blocks' = [blocks EXCEPT ![ROOT].entries[i].name = name]
      BY <1>5, <1>6, <1>10
    <2> HIDE DEF name
    <2> QED
      BY <1>10, <2>1
  <1> HIDE DEF name
  <1>14. e \in EntryType
    BY <1>11, <1>12, Renamed
  <1> HIDE DEF e
  <1>15. /\ u \in TableType /\ u.num_entries = t.num_entries
         /\ \A j \in 1..ELIXIR_MAX_FILES : u.entries[j] = IF j = i THEN e ELSE t.entries[j]
    BY <1>8, <1>11, <1>14 DEF TableType
  <1> HIDE DEF u
  <1>16. \A j \in 1..ELIXIR_MAX_FILES :
           u.entries[j] = IF j = i THEN [t.entries[i] EXCEPT !.name = name] ELSE t.entries[j]
    BY <1>15 DEF e
  <1>17. \E j \in 1..t.num_entries, n \in Seq(STRING), v \in TableType :
           /\ blocks' = [blocks EXCEPT ![ROOT] = v] /\ v.num_entries = t.num_entries
           /\ \A l \in 1..ELIXIR_MAX_FILES :
                v.entries[l] = IF l = j THEN [t.entries[j] EXCEPT !.name = n] ELSE t.entries[l]
    BY <1>9, <1>12, <1>13, <1>15, <1>16, Zenon
  <1> QED
    <2>1. fs # None /\ job = NoJob /\ calls' = calls + 1 /\ UNCHANGED <<sb, bitmap, fs, job, fault>>
      BY <1>5
    <2> USE DEF t
    <2>2. \E j \in 1..RootTable.num_entries, n \in Seq(STRING), v \in TableType :
            /\ blocks' = [blocks EXCEPT ![ROOT] = v]
            /\ v.num_entries = RootTable.num_entries
            /\ \A l \in 1..ELIXIR_MAX_FILES :
                 v.entries[l] = IF l = j THEN [RootTable.entries[j] EXCEPT !.name = n] ELSE RootTable.entries[l]
      BY <1>17, Zenon
    <2> QED
      BY <2>1, <2>2, Zenon

\* Another name changes neither the books nor the data.
LEMMA RenameKeeps ==
  ASSUME ElixirInv, Observe({}), NEW old_path \in Paths, NEW new_path \in Paths,
         elixir_rename_file(old_path, new_path)
  PROVE  ElixirInv'
  <1>0. TypesInv /\ TreeInv /\ HoldInv /\ BookInv /\ exposed \subseteq DataBlocks
    BY DEF ElixirInv, TypesInv, TypeOK
  <1>1. fs # None /\ job = NoJob /\ calls' = calls + 1 /\ UNCHANGED <<sb, bitmap, fs, job, fault>>
    BY RenameStep
  <1>2. PICK i \in 1..RootTable.num_entries, name \in Seq(STRING), u \in TableType :
              /\ blocks' = [blocks EXCEPT ![ROOT] = u]
              /\ u.num_entries = RootTable.num_entries
              /\ \A k \in 1..ELIXIR_MAX_FILES :
                   u.entries[k] = IF k = i THEN [RootTable.entries[i] EXCEPT !.name = name]
                                  ELSE RootTable.entries[k]
    BY RenameStep
  <1>3. PICK t : t = RootTable
    OBVIOUS
  <1>4. t \in TableType /\ Whole(t) /\ t.num_entries \in Nat
    BY <1>0, <1>3, TableAt, TableParts DEF Blocks, RootTable, TreeInv
  <1>5. ASSUME NEW k \in 1..t.num_entries
        PROVE  /\ u.entries[k].type = t.entries[k].type /\ u.entries[k].start = t.entries[k].start
               /\ u.entries[k].size = t.entries[k].size /\ u.entries[k].holds = t.entries[k].holds
    <2>1. k \in 1..ELIXIR_MAX_FILES /\ t.entries[k] \in EntryType
      BY <1>4, TableParts
    <2>2. u.entries[k] = IF k = i THEN [t.entries[i] EXCEPT !.name = name] ELSE t.entries[k]
      BY <1>2, <1>3, <2>1
    <2>3. CASE k = i
      BY <2>1, <2>2, <2>3, Renamed
    <2>4. CASE k # i
      BY <2>2, <2>4
    <2> QED
      BY <2>3, <2>4
  <1>6. u.num_entries = t.num_entries
    BY <1>2, <1>3
  <1>7. Whole(u)
    BY <1>4, <1>5, <1>6 DEF Whole
  <1>8. /\ RootTable' = u /\ TreeInv' /\ blocks' \in [Blocks -> TableType \cup DataType]
        /\ \A b \in DataBlocks : blocks'[b] = blocks[b]
    BY <1>0, <1>2, <1>7, RootWritten
  <1>9. HoldInv' /\ exposed' \subseteq DataBlocks
    <2>1. ASSUME NEW k \in 1..u.num_entries
          PROVE  /\ "large" \notin fault' => u.entries[k].size = 1
                 /\ Holds(blocks', u.entries[k], exposed \cup {})
      <3>1. ("large" \notin fault => t.entries[k].size = 1) /\ Holds(blocks, t.entries[k], exposed)
        BY <1>0, <1>3, <1>6 DEF HoldInv
      <3>2. Extent(u.entries[k]) \subseteq DataBlocks
        BY <1>2, <1>7, ExtentOnDrive
      <3>3. Extent(u.entries[k]) = Extent(t.entries[k])
        BY <1>5, <1>6 DEF Extent
      <3>4. \A b \in Extent(t.entries[k]) : b \notin exposed \cup {} => b \notin exposed /\ blocks'[b] = blocks[b]
        BY <1>8, <3>2, <3>3
      <3>5. Holds(blocks', t.entries[k], exposed \cup {})
        BY <3>1, <3>4, HoldsStill
      <3>6. Holds(blocks', u.entries[k], exposed \cup {})
        BY <1>5, <1>6, <3>3, <3>5 DEF Holds
      <3> QED
        BY <1>1, <1>5, <1>6, <3>1, <3>6
    <2> QED
      BY <1>2, <1>7, <1>8, <2>1, RootObserved
  <1>10. job'.op = "none" /\ ~Updating' /\ ~Formats' /\ job' = NoJob
    BY <1>1 DEF NoJob, Updating, Formats
  <1>11. TypesInv'
    BY <1>0, <1>1, <1>8, <1>9 DEF TypesInv, TypeOK, Updating, Formats
  <1>12. JobInv'
    BY <1>10 DEF JobInv
  <1>13. BookInv'
    <2>1. "cut" \notin fault /\ sb.magic =>
            /\ Balanced(t, sb.free_blocks, bitmap)
            /\ fs = [free_blocks |-> sb.free_blocks, bitmap |-> bitmap]
      BY <1>0, <1>1, <1>3 DEF BookInv
    <2>2. claimed(u) = claimed(t)
      BY <1>4, <1>5, <1>6, ClaimedSame
    <2>3. Starts(u) = Starts(t)
      BY <1>5, <1>6 DEF Starts
    <2>4. (\A j, k \in 1..t.num_entries : j # k => t.entries[j].start # t.entries[k].start)
            => \A j, k \in 1..u.num_entries : j # k => u.entries[j].start # u.entries[k].start
      BY <1>5, <1>6
    <2>5. "cut" \notin fault /\ sb.magic => Balanced(RootTable, sb.free_blocks, bitmap)'
      BY <1>1, <1>8, <2>1, <2>2, <2>3, <2>4 DEF Balanced
    <2>6. sb.magic
      BY <1>0, <1>1 DEF BookInv
    <2> QED
      BY <1>1, <1>10, <2>1, <2>5, <2>6 DEF BookInv
  <1> QED
    BY <1>8, <1>9, <1>11, <1>12, <1>13 DEF ElixirInv

------------------------------------------------------------------------------
(* elixir_delete_file.                                                     *)

\* A table without one of its entries.
LEMMA WithoutEntry ==
  ASSUME NEW t \in TableType, NEW j \in 1..t.num_entries, NEW u, u = without_entry(t, j)
  PROVE  /\ u \in TableType /\ u.num_entries = t.num_entries - 1
         /\ \A k \in 1..u.num_entries : u.entries[k] = IF k < j THEN t.entries[k] ELSE t.entries[k + 1]
  <1> DEFINE n == t.num_entries
             f == t.entries
             g == [k \in DOMAIN f |-> IF k \in j..(n - 1) THEN f[k + 1] ELSE f[k]]
  <1>0. n \in Nat /\ n <= ELIXIR_MAX_FILES /\ ELIXIR_MAX_FILES \in Nat
    BY TableParts, ElixirAssumption
  <1>1. u = [t EXCEPT !.num_entries = n - 1, !.entries = g]
    BY DEF without_entry
  <1>2. f \in [1..ELIXIR_MAX_FILES -> EntryType]
    BY DEF TableType
  <1> HIDE DEF f, n
  <1>3. g \in [1..ELIXIR_MAX_FILES -> EntryType]
    <2>1. \A k \in 1..ELIXIR_MAX_FILES : k \in j..(n - 1) => k + 1 \in 1..ELIXIR_MAX_FILES
      BY <1>0
    <2> QED
      BY <1>2, <2>1
  <1>4. j \in 1..n
    BY DEF n
  <1>5. \A k \in 1..(n - 1) : g[k] = IF k < j THEN f[k] ELSE f[k + 1]
    BY <1>0, <1>2, <1>4
  <1>6. n - 1 \in 0..ELIXIR_MAX_FILES
    BY <1>0, <1>4
  <1> HIDE DEF g
  <1>7. u \in TableType /\ u.num_entries = n - 1 /\ u.entries = g
    BY <1>1, <1>3, <1>6 DEF TableType
  <1> QED
    BY <1>5, <1>7 DEF n, f

\* Without an entry, its block is the one that is missing.
LEMMA StartsLess ==
  ASSUME NEW t \in TableType, NEW u \in TableType, NEW j \in 1..t.num_entries,
         u.num_entries = t.num_entries - 1,
         \A k \in 1..u.num_entries : u.entries[k] = IF k < j THEN t.entries[k] ELSE t.entries[k + 1],
         \A i, k \in 1..t.num_entries : i # k => t.entries[i].start # t.entries[k].start
  PROVE  /\ Starts(u) = Starts(t) \ {t.entries[j].start}
         /\ \A i, k \in 1..u.num_entries : i # k => u.entries[i].start # u.entries[k].start
  <1> DEFINE n == t.num_entries
             from(k) == IF k < j THEN k ELSE k + 1
  <1>0. n \in Nat /\ u.num_entries = n - 1 /\ j \in 1..n
    BY TableParts
  <1>1. \A k \in 1..u.num_entries : from(k) \in 1..n /\ from(k) # j /\ u.entries[k] = t.entries[from(k)]
    BY <1>0
  <1>2. \A i, k \in 1..u.num_entries : i # k => from(i) # from(k)
    BY <1>0
  <1>3. \A i \in 1..n : i # j => \E k \in 1..u.num_entries : from(k) = i
    <2> SUFFICES ASSUME NEW i \in 1..n, i # j PROVE \E k \in 1..u.num_entries : from(k) = i
      OBVIOUS
    <2>1. CASE i < j
      <3>1. i \in 1..u.num_entries /\ from(i) = i
        BY <1>0, <2>1
      <3> QED
        BY <3>1
    <2>2. CASE i > j
      <3>1. i - 1 \in 1..u.num_entries /\ from(i - 1) = i
        BY <1>0, <2>2
      <3> QED
        BY <3>1
    <2> QED
      BY <1>0, <2>1, <2>2
  <1> HIDE DEF from
  <1>4. \A i, k \in 1..u.num_entries : i # k => u.entries[i].start # u.entries[k].start
    BY <1>1, <1>2
  <1>5. Starts(u) \subseteq Starts(t) \ {t.entries[j].start}
    BY <1>1 DEF Starts
  <1>6. ASSUME NEW x \in Starts(t) \ {t.entries[j].start} PROVE x \in Starts(u)
    <2>1. PICK i \in 1..n : x = t.entries[i].start
      BY DEF Starts
    <2>2. PICK k \in 1..u.num_entries : from(k) = i
      BY <1>3, <2>1
    <2>3. x = u.entries[k].start
      BY <1>1, <2>1, <2>2
    <2> QED
      BY <2>3 DEF Starts
  <1> QED
    BY <1>4, <1>5, <1>6

\* What elixir_delete_file has in hand: an entry of the root directory.
LEMMA DeleteStep ==
  ASSUME ElixirInv, NEW p \in Paths, elixir_delete_file(p)
  PROVE  /\ fs # None /\ job = NoJob /\ calls' = calls + 1
         /\ UNCHANGED <<sb, bitmap, blocks, fault>>
         /\ \E j \in 1..RootTable.num_entries :
              /\ fs' = [free_blocks |-> fs.free_blocks + RootTable.entries[j].size,
                        bitmap |-> fs.bitmap \ Extent(RootTable.entries[j])]
              /\ job' = [op |-> "table", ft |-> ROOT, table |-> without_entry(RootTable, j)]
  <1>0. TypesInv /\ TreeInv
    BY DEF ElixirInv
  <1>1. PICK g \in Garbage :
          LET r == elixir_get_file_entry_from_path(path_copy(p, g))
          IN  /\ fs # None /\ job = NoJob /\ r.found
              /\ fs' = [free_blocks |-> fs.free_blocks + r.entry.size,
                        bitmap |-> fs.bitmap \ Extent(r.entry)]
              /\ job' = [op |-> "table", ft |-> r.ft, table |-> without_entry(Table(r.ft), r.i)]
              /\ calls' = calls + 1
              /\ UNCHANGED <<disk, fault>>
    BY DEF elixir_delete_file
  <1>2. PICK r : r = elixir_get_file_entry_from_path(path_copy(p, g))
    OBVIOUS
  <1>3. /\ fs # None /\ job = NoJob /\ r.found
        /\ fs' = [free_blocks |-> fs.free_blocks + r.entry.size,
                  bitmap |-> fs.bitmap \ Extent(r.entry)]
        /\ job' = [op |-> "table", ft |-> r.ft, table |-> without_entry(Table(r.ft), r.i)]
        /\ calls' = calls + 1
        /\ UNCHANGED <<sb, bitmap, blocks, fault>>
    BY <1>1, <1>2 DEF disk
  <1>4. r.ft = ROOT /\ r.i \in 1..RootTable.num_entries /\ r.entry = RootTable.entries[r.i]
    <2>1. Len(path_copy(p, g)) \in Nat
      BY CopyOfPath
    <2> QED
      BY <1>0, <1>2, <1>3, <2>1, FoundInRoot
  <1>5. /\ fs' = [free_blocks |-> fs.free_blocks + RootTable.entries[r.i].size,
                  bitmap |-> fs.bitmap \ Extent(RootTable.entries[r.i])]
        /\ job' = [op |-> "table", ft |-> ROOT, table |-> without_entry(RootTable, r.i)]
    BY <1>3, <1>4, Zenon DEF RootTable
  <1> QED
    BY <1>3, <1>4, <1>5

\* A deletion gives back in memory what its entry claims.
LEMMA DeleteKeeps ==
  ASSUME ElixirInv, Observe({}), NEW p \in Paths, elixir_delete_file(p)
  PROVE  ElixirInv'
  <1>0. TypesInv /\ TreeInv /\ HoldInv /\ BookInv
    BY DEF ElixirInv
  <1>1. /\ fs # None /\ job = NoJob /\ calls' = calls + 1
        /\ UNCHANGED <<sb, bitmap, blocks, fault>>
    BY DeleteStep
  <1>t. PICK t : t = RootTable
    OBVIOUS
  <1>j. PICK j \in 1..t.num_entries :
          /\ fs' = [free_blocks |-> fs.free_blocks + t.entries[j].size,
                    bitmap |-> fs.bitmap \ Extent(t.entries[j])]
          /\ job' = [op |-> "table", ft |-> ROOT, table |-> without_entry(t, j)]
    BY <1>t, DeleteStep
  <1>u. PICK u : u = without_entry(t, j)
    OBVIOUS
  <1>2. /\ t = RootTable /\ u = without_entry(t, j)
        /\ fs' = [free_blocks |-> fs.free_blocks + t.entries[j].size,
                  bitmap |-> fs.bitmap \ Extent(t.entries[j])]
        /\ job' = [op |-> "table", ft |-> ROOT, table |-> u]
    BY <1>t, <1>j, <1>u
  <1>3. t \in TableType /\ Whole(t) /\ t.num_entries \in Nat /\ j \in 1..t.num_entries
    BY <1>0, <1>2, TableAt, TableParts DEF Blocks, RootTable, TreeInv
  <1>4. /\ u \in TableType /\ u.num_entries = t.num_entries - 1
        /\ \A k \in 1..u.num_entries : u.entries[k] = IF k < j THEN t.entries[k] ELSE t.entries[k + 1]
    BY <1>2, <1>3, WithoutEntry
  <1>5. Whole(u)
    <2>1. \A k \in 1..u.num_entries : \E i \in 1..t.num_entries : u.entries[k] = t.entries[i]
      <3> SUFFICES ASSUME NEW k \in 1..u.num_entries PROVE \E i \in 1..t.num_entries : u.entries[k] = t.entries[i]
        OBVIOUS
      <3>1. k \in 1..t.num_entries /\ k + 1 \in 1..t.num_entries
        BY <1>3, <1>4
      <3> QED
        BY <1>4, <3>1
    <2> QED
      BY <1>3, <2>1 DEF Whole
  <1>6. RootTable' = RootTable /\ TreeInv' /\ HoldInv' /\ exposed' \subseteq DataBlocks
    BY <1>1, SameBlocks
  <1>7. /\ fs \in MountType /\ fs.free_blocks \in Int /\ fs.bitmap \subseteq 0..(TOTAL - 1)
        /\ sb.magic
    BY <1>0, <1>1, MountTypeParts DEF TypesInv, BookInv
  <1>8. t.entries[j].size \in Nat \ {0} /\ t.entries[j].start \in DataBlocks
    BY <1>3 DEF Whole
  <1>9. /\ fs' \in MountType /\ fs'.free_blocks = fs.free_blocks + t.entries[j].size
        /\ fs'.free_blocks \in Int /\ fs'.bitmap = fs.bitmap \ Extent(t.entries[j])
        /\ fs'.bitmap \subseteq 0..(TOTAL - 1)
    BY <1>2, <1>7, <1>8 DEF MountType
  <1>10. job'.op = "table" /\ job'.ft = ROOT /\ job'.table = u /\ job' # NoJob
    BY <1>2 DEF NoJob
  <1>11. TypesInv'
    BY <1>0, <1>1, <1>6, <1>9, <1>10 DEF TypesInv, TypeOK, Updating, Formats
  <1>12. JobInv'
    <2>1. \E i \in 1..RootTable'.num_entries : Removed(RootTable, job.table, i)'
      <3>1. Removed(RootTable, job.table, j)'
        BY <1>2, <1>4, <1>6, <1>9, <1>10 DEF Removed
      <3> QED
        BY <1>2, <1>3, <1>6, <3>1
    <2> QED
      BY <1>4, <1>5, <1>10, <2>1 DEF JobInv
  <1>13. BookInv'
    <2>1. ASSUME "cut" \notin fault'
          PROVE  Balanced(job.table, fs.free_blocks, fs.bitmap)'
      <3>1. Balanced(t, sb.free_blocks, bitmap) /\ fs = [free_blocks |-> sb.free_blocks, bitmap |-> bitmap]
        BY <1>0, <1>1, <1>2, <1>7, <2>1 DEF BookInv
      <3>2. fs.free_blocks = sb.free_blocks /\ fs.bitmap = bitmap
        BY <3>1
      <3>3. claimed(u) = claimed(t) - t.entries[j].size /\ claimed(t) \in Nat
        BY <1>3, <1>4, ClaimedLess, ClaimedOf
      <3>4. fs'.free_blocks + claimed(u) = TOTAL - DATA_START
        BY <1>7, <1>8, <1>9, <3>1, <3>2, <3>3 DEF Balanced
      <3>5. ASSUME "large" \notin fault
            PROVE  /\ fs'.bitmap = Reserved \cup Starts(u)
                   /\ \A i, k \in 1..u.num_entries : i # k => u.entries[i].start # u.entries[k].start
        <4>1. /\ fs.bitmap = Reserved \cup Starts(t)
              /\ \A i, k \in 1..t.num_entries : i # k => t.entries[i].start # t.entries[k].start
          BY <3>1, <3>2, <3>5 DEF Balanced
        <4>2. /\ Starts(u) = Starts(t) \ {t.entries[j].start}
              /\ \A i, k \in 1..u.num_entries : i # k => u.entries[i].start # u.entries[k].start
          BY <1>3, <1>4, <4>1, StartsLess
        <4>3. t.entries[j].size = 1
          BY <1>0, <1>2, <3>5 DEF HoldInv
        <4>4. Extent(t.entries[j]) = {t.entries[j].start} /\ t.entries[j].start \notin Reserved
          <5> DEFINE a == t.entries[j].start
          <5>1. a \in DataBlocks /\ Extent(t.entries[j]) = a..(a + 1 - 1)
            BY <1>8, <4>3 DEF Extent
          <5> HIDE DEF a
          <5>2. a..(a + 1 - 1) = {a} /\ a \notin Reserved
            BY <5>1, ElixirAssumption DEF DataBlocks, Reserved
          <5> QED
            BY <5>1, <5>2 DEF a
        <4> QED
          BY <1>9, <4>1, <4>2, <4>4
      <3> QED
        BY <1>1, <1>10, <3>4, <3>5 DEF Balanced
    <2> QED
      BY <1>1, <1>7, <1>10, <2>1 DEF BookInv, Formats
  <1> QED
    BY <1>6, <1>11, <1>12, <1>13 DEF ElixirInv

------------------------------------------------------------------------------
(* elixir_create_file.                                                     *)

\* Entries are put into the root directory only.
LEMMA ParentIsRoot ==
  ASSUME TypesInv, TreeInv, NEW parent \in Seq(Seq(STRING)), NEW h \in Garbage,
         parent_ft(parent, h) # None
  PROVE  parent_ft(parent, h) = ROOT
  <1>1. PICK r : r = elixir_get_file_entry_from_path(path_copy(parent, h))
    OBVIOUS
  <1>2. CASE parent = <<>>
    BY <1>2 DEF parent_ft
  <1>3. CASE parent # <<>>
    <2>1. h \in Seq(Seq(STRING)) \ {<<>>}
      BY ElixirAssumption
    <2>2. Len(path_copy(parent, h)) \in Nat
      BY <1>3, <2>1, PathCopyType
    <2>3. r.found => r.ft = ROOT
      BY <1>1, <2>2, FoundInRoot
    <2>4. parent_ft(parent, h) = IF r.found /\ r.entry.type = DIRECTORY THEN r.ft ELSE None
      BY <1>1, <1>3 DEF parent_ft
    <2> QED
      BY <2>3, <2>4
  <1> QED
    BY <1>2, <1>3

\* A table with one entry more, whose name may have grown a tail.
LEMMA WithEntry ==
  ASSUME NEW t \in TableType, t.num_entries < ELIXIR_MAX_FILES, NEW e \in EntryType,
         NEW u, u = with_entry(t, e)
  PROVE  /\ u \in TableType /\ u.num_entries = t.num_entries + 1
         /\ \A k \in 1..t.num_entries : u.entries[k] = t.entries[k]
         /\ u.entries[u.num_entries].type = e.type /\ u.entries[u.num_entries].start = e.start
         /\ u.entries[u.num_entries].size = e.size /\ u.entries[u.num_entries].holds = e.holds
  <1> DEFINE n == t.num_entries + 1
             name == strcpy(t.entries[n].name, e.name)
             d == [e EXCEPT !.name = name]
  <1>0. t.num_entries \in Nat /\ ELIXIR_MAX_FILES \in Nat
    BY TableParts, ElixirAssumption
  <1>1. n \in 1..ELIXIR_MAX_FILES /\ n \in 0..ELIXIR_MAX_FILES
    BY <1>0
  <1>2. \A k \in 1..t.num_entries : k \in 1..ELIXIR_MAX_FILES /\ k # n
    BY <1>0
  <1>3. u = [t EXCEPT !.num_entries = n, !.entries[n] = d]
    BY DEF with_entry
  <1>4. e.name \in Seq(STRING)
    BY DEF EntryType
  <1>5. t.entries[n].name \in Seq(STRING)
    BY <1>1, TableParts
  <1>6. name \in Seq(STRING)
    BY <1>4, <1>5, StrcpyType
  <1> HIDE DEF name
  <1>7. d \in EntryType /\ d.type = e.type /\ d.start = e.start /\ d.size = e.size /\ d.holds = e.holds
    BY <1>6, Renamed
  <1> HIDE DEF d, n
  <1>8. t.entries \in [1..ELIXIR_MAX_FILES -> EntryType]
    BY DEF TableType
  <1> DEFINE f == [t.entries EXCEPT ![n] = d]
             v == [t EXCEPT !.num_entries = n]
  <1>a. f \in [1..ELIXIR_MAX_FILES -> EntryType]
    BY <1>1, <1>7, <1>8
  <1>b. v \in TableType /\ v.num_entries = n /\ v.entries = t.entries
    BY <1>1 DEF TableType
  <1>c. u = [v EXCEPT !.entries = [v.entries EXCEPT ![n] = d]]
    BY <1>3
  <1> HIDE DEF v
  <1>d. u = [v EXCEPT !.entries = f]
    BY <1>b, <1>c
  <1> HIDE DEF f
  <1>e. u \in TableType /\ u.num_entries = n /\ u.entries = f
    BY <1>a, <1>b, <1>d DEF TableType
  <1>9. u \in TableType /\ u.num_entries = n /\ u.entries = [t.entries EXCEPT ![n] = d]
    BY <1>e DEF f
  <1>10. u.entries[n] = d /\ \A k \in 1..t.num_entries : u.entries[k] = t.entries[k]
    BY <1>1, <1>2, <1>8, <1>9
  <1> QED
    BY <1>7, <1>9, <1>10 DEF n

\* A file has a block at least.
LEMMA BlocksOfFile ==
  ASSUME NEW type, NEW size \in Nat
  PROVE  num_blocks(type, size) \in Nat \ {0}
  <1>1. CASE type = DIRECTORY \/ size = 0
    BY <1>1 DEF num_blocks
  <1>2. CASE ~ (type = DIRECTORY \/ size = 0)
    <2> DEFINE m == ELIXIR_BLOCK_SIZE
               x == size + m - 1
               n == x \div m
    <2>1. m \in Nat \ {0} /\ x \in Nat /\ x >= m
      BY <1>2, ElixirAssumption
    <2>2. n \in Int /\ x = m * n + (x % m) /\ x % m \in 0..(m - 1) /\ n \in 0..x
      <3> HIDE DEF x, m
      <3> QED
        BY <2>1
    <2>3. n # 0
      <3>1. n = 0 => m * n = 0
        BY <2>1
      <3> QED
        BY <2>1, <2>2, <3>1
    <2>4. num_blocks(type, size) = n
      BY <1>2 DEF num_blocks
    <2> HIDE DEF n
    <2> QED
      BY <2>1, <2>2, <2>3, <2>4
  <1> QED
    BY <1>1, <1>2

\* What elixir_create_file has in hand: a new entry for the root directory.
LEMMA NewEntry ==
  ASSUME ElixirInv, NEW p \in Paths, NEW type \in {FILE, DIRECTORY}, NEW size \in Nat,
         NEW g \in Garbage, NEW h \in Garbage, NEW q, q = path_copy(p, g),
         NEW ft, ft = parent_ft(Front(q), h), may_create(q, ft),
         NEW e, e = new_entry(q, type, size)
  PROVE  /\ ft = ROOT /\ fs # None /\ job = NoJob /\ RootTable.num_entries < ELIXIR_MAX_FILES
         /\ e \in EntryType /\ e.type = type /\ e.holds = calls + 1
         /\ e.start \in DataBlocks \ fs.bitmap /\ e.size \in Nat \ {0}
  <1>0. TypesInv /\ TreeInv /\ calls \in Nat
    BY DEF ElixirInv, TypesInv
  <1>1. PICK Free : Free = find_free_block
    OBVIOUS
  <1>2. PICK last, n, start, bytes :
          /\ last = Last(q) /\ n = num_blocks(type, size) /\ start = Min(Free)
          /\ bytes = IF type = FILE THEN size ELSE 0
    OBVIOUS
  <1>3. /\ fs # None /\ job = NoJob /\ ft # None /\ Free # {}
        /\ Table(ft).num_entries < ELIXIR_MAX_FILES
    BY <1>1 DEF may_create
  <1>4. e = [name |-> last, type |-> type, start |-> start, size |-> n, bytes |-> bytes,
             holds |-> calls + 1]
    BY <1>1, <1>2, Zenon DEF new_entry
  <1>5. ft = ROOT
    <2>1. Front(q) \in Seq(Seq(STRING))
      BY CopyOfPath
    <2> QED
      BY <1>0, <1>3, <2>1, ParentIsRoot
  <1>6. last \in Seq(STRING)
    BY <1>2, CopyOfPath
  <1>7. n \in Nat \ {0}
    BY <1>2, BlocksOfFile
  <1>8. bytes \in Nat
    BY <1>2
  <1>9. start \in DataBlocks \ fs.bitmap /\ start \in Nat
    <2>1. Free \subseteq Nat /\ Free \subseteq DataBlocks \ fs.bitmap
      BY <1>1, ElixirAssumption DEF find_free_block, DataBlocks
    <2>2. start \in Free
      BY <1>2, <1>3, <2>1, MinProps
    <2> QED
      BY <2>1, <2>2
  <1>10. e \in EntryType /\ e.type = type /\ e.start = start /\ e.size = n /\ e.holds = calls + 1
    BY <1>0, <1>4, <1>6, <1>7, <1>8, <1>9 DEF EntryType
  <1> QED
    BY <1>3, <1>5, <1>7, <1>9, <1>10 DEF RootTable

\* The entry that a creation, or one cut short in its data, works with.
LEMMA CreateStep ==
  ASSUME ElixirInv, NEW p \in Paths, NEW type \in {FILE, DIRECTORY}, NEW size \in Nat,
         elixir_create_file(p, type, size)
  PROVE  /\ fs # None /\ job = NoJob /\ calls' = calls + 1 /\ UNCHANGED <<sb, bitmap>>
         /\ RootTable.num_entries < ELIXIR_MAX_FILES
         /\ \E e \in EntryType :
              /\ e.holds = calls + 1 /\ e.start \in DataBlocks \ fs.bitmap /\ e.size \in Nat \ {0}
              /\ e.start + e.size <= TOTAL
              /\ blocks' = written(e, e.size)
              /\ Observe(not_looked_at(e))
              /\ fs' = [free_blocks |-> fs.free_blocks - e.size, bitmap |-> fs.bitmap \cup {e.start}]
              /\ job' = [op |-> "table", ft |-> ROOT, table |-> with_entry(RootTable, e)]
              /\ fault' = IF e.size > 1 THEN fault \cup {"large"} ELSE fault
  <1>1. PICK g \in Garbage, h \in Garbage :
          LET q == path_copy(p, g)
              ft == parent_ft(Front(q), h)
              e == new_entry(q, type, size)
          IN  /\ may_create(q, ft)
              /\ e.start + e.size <= TOTAL
              /\ blocks' = written(e, e.size)
              /\ fs' = [free_blocks |-> fs.free_blocks - e.size,
                        bitmap |-> fs.bitmap \cup {e.start}]
              /\ job' = [op |-> "table", ft |-> ft, table |-> with_entry(Table(ft), e)]
              /\ fault' = IF e.size > 1 THEN fault \cup {"large"} ELSE fault
              /\ calls' = calls + 1
              /\ Observe(not_looked_at(e))
              /\ UNCHANGED <<sb, bitmap>>
    BY Zenon DEF elixir_create_file
  <1>2. PICK q : q = path_copy(p, g)
    OBVIOUS
  <1>3. PICK ft : ft = parent_ft(Front(q), h)
    OBVIOUS
  <1>4. PICK e : e = new_entry(q, type, size)
    OBVIOUS
  <1>5. /\ may_create(q, ft)
        /\ e.start + e.size <= TOTAL
        /\ blocks' = written(e, e.size)
        /\ fs' = [free_blocks |-> fs.free_blocks - e.size, bitmap |-> fs.bitmap \cup {e.start}]
        /\ job' = [op |-> "table", ft |-> ft, table |-> with_entry(Table(ft), e)]
        /\ fault' = IF e.size > 1 THEN fault \cup {"large"} ELSE fault
        /\ calls' = calls + 1
        /\ Observe(not_looked_at(e))
        /\ UNCHANGED <<sb, bitmap>>
    BY <1>1, <1>2, <1>3, <1>4, Zenon
  <1>6. /\ ft = ROOT /\ fs # None /\ job = NoJob /\ RootTable.num_entries < ELIXIR_MAX_FILES
        /\ e \in EntryType /\ e.type = type /\ e.holds = calls + 1
        /\ e.start \in DataBlocks \ fs.bitmap /\ e.size \in Nat \ {0}
    BY <1>2, <1>3, <1>4, <1>5, NewEntry
  <1>7. job' = [op |-> "table", ft |-> ROOT, table |-> with_entry(RootTable, e)]
    BY <1>5, <1>6, Zenon DEF RootTable
  <1> QED
    BY <1>5, <1>6, <1>7, Zenon

\* The same for the call whose data is not all written: the books stay as they are.
LEMMA CutStep ==
  ASSUME ElixirInv, NEW p \in Paths, NEW type \in {FILE, DIRECTORY}, NEW size \in Nat,
         create_data_cut(p, type, size)
  PROVE  /\ fs # None /\ job = NoJob /\ calls' = calls + 1 /\ UNCHANGED <<sb, bitmap, job, fault>>
         /\ fs' \in {fs, None}
         /\ \E e \in EntryType :
              /\ e.holds = calls + 1 /\ e.start \in DataBlocks \ fs.bitmap /\ e.size \in Nat \ {0}
              /\ e.start + e.size <= TOTAL
              /\ \E k \in 1..e.size : blocks' = written(e, k)
              /\ Observe(not_looked_at(e))
  <1>1. PICK g \in Garbage, h \in Garbage :
          LET q == path_copy(p, g)
              ft == parent_ft(Front(q), h)
              e == new_entry(q, type, size)
          IN  /\ may_create(q, ft)
              /\ e.start + e.size <= TOTAL
              /\ \E k \in 1..e.size : blocks' = written(e, k)
              /\ fs' \in {fs, None}
              /\ calls' = calls + 1
              /\ Observe(not_looked_at(e))
              /\ UNCHANGED <<sb, bitmap, job, fault>>
    BY Zenon DEF create_data_cut
  <1>2. PICK q : q = path_copy(p, g)
    OBVIOUS
  <1>3. PICK ft : ft = parent_ft(Front(q), h)
    OBVIOUS
  <1>4. PICK e : e = new_entry(q, type, size)
    OBVIOUS
  <1>5. /\ may_create(q, ft)
        /\ e.start + e.size <= TOTAL
        /\ \E k \in 1..e.size : blocks' = written(e, k)
        /\ fs' \in {fs, None}
        /\ calls' = calls + 1
        /\ Observe(not_looked_at(e))
        /\ UNCHANGED <<sb, bitmap, job, fault>>
    BY <1>1, <1>2, <1>3, <1>4, Zenon
  <1>6. /\ ft = ROOT /\ fs # None /\ job = NoJob /\ RootTable.num_entries < ELIXIR_MAX_FILES
        /\ e \in EntryType /\ e.type = type /\ e.holds = calls + 1
        /\ e.start \in DataBlocks \ fs.bitmap /\ e.size \in Nat \ {0}
    BY <1>2, <1>3, <1>4, <1>5, NewEntry
  <1> QED
    BY <1>5, <1>6, Zenon

\* With an entry more, whose block no other entry starts at, its block is the new one.
LEMMA StartsMore ==
  ASSUME NEW t \in TableType, NEW u \in TableType, u.num_entries = t.num_entries + 1,
         \A k \in 1..t.num_entries : u.entries[k] = t.entries[k],
         NEW a, a = u.entries[u.num_entries].start, a \notin Starts(t),
         \A i, k \in 1..t.num_entries : i # k => t.entries[i].start # t.entries[k].start
  PROVE  /\ Starts(u) = Starts(t) \cup {a}
         /\ \A i, k \in 1..u.num_entries : i # k => u.entries[i].start # u.entries[k].start
  <1> DEFINE n == t.num_entries
  <1>0. n \in Nat /\ u.num_entries = n + 1
    BY TableParts
  <1>1. \A k \in 1..u.num_entries : k \in 1..n \/ k = n + 1
    BY <1>0
  <1>2. \A k \in 1..n : k \in 1..u.num_entries /\ k # n + 1
    BY <1>0
  <1>3. n + 1 \in 1..u.num_entries /\ u.entries[n + 1].start = a
    BY <1>0
  <1>4. \A k \in 1..n : u.entries[k] = t.entries[k] /\ t.entries[k].start # a
    BY DEF Starts
  <1> HIDE DEF n
  <1>5. \A i, k \in 1..n : i # k => t.entries[i].start # t.entries[k].start
    BY DEF n
  <1>6. \A i, k \in 1..u.num_entries : i # k => u.entries[i].start # u.entries[k].start
    BY <1>1, <1>3, <1>4, <1>5
  <1>7. Starts(t) = {t.entries[k].start : k \in 1..n} /\ Starts(u) = {u.entries[k].start : k \in 1..u.num_entries}
    BY DEF Starts, n
  <1>8. Starts(u) = Starts(t) \cup {a}
    BY <1>1, <1>2, <1>3, <1>4, <1>7
  <1> QED
    BY <1>6, <1>8

\* However much of a new file is written: its first block was free, the others are noted as
\* run over, and the root directory is not among them.
LEMMA DataWritten ==
  ASSUME ElixirInv, fs # None, NEW e \in EntryType, e.start \in DataBlocks \ fs.bitmap,
         e.size \in Nat \ {0}, e.start + e.size <= TOTAL, NEW k \in 1..e.size,
         blocks' = written(e, k), Observe(not_looked_at(e)),
         "large" \notin fault' => "large" \notin fault
  PROVE  /\ RootTable' = RootTable /\ TreeInv' /\ HoldInv' /\ exposed' \subseteq DataBlocks
         /\ blocks' \in [Blocks -> TableType \cup DataType]
         /\ k = e.size => Holds(blocks', e, {})
  <1>0. TypesInv /\ TreeInv /\ HoldInv
    BY DEF ElixirInv
  <1>a. PICK a, z, c : a = e.start /\ z = e.size /\ c = e.holds
    OBVIOUS
  <1>1. a \in DataBlocks /\ z \in Nat \ {0} /\ a + z <= TOTAL /\ a \in Nat /\ c \in Nat /\ k \in 1..z
    BY <1>a DEF EntryType
  <1>2. Extent(e) = a..(a + z - 1)
    BY <1>a DEF Extent
  <1>3. Extent(e) \subseteq DataBlocks /\ a \in Extent(e) /\ ROOT \notin Extent(e)
    BY <1>1, <1>2, ElixirAssumption DEF DataBlocks, ROOT
  <1>4. \A b \in Extent(e) : b \in Blocks /\ b - a \in Nat /\ (b >= a + k => k # z)
    BY <1>1, <1>2, <1>3 DEF Blocks
  <1>5. \A b \in Blocks :
          blocks'[b] = IF b \notin Extent(e) \/ b >= a + k THEN blocks[b]
                       ELSE IF e.type = FILE THEN Data(c, b - a) ELSE EmptyTable
    BY <1>a DEF written
  <1>6. \A b \in Blocks : b \notin Extent(e) => blocks'[b] = blocks[b]
    BY <1>5
  <1>7. ASSUME NEW b \in Extent(e)
        PROVE  blocks'[b] \in TableType \cup DataType /\ (b \in DataBlocks => Table(b)'.num_entries = 0)
    <2>0. b \in Blocks /\ b - a \in Nat
      BY <1>4
    <2>1. CASE b >= a + k
      <3>1. blocks'[b] = blocks[b]
        BY <1>5, <2>0, <2>1
      <3>2. Table(b)' = Table(b)
        BY <3>1 DEF Table
      <3> QED
        BY <1>0, <2>0, <3>1, <3>2 DEF TypesInv, TreeInv
    <2>2. CASE ~ (b >= a + k) /\ e.type = FILE
      <3>1. blocks'[b] = Data(c, b - a)
        BY <1>5, <2>0, <2>2
      <3>2. Data(c, b - a) \in DataType /\ Data(c, b - a).kind = "data"
        BY <1>1, <2>0 DEF Data, DataType
      <3>3. Table(b)' = EmptyTable
        BY <3>1, <3>2 DEF Table
      <3> QED
        BY <3>1, <3>2, <3>3, EmptyTableType
    <2>3. CASE ~ (b >= a + k) /\ e.type # FILE
      <3>1. blocks'[b] = EmptyTable
        BY <1>5, <2>0, <2>3
      <3>2. Table(b)' = EmptyTable
        BY <3>1 DEF Table
      <3> QED
        BY <3>1, <3>2, EmptyTableType
    <2> QED
      BY <2>1, <2>2, <2>3
  <1>8. blocks' \in [Blocks -> TableType \cup DataType]
    <2>1. \A b \in Blocks : blocks'[b] \in TableType \cup DataType
      BY <1>0, <1>6, <1>7 DEF TypesInv
    <2>2. blocks' = [b \in Blocks |-> blocks'[b]]
      BY Zenon DEF written
    <2> QED
      BY <2>1, <2>2
  <1>9. RootTable' = RootTable
    BY <1>3, <1>6 DEF RootTable, Table, Blocks
  <1>10. TreeInv'
    <2>1. \A b \in DataBlocks : b \notin Extent(e) => Table(b)' = Table(b)
      BY <1>6 DEF Blocks, Table
    <2>2. \A b \in DataBlocks : Table(b)'.num_entries = 0
      BY <1>0, <1>7, <2>1 DEF TreeInv
    <2> QED
      BY <1>0, <1>9, <2>2 DEF TreeInv
  <1>11. RootTable \in TableType /\ Whole(RootTable)
    BY <1>0, TableAt DEF Blocks, RootTable, TreeInv
  <1>12. HoldInv' /\ exposed' \subseteq DataBlocks
    <2>1. ASSUME NEW i \in 1..RootTable.num_entries
          PROVE  /\ "large" \notin fault' => RootTable.entries[i].size = 1
                 /\ Holds(blocks', RootTable.entries[i], exposed \cup not_looked_at(e))
      <3>1. PICK f : f = RootTable.entries[i]
        OBVIOUS
      <3>2. /\ "large" \notin fault => f.size = 1
            /\ Holds(blocks, f, exposed) /\ Extent(f) \ fs.bitmap \subseteq exposed
        BY <1>0, <3>1 DEF HoldInv
      <3>3. Extent(f) \subseteq DataBlocks
        BY <1>11, <3>1, ExtentOnDrive
      <3>4. \A b \in Extent(f) : b \notin exposed \cup not_looked_at(e) => b \notin exposed /\ blocks'[b] = blocks[b]
        <4> SUFFICES ASSUME NEW b \in Extent(f), b \notin exposed \cup not_looked_at(e)
                     PROVE  b \notin exposed /\ blocks'[b] = blocks[b]
          OBVIOUS
        <4>1. b \notin exposed /\ b \in fs.bitmap /\ b \in Blocks
          BY <3>2, <3>3 DEF Blocks
        <4>2. b # e.start
          BY <4>1
        <4>3. b \notin Extent(e)
          BY <4>2 DEF not_looked_at
        <4> QED
          BY <1>6, <4>1, <4>3
      <3>5. Holds(blocks', f, exposed \cup not_looked_at(e))
        BY <3>2, <3>4, HoldsStill
      <3> QED
        BY <3>1, <3>2, <3>5
    <2> QED
      BY <1>9, <1>11, <2>1, RootObserved
  <1>13. k = e.size => Holds(blocks', e, {})
    BY <1>4, <1>5, <1>a DEF Holds
  <1> QED
    BY <1>8, <1>9, <1>10, <1>12, <1>13

\* Data that is not all written changes no books.
LEMMA CutKeeps ==
  ASSUME ElixirInv, NEW p \in Paths, NEW type \in {FILE, DIRECTORY}, NEW size \in Nat,
         create_data_cut(p, type, size)
  PROVE  ElixirInv' /\ RootTable' = RootTable
  <1>0. TypesInv /\ BookInv /\ calls \in Nat
    BY DEF ElixirInv, TypesInv
  <1>1. /\ fs # None /\ job = NoJob /\ calls' = calls + 1 /\ UNCHANGED <<sb, bitmap, job, fault>>
        /\ fs' \in {fs, None}
    BY CutStep
  <1>2. PICK e \in EntryType :
          /\ e.holds = calls + 1 /\ e.start \in DataBlocks \ fs.bitmap /\ e.size \in Nat \ {0}
          /\ e.start + e.size <= TOTAL
          /\ \E k \in 1..e.size : blocks' = written(e, k)
          /\ Observe(not_looked_at(e))
    BY CutStep, Zenon
  <1>3. PICK k \in 1..e.size : blocks' = written(e, k)
    BY <1>2
  <1>4. /\ RootTable' = RootTable /\ TreeInv' /\ HoldInv' /\ exposed' \subseteq DataBlocks
        /\ blocks' \in [Blocks -> TableType \cup DataType]
    BY <1>1, <1>2, <1>3, DataWritten
  <1>5. job.op = "none" /\ ~Updating /\ ~Formats /\ ~Updating' /\ ~Formats' /\ job'.op = "none"
    BY <1>1, NoJobFacts DEF Updating, Formats
  <1>6. TypesInv'
    <2>1. DOMAIN blocks' = Blocks
      BY <1>4
    <2> QED
      BY <1>0, <1>1, <1>4, <1>5, <2>1 DEF TypesInv, TypeOK
  <1>7. JobInv'
    BY <1>5 DEF JobInv
  <1>8. BookInv'
    <2>1. "cut" \notin fault /\ sb.magic =>
            /\ Balanced(RootTable, sb.free_blocks, bitmap)
            /\ fs = [free_blocks |-> sb.free_blocks, bitmap |-> bitmap]
      BY <1>0, <1>1 DEF BookInv
    <2>2. "cut" \notin fault /\ sb.magic => Balanced(RootTable, sb.free_blocks, bitmap)'
      BY <1>1, <1>4, <2>1 DEF Balanced
    <2>3. sb.magic
      BY <1>0, <1>1 DEF BookInv
    <2> QED
      BY <1>1, <1>5, <2>1, <2>2, <2>3 DEF BookInv
  <1> QED
    BY <1>4, <1>6, <1>7, <1>8 DEF ElixirInv

\* A creation takes in memory what its entry claims.
LEMMA CreateKeeps ==
  ASSUME ElixirInv, NEW p \in Paths, NEW type \in {FILE, DIRECTORY}, NEW size \in Nat,
         elixir_create_file(p, type, size)
  PROVE  ElixirInv' /\ RootTable' = RootTable
  <1>0. TypesInv /\ TreeInv /\ HoldInv /\ BookInv /\ calls \in Nat
    BY DEF ElixirInv, TypesInv
  <1>1. /\ fs # None /\ job = NoJob /\ calls' = calls + 1 /\ UNCHANGED <<sb, bitmap>>
        /\ RootTable.num_entries < ELIXIR_MAX_FILES
    BY CreateStep
  <1>t. PICK t : t = RootTable
    OBVIOUS
  <1>2. PICK e \in EntryType :
          /\ e.holds = calls + 1 /\ e.start \in DataBlocks \ fs.bitmap /\ e.size \in Nat \ {0}
          /\ e.start + e.size <= TOTAL
          /\ blocks' = written(e, e.size)
          /\ Observe(not_looked_at(e))
          /\ fs' = [free_blocks |-> fs.free_blocks - e.size, bitmap |-> fs.bitmap \cup {e.start}]
          /\ job' = [op |-> "table", ft |-> ROOT, table |-> with_entry(t, e)]
          /\ fault' = IF e.size > 1 THEN fault \cup {"large"} ELSE fault
    BY <1>t, CreateStep, Zenon
  <1>u. PICK u : u = with_entry(t, e)
    OBVIOUS
  <1>3. t \in TableType /\ Whole(t) /\ t.num_entries \in Nat /\ t.num_entries < ELIXIR_MAX_FILES
    BY <1>0, <1>1, <1>t, TableAt, TableParts DEF Blocks, RootTable, TreeInv
  <1>4. /\ u \in TableType /\ u.num_entries = t.num_entries + 1
        /\ \A k \in 1..t.num_entries : u.entries[k] = t.entries[k]
        /\ u.entries[u.num_entries].type = e.type /\ u.entries[u.num_entries].start = e.start
        /\ u.entries[u.num_entries].size = e.size /\ u.entries[u.num_entries].holds = e.holds
    BY <1>3, <1>u, WithEntry
  <1>5. Whole(u)
    <2>1. \A k \in 1..u.num_entries : k \in 1..t.num_entries \/ k = u.num_entries
      BY <1>3, <1>4
    <2> QED
      BY <1>2, <1>3, <1>4, <2>1 DEF Whole
  <1>14. "large" \notin fault' => e.size = 1 /\ "large" \notin fault
    BY <1>2
  <1>6. e.size \in 1..e.size
    BY <1>2
  <1>12. /\ RootTable' = t /\ TreeInv' /\ HoldInv' /\ exposed' \subseteq DataBlocks
         /\ blocks' \in [Blocks -> TableType \cup DataType]
         /\ Holds(blocks', e, {})
    BY <1>1, <1>2, <1>6, <1>14, <1>t, DataWritten
  <1>17. /\ fs \in MountType /\ fs.free_blocks \in Int /\ fs.bitmap \subseteq 0..(TOTAL - 1)
         /\ sb.magic
    BY <1>0, <1>1, MountTypeParts DEF TypesInv, BookInv
  <1>18. /\ fs'.free_blocks = fs.free_blocks - e.size /\ fs'.bitmap = fs.bitmap \cup {e.start}
         /\ fs'.free_blocks \in Int /\ fs'.bitmap \subseteq 0..(TOTAL - 1) /\ fs' \in MountType
    <2>1. e.start \in 0..(TOTAL - 1)
      BY <1>2, ElixirAssumption DEF DataBlocks
    <2>2. fs.free_blocks - e.size \in Int /\ fs.bitmap \cup {e.start} \subseteq 0..(TOTAL - 1)
      BY <1>2, <1>17, <2>1
    <2>3. fs' = [free_blocks |-> fs.free_blocks - e.size, bitmap |-> fs.bitmap \cup {e.start}]
      BY <1>2
    <2> QED
      BY <2>2, <2>3 DEF MountType
  <1>19. job'.op = "table" /\ job'.ft = ROOT /\ job'.table = u /\ job' # NoJob
    <2>1. job' = [op |-> "table", ft |-> ROOT, table |-> u]
      BY <1>2, <1>u
    <2> QED
      BY <2>1 DEF NoJob
  <1>20. fault' \subseteq {"cut", "large"} /\ ("cut" \in fault' <=> "cut" \in fault)
    BY <1>0, <1>2 DEF TypesInv, TypeOK
  <1>21. TypesInv'
    <2>1. DOMAIN blocks' = Blocks
      BY <1>12
    <2> QED
      BY <1>0, <1>1, <1>12, <1>18, <1>19, <1>20, <2>1 DEF TypesInv, TypeOK, Updating, Formats
  <1>22. JobInv'
    <2>1. Holds(blocks', u.entries[u.num_entries], {})
      <3>1. Extent(u.entries[u.num_entries]) = Extent(e)
        BY <1>4 DEF Extent
      <3> QED
        BY <1>4, <1>12, <3>1 DEF Holds
    <2>2. "large" \notin fault' => u.entries[u.num_entries].size = 1
      BY <1>4, <1>14
    <2>3. Added(RootTable, job.table)'
      BY <1>4, <1>12, <1>19, <2>1, <2>2 DEF Added
    <2> QED
      BY <1>4, <1>5, <1>19, <2>3 DEF JobInv
  <1>23. BookInv'
    <2>1. ASSUME "cut" \notin fault'
          PROVE  Balanced(job.table, fs.free_blocks, fs.bitmap)'
      <3>1. Balanced(t, sb.free_blocks, bitmap) /\ fs = [free_blocks |-> sb.free_blocks, bitmap |-> bitmap]
        BY <1>0, <1>1, <1>17, <1>20, <1>t, <2>1 DEF BookInv
      <3>2. fs.free_blocks = sb.free_blocks /\ fs.bitmap = bitmap
        BY <3>1
      <3>3. claimed(u) = claimed(t) + e.size /\ claimed(t) \in Nat
        BY <1>3, <1>4, ClaimedMore, ClaimedOf
      <3>4. fs'.free_blocks + claimed(u) = TOTAL - DATA_START
        BY <1>2, <1>17, <1>18, <3>1, <3>2, <3>3 DEF Balanced
      <3>5. ASSUME "large" \notin fault'
            PROVE  /\ fs'.bitmap = Reserved \cup Starts(u)
                   /\ \A i, k \in 1..u.num_entries : i # k => u.entries[i].start # u.entries[k].start
        <4>1. /\ fs.bitmap = Reserved \cup Starts(t)
              /\ \A i, k \in 1..t.num_entries : i # k => t.entries[i].start # t.entries[k].start
          BY <1>14, <3>1, <3>2, <3>5 DEF Balanced
        <4>2. e.start \notin Starts(t)
          BY <1>2, <4>1
        <4>3. /\ Starts(u) = Starts(t) \cup {e.start}
              /\ \A i, k \in 1..u.num_entries : i # k => u.entries[i].start # u.entries[k].start
          BY <1>3, <1>4, <4>1, <4>2, StartsMore
        <4> QED
          BY <1>18, <4>1, <4>3
      <3> QED
        BY <1>19, <3>4, <3>5 DEF Balanced
    <2> QED
      BY <1>1, <1>17, <1>19, <2>1 DEF BookInv, Formats
  <1> QED
    BY <1>12, <1>21, <1>22, <1>23, <1>t DEF ElixirInv

------------------------------------------------------------------------------
(* The invariant holds.                                                    *)

\* A drive never written to.
LEMMA InitInv == ASSUME Init PROVE ElixirInv
  <1>1. /\ sb = [magic |-> FALSE, free_blocks |-> 0] /\ bitmap = {}
        /\ blocks = [b \in Blocks |-> Data(0, 0)] /\ fs = None /\ job = NoJob
        /\ calls = 0 /\ exposed = {} /\ fault = {}
    BY DEF Init
  <1>2. Data(0, 0) \in DataType /\ Data(0, 0).kind = "data"
    BY DEF Data, DataType
  <1>3. \A b \in Blocks : blocks[b] = Data(0, 0) /\ Table(b) = EmptyTable
    BY <1>1, <1>2 DEF Table
  <1>4. blocks \in [Blocks -> TableType \cup DataType] /\ DOMAIN blocks = Blocks
    BY <1>1, <1>2
  <1>5. job.op = "none" /\ ~Updating /\ ~Formats
    BY <1>1, NoJobFacts
  <1>6. sb \in [magic : BOOLEAN, free_blocks : Int] /\ ~ sb.magic
    BY <1>1
  <1>7. TypesInv
    BY <1>1, <1>4, <1>5, <1>6 DEF TypesInv, TypeOK
  <1>8. RootTable.num_entries = 0 /\ \A b \in DataBlocks : Table(b).num_entries = 0
    BY <1>3, EmptyTableType DEF RootTable, Blocks
  <1>9. TreeInv /\ HoldInv
    BY <1>8 DEF TreeInv, Whole, HoldInv
  <1>10. JobInv /\ BookInv
    BY <1>1, <1>5, <1>6 DEF JobInv, BookInv
  <1> QED
    BY <1>7, <1>9, <1>10 DEF ElixirInv

\* A step that changes nothing.
LEMMA StutterKeeps ==
  ASSUME ElixirInv, UNCHANGED vars
  PROVE  ElixirInv' /\ RootTable' = RootTable
  <1>1. UNCHANGED <<sb, bitmap, blocks, fs, job, calls, exposed, fault>>
    BY DEF vars, disk, history
  <1>2. \A b : Table(b)' = Table(b)
    BY <1>1 DEF Table
  <1>3. RootTable' = RootTable
    BY <1>2 DEF RootTable
  <1>4. Updating' = Updating /\ Formats' = Formats
    BY <1>1 DEF Updating, Formats
  <1>5. TypesInv'
    BY <1>1, <1>4 DEF ElixirInv, TypesInv, TypeOK, Updating, Formats
  <1>6. TreeInv'
    BY <1>2, <1>3 DEF ElixirInv, TreeInv
  <1>7. JobInv'
    BY <1>1, <1>3 DEF ElixirInv, JobInv, Added, Removed, Holds
  <1>8. HoldInv'
    BY <1>1, <1>3 DEF ElixirInv, HoldInv, Holds
  <1>9. BookInv'
    BY <1>1, <1>3 DEF ElixirInv, BookInv, Balanced, Updating, Formats
  <1> QED
    BY <1>3, <1>5, <1>6, <1>7, <1>8, <1>9 DEF ElixirInv

\* The calls that create something, one by one.
LEMMA CreatingCases ==
  ASSUME Creating
  PROVE  \E p \in Paths, type \in {FILE, DIRECTORY}, size \in Nat :
           elixir_create_file(p, type, size) \/ create_data_cut(p, type, size)
  <1>1. PICK p \in Paths :
          \/ \E s \in Sizes : elixir_create_file(p, FILE, s) \/ create_data_cut(p, FILE, s)
          \/ elixir_create_file(p, DIRECTORY, 0) \/ create_data_cut(p, DIRECTORY, 0)
    BY DEF Creating
  <1>2. Sizes \subseteq Nat /\ 0 \in Nat
    BY ElixirAssumption
  <1>3. FILE \in {FILE, DIRECTORY} /\ DIRECTORY \in {FILE, DIRECTORY}
    OBVIOUS
  <1>4. ASSUME NEW s \in Sizes, elixir_create_file(p, FILE, s) \/ create_data_cut(p, FILE, s)
        PROVE  \E q \in Paths, type \in {FILE, DIRECTORY}, size \in Nat :
                 elixir_create_file(q, type, size) \/ create_data_cut(q, type, size)
    BY <1>2, <1>3, <1>4, Zenon
  <1>5. ASSUME elixir_create_file(p, DIRECTORY, 0) \/ create_data_cut(p, DIRECTORY, 0)
        PROVE  \E q \in Paths, type \in {FILE, DIRECTORY}, size \in Nat :
                 elixir_create_file(q, type, size) \/ create_data_cut(q, type, size)
    BY <1>2, <1>3, <1>5, Zenon
  <1> QED
    BY <1>1, <1>4, <1>5, Zenon

\* One case per action.
LEMMA StepInv == ASSUME ElixirInv, [Next]_vars PROVE ElixirInv'
  <1>1. CASE UNCHANGED vars
    BY <1>1, StutterKeeps
  <1>2. CASE Creating
    <2>1. PICK p \in Paths, type \in {FILE, DIRECTORY}, size \in Nat :
            elixir_create_file(p, type, size) \/ create_data_cut(p, type, size)
      BY <1>2, CreatingCases
    <2>2. CASE elixir_create_file(p, type, size)
      BY <2>2, CreateKeeps
    <2>3. CASE create_data_cut(p, type, size)
      BY <2>3, CutKeeps
    <2> QED
      BY <2>1, <2>2, <2>3
  <1>3. CASE Next /\ ~Creating
    <2>0. Observe({})
      BY <1>3 DEF Next
    <2>1. CASE Formatting
      BY <2>0, <2>1, FormatKeeps, FormatBitmapKeeps, FormatTableKeeps DEF Formatting
    <2>2. CASE elixir_mount
      BY <2>0, <2>2, MountKeeps
    <2>3. CASE elixir_unmount
      BY <2>0, <2>3, UnmountKeeps
    <2>4. CASE Changing
      <3>1. ASSUME NEW p \in Paths, elixir_delete_file(p) PROVE ElixirInv'
        BY <2>0, <3>1, DeleteKeeps
      <3>2. ASSUME NEW p \in Paths, NEW q \in Paths, elixir_rename_file(p, q) PROVE ElixirInv'
        BY <2>0, <3>2, RenameKeeps
      <3> QED
        BY <2>4, <3>1, <3>2, Zenon DEF Changing
    <2>5. CASE Writing
      BY <2>0, <2>5, WriteTableKeeps, WriteBitmapKeeps, WriteSuperblockKeeps DEF Writing
    <2>6. CASE call_fails
      BY <2>0, <2>6, CallFailsKeeps
    <2>7. CASE crash
      BY <2>0, <2>7, CrashKeeps
    <2> QED
      BY <1>3, <2>1, <2>2, <2>3, <2>4, <2>5, <2>6, <2>7 DEF Next
  <1> QED
    BY <1>1, <1>2, <1>3

\* Elixir's inductive invariant: what the superblock, the bitmap, the tables and the copies
\* in memory are at every point of every call, with failures and crashes in between.
THEOREM ElixirInvariant == Spec => []ElixirInv
  <1>1. Init => ElixirInv
    BY InitInv
  <1>2. ElixirInv /\ [Next]_vars => ElixirInv'
    BY StepInv
  <1> QED
    BY <1>1, <1>2, PTL DEF Spec

------------------------------------------------------------------------------
(* The properties.                                                         *)

\* The first n values of a function as a sequence.
LEMMA FirstOnes ==
  ASSUME NEW S, NEW n \in Nat, NEW f, \A i \in 1..n : f[i] \in S
  PROVE  /\ SubSeq(f, 1, n) \in Seq(S) /\ Len(SubSeq(f, 1, n)) = n
         /\ \A i \in 1..n : SubSeq(f, 1, n)[i] = f[i]
  <1>1. PICK s : s = SubSeq(f, 1, n)
    OBVIOUS
  <1>2. /\ SubSeq(f, 1, n) \in Seq(S) /\ Len(SubSeq(f, 1, n)) = IF 1 <= n THEN n - 1 + 1 ELSE 0
        /\ \A i \in 1..(n - 1 + 1) : SubSeq(f, 1, n)[i] = f[1 + i - 1]
    BY SubSeqProperties
  <1>3. /\ s \in Seq(S) /\ Len(s) = IF 1 <= n THEN n - 1 + 1 ELSE 0
        /\ \A i \in 1..(n - 1 + 1) : s[i] = f[1 + i - 1]
    BY <1>1, <1>2, Zenon
  <1>4. Len(s) = n /\ \A i \in 1..n : s[i] = f[i]
    BY <1>3
  <1> QED
    BY <1>1, <1>3, <1>4, Zenon

\* The entries of a table as a sequence.
LEMMA EntriesSeq ==
  ASSUME NEW t \in TableType, NEW s, s = SubSeq(t.entries, 1, t.num_entries)
  PROVE  /\ s \in Seq(EntryType) /\ Len(s) = t.num_entries /\ t.num_entries \in Nat
         /\ \A i \in 1..t.num_entries : s[i] = t.entries[i]
  <1>1. t.num_entries \in Nat /\ \A i \in 1..t.num_entries : t.entries[i] \in EntryType
    BY TableParts
  <1>2. PICK n, f : n = t.num_entries /\ f = t.entries
    OBVIOUS
  <1>3. n \in Nat
    BY <1>1, <1>2
  <1>a. \A i \in 1..n : f[i] \in EntryType
    BY <1>1, <1>2
  <1>4. /\ SubSeq(f, 1, n) \in Seq(EntryType) /\ Len(SubSeq(f, 1, n)) = n
        /\ \A i \in 1..n : SubSeq(f, 1, n)[i] = f[i]
    BY <1>3, <1>a, FirstOnes
  <1>5. s = SubSeq(f, 1, n)
    BY <1>2, Zenon
  <1> QED
    BY <1>1, <1>2, <1>4, <1>5, Zenon

\* elixir_read_file returns, block by block, what elixir_create_file was given, on every
\* block that has been marked ever since and that no longer file ran over.
THEOREM FilesKeepData == Spec => []FilesHoldData
  <1>1. ASSUME ElixirInv PROVE FilesHoldData
    <2>0. TypesInv /\ TreeInv /\ HoldInv
      BY <1>1 DEF ElixirInv
    <2>1. ASSUME NEW name, NEW r, NEW d,
                 r = elixir_get_file_entry_from_path(<<name>>), d = elixir_read_file(<<name>>),
                 d # None, NEW b \in Extent(r.entry) \ exposed
          PROVE  d[b] = Data(r.entry.holds, b - r.entry.start)
      <3>1. d = IF r.found /\ r.entry.type = FILE /\ r.entry.bytes # 0
                  THEN [x \in Extent(r.entry) |-> blocks[x]] ELSE None
        BY <2>1, Zenon DEF elixir_read_file
      <3>2. r.found /\ r.entry.type = FILE /\ d = [x \in Extent(r.entry) |-> blocks[x]]
        BY <2>1, <3>1
      <3>3. r.i \in 1..RootTable.num_entries /\ r.entry = RootTable.entries[r.i]
        <4>1. Len(<<name>>) \in Nat
          OBVIOUS
        <4> QED
          BY <2>0, <2>1, <3>2, <4>1, FoundInRoot
      <3>4. Holds(blocks, r.entry, exposed)
        BY <2>0, <3>3 DEF HoldInv
      <3> QED
        BY <3>2, <3>4 DEF Holds
    <2> QED
      BY <2>1, Zenon DEF FilesHoldData
  <1> QED
    BY <1>1, ElixirInvariant, PTL

\* Between calls none of which failed, the superblock, the bitmap and the root directory
\* agree, in memory and on disk.
THEOREM BooksAreBalanced == Spec => []BooksBalance
  <1>1. ASSUME ElixirInv PROVE BooksBalance
    <2>0. TypesInv /\ TreeInv /\ BookInv /\ TypeOK
      BY <1>1 DEF ElixirInv, TypesInv
    <2>1. PICK t : t = RootTable
      OBVIOUS
    <2>2. t \in TableType
      BY <2>0, <2>1, TableAt DEF Blocks, RootTable
    <2>3. PICK s : s = SubSeq(t.entries, 1, t.num_entries)
      OBVIOUS
    <2>4. Len(s) = t.num_entries /\ \A i \in 1..t.num_entries : s[i] = t.entries[i]
      BY <2>2, <2>3, EntriesSeq
    <2>5. Root = s
      BY <2>1, <2>3 DEF Root, RootTable
    <2>7. ASSUME job = NoJob, sb.magic, "cut" \notin fault
          PROVE  /\ fs # None => fs = [free_blocks |-> sb.free_blocks, bitmap |-> bitmap]
                 /\ Balanced(t, sb.free_blocks, bitmap)
      BY <2>0, <2>1, <2>7 DEF BookInv
    <2>8. ASSUME job = NoJob, sb.magic, "cut" \notin fault, "large" \notin fault
          PROVE  /\ bitmap = (0..(DATA_START - 1)) \cup {s[i].start : i \in 1..Len(s)}
                 /\ \A i, j \in 1..Len(s) : i # j => s[i].start # s[j].start
      <3>1. /\ bitmap = (0..(DATA_START - 1)) \cup {t.entries[i].start : i \in 1..t.num_entries}
            /\ \A i, j \in 1..t.num_entries : i # j => t.entries[i].start # t.entries[j].start
        BY <2>7, <2>8 DEF Balanced, Reserved, Starts
      <3>2. {t.entries[i].start : i \in 1..t.num_entries} = {s[i].start : i \in 1..Len(s)}
        BY <2>4
      <3> QED
        BY <2>4, <3>1, <3>2
    <2>9. job = NoJob /\ sb.magic /\ "cut" \notin fault => sb.free_blocks + claimed(Table(ROOT)) = TOTAL - DATA_START
      BY <2>1, <2>7 DEF Balanced, RootTable
    <2>10. \A b \in DataBlocks : Table(b).num_entries = 0
      BY <2>0 DEF TreeInv
    <2> QED
      BY <2>0, <2>5, <2>7, <2>8, <2>9, <2>10 DEF BooksBalance
  <1> QED
    BY <1>1, ElixirInvariant, PTL

\* Steps that leave the blocks alone, or write only data blocks, leave the root directory.
LEMMA RootSame ==
  ASSUME ElixirInv, [Next]_vars, ~ format_table, ~ write_table,
         ~ \E p \in Paths, q \in Paths : elixir_rename_file(p, q)
  PROVE  RootTable' = RootTable
  <1>0. blocks' = blocks => RootTable' = RootTable
    BY DEF RootTable, Table
  <1>1. CASE UNCHANGED vars
    BY <1>1, StutterKeeps
  <1>2. CASE Next
    <2>1. CASE Formatting
      BY <1>0, <2>1 DEF Formatting, elixir_format, format_bitmap
    <2>2. CASE elixir_mount \/ elixir_unmount
      BY <1>0, <2>2 DEF elixir_mount, elixir_unmount, disk
    <2>3. CASE Creating
      <3>1. PICK p \in Paths, type \in {FILE, DIRECTORY}, size \in Nat :
              elixir_create_file(p, type, size) \/ create_data_cut(p, type, size)
        BY <2>3, CreatingCases
      <3> QED
        BY <3>1, CreateKeeps, CutKeeps
    <2>6. CASE Changing
      <3>1. ASSUME NEW p \in Paths, elixir_delete_file(p) PROVE RootTable' = RootTable
        BY <1>0, <3>1, DeleteStep
      <3> QED
        BY <2>6, <3>1, Zenon DEF Changing
    <2>4. CASE Writing
      BY <1>0, <2>4 DEF Writing, write_bitmap, write_superblock
    <2>5. CASE call_fails \/ crash
      BY <1>0, <2>5 DEF call_fails, crash, disk
    <2> QED
      BY <1>2, <2>1, <2>2, <2>3, <2>4, <2>5, <2>6 DEF Next
  <1> QED
    BY <1>1, <1>2

\* The table written is the root's with one entry more or less.
LEMMA WriteChangesOne ==
  ASSUME ElixirInv, write_table
  PROVE  \/ \E e \in Live(Table(ROOT)') : Root' = Append(Root, e)
         \/ \E i \in 1..Len(Root) : Root' = RemoveAt(Root, i) /\ Extent(Root[i]) \cap fs.bitmap = {}
  <1>0. TypesInv /\ TreeInv /\ JobInv /\ job.op = "table"
    BY DEF ElixirInv, write_table
  <1>1. PICK t, u, s, v : t = RootTable /\ u = job.table /\ s = Root /\ v = Root'
    OBVIOUS
  <1>2. /\ job.ft = ROOT /\ u \in TableType /\ Whole(u)
        /\ Added(t, u) \/ \E i \in 1..t.num_entries : Removed(t, u, i)
    BY <1>0, <1>1 DEF JobInv
  <1>3. t \in TableType
    BY <1>0, <1>1, TableAt DEF Blocks, RootTable
  <1>4. u = RootTable'
    <2>1. blocks' = [blocks EXCEPT ![ROOT] = u]
      BY <1>1, <1>2 DEF write_table
    <2> QED
      BY <1>0, <1>2, <2>1, RootWritten
  <1>5. /\ s \in Seq(EntryType) /\ Len(s) = t.num_entries /\ t.num_entries \in Nat
        /\ \A i \in 1..t.num_entries : s[i] = t.entries[i]
        /\ v \in Seq(EntryType) /\ Len(v) = u.num_entries /\ u.num_entries \in Nat
        /\ \A i \in 1..u.num_entries : v[i] = u.entries[i]
        /\ \A i \in 1..u.num_entries : v[i] \in Live(Table(ROOT)')
    <2>1. t = RootTable /\ s = Root /\ v = Root'
      BY <1>1
    <2>2. s = SubSeq(t.entries, 1, t.num_entries) /\ v = SubSeq(u.entries, 1, u.num_entries)
      BY <1>4, <2>1, Zenon DEF Root, RootTable
    <2>3. /\ s \in Seq(EntryType) /\ Len(s) = t.num_entries /\ t.num_entries \in Nat
          /\ \A i \in 1..t.num_entries : s[i] = t.entries[i]
      BY <1>3, <2>2, EntriesSeq, Zenon
    <2>4. /\ v \in Seq(EntryType) /\ Len(v) = u.num_entries /\ u.num_entries \in Nat
          /\ \A i \in 1..u.num_entries : v[i] = u.entries[i]
      BY <1>2, <2>2, EntriesSeq, Zenon
    <2>5. \A i \in 1..u.num_entries : v[i] \in Live(u)
      BY <2>4 DEF Live
    <2>6. Live(u) = Live(Table(ROOT)')
      BY <1>4 DEF RootTable
    <2> QED
      BY <2>3, <2>4, <2>5, <2>6, Zenon
  <1>6. CASE Added(t, u)
    <2>1. u.num_entries = t.num_entries + 1 /\ \A k \in 1..t.num_entries : u.entries[k] = t.entries[k]
      BY <1>6 DEF Added
    <2> DEFINE n == t.num_entries
               e == v[n + 1]
    <2>2. n + 1 \in 1..u.num_entries /\ \A k \in 1..n : k \in 1..u.num_entries
      BY <1>5, <2>1
    <2>3. e \in EntryType /\ e \in Live(Table(ROOT)')
      BY <1>5, <2>2
    <2>4. \A k \in 1..n : v[k] = s[k]
      BY <1>5, <2>1, <2>2
    <2>5. /\ Append(s, e) \in Seq(EntryType) /\ Len(Append(s, e)) = n + 1
          /\ \A k \in 1..n : Append(s, e)[k] = s[k]
          /\ Append(s, e)[n + 1] = e
      BY <1>5, <2>3, AppendProperties
    <2>6. Len(v) = n + 1
      BY <1>5, <2>1
    <2>7. \A k \in 1..(n + 1) : v[k] = Append(s, e)[k]
      <3>1. \A k \in 1..(n + 1) : k \in 1..n \/ k = n + 1
        BY <1>5
      <3> QED
        BY <2>4, <2>5, <3>1
    <2>8. v = Append(s, e)
      BY <1>5, <2>5, <2>6, <2>7, SeqEqual
    <2> HIDE DEF e
    <2> QED
      BY <1>1, <2>3, <2>8
  <1>7. ASSUME NEW i \in 1..t.num_entries, Removed(t, u, i)
        PROVE  \E j \in 1..Len(Root) : Root' = RemoveAt(Root, j) /\ Extent(Root[j]) \cap fs.bitmap = {}
    <2> DEFINE n == t.num_entries
    <2>1. /\ u.num_entries = n - 1 /\ Extent(t.entries[i]) \cap fs.bitmap = {}
          /\ \A k \in 1..u.num_entries : u.entries[k] = IF k < i THEN t.entries[k] ELSE t.entries[k + 1]
      BY <1>7 DEF Removed
    <2>2. i \in 1..Len(s) /\ s[i] = t.entries[i]
      BY <1>5
    <2>3. /\ RemoveAt(s, i) \in Seq(EntryType) /\ Len(RemoveAt(s, i)) = n - 1
          /\ \A k \in 1..(n - 1) : RemoveAt(s, i)[k] = IF k < i THEN s[k] ELSE s[k + 1]
      BY <1>5, <2>2, RemoveAtProps
    <2>4. Len(v) = n - 1
      BY <1>5, <2>1
    <2>5. \A k \in 1..(n - 1) : v[k] = RemoveAt(s, i)[k]
      <3> SUFFICES ASSUME NEW k \in 1..(n - 1) PROVE v[k] = RemoveAt(s, i)[k]
        OBVIOUS
      <3>1. k \in 1..u.num_entries /\ k \in 1..n /\ k + 1 \in 1..n
        BY <1>5, <2>1
      <3>2. v[k] = IF k < i THEN t.entries[k] ELSE t.entries[k + 1]
        BY <1>5, <2>1, <3>1
      <3>3. s[k] = t.entries[k] /\ s[k + 1] = t.entries[k + 1]
        BY <1>5, <3>1
      <3> QED
        BY <2>3, <3>2, <3>3
    <2>6. v = RemoveAt(s, i)
      BY <1>5, <2>3, <2>4, <2>5, SeqEqual
    <2> QED
      BY <1>1, <2>1, <2>2, <2>6
  <1> QED
    BY <1>2, <1>6, <1>7

\* A renamed entry is the same entry in the same place.
LEMMA RenameChangesOne ==
  ASSUME ElixirInv, NEW p \in Paths, NEW q \in Paths, elixir_rename_file(p, q)
  PROVE  \E i \in 1..Len(Root) :
           Len(Root') = Len(Root) /\ Root' = [Root EXCEPT ![i].name = Root'[i].name]
  <1>0. TypesInv /\ TreeInv
    BY DEF ElixirInv
  <1>1. PICK t, s, v : t = RootTable /\ s = Root /\ v = Root'
    OBVIOUS
  <1>a. PICK i \in 1..RootTable.num_entries, name \in Seq(STRING), u \in TableType :
          /\ blocks' = [blocks EXCEPT ![ROOT] = u]
          /\ u.num_entries = RootTable.num_entries
          /\ \A k \in 1..ELIXIR_MAX_FILES :
               u.entries[k] = IF k = i THEN [RootTable.entries[i] EXCEPT !.name = name]
                              ELSE RootTable.entries[k]
    BY RenameStep
  <1>2. /\ i \in 1..t.num_entries /\ name \in Seq(STRING) /\ u \in TableType
        /\ blocks' = [blocks EXCEPT ![ROOT] = u]
        /\ u.num_entries = t.num_entries
        /\ \A k \in 1..ELIXIR_MAX_FILES :
             u.entries[k] = IF k = i THEN [t.entries[i] EXCEPT !.name = name] ELSE t.entries[k]
    BY <1>1, <1>a
  <1>3. t \in TableType
    BY <1>0, <1>1, TableAt DEF Blocks, RootTable
  <1>4. u = RootTable'
    <2>1. blocks'[ROOT] = u
      BY <1>0, <1>2 DEF TypesInv, Blocks
    <2>2. u.kind = "table"
      BY <1>2 DEF TableType
    <2> QED
      BY <2>1, <2>2 DEF RootTable, Table
  <1>5. /\ s \in Seq(EntryType) /\ Len(s) = t.num_entries /\ t.num_entries \in Nat
        /\ \A k \in 1..t.num_entries : s[k] = t.entries[k]
        /\ v \in Seq(EntryType) /\ Len(v) = u.num_entries /\ u.num_entries \in Nat
        /\ \A k \in 1..u.num_entries : v[k] = u.entries[k]
    <2>1. t = RootTable /\ s = Root /\ v = Root' /\ u \in TableType
      BY <1>1, <1>2
    <2>2. s = SubSeq(t.entries, 1, t.num_entries) /\ v = SubSeq(u.entries, 1, u.num_entries)
      BY <1>4, <2>1, Zenon DEF Root, RootTable
    <2>3. /\ s \in Seq(EntryType) /\ Len(s) = t.num_entries /\ t.num_entries \in Nat
          /\ \A k \in 1..t.num_entries : s[k] = t.entries[k]
      BY <1>3, <2>2, EntriesSeq, Zenon
    <2>4. /\ v \in Seq(EntryType) /\ Len(v) = u.num_entries /\ u.num_entries \in Nat
          /\ \A k \in 1..u.num_entries : v[k] = u.entries[k]
      BY <2>1, <2>2, EntriesSeq, Zenon
    <2> QED
      BY <2>3, <2>4
  <1>6. \A k \in 1..t.num_entries : v[k] = IF k = i THEN [s[i] EXCEPT !.name = name] ELSE s[k]
    <2>1. \A k \in 1..t.num_entries : k \in 1..ELIXIR_MAX_FILES
      BY <1>3, TableParts
    <2> QED
      BY <1>2, <1>5, <2>1
  <1> DEFINE w == [s EXCEPT ![i] = v[i]]
  <1>7. v[i] = [s[i] EXCEPT !.name = v[i].name]
    <2>a. i \in 1..Len(s) /\ i \in 1..t.num_entries
      BY <1>2, <1>5
    <2>b. s[i] \in EntryType
      BY <1>5, <2>a
    <2>1. s[i] \in EntryType /\ v[i] = [s[i] EXCEPT !.name = name]
      BY <1>6, <2>a, <2>b, Zenon
    <2>2. v[i].name = name
      BY <2>1 DEF EntryType
    <2> QED
      BY <2>1, <2>2
  <1>8. v = w
    <2>1. v[i] \in EntryType /\ i \in 1..Len(s) /\ i \in 1..Len(v) /\ Len(v) = Len(s)
      BY <1>2, <1>5
    <2>2. w \in Seq(EntryType) /\ Len(w) = Len(s) /\ \A k \in 1..Len(s) : w[k] = IF k = i THEN v[i] ELSE s[k]
      BY <1>5, <2>1
    <2>3. \A k \in 1..Len(v) : v[k] = w[k]
      BY <1>2, <1>5, <1>6, <2>1, <2>2
    <2> HIDE DEF w
    <2> QED
      BY <1>5, <2>1, <2>2, <2>3, SeqEqual
  <1>9. v = [s EXCEPT ![i].name = v[i].name]
    BY <1>7, <1>8, Zenon
  <1>10. i \in 1..Len(s) /\ Len(v) = Len(s)
    BY <1>2, <1>5
  <1> QED
    BY <1>1, <1>9, <1>10

\* However calls are cut short, the root directory changes by one entry at a time, and an
\* entry that goes has given its blocks back.
THEOREM EntriesChangeOneByOne == Spec => OneEntryChanges
  <1> DEFINE A == Root' # Root =>
       \/ job.op = "format_table"
       \/ \E e \in Live(Table(ROOT)') : Root' = Append(Root, e)
       \/ \E i \in 1..Len(Root) :
            Root' = RemoveAt(Root, i) /\ Extent(Root[i]) \cap fs.bitmap = {}
       \/ \E i \in 1..Len(Root) : Len(Root') = Len(Root) /\ Root' = [Root EXCEPT ![i].name = Root'[i].name]
  <1>1. ASSUME ElixirInv, [Next]_vars PROVE A
    <2>1. CASE format_table
      BY <2>1 DEF format_table
    <2>2. CASE write_table
      BY <1>1, <2>2, WriteChangesOne, Zenon
    <2>3. ASSUME NEW p \in Paths, NEW q \in Paths, elixir_rename_file(p, q) PROVE A
      BY <1>1, <2>3, RenameChangesOne, Zenon
    <2>4. ASSUME RootTable' = RootTable PROVE A
      BY <2>4, Zenon DEF Root, RootTable
    <2> HIDE DEF A
    <2> QED
      BY <1>1, <2>1, <2>2, <2>3, <2>4, RootSame, Zenon
  <1> HIDE DEF A
  <1>2. ElixirInv /\ [Next]_vars => [A]_vars
    BY <1>1
  <1>3. Spec => [][A]_vars
    BY <1>2, ElixirInvariant, PTL DEF Spec
  <1> QED
    BY <1>3 DEF OneEntryChanges, A
==============================================================================
