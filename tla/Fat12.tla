-------------------------------- MODULE Fat12 --------------------------------
(***************************************************************************)
(* The FAT12 driver (kernel/src/kernel/fs/fat12): format_fat12, and        *)
(* fat12_write_file with the order in which it changes the disk - both     *)
(* file allocation tables sector by sector, the directory entry, the       *)
(* clusters, the tables again - and what fat12_read_file then finds.       *)
(* Power may go between any two sector writes; the driver's variables are  *)
(* lost then and the disk stays as it is.                                  *)
(*                                                                         *)
(* The sizes are parameters (a sector of 512 bytes, 32-byte entries in the *)
(* kernel); a cluster is one sector, as format_fat12 chooses for drives of *)
(* at most 4084.  No FAT entry straddles two sectors.  Writes within the   *)
(* drive succeed, a write past its end is refused by the drive.            *)
(***************************************************************************)
EXTENDS Integers, FiniteSets, Sequences

CONSTANTS
  bytes_per_sector, total_sectors,
  root_entry_count, ENTRY_SIZE,      \* the root directory
  CLUSTER_CAP,                       \* 4085: what alloc cuts max_clusters down to
  Names, Contents,                   \* file names, and what files are written with
  Sizes,                             \* file sizes, in bytes; sys_write_file refuses 0
  CLUSTER_COUNTS,                    \* 2^16: clusters_needed is a uint16_t
  None

reserved_sector_count == 1
num_fats == 2

ceil(a, b) == (a + b - 1) \div b

------------------------------------------------------------------------------
(* The geometry format_fat12 writes into the boot sector.                  *)

root_dir_sectors == ceil(root_entry_count * ENTRY_SIZE, bytes_per_sector)

\* 256 two-byte entries to a sector, though FAT12 packs more.
fat_size_16 ==
  LET n == ceil(total_sectors - (reserved_sector_count + root_dir_sectors),
                bytes_per_sector \div 2 + num_fats)
  IN  IF n < 1 THEN 1 ELSE n

data_sectors ==
  total_sectors - (reserved_sector_count + num_fats * fat_size_16 + root_dir_sectors)

\* The clusters there are sectors for.
OnDrive == 2..(data_sectors + 1)

\* fat12_alloc_clusters: how many entries it takes the table to have.
max_clusters ==
  LET n == (fat_size_16 * bytes_per_sector * 2) \div 3
  IN  IF n > CLUSTER_CAP THEN CLUSTER_CAP ELSE n

Entries == 0..(max_clusters - 1)
Clusters == 2..(max_clusters - 1)
EOC == 4095

\* The FAT sector that holds entry e (fat12_read_entry's offset).
SectorOf(e) == (e + e \div 2) \div bytes_per_sector

\* The clusters a file of so many bytes goes over: the rounds in which `remaining' and
\* `file_size - bytes_read' count down.  The directory entry's size is kept as this.
clusters_spanned(size) == ceil(size, bytes_per_sector)
Spans == {clusters_spanned(z) : z \in Sizes}

\* No size is one that uint16_t cuts down to fewer clusters than the loops go over.
ASSUME Fat12Assumption ==
  /\ {bytes_per_sector, total_sectors, root_entry_count, ENTRY_SIZE, CLUSTER_CAP,
      CLUSTER_COUNTS} \subseteq Nat \ {0}
  /\ Sizes \subseteq Nat \ {0}
  /\ \A z \in Sizes : clusters_spanned(z) < CLUSTER_COUNTS
  /\ data_sectors > 0 /\ max_clusters \in 3..EOC
  /\ None \notin Names

VARIABLES
  boot,        \* disk: the boot sector is valid
  fats,        \* disk: the two tables
  root,        \* disk: the root directory
  data,        \* disk: the clusters
  pc, job,     \* how far the operation in progress is, and its variables
  done,        \* history: what fat12_write_file returned 0 for, per new name
  lost,        \* history: clusters were given up by a crash or a full directory
  torn         \* history: the crash came since the tables were last written in full

disk == <<boot, fats, root, data>>
history == <<done, lost, torn>>
vars == <<disk, pc, job, history>>

Slots == 0..(root_entry_count - 1)
Zero == [e \in Entries |-> 0]
FreeSlot == [name |-> None, first |-> 0, size |-> 0]
ZeroCluster == <<None, 0>>
NoJob == [name |-> None, content |-> None, size |-> 0, first |-> 0, fat |-> Zero,
          cluster |-> 0, k |-> 0, i |-> 0, fresh |-> FALSE, refused |-> FALSE]

Init ==
  /\ boot = FALSE
  /\ fats = [f \in 1..num_fats |-> Zero]
  /\ root = [s \in Slots |-> FreeSlot]
  /\ data = [c \in OnDrive |-> ZeroCluster]
  /\ pc = "idle" /\ job = NoJob
  /\ done = [n \in Names |-> None]
  /\ lost = FALSE /\ torn = FALSE

------------------------------------------------------------------------------
(* format_fat12.                                                           *)

\* The whole drive is zeroed, the boot sector first: until it is written again nothing
\* on the drive can be read.
format_zero ==
  /\ pc = "idle"
  /\ boot' = FALSE
  /\ fats' = [f \in 1..num_fats |-> Zero]
  /\ root' = [s \in Slots |-> FreeSlot]
  /\ data' = [c \in OnDrive |-> ZeroCluster]
  /\ done' = [n \in Names |-> None]
  /\ lost' = FALSE /\ torn' = FALSE
  /\ pc' = "format_boot"
  /\ UNCHANGED job

format_boot ==
  /\ pc = "format_boot"
  /\ boot' = TRUE
  /\ pc' = "fat_init"
  /\ UNCHANGED <<fats, root, data, job, history>>

\* The media bytes go to the first sector of the first table only: the buffer is zeroed
\* before the second.  All else that fat_init and format_fat12 still write is zero.
fat_init ==
  /\ pc = "fat_init"
  /\ fats' = [fats EXCEPT ![1][0] = EOC, ![1][1] = EOC]
  /\ pc' = "idle"
  /\ UNCHANGED <<boot, root, data, job, history>>

------------------------------------------------------------------------------
(* fat12_write_file.                                                       *)

FreeClusters_unchecked(fat) == Clusters
\* The clusters fat12_alloc_clusters takes for free.
FreeClusters(fat) == {c \in Clusters : fat[c] = 0}

\* The n lowest of them.
Lowest(S, n) == {c \in S : Cardinality({d \in S : d < c}) < n}

Chained_without_end(fat, S) ==
  [e \in Entries |->
     IF e \in S /\ \E d \in S : d > e
       THEN CHOOSE d \in S : d > e /\ \A x \in S : x > e => d <= x
     ELSE fat[e]]

\* The table with S linked into a chain in ascending order.
Chained(fat, S) ==
  [e \in Entries |->
     IF e \notin S THEN fat[e]
     ELSE IF \A d \in S : d <= e THEN EOC
     ELSE CHOOSE d \in S : d > e /\ \A x \in S : x > e => d <= x]

clusters_needed_one_more(size) == size \div bytes_per_sector + 1
clusters_needed(size) ==
  LET n == ((size + bytes_per_sector - 1) \div bytes_per_sector) % CLUSTER_COUNTS
  IN  IF n = 0 THEN 1 ELSE n

\* Up to the first write: the table is read from the first copy and the chain is made in
\* memory.  With no valid boot sector (-1) or too few free clusters (-2) nothing happens.
fat12_alloc_clusters(name, content, size) ==
  LET free == FreeClusters(fats[1])
      S    == Lowest(free, clusters_needed(size))
  IN  /\ pc = "idle"
      /\ boot
      /\ Cardinality(free) >= clusters_needed(size)
      /\ job' = [NoJob EXCEPT !.name = name, !.content = content,
                              !.size = clusters_spanned(size),
                              !.first = CHOOSE c \in S : \A d \in S : c <= d,
                              !.fat = Chained(fats[1], S)]
      /\ pc' = "alloc"
      /\ UNCHANGED <<disk, history>>

\* Table sectors are written table by table: sector i % fat_size_16 of copy(i).
copy(i) == i \div fat_size_16 + 1

fat_writes == num_fats * fat_size_16

write_fat_sector ==
  fats' = [fats EXCEPT ![copy(job.i)] =
            [e \in Entries |-> IF SectorOf(e) = job.i % fat_size_16 THEN job.fat[e] ELSE @[e]]]

free_slots == {s \in Slots : root[s] = FreeSlot}

\* fat12_write_fat; after its last sector the directory is searched, and without a free
\* entry fat12_write_file gives up (-3).
fat12_write_fat ==
  /\ pc = "alloc"
  /\ write_fat_sector
  /\ IF job.i + 1 < fat_writes
       THEN /\ job' = [job EXCEPT !.i = @ + 1]
            /\ UNCHANGED <<pc, lost, torn>>
     ELSE IF free_slots # {}
       THEN /\ pc' = "dir" /\ torn' = FALSE
            /\ UNCHANGED <<job, lost>>
     ELSE /\ pc' = "idle" /\ job' = NoJob
          /\ lost' = TRUE /\ torn' = FALSE
  /\ UNCHANGED <<boot, root, data, done>>

\* The entry goes into the first free slot; then fat12_write_clusters reads the table.
fat12_write_dir_entry ==
  /\ pc = "dir"
  /\ \E s \in free_slots :
       /\ \A t \in free_slots : s <= t
       /\ root' = [root EXCEPT ![s] = [name |-> job.name, first |-> job.first, size |-> job.size]]
  /\ job' = [job EXCEPT !.fat = fats[1], !.cluster = job.first, !.k = 1, !.i = 0,
                        !.fresh = \A s \in Slots : root[s].name # job.name]
  /\ pc' = "clusters"
  /\ UNCHANGED <<boot, fats, data, history>>

\* One cluster of the file.  It ends the loop when the drive refuses the write, when the
\* file ends (its cluster is marked the last one) or when the chain does.
fat12_write_clusters ==
  /\ pc = "clusters"
  /\ LET c    == job.cluster
         next == job.fat[c]
     IN  \/ /\ c \notin OnDrive
            /\ pc' = "fat" /\ job' = [job EXCEPT !.refused = TRUE]
            /\ UNCHANGED data
         \/ /\ c \in OnDrive
            /\ data' = [data EXCEPT ![c] = <<job.content, job.k>>]
            /\ IF job.k < job.size
                 THEN IF next \in Clusters
                        THEN job' = [job EXCEPT !.cluster = next, !.k = @ + 1] /\ pc' = pc
                        ELSE pc' = "fat" /\ UNCHANGED job
                 ELSE job' = [job EXCEPT !.fat[c] = EOC] /\ pc' = "fat"
  /\ UNCHANGED <<boot, fats, root, history>>

\* The tables are written again, then fat12_write_file returns 0.
fat12_write_clusters_fat ==
  /\ pc = "fat"
  /\ write_fat_sector
  /\ IF job.i + 1 < fat_writes
       THEN /\ job' = [job EXCEPT !.i = @ + 1]
            /\ UNCHANGED <<pc, done, torn>>
       ELSE /\ pc' = "idle" /\ job' = NoJob /\ torn' = FALSE
            /\ done' = IF job.fresh /\ ~job.refused
                 THEN [done EXCEPT ![job.name] = [k \in 1..job.size |-> <<job.content, k>>]]
                 ELSE done
  /\ UNCHANGED <<boot, root, data, lost>>

------------------------------------------------------------------------------
(* fat12_read_file.                                                        *)

\* The slot it finds: the first with the name, before the first free one.
found(name) ==
  {s \in Slots : root[s].name = name /\ \A t \in 0..(s - 1) : root[t].name \notin {name, None}}

\* The first n clusters of the chain from c; past its end, 0.
Chain(fat, c, n) ==
  LET walk[k \in 1..n] == IF k = 1 THEN c
                          ELSE IF walk[k - 1] \in Clusters THEN fat[walk[k - 1]] ELSE 0
  IN  walk

\* What it returns for the entry in slot s; a cluster that cannot be read fails it all,
\* a chain that ends early cuts it short.
file_data(s) ==
  LET walk == Chain(fats[1], root[s].first, root[s].size)
      n    == Cardinality({k \in DOMAIN walk : \A j \in 1..k : walk[j] \in Clusters})
  IN  IF \A k \in 1..n : walk[k] \in OnDrive THEN [k \in 1..n |-> data[walk[k]]] ELSE <<>>

fat12_read_file(name) ==
  IF boot /\ found(name) # {} THEN file_data(CHOOSE s \in found(name) : TRUE) ELSE <<>>

------------------------------------------------------------------------------

\* The power goes in the middle of an operation.
crash ==
  /\ pc # "idle"
  /\ pc' = "idle" /\ job' = NoJob
  /\ lost' = TRUE /\ torn' = TRUE
  /\ UNCHANGED <<disk, done>>

Next ==
  \/ format_zero \/ format_boot \/ fat_init
  \/ \E n \in Names, v \in Contents, z \in Sizes : fat12_alloc_clusters(n, v, z)
  \/ fat12_write_fat \/ fat12_write_dir_entry
  \/ fat12_write_clusters \/ fat12_write_clusters_fat
  \/ crash

Spec == Init /\ [][Next]_vars

------------------------------------------------------------------------------
(* Properties.                                                             *)

TypeOK ==
  /\ boot \in BOOLEAN
  /\ fats \in [1..num_fats -> [Entries -> 0..EOC]]
  /\ root \in [Slots -> [name : Names \cup {None}, first : Entries, size : {0} \cup Spans]]
  /\ DOMAIN data = OnDrive
  /\ pc \in {"idle", "format_boot", "fat_init", "alloc", "dir", "clusters", "fat"}
  /\ job.i \in 0..(num_fats * fat_size_16 - 1)
  /\ DOMAIN done = Names
  /\ {lost, torn} \subseteq BOOLEAN

\* The clusters of the file in slot s.
FileClusters(s) ==
  LET walk == Chain(fats[1], root[s].first, root[s].size)
  IN  {walk[k] : k \in DOMAIN walk}

UsedSlots == {s \in Slots : root[s] # FreeSlot}

\* What fat12_write_file has returned 0 for under a new name, the drive having taken all
\* of it, is read back by fat12_read_file from then on: through later writes, also failing ones, and through a
\* loss of power between any two sectors of them.
WrittenReadsBack ==
  \A n \in Names : done[n] # None => fat12_read_file(n) = done[n]

\* Every directory entry, however far its write got before the power went, starts a
\* chain of its file's length that ends in an end mark, and no two files share a cluster.
\* Between operations the two tables agree on every cluster, and a completed write makes
\* them agree again after a crash has torn them.
ChainsSound ==
  /\ TypeOK
  /\ \A s \in UsedSlots :
       LET walk == Chain(fats[1], root[s].first, root[s].size)
       IN  /\ \A k \in DOMAIN walk : walk[k] \in Clusters
           /\ fats[1][walk[root[s].size]] = EOC
  /\ \A s, t \in UsedSlots : s # t => FileClusters(s) \cap FileClusters(t) = {}
  /\ pc = "idle" /\ ~torn => \A c \in Clusters : fats[1][c] = fats[2][c]

\* As long as no crash and no full directory intervened, the clusters marked used are
\* exactly those of the files.
NoClusterLost ==
  pc = "idle" /\ ~lost =>
    {c \in Clusters : fats[1][c] # 0} = UNION {FileClusters(s) : s \in UsedSlots}
==============================================================================
