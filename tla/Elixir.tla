-------------------------------- MODULE Elixir --------------------------------
(***************************************************************************)
(* The Elixir file system (kernel/src/kernel/fs/elixir.c): a superblock, a *)
(* bitmap of blocks, and tables of file entries, of which the first is the *)
(* root directory.  Every call works on copies in memory and writes them   *)
(* back block by block - data, table, bitmap, superblock.  Any write or    *)
(* allocation may fail, the data may be written only in part, and the      *)
(* machine may stop between any two blocks.  A block is written as a whole *)
(* or not at all.                                                          *)
(*                                                                         *)
(* A path is the sequence of its names, a name a sequence of characters:   *)
(* the kernel's strcpy copies no NUL, so what stood behind a name, on the  *)
(* stack or in a table slot used before, becomes part of it.               *)
(*                                                                         *)
(* ELIXIR_MAX_FILES is 1024 in the code, but a table is read and written   *)
(* as one block, which holds 14 entries; more overrun the buffer and are   *)
(* not modelled.  The contents of files, read as a table, are empty.       *)
(***************************************************************************)
EXTENDS Integers, SequencesExt

CONSTANTS
  TOTAL, DATA_START,       \* sb.total_blocks and sb.data_start_block
  ELIXIR_MAX_FILES, ELIXIR_MAX_FILENAME,
  Paths,                   \* what callers ask for
  Garbage,                 \* what may stand behind a path on the stack: the rest of its
                           \* last name, then further names
  Sizes,                   \* of files, in bytes
  ELIXIR_BLOCK_SIZE,
  CALL_LIMIT,              \* bound: calls that change something
  None

ASSUME ElixirAssumption ==
  /\ DATA_START \in Nat \ {0, 1} /\ TOTAL \in Nat /\ DATA_START < TOTAL
  /\ ELIXIR_MAX_FILES \in Nat /\ ELIXIR_MAX_FILENAME \in Nat
  /\ Paths \cup Garbage \subseteq Seq(Seq(STRING)) \ {<<>>}
  /\ Sizes \subseteq Nat /\ ELIXIR_BLOCK_SIZE \in Nat \ {0} /\ CALL_LIMIT \in Nat

FILE == "file"
DIRECTORY == "directory"

\* The blocks from the root directory's table on; the table stands for its first block.
ROOT == DATA_START - 1
DataBlocks == DATA_START..(TOTAL - 1)
Blocks == {ROOT} \cup DataBlocks

VARIABLES
  sb,          \* disk: the superblock, as [magic, free_blocks]
  bitmap,      \* disk: the blocks marked in the bitmap
  blocks,      \* disk: the root table and the data blocks
  fs,          \* memory: the mounted file system, as [free_blocks, bitmap], or None
  job,         \* the call in progress and what it has still to write
  calls,       \* history: how many calls changed something; also what files are written with
  exposed,     \* history: blocks of files that were free in the bitmap at some time since,
               \* or that a longer file was written over without a look at the bitmap
  fault        \* history: "cut", a call failed or was stopped half-way; "large", a file
               \* took more than one block

disk == <<sb, bitmap, blocks>>
history == <<calls, exposed, fault>>
vars == <<disk, fs, job, history>>

NoEntry == [name |-> <<>>, type |-> FILE, start |-> 0, size |-> 0, bytes |-> 0,
            holds |-> 0]
EmptyTable ==
  [kind |-> "table", num_entries |-> 0, entries |-> [i \in 1..ELIXIR_MAX_FILES |-> NoEntry]]
Data(c, i) == [kind |-> "data", of |-> c, nth |-> i]
NoJob == [op |-> "none"]

\* A block as elixir.c reads it when it takes it for a table: no magic is compared.
Table(b) == IF blocks[b].kind = "table" THEN blocks[b] ELSE EmptyTable

Live(t) == {t.entries[i] : i \in 1..t.num_entries}
Extent(e) == e.start..(e.start + e.size - 1)

\* A drive never written to, all zero.
Init ==
  /\ sb = [magic |-> FALSE, free_blocks |-> 0]
  /\ bitmap = {}
  /\ blocks = [b \in Blocks |-> Data(0, 0)]
  /\ fs = None /\ job = NoJob
  /\ calls = 0 /\ exposed = {} /\ fault = {}

------------------------------------------------------------------------------
(* Names and paths.                                                        *)

\* strcpy without its NUL: the tail of the old contents stays.
strcpy(old, src) == src \o SubSeq(old, Len(src) + 1, Len(old))

\* A copy of path p on a stack that holds g behind it.
path_copy(p, g) == Front(p) \o <<Last(p) \o Head(g)>> \o Tail(g)

\* The first entry of a table with a name, 0 for none.
index(t, name) ==
  LET I == {i \in 1..t.num_entries : t.entries[i].name = name}
  IN  IF I = {} THEN 0 ELSE Min(I)

\* One component of a path that is not its last: the block of the directory, None when
\* there is none.
descend(b, name) ==
  LET i == IF b = None THEN 0 ELSE index(Table(b), name)
  IN  IF i = 0 THEN None
      ELSE IF Table(b).entries[i].type = DIRECTORY THEN Table(b).entries[i].start
      ELSE None

\* The directory the first n components lead to; the walk passes over empty ones.
directory(q, n) ==
  LET walk[k \in 0..n] == IF k = 0 THEN ROOT
                          ELSE IF q[k] = <<>> THEN walk[k - 1]
                          ELSE descend(walk[k - 1], q[k])
  IN  walk[n]

\* elixir_get_file_entry_from_path on a copy q of the path: the table that holds the
\* entry, which the callers get as parent_ft, and its place there.
elixir_get_file_entry_from_path(q) ==
  LET tokens == {k \in 1..Len(q) : q[k] # <<>>}
      b == IF tokens = {} THEN None ELSE directory(q, Max(tokens) - 1)
      i == IF b = None THEN 0 ELSE index(Table(b), q[Max(tokens)])
  IN  [ft |-> b, i |-> i, found |-> i # 0,
       entry |-> IF i = 0 THEN NoEntry ELSE Table(b).entries[i]]

------------------------------------------------------------------------------
(* Formatting and mounting.                                                *)

\* Three writes, the superblock first.
elixir_format ==
  /\ fs = None /\ job = NoJob
  /\ sb' = [magic |-> TRUE, free_blocks |-> TOTAL - DATA_START]
  /\ job' = [op |-> "format_bitmap"]
  /\ UNCHANGED <<bitmap, blocks, fs, calls, fault>>

format_bitmap ==
  /\ job.op = "format_bitmap"
  /\ bitmap' = 0..(DATA_START - 1)
  /\ job' = [op |-> "format_table"]
  /\ UNCHANGED <<sb, blocks, fs, calls, fault>>

format_table ==
  /\ job.op = "format_table"
  /\ blocks' = [blocks EXCEPT ![ROOT] = EmptyTable]
  /\ job' = NoJob /\ fault' = {}
  /\ UNCHANGED <<sb, bitmap, fs, calls>>

elixir_mount ==
  /\ fs = None /\ job = NoJob
  /\ sb.magic
  /\ fs' = [free_blocks |-> sb.free_blocks, bitmap |-> bitmap]
  /\ UNCHANGED <<disk, job, calls, fault>>

\* Nothing is written back: memory that is ahead of the disk is dropped.
elixir_unmount ==
  /\ fs # None /\ job = NoJob
  /\ fs' = None
  /\ UNCHANGED <<disk, job, calls, fault>>

------------------------------------------------------------------------------
(* Changing the file system.                                               *)

find_free_block_unchecked == DataBlocks
\* The blocks find_free_block looks for the first of.
find_free_block == {b \in DataBlocks : b \notin fs.bitmap}

\* The blocks of a file of so many bytes: rounded up, and one at least.
num_blocks(type, size) ==
  IF type = DIRECTORY \/ size = 0 THEN 1
  ELSE (size + ELIXIR_BLOCK_SIZE - 1) \div ELIXIR_BLOCK_SIZE

\* The table of the directory that a path's last name is put into.  For a parent that is
\* not the root, the code takes the table that holds the parent's entry.
parent_ft(parent, g) ==
  LET p == elixir_get_file_entry_from_path(path_copy(parent, g))
  IN  CASE parent = <<>> -> ROOT
        [] parent # <<>> /\ p.found /\ p.entry.type = DIRECTORY -> p.ft
        [] OTHER -> None

with_entry(t, e) ==
  LET n == t.num_entries + 1
  IN  [t EXCEPT !.num_entries = n,
                !.entries[n] = [e EXCEPT !.name = strcpy(t.entries[n].name, e.name)]]

\* The conditions of elixir_create_file for the copy q of its path; the calls that return
\* before anything is written change nothing.
may_create(q, ft) ==
  /\ fs # None /\ job = NoJob
  /\ Len(Last(q)) < ELIXIR_MAX_FILENAME
  /\ ft # None
  /\ index(Table(ft), Last(q)) = 0
  /\ Table(ft).num_entries < ELIXIR_MAX_FILES
  /\ find_free_block # {}

new_entry(q, type, size) ==
  [name |-> Last(q), type |-> type, start |-> Min(find_free_block),
   size |-> num_blocks(type, size), bytes |-> IF type = FILE THEN size ELSE 0,
   holds |-> calls + 1]

\* The first k blocks of a new file, or the empty table of a new directory, on the drive.
written(e, k) ==
  [b \in Blocks |->
     IF b \notin Extent(e) \/ b >= e.start + k THEN blocks[b]
     ELSE IF e.type = FILE THEN Data(e.holds, b - e.start) ELSE EmptyTable]

\* The blocks of files that are free in the bitmap new blocks are taken by, or are among
\* those written over.
Observe(over) ==
  exposed' =
    LET used == UNION {Extent(e) : e \in Live(Table(ROOT)')}
    IN  ((exposed \cup over) \cap used) \cup (IF fs' = None THEN {} ELSE used \ fs'.bitmap)

\* Only a file's first block was looked up in the bitmap.
not_looked_at(e) == Extent(e) \ {e.start}

\* elixir_create_file and elixir_mkdir, up to the data or the new directory's table being
\* written and the copies in memory changed.  A write that runs past the end of the drive
\* is refused by it.
elixir_create_file(p, type, size) ==
  \E g \in Garbage, h \in Garbage :
    LET q == path_copy(p, g)
        ft == parent_ft(Front(q), h)
        e == new_entry(q, type, size)
    IN  /\ may_create(q, ft)
        /\ e.start + e.size <= TOTAL
        /\ blocks' = written(e, e.size)
        /\ fs' = [free_blocks |-> fs.free_blocks - e.size,
                  bitmap |-> fs.bitmap \cup {e.start}]    \* of a long file, only the first
        /\ job' = [op |-> "table", ft |-> ft, table |-> with_entry(Table(ft), e)]
        /\ fault' = IF e.size > 1 THEN fault \cup {"large"} ELSE fault
        /\ calls' = calls + 1
        /\ Observe(not_looked_at(e))
        /\ UNCHANGED <<sb, bitmap>>

\* The same call, when the data is written only in part or is reported as not written - it
\* returns an error, nothing of it in the books - or when the machine stops meanwhile.
create_data_cut(p, type, size) ==
  \E g \in Garbage, h \in Garbage :
    LET q == path_copy(p, g)
        ft == parent_ft(Front(q), h)
        e == new_entry(q, type, size)
    IN  /\ may_create(q, ft)
        /\ e.start + e.size <= TOTAL
        /\ \E k \in 1..e.size : blocks' = written(e, k)
        /\ fs' \in {fs, None}
        /\ calls' = calls + 1
        /\ Observe(not_looked_at(e))
        /\ UNCHANGED <<sb, bitmap, job, fault>>

without_entry_early(t, i) ==
  [t EXCEPT !.num_entries = @ - 1,
            !.entries = [k \in DOMAIN @ |->
                           IF k \in (i - 1)..(t.num_entries - 1) THEN @[k + 1] ELSE @[k]]]

\* The entries behind i move down by one; the last stays where it was, behind the end.
without_entry(t, i) ==
  [t EXCEPT !.num_entries = @ - 1,
            !.entries = [k \in DOMAIN @ |->
                           IF k \in i..(t.num_entries - 1) THEN @[k + 1] ELSE @[k]]]

\* elixir_delete_file and elixir_rmdir: a directory must be empty.
elixir_delete_file(p) ==
  \E g \in Garbage :
    LET r == elixir_get_file_entry_from_path(path_copy(p, g))
    IN  /\ fs # None /\ job = NoJob
        /\ r.found
        /\ r.entry.type = DIRECTORY => Table(r.entry.start).num_entries = 0
        /\ fs' = [free_blocks |-> fs.free_blocks + r.entry.size,
                  bitmap |-> fs.bitmap \ Extent(r.entry)]
        /\ job' = [op |-> "table", ft |-> r.ft, table |-> without_entry(Table(r.ft), r.i)]
        /\ calls' = calls + 1
        /\ UNCHANGED <<disk, fault>>

\* What a create or a delete still has to write, in this order; then it returns 0.
write_table ==
  /\ job.op = "table"
  /\ blocks' = [blocks EXCEPT ![job.ft] = job.table]
  /\ job' = [op |-> "bitmap"]
  /\ UNCHANGED <<sb, bitmap, fs, calls, fault>>

write_bitmap ==
  /\ job.op = "bitmap"
  /\ bitmap' = fs.bitmap
  /\ job' = [op |-> "superblock"]
  /\ UNCHANGED <<sb, blocks, fs, calls, fault>>

write_superblock_as_it_was ==
  /\ job.op = "superblock"
  /\ sb' = sb
  /\ job' = NoJob
  /\ UNCHANGED <<bitmap, blocks, fs, calls, fault>>

write_superblock ==
  /\ job.op = "superblock"
  /\ sb' = [sb EXCEPT !.free_blocks = fs.free_blocks]
  /\ job' = NoJob
  /\ UNCHANGED <<bitmap, blocks, fs, calls, fault>>

\* elixir_rename_file: within one directory, a single write.  The entry is looked up by
\* one copy of the old path and found again in the table by the name in another.
elixir_rename_file(old_path, new_path) ==
  \E g \in Garbage, h \in Garbage, k \in Garbage :
    LET old == path_copy(old_path, g)
        new == path_copy(new_path, h)
        r == elixir_get_file_entry_from_path(path_copy(old_path, k))
        i == index(Table(r.ft), Last(old))
    IN  /\ fs # None /\ job = NoJob
        /\ Len(Last(new)) < ELIXIR_MAX_FILENAME
        /\ Front(old) = Front(new)
        /\ r.found
        /\ index(Table(r.ft), Last(new)) = 0
        /\ i # 0
        /\ blocks' = [blocks EXCEPT ![r.ft].entries[i].name = strcpy(@, Last(new))]
        /\ calls' = calls + 1
        /\ UNCHANGED <<sb, bitmap, fs, job, fault>>

------------------------------------------------------------------------------
(* Reading.                                                                *)

\* What elixir_read_file returns for a copy q of the path: the blocks of the file, cut to
\* its bytes, in a buffer - and there is none of no bytes.
elixir_read_file(q) ==
  LET r == elixir_get_file_entry_from_path(q)
  IN  IF r.found /\ r.entry.type = FILE /\ r.entry.bytes # 0
        THEN [b \in Extent(r.entry) |-> blocks[b]] ELSE None

\* What elixir_list_directory returns: the entries of the table that holds the directory.
elixir_list_directory(q) ==
  LET r == elixir_get_file_entry_from_path(q)
  IN  IF r.found /\ r.entry.type = DIRECTORY
        THEN SubSeq(Table(r.ft).entries, 1, Table(r.ft).num_entries) ELSE None

------------------------------------------------------------------------------
(* Faults.                                                                 *)

\* A write fails, or there is no memory for its buffer: the call returns an error.
call_fails ==
  /\ job # NoJob
  /\ job' = NoJob /\ fault' = fault \cup {"cut"}
  /\ UNCHANGED <<disk, fs, calls>>

crash ==
  /\ fs # None \/ job # NoJob
  /\ fs' = None /\ job' = NoJob
  /\ fault' = IF job = NoJob THEN fault ELSE fault \cup {"cut"}
  /\ UNCHANGED <<disk, calls>>

Formatting == elixir_format \/ format_bitmap \/ format_table

Creating ==
  /\ calls < CALL_LIMIT
  /\ \E p \in Paths :
       \/ \E s \in Sizes : elixir_create_file(p, FILE, s) \/ create_data_cut(p, FILE, s)
       \/ elixir_create_file(p, DIRECTORY, 0) \/ create_data_cut(p, DIRECTORY, 0)

Changing ==
  /\ calls < CALL_LIMIT
  /\ \E p \in Paths :
       \/ elixir_delete_file(p)
       \/ \E q \in Paths : elixir_rename_file(p, q)

Writing == write_table \/ write_bitmap \/ write_superblock

Next ==
  \/ Creating
  \/ /\ \/ Formatting \/ elixir_mount \/ elixir_unmount
        \/ Changing \/ Writing
        \/ call_fails \/ crash
     /\ Observe({})

Spec == Init /\ [][Next]_vars

------------------------------------------------------------------------------
(* Properties.                                                             *)

Root == SubSeq(Table(ROOT).entries, 1, Table(ROOT).num_entries)

\* The blocks all entries of a table claim.
claimed(t) ==
  LET sum[i \in 0..t.num_entries] == IF i = 0 THEN 0 ELSE sum[i - 1] + t.entries[i].size
  IN  sum[t.num_entries]

TypeOK ==
  /\ sb \in [magic : BOOLEAN, free_blocks : Int]
  /\ bitmap \subseteq 0..(TOTAL - 1)
  /\ DOMAIN blocks = Blocks
  /\ fs # None => fs.free_blocks \in Int /\ fs.bitmap \subseteq 0..(TOTAL - 1)
  /\ job.op \in {"none", "format_bitmap", "format_table", "table", "bitmap", "superblock"}
  /\ exposed \subseteq DataBlocks /\ fault \subseteq {"cut", "large"}

\* elixir_read_file returns, block by block, what elixir_create_file was given, whatever was
\* created, deleted, renamed, cut short or written in part in between: only a block that was
\* free in the bitmap for a while, or that a longer file ran over, may hold something else.
FilesHoldData ==
  \A i \in 1..Len(Root) :
    LET e == elixir_get_file_entry_from_path(<<Root[i].name>>).entry
        d == elixir_read_file(<<Root[i].name>>)
    IN  d # None => \A b \in Extent(e) \ exposed : d[b] = Data(e.holds, b - e.start)

\* Between calls, if none failed or was stopped between its writes since formatting: memory
\* is what the next mount reads, the free blocks and the files' blocks are all there are,
\* and, as long as every file fits one block, the bitmap marks the files' blocks and no
\* others, no two files share one.  Only the root directory has entries.
BooksBalance ==
  /\ TypeOK
  /\ job = NoJob /\ sb.magic /\ "cut" \notin fault =>
    /\ fs # None => fs = [free_blocks |-> sb.free_blocks, bitmap |-> bitmap]
    /\ sb.free_blocks + claimed(Table(ROOT)) = TOTAL - DATA_START
    /\ \A b \in DataBlocks : Table(b).num_entries = 0
    /\ "large" \notin fault =>
         /\ bitmap = (0..(DATA_START - 1)) \cup {Root[i].start : i \in 1..Len(Root)}
         /\ \A i, j \in 1..Len(Root) : i # j => Root[i].start # Root[j].start

\* A step changes the root directory by one entry - added behind the others, taken out with
\* its blocks given back, or given another name - and keeps the others in order; only
\* formatting empties it at once.
OneEntryChanges ==
  [][Root' # Root =>
       \/ job.op = "format_table"
       \/ \E e \in Live(Table(ROOT)') : Root' = Append(Root, e)
       \/ \E i \in 1..Len(Root) :
            Root' = RemoveAt(Root, i) /\ Extent(Root[i]) \cap fs.bitmap = {}
       \/ \E i \in 1..Len(Root) : Len(Root') = Len(Root) /\ Root' = [Root EXCEPT ![i].name = Root'[i].name]]_vars
==============================================================================
