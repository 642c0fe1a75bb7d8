------------------------------- MODULE Syscalls -------------------------------
(***************************************************************************)
(* The system calls of BEXE programs (kernel/src/kernel/syscall_handler.c) *)
(* over the heap and the FAT12 file system: the table of open files, the   *)
(* buffers calls allocate, and who has to free them.                       *)
(*                                                                         *)
(* Programs run one after the other and are well behaved: they use only    *)
(* pointers that calls have given them, and free each once.  They may pass *)
(* any number for a file handle, also one an earlier program opened, and   *)
(* they may end without closing or freeing.                                *)
(*                                                                         *)
(* The heap is blocks that lie one behind the other; kmalloc gives any     *)
(* free one or fails (the Heap module has which).  The file system reads   *)
(* back what was written under a name first (the Fat12 module), or fails.  *)
(***************************************************************************)
EXTENDS Integers, FiniteSets, FiniteSetsExt

CONSTANTS
  MAX_OPEN_FILES,
  N_BLOCKS,        \* bound: blocks of the heap
  Names,           \* file names
  Data, Large,     \* contents, and those of more than 64 KB
  None

ASSUME SyscallsAssumption ==
  /\ MAX_OPEN_FILES \in Nat \ {0} /\ N_BLOCKS \in Nat \ {0}
  /\ Large \subseteq Data
  /\ None \notin Data \cup {"zero", "junk"}

VARIABLES
  open_files,      \* handle -> [in_use, filename, buffer, size, position]
  files,           \* the file system: name -> contents, or None
  content,         \* block -> what its memory holds
  live,            \* the blocks that are allocated
  known,           \* pointers the running program has been given
  forgotten,       \* blocks of which no one has the pointer any more
  opened,          \* history: handle -> the contents of the file when it was opened
  overrun          \* history: a call has written behind a block

heapVars == <<content, live>>
vars == <<open_files, files, heapVars, known, forgotten, opened, overrun>>

Blocks == 1..N_BLOCKS
Handles == 0..(MAX_OPEN_FILES - 1)
Zero == "zero"
Junk == "junk"
Contents == Data \cup {Zero, Junk}
NULL == 0

Closed == [in_use |-> FALSE, filename |-> None, buffer |-> NULL, size |-> None, position |-> 0]

Init ==
  /\ open_files = [h \in Handles |-> Closed]
  /\ files \in [Names -> Data \cup {None}]
  /\ content = [b \in Blocks |-> Junk]
  /\ live = {}
  /\ known = {} /\ forgotten = {}
  /\ opened = [h \in Handles |-> None]
  /\ overrun = FALSE

Unused == Blocks \ live

------------------------------------------------------------------------------
(* Files.                                                                  *)

\* The 64 KB buffer after the file system failed to fill it.
kept_on_failure(b) == live \cup {b}
freed_on_failure(b) == live

\* The file is read into a block of its own, copied over the buffer - and over what lies
\* behind it, if it is larger - and that block is freed again.  The caller may have passed
\* no place to put the pointer.
sys_read_file(name) ==
  \E b \in Unused :
    \/ /\ live' = freed_on_failure(b)
       /\ UNCHANGED <<open_files, files, content, known, forgotten, opened, overrun>>
    \/ /\ files[name] # None
       /\ Cardinality(Unused) > 1
       /\ live' = live \cup {b}
       /\ content' = [c \in Blocks |-> IF c = b THEN files[name]
                                       ELSE IF c = b + 1 /\ files[name] \in Large THEN Junk
                                       ELSE content[c]]
       /\ overrun' = (overrun \/ files[name] \in Large)
       /\ \/ known' = known \cup {b} /\ UNCHANGED forgotten
          \/ forgotten' = forgotten \cup {b} /\ UNCHANGED known
       /\ UNCHANGED <<open_files, files, opened>>

\* An existing name gets a second entry, behind the one that is found.
sys_write_file(name, b) ==
  /\ files' = [files EXCEPT ![name] = IF @ = None THEN content[b] ELSE @]
  /\ UNCHANGED <<open_files, heapVars, known, forgotten, opened, overrun>>

free_handles == {h \in Handles : ~open_files[h].in_use}

\* The first free handle.
handle_idx == Min(free_handles)

\* The file as fat12_read_file returns it, in a block of its own.
sys_open_file(name) ==
  /\ free_handles # {}
  /\ files[name] # None
  /\ \E b \in Unused :
       /\ live' = live \cup {b}
       /\ content' = [content EXCEPT ![b] = files[name]]
       /\ open_files' = [open_files EXCEPT ![handle_idx] =
            [in_use |-> TRUE, filename |-> name, buffer |-> b, size |-> files[name], position |-> 0]]
       /\ opened' = [opened EXCEPT ![handle_idx] = files[name]]
  /\ UNCHANGED <<files, known, forgotten, overrun>>

still_in_use(h) == open_files
\* The memset of sys_close_file.
handle_cleared(h) == [open_files EXCEPT ![h] = Closed]

\* A handle out of range or not in use is refused.
sys_close_file(h) ==
  /\ open_files[h].in_use
  /\ live' = live \ {open_files[h].buffer}
  /\ open_files' = handle_cleared(h)
  /\ opened' = [opened EXCEPT ![h] = None]
  /\ UNCHANGED <<files, content, known, forgotten, overrun>>

------------------------------------------------------------------------------
(* Memory.                                                                 *)

sys_kmalloc ==
  /\ \E b \in Unused :
       /\ live' = live \cup {b}
       /\ content' = [content EXCEPT ![b] = Zero]
       /\ known' = known \cup {b}
  /\ UNCHANGED <<open_files, files, forgotten, opened, overrun>>

sys_kfree(b) ==
  /\ live' = live \ {b}
  /\ known' = known \ {b}
  /\ UNCHANGED <<open_files, files, content, forgotten, opened, overrun>>

\* memcpy from another block, or memset.
sys_memcpy(dest, src) ==
  /\ content' = [content EXCEPT ![dest] = content[src]]
  /\ UNCHANGED <<open_files, files, live, known, forgotten, opened, overrun>>

sys_memset(dest) ==
  /\ content' = [content EXCEPT ![dest] = Junk]
  /\ UNCHANGED <<open_files, files, live, known, forgotten, opened, overrun>>

------------------------------------------------------------------------------

\* Calls that only answer: fb_print, memcmp, the reserved and the unknown numbers, and
\* whatever is refused or fails before it has changed anything.
answered == UNCHANGED vars

syscall_handler_c ==
  \/ \E name \in Names : sys_read_file(name) \/ sys_open_file(name)
  \/ \E name \in Names, b \in known : sys_write_file(name, b)
  \/ \E h \in Handles : sys_close_file(h)
  \/ sys_kmalloc
  \/ \E b \in known : sys_kfree(b) \/ sys_memset(b)
  \/ \E dest, src \in known : sys_memcpy(dest, src)
  \/ answered

\* The VM frees its own memory; of what the program was given nobody keeps the pointers.
\* Its handles stay open.
program_ends ==
  /\ forgotten' = forgotten \cup known
  /\ known' = {}
  /\ UNCHANGED <<open_files, files, heapVars, opened, overrun>>

Next == syscall_handler_c \/ program_ends

Spec == Init /\ [][Next]_vars

------------------------------------------------------------------------------
(* Properties.                                                             *)

InUse == {h \in Handles : open_files[h].in_use}
Buffers == {open_files[h].buffer : h \in InUse}

TypeOK ==
  /\ open_files \in [Handles -> [in_use : BOOLEAN, filename : Names \cup {None},
                                 buffer : Blocks \cup {NULL}, size : Contents \cup {None},
                                 position : {0}]]
  /\ files \in [Names -> Contents \cup {None}]
  /\ content \in [Blocks -> Contents]
  /\ live \subseteq Blocks /\ known \subseteq Blocks /\ forgotten \subseteq Blocks
  /\ opened \in [Handles -> Contents \cup {None}] /\ overrun \in BOOLEAN

\* Every allocated block has exactly one owner - an open handle, the running program, or
\* nobody because the program ended or passed no place for the pointer - so that no sequence
\* of calls frees a block twice, frees one a handle still uses, or keeps one after a call
\* that failed.
BlocksHaveOneOwner ==
  /\ TypeOK
  /\ \A h, g \in InUse : open_files[h].buffer = open_files[g].buffer => h = g
  /\ Buffers \cap known = {} /\ Buffers \cap forgotten = {} /\ known \cap forgotten = {}
  /\ live = Buffers \cup known \cup forgotten

\* An open handle keeps the file as it was when it was opened, whatever this and later
\* programs write, allocate, free and close - unless a file of more than 64 KB was read into
\* the 64 KB that sys_read_file allocates (syscall_handler.c:64).
HandlesKeepFiles ==
  ~overrun => \A h \in InUse : content[open_files[h].buffer] = opened[h]
==============================================================================
