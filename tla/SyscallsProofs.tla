----------------------------- MODULE SyscallsProofs -----------------------------
(***************************************************************************)
(* For every number of handles and heap blocks and every sequence of calls *)
(* of every sequence of programs: who owns which block, and that an open   *)
(* handle keeps the file it was opened on.  BlocksHaveOneOwner is          *)
(* inductive; HandlesKeepFiles is inductive together with it, for a block  *)
(* with one owner is never written on behalf of another.                   *)
(***************************************************************************)
EXTENDS Syscalls, WellFoundedInduction, TLAPS

------------------------------------------------------------------------------
(* Numbers.                                                                *)

\* A search upwards that can succeed stops at a first success.
LEMMA LeastNat ==
  ASSUME NEW S, S \subseteq Nat, S # {}
  PROVE  \E x \in S : \A y \in S : x <= y
  <1>1. PICK x \in S : \A y \in S : ~ (<<y, x>> \in OpToRel(<, Nat))
    BY NatLessThanWellFounded, WFMin, Zenon
  <1>2. \A y \in S : ~ (y < x)
    BY <1>1 DEF OpToRel
  <1> QED
    BY <1>2

\* The first free entry of a table is a free entry, and none before it is free.
LEMMA MinProps ==
  ASSUME NEW S, S \subseteq Nat, S # {}
  PROVE  Min(S) \in S /\ \A y \in S : Min(S) <= y
  BY LeastNat, Zenon DEF Min

------------------------------------------------------------------------------
(* System calls.                                                           *)

\* sys_open_file takes a handle that is not in use.
LEMMA FreeHandleFound ==
  ASSUME TypeOK, free_handles # {}
  PROVE  handle_idx \in Handles /\ ~open_files[handle_idx].in_use
  <1>1. free_handles \subseteq Nat
    BY SyscallsAssumption DEF free_handles, Handles
  <1> QED
    BY <1>1, MinProps DEF free_handles, handle_idx

\* What is left of the handle table when sys_open_file has filled in handle g.
LEMMA OpenedTable ==
  ASSUME TypeOK, NEW g \in Handles, NEW b \in Blocks, NEW name \in Names, NEW d \in Contents,
         open_files' = [open_files EXCEPT ![g] =
           [in_use |-> TRUE, filename |-> name, buffer |-> b, size |-> d, position |-> 0]],
         ~open_files[g].in_use
  PROVE  /\ InUse' = InUse \cup {g} /\ g \notin InUse
         /\ open_files'[g].buffer = b
         /\ \A h \in InUse : open_files'[h] = open_files[h]
         /\ Buffers' = Buffers \cup {b}
  <1>1. /\ \A h \in Handles : h # g => open_files'[h] = open_files[h]
        /\ open_files'[g].in_use /\ open_files'[g].buffer = b
    BY DEF TypeOK
  <1>2. InUse' = InUse \cup {g} /\ g \notin InUse
    BY <1>1 DEF InUse
  <1> QED
    BY <1>1, <1>2 DEF Buffers, InUse

\* What is left of the handle table when sys_close_file has cleared handle g.
LEMMA ClosedTable ==
  ASSUME TypeOK, NEW g \in Handles, open_files[g].in_use, open_files' = handle_cleared(g),
         \A h, k \in InUse : open_files[h].buffer = open_files[k].buffer => h = k
  PROVE  /\ InUse' = InUse \ {g}
         /\ \A h \in InUse' : open_files'[h] = open_files[h]
         /\ Buffers' = Buffers \ {open_files[g].buffer}
  <1>1. /\ \A h \in Handles : h # g => open_files'[h] = open_files[h]
        /\ ~open_files'[g].in_use
    BY DEF TypeOK, handle_cleared, Closed
  <1>2. InUse' = InUse \ {g} /\ g \in InUse
    BY <1>1 DEF InUse
  <1> QED
    BY <1>1, <1>2 DEF Buffers, InUse

\* A step that leaves the handle table alone leaves what is derived from it alone.
LEMMA TableUnchanged ==
  ASSUME open_files' = open_files
  PROVE  InUse' = InUse /\ Buffers' = Buffers
  BY DEF InUse, Buffers

\* One step of the system keeps blocks with one owner, and keeps what handles were opened on.
LEMMA StepKeeps ==
  ASSUME BlocksHaveOneOwner, [Next]_vars
  PROVE  /\ BlocksHaveOneOwner'
         /\ HandlesKeepFiles => HandlesKeepFiles'
  <1> USE DEF BlocksHaveOneOwner
  <1>0. Buffers \subseteq live /\ known \subseteq live /\ live \subseteq Blocks
    BY DEF TypeOK
  <1>1. ASSUME NEW name \in Names, sys_read_file(name)
        PROVE  BlocksHaveOneOwner' /\ (HandlesKeepFiles => HandlesKeepFiles')
    <2>1. PICK b \in Unused :
            \/ /\ live' = freed_on_failure(b)
               /\ UNCHANGED <<open_files, files, content, known, forgotten, opened, overrun>>
            \/ /\ files[name] # None
               /\ live' = live \cup {b}
               /\ content' = [c \in Blocks |-> IF c = b THEN files[name]
                                               ELSE IF c = b + 1 /\ files[name] \in Large THEN Junk
                                               ELSE content[c]]
               /\ overrun' = (overrun \/ files[name] \in Large)
               /\ \/ known' = known \cup {b} /\ UNCHANGED forgotten
                  \/ forgotten' = forgotten \cup {b} /\ UNCHANGED known
               /\ UNCHANGED <<open_files, files, opened>>
      BY <1>1, Zenon DEF sys_read_file
    <2>2. InUse' = InUse /\ Buffers' = Buffers
      BY <2>1, TableUnchanged
    <2>3. TypeOK'
      BY <2>1 DEF TypeOK, freed_on_failure, Unused, Contents, Junk
    <2>4. BlocksHaveOneOwner'
      BY <2>1, <2>2, <2>3, <1>0 DEF freed_on_failure, Unused
    <2>5. ASSUME HandlesKeepFiles PROVE HandlesKeepFiles'
      <3> SUFFICES ASSUME ~overrun', NEW h \in InUse'
                   PROVE  content'[open_files'[h].buffer] = opened'[h]
        BY DEF HandlesKeepFiles
      <3>1. open_files[h].buffer \in live
        BY <1>0, <2>2 DEF Buffers
      <3>2. ~overrun /\ content[open_files[h].buffer] = opened[h]
        BY <2>1, <2>2, <2>5 DEF HandlesKeepFiles, TypeOK
      <3>3. content'[open_files[h].buffer] = content[open_files[h].buffer]
        BY <2>1, <3>1, <1>0 DEF Unused, TypeOK
      <3> QED
        BY <2>1, <3>2, <3>3
    <2> QED
      BY <2>4, <2>5
  <1>2. ASSUME NEW name \in Names, sys_open_file(name)
        PROVE  BlocksHaveOneOwner' /\ (HandlesKeepFiles => HandlesKeepFiles')
    <2> DEFINE g == handle_idx
    <2>1. PICK b \in Unused :
            /\ live' = live \cup {b}
            /\ content' = [content EXCEPT ![b] = files[name]]
            /\ open_files' = [open_files EXCEPT ![g] =
                 [in_use |-> TRUE, filename |-> name, buffer |-> b, size |-> files[name], position |-> 0]]
            /\ opened' = [opened EXCEPT ![g] = files[name]]
      BY <1>2, Zenon DEF sys_open_file
    <2>2. g \in Handles /\ ~open_files[g].in_use /\ b \in Blocks /\ b \notin live
      BY <1>2, FreeHandleFound DEF sys_open_file, Unused
    <2>3. files[name] \in Contents
      BY <1>2 DEF sys_open_file, TypeOK
    <2> HIDE DEF g
    <2>4. /\ InUse' = InUse \cup {g} /\ g \notin InUse
          /\ open_files'[g].buffer = b
          /\ \A h \in InUse : open_files'[h] = open_files[h]
          /\ Buffers' = Buffers \cup {b}
      BY <2>1, <2>2, <2>3, OpenedTable
    <2>5. UNCHANGED <<files, known, forgotten, overrun>>
      BY <1>2 DEF sys_open_file
    <2>6. TypeOK'
      BY <2>1, <2>2, <2>3, <2>5 DEF TypeOK
    <2>7. \A h \in InUse : open_files[h].buffer \in live
      BY <1>0 DEF Buffers
    <2>8. BlocksHaveOneOwner'
      BY <2>1, <2>2, <2>4, <2>5, <2>6, <2>7, <1>0
    <2>9. ASSUME HandlesKeepFiles PROVE HandlesKeepFiles'
      <3> SUFFICES ASSUME ~overrun', NEW h \in InUse'
                   PROVE  content'[open_files'[h].buffer] = opened'[h]
        BY DEF HandlesKeepFiles
      <3>1. CASE h = g
        BY <3>1, <2>1, <2>2, <2>4 DEF TypeOK
      <3>2. CASE h # g
        <4>1. h \in InUse /\ h \in Handles
          BY <3>2, <2>4 DEF InUse
        <4>2. content[open_files[h].buffer] = opened[h]
          BY <4>1, <2>5, <2>9 DEF HandlesKeepFiles
        <4> QED
          BY <3>2, <4>1, <4>2, <2>1, <2>2, <2>4, <2>7 DEF TypeOK
      <3> QED
        BY <3>1, <3>2
    <2> QED
      BY <2>8, <2>9
  <1>3. ASSUME NEW name \in Names, NEW b \in known, sys_write_file(name, b)
        PROVE  BlocksHaveOneOwner' /\ (HandlesKeepFiles => HandlesKeepFiles')
    <2>1. InUse' = InUse /\ Buffers' = Buffers
      BY <1>3, TableUnchanged DEF sys_write_file
    <2>2. TypeOK'
      BY <1>3 DEF TypeOK, sys_write_file, heapVars
    <2> QED
      BY <1>3, <2>1, <2>2 DEF sys_write_file, heapVars, HandlesKeepFiles
  <1>4. ASSUME NEW g \in Handles, sys_close_file(g)
        PROVE  BlocksHaveOneOwner' /\ (HandlesKeepFiles => HandlesKeepFiles')
    <2>1. /\ InUse' = InUse \ {g}
          /\ \A h \in InUse' : open_files'[h] = open_files[h]
          /\ Buffers' = Buffers \ {open_files[g].buffer}
      BY <1>4, ClosedTable DEF sys_close_file
    <2>2. TypeOK'
      BY <1>4, SyscallsAssumption DEF TypeOK, sys_close_file, handle_cleared, Closed, NULL
    <2>3. open_files[g].buffer \in Buffers
      BY <1>4 DEF sys_close_file, Buffers, InUse
    <2>4. BlocksHaveOneOwner'
      BY <1>4, <2>1, <2>2, <2>3 DEF sys_close_file
    <2>5. ASSUME HandlesKeepFiles PROVE HandlesKeepFiles'
      BY <1>4, <2>1, <2>5 DEF sys_close_file, HandlesKeepFiles, TypeOK, InUse
    <2> QED
      BY <2>4, <2>5
  <1>5. ASSUME sys_kmalloc
        PROVE  BlocksHaveOneOwner' /\ (HandlesKeepFiles => HandlesKeepFiles')
    <2>1. PICK b \in Unused : /\ live' = live \cup {b}
                              /\ content' = [content EXCEPT ![b] = Zero]
                              /\ known' = known \cup {b}
      BY <1>5 DEF sys_kmalloc
    <2>2. UNCHANGED <<open_files, files, forgotten, opened, overrun>>
      BY <1>5 DEF sys_kmalloc
    <2>3. InUse' = InUse /\ Buffers' = Buffers
      BY <2>2, TableUnchanged
    <2>4. TypeOK'
      BY <2>1, <2>2 DEF TypeOK, Unused, Contents
    <2>5. BlocksHaveOneOwner'
      BY <2>1, <2>2, <2>3, <2>4, <1>0 DEF Unused
    <2>6. ASSUME HandlesKeepFiles PROVE HandlesKeepFiles'
      <3>1. \A h \in InUse : open_files[h].buffer \in live
        BY <1>0 DEF Buffers
      <3> QED
        BY <2>1, <2>2, <2>3, <2>6, <1>0, <3>1 DEF HandlesKeepFiles, TypeOK, Unused
    <2> QED
      BY <2>5, <2>6
  <1>6. ASSUME NEW b \in known, sys_kfree(b)
        PROVE  BlocksHaveOneOwner' /\ (HandlesKeepFiles => HandlesKeepFiles')
    <2>1. InUse' = InUse /\ Buffers' = Buffers
      BY <1>6, TableUnchanged DEF sys_kfree
    <2>2. TypeOK'
      BY <1>6 DEF TypeOK, sys_kfree
    <2> QED
      BY <1>6, <2>1, <2>2 DEF sys_kfree, HandlesKeepFiles
  <1>7. ASSUME NEW dest \in known, \/ sys_memset(dest)
                                   \/ \E src \in known : sys_memcpy(dest, src)
        PROVE  BlocksHaveOneOwner' /\ (HandlesKeepFiles => HandlesKeepFiles')
    <2>1. PICK d \in Contents : content' = [content EXCEPT ![dest] = d]
      BY <1>7, <1>0 DEF sys_memset, sys_memcpy, TypeOK, Contents
    <2>2. UNCHANGED <<open_files, files, live, known, forgotten, opened, overrun>>
      BY <1>7 DEF sys_memset, sys_memcpy
    <2>3. InUse' = InUse /\ Buffers' = Buffers
      BY <2>2, TableUnchanged
    <2>4. TypeOK'
      BY <2>1, <2>2 DEF TypeOK
    <2>5. \A h \in InUse : open_files[h].buffer # dest /\ open_files[h].buffer \in Blocks
      BY <1>0 DEF Buffers
    <2>6. BlocksHaveOneOwner'
      BY <2>2, <2>3, <2>4
    <2> QED
      BY <2>1, <2>2, <2>3, <2>5, <2>6 DEF HandlesKeepFiles, TypeOK
  <1>8. ASSUME program_ends
        PROVE  BlocksHaveOneOwner' /\ (HandlesKeepFiles => HandlesKeepFiles')
    <2>1. InUse' = InUse /\ Buffers' = Buffers
      BY <1>8, TableUnchanged DEF program_ends
    <2>2. TypeOK'
      BY <1>8 DEF TypeOK, program_ends, heapVars
    <2> QED
      BY <1>8, <2>1, <2>2 DEF program_ends, heapVars, HandlesKeepFiles
  <1>9. ASSUME UNCHANGED vars
        PROVE  BlocksHaveOneOwner' /\ (HandlesKeepFiles => HandlesKeepFiles')
    <2>1. InUse' = InUse /\ Buffers' = Buffers
      BY <1>9, TableUnchanged DEF vars
    <2>2. TypeOK'
      BY <1>9 DEF TypeOK, vars, heapVars
    <2> QED
      BY <1>9, <2>1, <2>2 DEF vars, heapVars, HandlesKeepFiles
  <1> QED
    BY <1>1, <1>2, <1>3, <1>4, <1>5, <1>6, <1>7, <1>8, <1>9
    DEF Next, syscall_handler_c, answered

\* No block is allocated and all handles are closed when the kernel starts.
LEMMA InitOwners ==
  ASSUME Init
  PROVE  BlocksHaveOneOwner /\ HandlesKeepFiles
  <1>1. InUse = {} /\ Buffers = {}
    BY DEF Init, InUse, Buffers, Closed
  <1>2. TypeOK
    BY SyscallsAssumption DEF Init, TypeOK, Closed, NULL, Contents, Junk
  <1> QED
    BY <1>1, <1>2 DEF Init, BlocksHaveOneOwner, HandlesKeepFiles

\* For every number of handles and blocks, every allocated block belongs to exactly one open
\* handle, or to the running program, or to nobody any more: no sequence of system calls
\* frees a block twice or frees one that a handle still uses.
THEOREM OwnershipHolds == Spec => []BlocksHaveOneOwner
  <1>1. BlocksHaveOneOwner /\ [Next]_vars => BlocksHaveOneOwner'
    BY StepKeeps
  <1> QED
    BY <1>1, InitOwners, PTL DEF Spec

\* For every number of handles and blocks, an open handle keeps the contents its file had
\* when it was opened, until sys_read_file is given a file that its buffer cannot hold.
THEOREM OpenFilesKept == Spec => []HandlesKeepFiles
  <1>1. HandlesKeepFiles /\ BlocksHaveOneOwner /\ [Next]_vars => HandlesKeepFiles'
    BY StepKeeps
  <1>2. Init => HandlesKeepFiles
    BY InitOwners
  <1> QED
    BY <1>1, <1>2, OwnershipHolds, PTL DEF Spec
==============================================================================
