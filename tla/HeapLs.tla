------------------------------- MODULE HeapLs --------------------------------
(***************************************************************************)
(* The heap with the one caller that breaks kfree's contract: the shell's  *)
(* ls frees the buffer fat12_read_files returns, which is a static array   *)
(* of the kernel image.  kfree's only check is that the address is not     *)
(* below the direct map, which kernel addresses pass.                      *)
(***************************************************************************)
EXTENDS Heap

CONSTANTS
  StaticBlock,   (* the address HDR bytes before file_list                 *)
  StaticWords    (* what the size field there may read as                  *)

\* cmd_ls on a readable volume: kfree of the static buffer, whose "header" is
\* whatever the kernel image holds in front of it.
cmd_ls(word) ==
  /\ Ready
  /\ size' = [size EXCEPT ![StaticBlock] = word]
  /\ insert_free_block_sorted(StaticBlock)
  /\ UNCHANGED <<bootVars, live, want, mainVars>>

NextLs == Next \/ \E word \in StaticWords : cmd_ls(word)

SpecLs == Init /\ [][NextLs]_vars

\* "Invalid block address" is what kfree answers for memory that is not the heap's
\* (mem.c:405): every block on the free list lies in memory init_allocator added.
FreeBlocksAreHeap ==
  \A b \in Free : \E e \in Walked : HeapStart(e) <= b /\ BlockEnd(b) <= EntryEnd(e)
==============================================================================
