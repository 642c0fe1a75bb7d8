-------------------------------- MODULE Heap ---------------------------------
(***************************************************************************)
(* The kernel heap of kernel/src/x86_64/mm/mem.c: init_allocator's walk of *)
(* the boot memory map, the address-ordered free list, kmalloc and kfree.  *)
(*                                                                         *)
(* A block is named by the physical address of its header; the caller's    *)
(* pointer is the address HDR bytes further on.  The linked list through   *)
(* the headers is the sequence of its blocks.  The headers' size fields    *)
(* are `size`; `live' is the set of blocks some caller holds.              *)
(*                                                                         *)
(* Two contexts call the heap: the boot thread (`main'), whose kmalloc can *)
(* be interrupted before save_and_cli and after restore_flags, and the     *)
(* interrupt handlers, which run shell commands with interrupts off, so    *)
(* one of their calls is one step.                                         *)
(*                                                                         *)
(* Callers keep the usual contract: kfree gets a pointer that kmalloc      *)
(* returned and that was not freed since.  Module HeapLs adds the caller   *)
(* that does not.                                                          *)
(***************************************************************************)
EXTENDS Integers, Sequences, SequencesExt

CONSTANTS
  HDR,            (* sizeof(free_list_block)                               *)
  ALIGN_SIZE,
  MIN_ALLOC_SIZE,
  MAX_REQUEST,    (* 0x10000000, the largest request kmalloc considers     *)
  SAFETY,         (* 1000, the hops after which insertion gives up         *)
  PAGE_SIZE,
  LOW_MEM,        (* 0x100000, nothing below it is used                    *)
  MIN_ENTRY,      (* 1 MiB, shorter map entries are left out of the heap   *)
  NEEDED_MEM,     (* needed_mem, the bytes init_paging wants for its pool  *)
  MAX_ADDR,       (* no map entry ends above it                            *)
  MemMaps,        (* the memory maps the boot loader may pass: sequences   *)
                  (* of [base, length, usable] records                     *)
  Requests        (* the sizes callers ask for                             *)

VARIABLES
  memmap,         (* the map this boot was given                           *)
  entry,          (* index of the next map entry; 0 before init_paging     *)
  pool_start, pool_end,   (* paging_pool_start, paging_pool_end            *)
  free_list,      (* the list from free_list_head on, as a sequence        *)
  size,           (* size[b]: the size field of the header at b            *)
  live,           (* blocks handed out and not yet freed                   *)
  want,           (* want[b]: the size the holder of b asked for           *)
  lost,           (* blocks insert_free_block_sorted gave up on            *)
  main_pc,        (* where main is in kmalloc                              *)
  main_want,      (* the size main asked for                               *)
  main_block      (* the block main is about to clear                      *)

bootVars == <<memmap, entry, pool_start, pool_end>>
mainVars == <<main_pc, main_want, main_block>>
vars == <<bootVars, free_list, size, live, want, lost, mainVars>>

EntryEnd(e) == e.base + e.length

ASSUME SizesAssumption ==
  /\ HDR \in Nat \ {0} /\ ALIGN_SIZE \in Nat \ {0} /\ MIN_ALLOC_SIZE \in Nat \ {0}
  /\ MAX_REQUEST \in Nat /\ SAFETY \in Nat /\ PAGE_SIZE \in Nat \ {0}
  /\ MAX_ADDR \in Nat /\ LOW_MEM \in Nat /\ MIN_ENTRY \in Nat /\ NEEDED_MEM \in Nat
  /\ Requests \subseteq Nat

\* The boot protocol: entries are in address order and do not overlap.
ASSUME MemMapAssumption ==
  \A m \in MemMaps :
    /\ m \in Seq([base : Nat, length : Nat, usable : BOOLEAN])
    /\ \A i \in 1..Len(m) : EntryEnd(m[i]) <= MAX_ADDR
    /\ \A i, j \in 1..Len(m) : i < j => EntryEnd(m[i]) <= m[j].base

\* Usable entries are whole pages, and a page holds whole aligned blocks.
ASSUME AlignmentAssumption ==
  /\ HDR % ALIGN_SIZE = 0 /\ MIN_ALLOC_SIZE % ALIGN_SIZE = 0
  /\ PAGE_SIZE % ALIGN_SIZE = 0 /\ NEEDED_MEM % PAGE_SIZE = 0
  /\ \A m \in MemMaps : \A i \in 1..Len(m) : m[i].usable =>
       m[i].base % PAGE_SIZE = 0 /\ m[i].length % PAGE_SIZE = 0

\* align_up: (n + a - 1) & ~(a - 1), for a a power of two.
align_up(n, a) == LET t == n + a - 1 IN t - (t % a)

Min2(a, b) == IF a < b THEN a ELSE b
Max2(a, b) == IF a < b THEN b ELSE a

Ready == entry > Len(memmap)

\* Mutant: the mask rounds the request down.
alloc_size_rounds_down(n) == Max2(n - (n % ALIGN_SIZE), MIN_ALLOC_SIZE)

\* The size kmalloc searches for when asked for n bytes.
alloc_size(n) == Max2(align_up(n, ALIGN_SIZE), MIN_ALLOC_SIZE)

BlockEnd(b) == b + HDR + size[b]

------------------------------------------------------------------------------
(* The free list.                                                          *)

\* Mutant: the block goes to the end of the list.
InsertPoint_last(i, b) == i = Len(free_list)

\* insert_free_block_sorted's loop ends at the block with index i: the first
\* one with no successor below b.
InsertPoint(i, b) ==
  /\ i < Len(free_list) => free_list[i + 1] >= b
  /\ \A k \in 1..(i - 1) : free_list[k + 1] < b

\* b becomes the head, or is linked in after i - 1 hops, or the loop has made
\* more hops than it allows and b is left out.
insert_free_block_sorted(b) ==
  \/ /\ free_list # <<>> => b < free_list[1]
     /\ free_list' = <<b>> \o free_list
     /\ UNCHANGED lost
  \/ /\ free_list # <<>> /\ free_list[1] <= b
     /\ \E i \in 1..Len(free_list) :
          /\ InsertPoint(i, b)
          /\ IF i - 1 <= SAFETY
             THEN free_list' = InsertAt(free_list, i + 1, b) /\ UNCHANGED lost
             ELSE lost' = lost \cup {b} /\ UNCHANGED free_list

\* i is where kmalloc's first-fit walk stops for a size of n.
FirstFit(i, n) ==
  /\ size[free_list[i]] >= n
  /\ \A k \in 1..(i - 1) : size[free_list[k]] < n

\* Mutant: no room for the tail's header and least size is asked for.
splits_without_room(b, n) == size[b] >= n

\* Mutant: block->size = size is missing.
unlink_keeps_size(i, n) ==
  LET b  == free_list[i]
      nb == b + HDR + n
  IN  IF size[b] >= n + HDR + MIN_ALLOC_SIZE
      THEN /\ free_list' = [free_list EXCEPT ![i] = nb]
           /\ size' = [size EXCEPT ![nb] = size[b] - n - HDR]
      ELSE /\ free_list' = RemoveAt(free_list, i)
           /\ UNCHANGED size

\* Mutant: the block is cut to size but its tail is not linked in.
unlink_drops_tail(i, n) ==
  /\ free_list' = RemoveAt(free_list, i)
  /\ size' = [size EXCEPT ![free_list[i]] = n]

\* Mutant: a block that fits whole is not unlinked.
unlink_leaves_block(i, n) ==
  LET b  == free_list[i]
      nb == b + HDR + n
  IN  IF size[b] >= n + HDR + MIN_ALLOC_SIZE
      THEN /\ free_list' = [free_list EXCEPT ![i] = nb]
           /\ size' = [size EXCEPT ![nb] = size[b] - n - HDR, ![b] = n]
      ELSE UNCHANGED <<free_list, size>>

\* kmalloc's critical section, taking the block at index i for a size of n.
\* The tail of a block that is long enough replaces it in the list.
splits(b, n) == size[b] >= n + HDR + MIN_ALLOC_SIZE

unlink(i, n) ==
  LET b  == free_list[i]
      nb == b + HDR + n
  IN  IF splits(b, n)
      THEN /\ free_list' = [free_list EXCEPT ![i] = nb]
           /\ size' = [size EXCEPT ![nb] = size[b] - n - HDR, ![b] = n]
      ELSE /\ free_list' = RemoveAt(free_list, i)
           /\ UNCHANGED size

------------------------------------------------------------------------------
(* Boot: init_paging chooses its pool, init_allocator adds the entries.    *)

Addr == 0..MAX_ADDR

Init ==
  /\ memmap \in MemMaps
  /\ entry = 0
  /\ pool_start = 0 /\ pool_end = 0
  /\ free_list = <<>>
  /\ size = [a \in Addr |-> 0]
  /\ live = {} /\ lost = {}
  /\ want = [a \in Addr |-> 0]
  /\ main_pc = "idle" /\ main_want = 0 /\ main_block = 0

\* Entry i can hold the pool, and no earlier one can.
HoldsPool(e) == e.usable /\ e.length >= NEEDED_MEM /\ e.base >= LOW_MEM

PoolEntry(i) ==
  /\ HoldsPool(memmap[i])
  /\ \A k \in 1..(i - 1) : ~HoldsPool(memmap[k])

init_paging ==
  /\ entry = 0
  /\ entry' = 1
  /\ \/ \E i \in 1..Len(memmap) :
          /\ PoolEntry(i)
          /\ pool_start' = align_up(memmap[i].base, PAGE_SIZE)
          /\ pool_end' = Min2(align_up(memmap[i].base, PAGE_SIZE) + NEEDED_MEM,
                              EntryEnd(memmap[i]))
     \/ /\ \A i \in 1..Len(memmap) : ~HoldsPool(memmap[i])
        /\ UNCHANGED <<pool_start, pool_end>>
  /\ UNCHANGED <<memmap, free_list, size, live, want, lost, mainVars>>

\* Mutant: the pool is not cut out of its entry.
HeapStart_ignores_pool(e) == align_up(e.base, ALIGN_SIZE)

\* Where the heap's part of entry e starts: after the pool if they overlap.
HeapStart(e) ==
  LET s == align_up(e.base, ALIGN_SIZE)
  IN  IF s < pool_end /\ EntryEnd(e) > pool_start THEN pool_end ELSE s

InHeap(e) ==
  /\ e.usable
  /\ e.length > MIN_ENTRY
  /\ e.base >= LOW_MEM
  /\ EntryEnd(e) > HeapStart(e) + HDR

init_allocator_entry ==
  /\ entry \in 1..Len(memmap)
  /\ entry' = entry + 1
  /\ LET e == memmap[entry]
         b == HeapStart(e)
     IN  IF InHeap(e)
         THEN /\ size' = [size EXCEPT ![b] = EntryEnd(e) - b - HDR]
              /\ insert_free_block_sorted(b)
         ELSE UNCHANGED <<size, free_list, lost>>
  /\ UNCHANGED <<memmap, pool_start, pool_end, live, want, mainVars>>

------------------------------------------------------------------------------
(* kmalloc and kfree.                                                      *)

\* kmalloc's early returns: a request they turn away changes nothing.
Considered(n) == n # 0 /\ n <= MAX_REQUEST /\ free_list # <<>>

\* kmalloc called by main: the checks before save_and_cli.
main_kmalloc(n) ==
  /\ Ready
  /\ main_pc = "idle"
  /\ Considered(n)
  /\ main_pc' = "search"
  /\ main_want' = n
  /\ UNCHANGED <<bootVars, free_list, size, live, want, lost, main_block>>

\* The section between save_and_cli and restore_flags finds a block ...
main_take ==
  /\ main_pc = "search"
  /\ \E i \in 1..Len(free_list) :
       LET b == free_list[i]
           n == alloc_size(main_want)
       IN  /\ FirstFit(i, n)
           /\ unlink(i, n)
           /\ live' = live \cup {b}
           /\ want' = [want EXCEPT ![b] = main_want]
           /\ main_block' = b
  /\ main_pc' = "zero"
  /\ UNCHANGED <<bootVars, lost, main_want>>

\* ... or none, and kmalloc returns NULL.
main_fail ==
  /\ main_pc = "search"
  /\ \A i \in 1..Len(free_list) : size[free_list[i]] < alloc_size(main_want)
  /\ main_pc' = "idle" /\ main_want' = 0 /\ main_block' = 0
  /\ UNCHANGED <<bootVars, free_list, size, live, want, lost>>

\* memset_page clears the block with interrupts on again; then kmalloc returns.
main_zero ==
  /\ main_pc = "zero"
  /\ main_pc' = "idle" /\ main_want' = 0 /\ main_block' = 0
  /\ UNCHANGED <<bootVars, free_list, size, live, want, lost>>

\* A whole kmalloc in an interrupt handler.
irq_kmalloc(n) ==
  /\ Ready
  /\ Considered(n)
  /\ \E i \in 1..Len(free_list) :
       /\ FirstFit(i, alloc_size(n))
       /\ unlink(i, alloc_size(n))
       /\ live' = live \cup {free_list[i]}
       /\ want' = [want EXCEPT ![free_list[i]] = n]
  /\ UNCHANGED <<bootVars, lost, mainVars>>

\* The block main has taken but not yet been given: no caller can free it.
InHand == IF main_pc = "zero" THEN {main_block} ELSE {}

\* kfree is one critical section in either context.
kfree(b) ==
  /\ b \in live \ InHand
  /\ insert_free_block_sorted(b)
  /\ live' = live \ {b}
  /\ want' = [want EXCEPT ![b] = 0]
  /\ UNCHANGED <<bootVars, size, mainVars>>

Next ==
  \/ init_paging
  \/ init_allocator_entry
  \/ \E n \in Requests : main_kmalloc(n)
  \/ main_take
  \/ main_fail
  \/ main_zero
  \/ \E n \in Requests : irq_kmalloc(n)
  \/ \E b \in live : kfree(b)

Spec == Init /\ [][Next]_vars

------------------------------------------------------------------------------
(* Properties.                                                             *)

TypeOK ==
  /\ memmap \in MemMaps
  /\ entry \in 0..(Len(memmap) + 1) /\ pool_start \in Nat /\ pool_end \in Nat
  /\ free_list \in Seq(Addr)
  /\ size \in [Addr -> Nat]
  /\ live \subseteq Addr /\ lost \subseteq Addr
  /\ want \in [Addr -> Nat]
  /\ main_pc \in {"idle", "search", "zero"}
  /\ main_want \in Nat
  /\ main_block \in Addr

Free == ToSet(free_list)
Blocks == Free \cup live \cup lost

\* The free list is in strict address order: it has no cycle and no block twice,
\* which kmalloc's unbounded walk relies on (mem.c 361-389).
FreeListSorted ==
  \A i, j \in 1..Len(free_list) : i < j => free_list[i] < free_list[j]

\* Every block has one owner, and no two blocks, headers included, share a byte:
\* splitting, whole-block fits and sorted insertion keep blocks apart.
BlocksApart ==
  /\ live \cap Free = {} /\ live \cap lost = {} /\ lost \cap Free = {}
  /\ \A a, b \in Blocks : a < b => BlockEnd(a) <= b

\* The heap part of the entries walked so far.
Walked == {e \in {memmap[i] : i \in 1..Min2(entry - 1, Len(memmap))} : InHeap(e)}

\* No byte is lost between blocks: whatever sequence of kmalloc and kfree runs,
\* every byte of the heap's entries is in some block.
EveryByteAccounted ==
  \A e \in Walked : \A a \in HeapStart(e) .. (EntryEnd(e) - 1) :
    \E b \in Blocks : b <= a /\ a < BlockEnd(b)

\* The heap never reaches outside usable RAM or into the page-table pool: each block
\* lies in the heap part of one entry (init_allocator's pool overlap adjustment).
BlocksInsideRam ==
  \A b \in Blocks : \E e \in Walked :
    /\ HeapStart(e) <= b /\ BlockEnd(b) <= EntryEnd(e)
    /\ BlockEnd(b) <= pool_start \/ pool_end <= b

\* A holder has at least what it asked for, and main's memset_page, which runs after
\* restore_flags, clears only bytes of the block main holds.
RequestsFit ==
  /\ \A b \in live : want[b] <= size[b]
  /\ main_pc = "zero" => main_block \in live /\ alloc_size(main_want) <= size[main_block]

Payload(b) == [lo |-> b + HDR, hi |-> b + HDR + want[b]]
HeapRam == {a \in Addr : \E i \in 1..Len(memmap) :
              memmap[i].usable /\ memmap[i].base <= a /\ a < EntryEnd(memmap[i])}

Promise == INSTANCE Allocator WITH
  ram <- HeapRam, Alignment <- ALIGN_SIZE, owned <- {Payload(b) : b \in live}

\* The heap implements Allocator: callers only ever see disjoint, aligned ranges of
\* usable RAM, and no call takes a range away from its holder.
ImplementsAllocator == Promise!Spec
==============================================================================
