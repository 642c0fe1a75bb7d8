------------------------------ MODULE Allocator ------------------------------
(***************************************************************************)
(* What the kernel heap promises its callers: a granted range of memory    *)
(* lies in RAM the allocator may hand out, is aligned, is never shared     *)
(* with another granted range, and stays granted until it is released.     *)
(* Module Heap implements this with mem.c's free list.                     *)
(***************************************************************************)
EXTENDS Naturals

CONSTANT
  Alignment   (* every granted range starts at a multiple of this          *)

VARIABLES
  ram,        (* the addresses that may be handed out, fixed at boot       *)
  owned       (* the granted ranges, as records [lo, hi): lo is included   *)

Range2Set(r) == r.lo .. (r.hi - 1)

Init == ram \subseteq Nat /\ owned = {}

\* Some caller is given a range no other caller holds.
Grant(r) ==
  /\ r.lo % Alignment = 0
  /\ Range2Set(r) \subseteq ram
  /\ \A o \in owned : Range2Set(r) \cap Range2Set(o) = {}
  /\ owned' = owned \cup {r}

\* A caller gives one granted range back.
Release(r) ==
  /\ r \in owned
  /\ owned' = owned \ {r}

Next ==
  /\ UNCHANGED ram
  /\ \/ \E r \in owned' \ owned : Grant(r)
     \/ \E r \in owned : Release(r)

Spec == Init /\ [][Next]_<<ram, owned>>
==============================================================================
