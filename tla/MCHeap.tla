------------------------------- MODULE MCHeap --------------------------------
(***************************************************************************)
(* A small machine for Heap: headers, alignment and pages of 2 or 4 bytes, *)
(* and a map whose second usable entry also holds the page-table pool.     *)
(***************************************************************************)
EXTENDS Heap

Entry(b, l, u) == [base |-> b, length |-> l, usable |-> u]

PoolAndTwo ==
            <<Entry(0, 4, TRUE),      \* below LOW_MEM
              Entry(4, 28, TRUE),     \* the pool, then the heap
              Entry(32, 4, FALSE),    \* reserved
              Entry(36, 4, TRUE),     \* too short
              Entry(40, 8, TRUE)>>
\* No entry is long enough for the pool.
NoPool == <<Entry(4, 12, TRUE), Entry(16, 4, FALSE), Entry(20, 8, TRUE)>>

MCMemMaps == {PoolAndTwo, NoPool}
MCRequests == 0..5
==============================================================================
