------------------------------ MODULE MCHeapLs -------------------------------
(* One usable entry below the kernel image, which holds the static buffer.  *)
EXTENDS HeapLs

MCMemMaps == {<<[base |-> 4, length |-> 12, usable |-> TRUE],
                [base |-> 16, length |-> 8, usable |-> FALSE]>>}
MCRequests == 1..4
MCStaticWords == {0, 4}
==============================================================================
