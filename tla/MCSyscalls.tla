------------------------------ MODULE MCSyscalls ------------------------------
(* Two handles and four blocks, so that both run out; two names, one file    *)
(* content of more than 64 KB.                                               *)
EXTENDS Syscalls
MCData == {"d", "e"}
MCLarge == {"e"}
==============================================================================
