----------------------------- MODULE MCAssembler ------------------------------
(* Programs of four lines and one label: a section, what follows the label in *)
(* it and references to it, in any order; the label may be written twice.     *)
EXTENDS Assembler
==============================================================================
