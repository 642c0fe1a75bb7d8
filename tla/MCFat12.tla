------------------------------- MODULE MCFat12 -------------------------------
(* Sectors of six bytes: four FAT12 entries, two directory entries.  On ten  *)
(* sectors each table has two, with entries for clusters 2..7, and there are *)
(* sectors for clusters 2..5.  One size fills its cluster, one leaves the    *)
(* third of its clusters part empty.                                         *)
EXTENDS Fat12
CONSTANTS a, b, v, w
MCNames == {a, b}
MCContents == {v, w}
MCSizes == {6, 14}
==============================================================================
