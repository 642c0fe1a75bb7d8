------------------------------- MODULE MCDisk --------------------------------
(* Drives of three sectors, of which the last lies above LBA28; IDE with one  *)
(* drive, with two on a channel and with one on each, AHCI with one.          *)
EXTENDS Disk
MCConfigurations ==
  {[controller |-> "ide", present |-> p] : p \in {{2}, {0, 1}, {0, 2}}}
  \cup {[controller |-> "ahci", present |-> {0}]}
MCValues == {<<9, 9>>}
==============================================================================
