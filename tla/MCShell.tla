------------------------------- MODULE MCShell --------------------------------
(* Lines of up to two characters, two history entries and three lines handed  *)
(* over, so that the history wraps once.                                      *)
EXTENDS Shell
==============================================================================
