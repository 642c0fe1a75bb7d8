------------------------------- MODULE MCElixir -------------------------------
(* Callers ask for the file "a" and for "a/b".  The stack may hold a further  *)
(* "b" behind a path, so that files "a" and "ab" appear.  Two data blocks of  *)
(* two bytes each: a file of three bytes takes both.                          *)
EXTENDS Elixir
na == <<"a">>
nb == <<"b">>
MCPaths == {<<na>>, <<na, nb>>}
MCGarbage == {<< <<>> >>, << <<"b">> >>}
MCSizes == {0, 1, 3}
==============================================================================
