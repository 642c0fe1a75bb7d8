------------------------------ MODULE MCConsole -------------------------------
(* A first framebuffer of 4 rows and 5 columns, a wider one and a smaller one;  *)
(* lines that fit the row and one that does not; output with tabs and wraps.    *)
EXTENDS Console
MCFramebuffers == <<[cols |-> 5, rows |-> 4, pitch |-> 5], [cols |-> 6, rows |-> 4, pitch |-> 6],
                    [cols |-> 3, rows |-> 2, pitch |-> 3]>>
MCLines == {<<>>, <<"a">>, <<"b", "b", "b", "a">>}
MCOutputs == {<<"a", NEWLINE>>, <<"b", TAB, "a", RETURN, "b", "a", "b", "a", "b">>}
MCBanner == <<"b", RETURN, NEWLINE, TAB, NEWLINE>>
==============================================================================
