------------------------------- MODULE MCPrintf -------------------------------
(* Ints of 6 bits and longs of 9; formats of up to three directives; buffers  *)
(* that are too small, just large enough and ample.                           *)
EXTENDS Printf
Plain == [conv |-> 0, char |-> 33, zero |-> FALSE, width |-> 0, long |-> 0]
Conv(c) == [Plain EXCEPT !.conv = c]
Long(c, l) == [Conv(c) EXCEPT !.long = l]
Wide(c, z, l) == [Conv(c) EXCEPT !.width = 3, !.zero = z, !.long = l]
Directives ==
  {Plain, Conv(PERCENT), Conv(S), Conv(C), Conv(P)}
  \cup {Long(c, l) : c \in {D, U, X}, l \in 0..2}
  \cup {Wide(c, z, l) : c \in {D, U, UPPER_X}, z \in BOOLEAN, l \in {0, 2}}
Number(n) == [n |-> n, s |-> <<LOWER_A>>]
Numbers == {Number(n) : n \in {0, 26, 32, 58, 256, 500}}
Texts == {[n |-> 0, s |-> <<>>], [n |-> 64, s |-> <<LOWER_A, PERCENT, LOWER_A>>]}
ArgsFor(d) == IF d.conv \in {S} THEN Texts
              ELSE IF d.conv = C THEN {Number(33), Number(37)} ELSE Numbers
Uses(d) == d.conv \in TakesArgument \cup {UPPER_X}
MCArguments(f) ==
  LET d == SelectSeq(f, Uses)
  IN  IF d = <<>> THEN {<<>>}
      ELSE IF Len(d) = 1 THEN {<<a>> : a \in ArgsFor(d[1])}
      ELSE {<<a, b>> : a \in ArgsFor(d[1]), b \in ArgsFor(d[2])}
Seconds == {Plain, Conv(PERCENT), Conv(D), Long(X, 1), Conv(P), Wide(U, TRUE, 2)}
\* Text may only be asked for by the directive it belongs to: a printer that skips a
\* directive gives its argument to the next one.
MCFormats ==
  {<<d>> : d \in Directives} \cup {<<d, Conv(1)>> : d \in Directives}
  \cup {<<Plain, d, Plain>> : d \in Directives}
  \cup {<<d, e>> : d \in Directives, e \in Seconds}
  \cup {<<d, Conv(S)>> : d \in {e \in Directives : ~Uses(e)}
                              \cup {Conv(S), Conv(C), Conv(D), Conv(X)}}
==============================================================================
