-------------------------------- MODULE Printf --------------------------------
(***************************************************************************)
(* The kernel's three printers: vsnprintf (x86_64/utils/util.c), behind    *)
(* fb_printf and shell_printf; serial_printf and kvsnprintf                *)
(* (kernel/lib/serial/serial.c), the last behind panic.                    *)
(*                                                                         *)
(* Characters are ASCII codes.  A format is given as directives; what a    *)
(* printer gets is their spelling, and it has to find the directives in it.*)
(* An argument is the slot va_arg reads: its bits n, and the text s it     *)
(* points to when it is taken for a pointer.  One turn of a printer's loop *)
(* is one step.                                                            *)
(***************************************************************************)
EXTENDS Integers, Sequences, SequencesExt, FiniteSetsExt

CONSTANTS
  INT_BITS, LONG_BITS,  \* widths of int and of long (and long long and void *)
  Formats, Sizes,       \* bound: the formats and the sizes of buffers in calls,
  Arguments(_)          \* and the lists of arguments for a format

ASSUME PrintfAssumption ==
  /\ INT_BITS \in Nat \ {0} /\ LONG_BITS \in Nat /\ INT_BITS <= LONG_BITS
  /\ Sizes \subseteq Nat \ {0}

VARIABLES
  printer,    \* the one that runs, or "none"
  call,       \* its parameters
  rest, args, \* what it has not read yet of the format and of the arguments
  out         \* the characters written: to the port, or to buf[0], buf[1], ...

vars == <<printer, call, rest, args, out>>

PERCENT == 37
DASH == 45
ZERO == 48
UPPER_X == 88
LOWER_A == 97
C == 99
D == 100
L == 108
P == 112
S == 115
U == 117
X == 120
NULL_TEXT == <<40, 110, 117, 108, 108, 41>>
HEX_PREFIX == <<ZERO, X>>

------------------------------------------------------------------------------
(* Numbers.                                                                *)

as_int(n) == LET m == n % 2^INT_BITS
             IN  IF m >= 2^(INT_BITS - 1) THEN m - 2^INT_BITS ELSE m
as_long(n) == IF n >= 2^(LONG_BITS - 1) THEN n - 2^LONG_BITS ELSE n
as_uint(n) == n % 2^INT_BITS

INT_MIN == -2^(INT_BITS - 1)

digit_from_colon(r) == IF r > 10 THEN r - 10 + LOWER_A ELSE r + ZERO
digit(r) == IF r > 9 THEN r - 10 + LOWER_A ELSE r + ZERO

\* The characters the loop stores while num is not zero, lowest digit first.  For a
\* negative num C's % and / round to zero, so the remainders are negative too.
remainders(num, base) ==
  LET sign == IF num < 0 THEN -1 ELSE 1
      loop[n \in 0..2^LONG_BITS] ==
        IF n = 0 THEN <<>> ELSE <<digit(sign * (n % base))>> \o loop[n \div base]
  IN  loop[sign * num]

\* ulonglong_to_str, ulong_to_str and uint_to_str: the remainders, reversed.
ulong_to_str(num, base) ==
  IF num = 0 THEN <<ZERO>> ELSE Reverse(remainders(num, base))

\* int_to_str in base 10.  The most negative int has no negation: the build leaves it as
\* it is, or goes on with its bits taken as unsigned.
int_to_str(num) ==
  IF num >= 0 THEN {ulong_to_str(num, 10)}
  ELSE {Reverse(Append(remainders(-num, 10), DASH))}
       \cup IF num = INT_MIN THEN {Reverse(Append(remainders(num, 10), DASH))} ELSE {}

\* The 'd' of kvsnprintf: its loop ends at once when the negation is still negative.
kvsnprintf_d(num) ==
  IF num >= 0 THEN {ulong_to_str(num, 10)}
  ELSE {<<DASH>> \o ulong_to_str(-num, 10)} \cup IF num = INT_MIN THEN {<<DASH>>} ELSE {}

\* itoa of serial.c works on long long; the most negative one, negated, has the right bits
\* for the unsigned number they are then taken for.
itoa(num) == IF num < 0 THEN <<DASH>> \o ulong_to_str(-num, 10) ELSE ulong_to_str(num, 10)

write_padded(text, width, pad) == [k \in 1..Max({0, width - Len(text)}) |-> pad] \o text

upper(text) == [k \in 1..Len(text) |-> IF text[k] >= LOWER_A THEN text[k] - 32 ELSE text[k]]

text_of(arg) == IF arg.n = 0 THEN NULL_TEXT ELSE arg.s

------------------------------------------------------------------------------
(* Reading a format.                                                       *)

\* How many of the first characters of f, at most max, satisfy Is.
leading(f, max, Is(_)) ==
  Max({k \in 0..Min({max, Len(f)}) : \A i \in 1..k : Is(f[i])})

from(f, k) == SubSeq(f, k, Len(f))
char(f) == IF f = <<>> THEN 0 ELSE Head(f)

is_l(c) == c = L
is_digit(c) == c \in ZERO..(ZERO + 9)

width_of(f) == IF f = <<>> THEN 0 ELSE
  FoldLeft(LAMBDA w, c : 10 * w + (c - ZERO), 0, f)

------------------------------------------------------------------------------
(* A call.                                                                 *)

Printers == {"vsnprintf", "serial_printf", "kvsnprintf"}

Init == printer = "none" /\ call = <<>> /\ rest = <<>> /\ args = <<>> /\ out = <<>>

\* [zero |-> .., width |-> .., long |-> .., conv |-> ..] as it is written in a format;
\* conv 0 is a plain character, and a conv of 1 a lone % at the end of the format.
Spelled(d) ==
  IF d.conv = 0 THEN <<d.char>>
  ELSE <<PERCENT>> \o (IF d.zero THEN <<ZERO>> ELSE <<>>)
       \o (IF d.width > 0 THEN <<ZERO + d.width>> ELSE <<>>)
       \o [k \in 1..d.long |-> L] \o (IF d.conv = 1 THEN <<>> ELSE <<d.conv>>)

\* Only vsnprintf looks for the end of the format behind a %.
Complete(format) == \A k \in DOMAIN format : format[k].conv # 1

begin ==
  /\ printer = "none"
  /\ \E p \in Printers, f \in Formats, n \in Sizes : \E a \in Arguments(f) :
       /\ p = "vsnprintf" \/ Complete(f)
       /\ printer' = p
       /\ call' = [format |-> f, args |-> a, size |-> n]
       /\ rest' = FlattenSeq([i \in DOMAIN f |-> Spelled(f[i])])
       /\ args' = a
  /\ out' = <<>>

room == call.size - 1 - Len(out)

bounded_by_size(text) == SubSeq(text, 1, Min({Len(text), Max({0, room + 1})}))

\* As much of text as the buffer has room for, its last byte kept for the NUL.
bounded(text) == SubSeq(text, 1, Min({Len(text), Max({0, room})}))

Goes(text, used, left) ==
  /\ out' = out \o text
  /\ args' = SubSeq(args, used + 1, Len(args))
  /\ rest' = left
  /\ UNCHANGED <<printer, call>>

------------------------------------------------------------------------------
(* vsnprintf.                                                              *)

\* 0x, which nothing bounds, and then the digits as far as there is room behind it.
prefixed(digits) ==
  HEX_PREFIX \o SubSeq(digits, 1, Max({0, Min({Len(digits), room - 2})}))

\* What conversion c with long l's writes.
vsnprintf_texts(c, long, arg) ==
  CASE c = PERCENT -> {<<PERCENT>>}
    [] c = S -> {bounded(text_of(arg))}
    [] c = C -> {<<arg.n>>}
    [] c = D -> {bounded(t) : t \in int_to_str(as_int(arg.n))}
    [] c = U -> {bounded(ulong_to_str(IF long > 0 THEN arg.n ELSE as_uint(arg.n), 10))}
    [] c = X -> {bounded(ulong_to_str(IF long > 0 THEN arg.n ELSE as_uint(arg.n), 16))}
    [] c = P -> {prefixed(ulong_to_str(arg.n, 16))}
    [] OTHER -> {<<>>}

TakesArgument == {S, C, D, U, X, P}

NoArgument == [n |-> 0, s |-> <<>>]
next_argument == IF args = <<>> THEN NoArgument ELSE Head(args)

vsnprintf_goes_on == rest # <<>> /\ Len(out) < call.size - 1

vsnprintf_char ==
  /\ printer = "vsnprintf" /\ vsnprintf_goes_on
  /\ Head(rest) # PERCENT
  /\ Goes(<<Head(rest)>>, 0, Tail(rest))

\* A conversion it does not know is skipped, with no argument taken.
vsnprintf_conversion ==
  /\ printer = "vsnprintf" /\ vsnprintf_goes_on
  /\ Head(rest) = PERCENT
  /\ LET long == leading(Tail(rest), 2, is_l)
         f == from(rest, 2 + long)
     IN  IF f = <<>>
           THEN Goes(<<>>, 0, <<>>)        \* break
           ELSE \E text \in vsnprintf_texts(Head(f), long, next_argument) :
                  Goes(text, IF Head(f) \in TakesArgument THEN 1 ELSE 0, Tail(f))

------------------------------------------------------------------------------
(* serial_printf.                                                          *)

serial_value(long, arg) == IF long > 0 THEN arg.n ELSE as_uint(arg.n)
serial_signed(long, arg) == IF long > 0 THEN as_long(arg.n) ELSE as_int(arg.n)

\* What conversion c sends; one it does not know is sent as it stands.
serial_text(c, long, width, pad, arg) ==
  CASE c = D -> write_padded(itoa(serial_signed(long, arg)), width, pad)
    [] c = U -> write_padded(ulong_to_str(serial_value(long, arg), 10), width, pad)
    [] c = X -> write_padded(ulong_to_str(serial_value(long, arg), 16), width, pad)
    [] c = UPPER_X -> write_padded(upper(ulong_to_str(serial_value(long, arg), 16)), width, pad)
    [] c = P -> HEX_PREFIX \o write_padded(ulong_to_str(arg.n, 16),
                                           IF width > 0 THEN width ELSE 16, ZERO)
    [] c = C -> <<arg.n>>
    [] c = S -> text_of(arg)
    [] c = PERCENT -> <<PERCENT>>
    [] OTHER -> <<PERCENT, c>>

serial_printf ==
  /\ printer = "serial_printf" /\ rest # <<>>
  /\ IF Head(rest) # PERCENT
       THEN Goes(<<Head(rest)>>, 0, Tail(rest))
       ELSE LET zero == char(Tail(rest)) = ZERO
                f == IF zero THEN from(rest, 3) ELSE Tail(rest)
                digits == leading(f, Len(f), is_digit)
                g == from(f, digits + 1)
                long == leading(g, 2, is_l)
                h == from(g, long + 1)
            IN  Goes(serial_text(Head(h), long, width_of(SubSeq(f, 1, digits)),
                                 IF zero THEN ZERO ELSE 32, next_argument),
                     IF Head(h) \in TakesArgument \cup {UPPER_X} THEN 1 ELSE 0, Tail(h))

------------------------------------------------------------------------------
(* kvsnprintf.                                                             *)

kvsnprintf_texts(c, arg) ==
  CASE c = D -> kvsnprintf_d(as_int(arg.n))
    [] c = X -> {ulong_to_str(as_uint(arg.n), 16)}
    [] c = S -> {text_of(arg)}
    [] c = C -> {<<arg.n>>}
    [] c = PERCENT -> {<<PERCENT>>}
    [] OTHER -> {<<PERCENT, c>>}

kvsnprintf ==
  /\ printer = "kvsnprintf" /\ rest # <<>> /\ Len(out) < call.size - 1
  /\ IF Head(rest) # PERCENT
       THEN Goes(<<Head(rest)>>, 0, Tail(rest))
       ELSE LET c == rest[2]
            IN  \E text \in kvsnprintf_texts(c, next_argument) :
                  Goes(bounded(text), IF c \in {D, X, S, C} THEN 1 ELSE 0, from(rest, 3))

------------------------------------------------------------------------------

Finished ==
  /\ printer # "none"
  /\ rest = <<>> \/ (printer # "serial_printf" /\ Len(out) >= call.size - 1)

\* The loop is over; the NUL goes to buf[Len(out)].
return ==
  /\ Finished
  /\ printer' = "none" /\ call' = <<>> /\ rest' = <<>> /\ args' = <<>> /\ out' = <<>>

Next ==
  \/ begin
  \/ vsnprintf_char \/ vsnprintf_conversion
  \/ serial_printf \/ kvsnprintf
  \/ return

Spec == Init /\ [][Next]_vars

------------------------------------------------------------------------------
(* Properties.                                                             *)

Hex == <<48, 49, 50, 51, 52, 53, 54, 55, 56, 57, 97, 98, 99, 100, 101, 102>>

\* The digits of n, by position value.
Numeral(n, base) ==
  LET places == CHOOSE k \in 1..LONG_BITS : base^k > n /\ (k = 1 \/ base^(k - 1) <= n)
  IN  [i \in 1..places |-> Hex[((n \div base^(places - i)) % base) + 1]]

Integer(n) == IF n < 0 THEN <<DASH>> \o Numeral(-n, 10) ELSE Numeral(n, 10)

\* What a directive means in C.
Meaning(d, arg) ==
  LET n == IF d.long > 0 THEN arg.n ELSE as_uint(arg.n)
      i == IF d.long > 0 THEN as_long(arg.n) ELSE as_int(arg.n)
      filled(t) == IF Len(t) >= d.width THEN t
                   ELSE [k \in 1..(d.width - Len(t)) |-> IF d.zero THEN ZERO ELSE 32] \o t
  IN  CASE d.conv = 0 -> <<d.char>>
        [] d.conv = 1 -> <<>>
        [] d.conv = D -> filled(Integer(i))
        [] d.conv = U -> filled(Numeral(n, 10))
        [] d.conv = X -> filled(Numeral(n, 16))
        [] d.conv = UPPER_X -> filled(upper(Numeral(n, 16)))
        [] d.conv = P -> HEX_PREFIX \o Numeral(arg.n, 16)
        [] d.conv = S -> IF arg.n = 0 THEN NULL_TEXT ELSE arg.s
        [] d.conv = C -> <<arg.n>>
        [] OTHER -> <<PERCENT>>

\* The directives each printer has, with the values it has them for.  A negative number
\* filled with zeros has its sign behind them, and a pointer has 16 digits on the port.
Has(p, d, arg) ==
  CASE p = "vsnprintf" ->
         /\ ~d.zero /\ d.width = 0 /\ d.conv # UPPER_X
         /\ d.conv = D => as_int(arg.n) # INT_MIN
         /\ d.conv = D /\ d.long > 0 => as_int(arg.n) = as_long(arg.n)
    [] p = "kvsnprintf" ->
         /\ ~d.zero /\ d.width = 0 /\ d.conv \notin {UPPER_X, U, P}
         /\ d.conv \notin {0, 1} => d.long = 0
         /\ d.conv = D => as_int(arg.n) # INT_MIN
    [] OTHER ->
         /\ d.conv \in {S, C} => d.width = 0
         /\ d.conv # P
         /\ d.conv = D /\ d.zero =>
              (IF d.long > 0 THEN as_long(arg.n) ELSE as_int(arg.n)) >= 0

\* The argument that belongs to the k-th directive of format.
ArgumentOf(k) ==
  LET before == Cardinality({i \in 1..(k - 1) :
                  call.format[i].conv \in TakesArgument \cup {UPPER_X}})
  IN  IF before < Len(call.args) THEN call.args[before + 1] ELSE NoArgument

Asked == FlattenSeq([k \in DOMAIN call.format |-> Meaning(call.format[k], ArgumentOf(k))])

AllHad == \A k \in DOMAIN call.format : Has(printer, call.format[k], ArgumentOf(k))

\* A printer whose call uses only what it has prints what C's printf would, and when a
\* buffer is full, the beginning of it: parsing the directives, taking the arguments in
\* order, narrowing them, their digits, padding and truncation.
PrintsWhatIsAsked ==
  printer # "none" /\ AllHad =>
    /\ IsPrefix(out, Asked)
    /\ Finished => \/ out = Asked
                   \/ printer # "serial_printf" /\ Len(out) >= call.size - 1

\* The NUL fits: no conversion runs over the end of the buffer of size bytes, with one
\* exception, %p on the last byte before the NUL (util.c:416), whose x takes the NUL's place
\* and puts the NUL one byte behind the buffer.
StaysInBuffer ==
  printer \in {"vsnprintf", "kvsnprintf"} =>
    \/ Len(out) < call.size
    \/ /\ Len(out) = call.size /\ printer = "vsnprintf"
       /\ IsSuffix(HEX_PREFIX, out)
       /\ \E k \in DOMAIN call.format : call.format[k].conv = P
==============================================================================
