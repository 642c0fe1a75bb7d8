------------------------------ MODULE ShellProofs ------------------------------
(***************************************************************************)
(* For every length of the input line, every size of the history and every *)
(* sequence of keys: the shell's strings end inside their buffers, the     *)
(* history keeps its lines, and the shell implements LineEditor.           *)
(*                                                                         *)
(* The invariant adds to the checked properties that the text of the line  *)
(* holds no NUL, so that strlen finds at Enter exactly what was typed, and *)
(* how many lines the history holds.  That strcpy copies no NUL is what    *)
(* makes the statement about the last cells necessary: a string ends there *)
(* at the latest, because no copy ever writes there anything but a NUL.    *)
(***************************************************************************)
EXTENDS Shell, SequenceTheorems, WellFoundedInduction, TLAPS

------------------------------------------------------------------------------
(* Numbers and sequences.                                                  *)

\* A search upwards that can succeed stops at a first success.
LEMMA LeastNat ==
  ASSUME NEW S, S \subseteq Nat, S # {}
  PROVE  \E x \in S : \A y \in S : x <= y
  <1>1. PICK x \in S : \A y \in S : ~ (<<y, x>> \in OpToRel(<, Nat))
    BY NatLessThanWellFounded, WFMin, Zenon
  <1>2. \A y \in S : ~ (y < x)
    BY <1>1 DEF OpToRel
  <1> QED
    BY <1>2

\* A remainder is less than its modulus.
LEMMA ModRange ==
  ASSUME NEW x \in Int, NEW m \in Nat \ {0}
  PROVE  x % m \in 0..(m - 1)
  OBVIOUS

\* Two counters with the same remainder are equal or at least the modulus apart (two
\* slots of a ring).
LEMMA ModApart ==
  ASSUME NEW m \in Nat \ {0}, NEW x \in Nat, NEW y \in Nat, x % m = y % m, x <= y, y < x + m
  PROVE  x = y
  <1> DEFINE p == x \div m
             q == y \div m
  <1>1. p \in Int /\ x = m * p + (x % m)
    OBVIOUS
  <1>2. q \in Int /\ y = m * q + (y % m)
    OBVIOUS
  <1> HIDE DEF p, q
  <1>3. y - x = m * (q - p)
    BY <1>1, <1>2, ModRange
  <1>4. q - p <= 0 \/ q - p >= 1
    BY <1>1, <1>2
  <1>5. ASSUME NEW k \in Int, k >= 1 PROVE m * k >= m
    BY <1>5
  <1>6. ASSUME NEW k \in Int, k <= 0 PROVE m * k <= 0
    BY <1>6
  <1> QED
    BY <1>1, <1>2, <1>3, <1>4, <1>5, <1>6

\* A new element after position i (a block linked in after its predecessor).
LEMMA InsertAtProps ==
  ASSUME NEW S, NEW s \in Seq(S), NEW i \in 0..Len(s), NEW e \in S
  PROVE  /\ InsertAt(s, i + 1, e) \in Seq(S)
         /\ Len(InsertAt(s, i + 1, e)) = Len(s) + 1
         /\ \A j \in 1..(Len(s) + 1) :
              InsertAt(s, i + 1, e)[j] = IF j <= i THEN s[j] ELSE IF j = i + 1 THEN e ELSE s[j - 1]
  <1> DEFINE p == SubSeq(s, 1, i)
             q == SubSeq(s, i + 1, Len(s))
             t == p \o <<e>>
  <1>1. p \in Seq(S) /\ Len(p) = i /\ \A j \in 1..i : p[j] = s[j]
    OBVIOUS
  <1>2. q \in Seq(S) /\ Len(q) = Len(s) - i /\ \A j \in 1..(Len(s) - i) : q[j] = s[i + j]
    OBVIOUS
  <1>3. InsertAt(s, i + 1, e) = t \o q
    <2>1. (i + 1) - 1 = i
      OBVIOUS
    <2> QED BY <2>1, Zenon DEF InsertAt
  <1> HIDE DEF p, q
  <1>4. /\ t \in Seq(S) /\ Len(t) = i + 1
        /\ \A j \in 1..(i + 1) : t[j] = IF j <= i THEN s[j] ELSE e
    BY <1>1
  <1> HIDE DEF t
  <1>5. /\ t \o q \in Seq(S) /\ Len(t \o q) = Len(t) + Len(q)
        /\ \A j \in 1..(Len(t) + Len(q)) :
             (t \o q)[j] = IF j <= Len(t) THEN t[j] ELSE q[j - Len(t)]
    BY <1>2, <1>4, ConcatProperties
  <1>6. Len(s) \in Nat
    BY LenProperties
  <1>7. ASSUME NEW j \in 1..(Len(s) + 1)
        PROVE  (t \o q)[j] = IF j <= i THEN s[j] ELSE IF j = i + 1 THEN e ELSE s[j - 1]
    <2>1. CASE j <= i + 1
      BY <2>1, <1>2, <1>4, <1>5, <1>6
    <2>2. CASE j > i + 1
      <3>1. PICK k \in 1..(Len(s) - i) : k = j - (i + 1)
        BY <2>2, <1>6
      <3>2. (t \o q)[j] = q[k]
        BY <2>2, <3>1, <1>2, <1>4, <1>5, <1>6
      <3>3. q[k] = s[i + k]
        BY <1>2
      <3>4. i + k = j - 1
        BY <3>1, <1>6
      <3> QED BY <3>2, <3>3, <3>4, <2>2, <1>6
    <2>3. j <= i + 1 \/ j > i + 1
      BY <1>6
    <2> QED BY <2>1, <2>2, <2>3, Zenon
  <1>8. Len(t \o q) = Len(s) + 1
    BY <1>2, <1>4, <1>5, <1>6
  <1> QED
    BY <1>3, <1>5, <1>7, <1>8, Zenon

\* One element of a sequence with one element more.
LEMMA InsertAtElement ==
  ASSUME NEW S, NEW s \in Seq(S), NEW i \in 0..Len(s), NEW e \in S, NEW j \in 1..(Len(s) + 1)
  PROVE  InsertAt(s, i + 1, e)[j] = IF j <= i THEN s[j] ELSE IF j = i + 1 THEN e ELSE s[j - 1]
  BY InsertAtProps

\* Position i is dropped (a block unlinked, a process table entry closed up).
LEMMA RemoveAtProps ==
  ASSUME NEW S, NEW s \in Seq(S), NEW i \in 1..Len(s)
  PROVE  /\ RemoveAt(s, i) \in Seq(S)
         /\ Len(RemoveAt(s, i)) = Len(s) - 1
         /\ \A j \in 1..(Len(s) - 1) :
              RemoveAt(s, i)[j] = IF j < i THEN s[j] ELSE s[j + 1]
  <1> DEFINE p == SubSeq(s, 1, i - 1)
             q == SubSeq(s, i + 1, Len(s))
  <1>1. p \in Seq(S) /\ Len(p) = i - 1 /\ \A j \in 1..(i - 1) : p[j] = s[j]
    OBVIOUS
  <1>2. q \in Seq(S) /\ Len(q) = Len(s) - i /\ \A j \in 1..(Len(s) - i) : q[j] = s[i + j]
    OBVIOUS
  <1>3. RemoveAt(s, i) = p \o q
    BY DEF RemoveAt
  <1> HIDE DEF p, q
  <1>4. /\ p \o q \in Seq(S) /\ Len(p \o q) = Len(p) + Len(q)
        /\ \A j \in 1..(Len(p) + Len(q)) :
             (p \o q)[j] = IF j <= Len(p) THEN p[j] ELSE q[j - Len(p)]
    BY <1>1, <1>2, ConcatProperties
  <1>5. Len(s) \in Nat
    BY LenProperties
  <1>6. ASSUME NEW j \in 1..(Len(s) - 1)
        PROVE  (p \o q)[j] = IF j < i THEN s[j] ELSE s[j + 1]
    <2>1. CASE j < i
      BY <2>1, <1>1, <1>2, <1>4, <1>5
    <2>2. CASE j >= i
      <3>1. PICK k \in 1..(Len(s) - i) : k = j - (i - 1)
        BY <2>2, <1>5
      <3>2. (p \o q)[j] = q[k]
        BY <2>2, <3>1, <1>1, <1>2, <1>4, <1>5
      <3>3. q[k] = s[i + k] /\ i + k = j + 1
        BY <3>1, <1>2
      <3> QED BY <3>2, <3>3, <2>2
    <2>3. j < i \/ j >= i
      BY <1>5
    <2> QED BY <2>1, <2>2, <2>3, Zenon
  <1>7. Len(p \o q) = Len(s) - 1
    BY <1>1, <1>2, <1>4, <1>5
  <1> QED
    BY <1>3, <1>4, <1>6, <1>7, Zenon

\* A text of n characters is a sequence.
LEMMA FunctionIsSeq ==
  ASSUME NEW S, NEW n \in Nat, NEW f \in [1..n -> S]
  PROVE  f \in Seq(S) /\ Len(f) = n
  <1>1. f \in Seq(S)
    BY SeqDef
  <1>2. 1..Len(f) = 1..n /\ Len(f) \in Nat
    BY <1>1, LenProperties
  <1> QED
    BY <1>1, <1>2

\* IsPrefix, character by character.
LEMMA PrefixProps ==
  ASSUME NEW S, NEW s \in Seq(S), NEW t \in Seq(S)
  PROVE  IsPrefix(s, t) <=> Len(s) <= Len(t) /\ \A i \in 1..Len(s) : s[i] = t[i]
  <1>1. Len(s) \in Nat /\ Len(t) \in Nat
    BY LenProperties
  <1>2. /\ SubSeq(s, 1, Len(s)) \in Seq(S) /\ Len(SubSeq(s, 1, Len(s))) = Len(s)
        /\ \A i \in 1..Len(s) : SubSeq(s, 1, Len(s))[i] = s[i]
    OBVIOUS
  <1>3. ASSUME Len(s) <= Len(t)
        PROVE  /\ SubSeq(t, 1, Len(s)) \in Seq(S) /\ Len(SubSeq(t, 1, Len(s))) = Len(s)
               /\ \A i \in 1..Len(s) : SubSeq(t, 1, Len(s))[i] = t[i]
    BY <1>1, <1>3
  <1>4. ASSUME IsPrefix(s, t)
        PROVE  Len(s) <= Len(t) /\ \A i \in 1..Len(s) : s[i] = t[i]
    <2>1. Len(s) <= Len(t) /\ SubSeq(s, 1, Len(s)) = SubSeq(t, 1, Len(s))
      BY <1>4 DEF IsPrefix
    <2> QED
      BY <2>1, <1>2, <1>3
  <1>5. ASSUME Len(s) <= Len(t), \A i \in 1..Len(s) : s[i] = t[i]
        PROVE  IsPrefix(s, t)
    <2>1. SubSeq(s, 1, Len(s)) = SubSeq(t, 1, Len(s))
      BY <1>2, <1>3, <1>5, SeqEqual
    <2> QED
      BY <1>5, <2>1 DEF IsPrefix
  <1> QED
    BY <1>4, <1>5

\* What starts a text starts every text that one starts.
LEMMA PrefixTransitive ==
  ASSUME NEW S, NEW s \in Seq(S), NEW t \in Seq(S), NEW u \in Seq(S),
         IsPrefix(s, t), IsPrefix(t, u)
  PROVE  IsPrefix(s, u)
  <1>1. Len(s) \in Nat /\ Len(t) \in Nat /\ Len(u) \in Nat
    BY LenProperties
  <1>2. Len(s) <= Len(t) /\ \A i \in 1..Len(s) : s[i] = t[i]
    BY PrefixProps
  <1>3. Len(t) <= Len(u) /\ \A i \in 1..Len(t) : t[i] = u[i]
    BY PrefixProps
  <1>4. Len(s) <= Len(u) /\ \A i \in 1..Len(s) : s[i] = u[i]
    BY <1>1, <1>2, <1>3
  <1> QED
    BY <1>4, PrefixProps

------------------------------------------------------------------------------
(* The inductive invariant.                                                *)

\* The text of the line holds no NUL.
TextInv == \A i \in 0..(input_index - 1) : input_buffer[i] # NUL

\* The lines that are kept, by number.
EnteredInv ==
  Len(entered) = IF history_index < MAX_HISTORY_ENTRIES THEN history_index ELSE MAX_HISTORY_ENTRIES

\* The inductive invariant.
ShellInv == StringsEnd /\ TextInv /\ EnteredInv /\ HistoryKeepsLines

LastCell == MAX_INPUT_LENGTH - 1

------------------------------------------------------------------------------
(* strlen, strcpy and strncpy.                                             *)

\* The sizes, as numbers.
LEMMA Sizes ==
  /\ MAX_INPUT_LENGTH \in Nat /\ MAX_INPUT_LENGTH >= 2
  /\ MAX_HISTORY_ENTRIES \in Nat \ {0} /\ CMD_LIMIT \in Nat
  /\ LastCell \in Cells /\ 0 \in Cells /\ 0 # LastCell
  /\ \A i : i \in Cells <=> i \in Nat /\ i < MAX_INPUT_LENGTH
  /\ NUL \notin Chars
  BY ShellAssumption DEF LastCell, Cells, NUL, Chars, Letters, Control

\* strlen is the number of the first cell with a NUL, and of no other.
LEMMA StrlenProps ==
  ASSUME NEW b \in Buffers
  PROVE  /\ strlen(b) \in 0..MAX_INPUT_LENGTH
         /\ \A i \in 0..(strlen(b) - 1) : b[i] # NUL
         /\ strlen(b) < MAX_INPUT_LENGTH => b[strlen(b)] = NUL
  <1> DEFINE P(n) == /\ \A i \in 0..(n - 1) : b[i] # NUL
                     /\ n < MAX_INPUT_LENGTH => b[n] = NUL
             S == {i \in Cells : b[i] = NUL}
  <1>1. \E n \in 0..MAX_INPUT_LENGTH : P(n)
    <2>1. CASE S = {}
      <3>1. P(MAX_INPUT_LENGTH) /\ MAX_INPUT_LENGTH \in 0..MAX_INPUT_LENGTH
        BY <2>1, Sizes
      <3> QED
        BY <3>1
    <2>2. CASE S # {}
      <3>1. S \subseteq Nat
        BY Sizes
      <3>2. PICK n \in S : \A y \in S : n <= y
        BY <2>2, <3>1, LeastNat
      <3>3. n \in 0..MAX_INPUT_LENGTH /\ P(n)
        BY <3>2, Sizes
      <3> QED
        BY <3>3
    <2> QED
      BY <2>1, <2>2
  <1>2. strlen(b) = CHOOSE n \in 0..MAX_INPUT_LENGTH : P(n)
    BY DEF strlen
  <1> HIDE DEF P
  <1>3. strlen(b) \in 0..MAX_INPUT_LENGTH /\ P(strlen(b))
    BY <1>1, <1>2, Zenon
  <1> QED
    BY <1>3 DEF P

\* strlen finds the first NUL.
LEMMA StrlenIs ==
  ASSUME NEW b \in Buffers, NEW n \in 0..(MAX_INPUT_LENGTH - 1),
         \A i \in 0..(n - 1) : b[i] # NUL, b[n] = NUL
  PROVE  strlen(b) = n
  <1>1. strlen(b) \in Nat /\ n \in Nat /\ n < MAX_INPUT_LENGTH
    BY StrlenProps, Sizes
  <1>2. ~(strlen(b) < n)
    BY <1>1, StrlenProps, Sizes
  <1>3. ~(n < strlen(b))
    BY <1>1, StrlenProps, Sizes
  <1> QED
    BY <1>1, <1>2, <1>3

\* A string that ends in the last cell at the latest is shorter than its buffer.
LEMMA StrlenShort ==
  ASSUME NEW b \in Buffers, b[LastCell] = NUL
  PROVE  strlen(b) \in 0..(MAX_INPUT_LENGTH - 1)
  BY StrlenProps, Sizes DEF LastCell

\* The string in a buffer, as a sequence of characters.
LEMMA StringProps ==
  ASSUME NEW b \in Buffers
  PROVE  /\ string(b) \in Seq(Chars) /\ Len(string(b)) = strlen(b)
         /\ \A i \in 1..strlen(b) : string(b)[i] = b[i - 1]
  <1>1. strlen(b) \in Nat /\ strlen(b) <= MAX_INPUT_LENGTH
    BY StrlenProps, Sizes
  <1>2. ASSUME NEW i \in 1..strlen(b)
        PROVE  b[i - 1] \in Chars
    <2>1. i - 1 \in Cells /\ i - 1 \in 0..(strlen(b) - 1)
      BY <1>1, Sizes
    <2> QED
      BY <2>1, StrlenProps DEF Buffers
  <1>3. string(b) \in [1..strlen(b) -> Chars]
    BY <1>2 DEF string
  <1> QED
    BY <1>1, <1>3, FunctionIsSeq DEF string

\* strcpy writes no character into the last cell, and what it copied starts the result.
LEMMA StrcpyProps ==
  ASSUME NEW dest \in Buffers, NEW src \in Buffers, dest[LastCell] = NUL, src[LastCell] = NUL
  PROVE  /\ strcpy(dest, src) \in Buffers /\ strcpy(dest, src)[LastCell] = NUL
         /\ IsPrefix(string(src), string(strcpy(dest, src)))
  <1> DEFINE b == strcpy(dest, src)
  <1>1. strlen(src) \in 0..(MAX_INPUT_LENGTH - 1)
    BY StrlenShort
  <1>2. b \in Buffers /\ \A i \in Cells : b[i] = IF i < strlen(src) THEN src[i] ELSE dest[i]
    BY DEF strcpy, Buffers
  <1> HIDE DEF b
  <1>3. b[LastCell] = NUL
    BY <1>1, <1>2, Sizes DEF LastCell
  <1>4. strlen(b) \in 0..(MAX_INPUT_LENGTH - 1)
    BY <1>2, <1>3, StrlenShort
  <1>5. strlen(src) <= strlen(b)
    <2> SUFFICES ASSUME strlen(b) < strlen(src) PROVE FALSE
      BY <1>1, <1>4, Sizes
    <2>1. strlen(b) \in Cells /\ strlen(b) \in 0..(strlen(src) - 1) /\ b[strlen(b)] = NUL
      BY <1>1, <1>2, <1>4, StrlenProps, Sizes
    <2> QED
      BY <2>1, <1>2, StrlenProps
  <1>6. \A i \in 1..strlen(src) : string(b)[i] = string(src)[i]
    <2> SUFFICES ASSUME NEW i \in 1..strlen(src) PROVE string(b)[i] = string(src)[i]
      OBVIOUS
    <2>1. i \in 1..strlen(b) /\ i - 1 \in Cells /\ i - 1 < strlen(src)
      BY <1>1, <1>4, <1>5, Sizes
    <2> QED
      BY <2>1, <1>2, StringProps
  <1>7. IsPrefix(string(src), string(b))
    BY <1>2, <1>5, <1>6, StringProps, PrefixProps
  <1> QED
    BY <1>2, <1>3, <1>7 DEF b

\* strncpy copies the string and fills up with NULs.
LEMMA StrncpyProps ==
  ASSUME NEW src \in Buffers, src[LastCell] = NUL
  PROVE  /\ strncpy(src) \in Buffers /\ strncpy(src)[LastCell] = NUL
         /\ strlen(strncpy(src)) = strlen(src)
         /\ string(strncpy(src)) = string(src)
  <1> DEFINE b == strncpy(src)
  <1>1. strlen(src) \in 0..(MAX_INPUT_LENGTH - 1)
    BY StrlenShort
  <1>2. b \in Buffers /\ \A i \in Cells : b[i] = IF i < strlen(src) THEN src[i] ELSE NUL
    BY DEF strncpy, Buffers
  <1> HIDE DEF b
  <1>3. b[LastCell] = NUL
    BY <1>1, <1>2, Sizes DEF LastCell
  <1>4. /\ strlen(src) \in Cells /\ b[strlen(src)] = NUL
        /\ \A i \in 0..(strlen(src) - 1) : b[i] # NUL /\ b[i] = src[i]
    BY <1>1, <1>2, StrlenProps, Sizes
  <1>5. strlen(b) = strlen(src)
    BY <1>1, <1>2, <1>4, StrlenIs
  <1>6. string(b) = string(src)
    <2>1. \A i \in 1..strlen(src) : i - 1 \in 0..(strlen(src) - 1)
      BY <1>1
    <2> QED
      BY <1>4, <1>5, <2>1 DEF string
  <1> QED
    BY <1>2, <1>3, <1>5, <1>6 DEF b

------------------------------------------------------------------------------
(* The line.                                                               *)

\* The text of the line, as a sequence of characters.
LEMMA LineProps ==
  ASSUME StringsEnd, TextInv
  PROVE  /\ Line \in Seq(Chars) /\ Len(Line) = input_index
         /\ \A i \in 1..input_index : Line[i] = input_buffer[i - 1]
  <1>1. input_index \in Nat /\ input_index < MAX_INPUT_LENGTH /\ input_buffer \in Buffers
    BY Sizes DEF StringsEnd, TypeOK
  <1>2. ASSUME NEW i \in 1..input_index PROVE input_buffer[i - 1] \in Chars
    <2>1. i - 1 \in Cells /\ i - 1 \in 0..(input_index - 1)
      BY <1>1, Sizes
    <2> QED
      BY <1>1, <2>1 DEF TextInv, Buffers
  <1>3. Line \in [1..input_index -> Chars]
    BY <1>2 DEF Line
  <1> QED
    BY <1>1, <1>3, FunctionIsSeq DEF Line

\* What a step that edits the line has to keep.
EditOK ==
  /\ input_buffer' \in Buffers /\ input_buffer'[LastCell] = NUL
  /\ input_index' \in 0..(MAX_INPUT_LENGTH - 1) /\ cursor_pos' \in 0..input_index'
  /\ TextInv'

\* A step that leaves the history alone.
LEMMA EditKeeps ==
  ASSUME ShellInv, EditOK, UNCHANGED <<history, history_index, waiting, entered>>,
         history_current' \in 0..history_index,
         modifiers' \in [{"shift", "ctrl", "caps_lock"} -> BOOLEAN]
  PROVE  ShellInv'
  <1>1. StringsEnd'
    BY DEF ShellInv, StringsEnd, TypeOK, EditOK, LastCell
  <1>2. HistoryKeepsLines' /\ EnteredInv'
    BY DEF ShellInv, HistoryKeepsLines, EnteredInv, Kept, Entered, Slot
  <1> QED
    BY <1>1, <1>2 DEF ShellInv, EditOK

\* A text with one character more, character by character.
LEMMA InsertedText ==
  ASSUME NEW s \in Seq(Chars), NEW p \in 0..Len(s), NEW c \in Chars
  PROVE  \A j \in 1..(Len(s) + 1) :
           InsertAt(s, p + 1, c)[j] = IF j <= p THEN s[j] ELSE IF j = p + 1 THEN c ELSE s[j - 1]
  BY InsertAtElement

\* A character goes in at the cursor.
LEMMA InsertEdits ==
  ASSUME StringsEnd, TextInv, NEW c \in Chars, input_char(c)
  PROVE  EditOK /\ Line' = InsertAt(Line, cursor_pos + 1, c)
  <1>1. /\ input_index \in Nat /\ input_index < MAX_INPUT_LENGTH - 1 /\ input_buffer \in Buffers
        /\ cursor_pos \in 0..input_index /\ input_buffer[LastCell] = NUL
    BY Sizes DEF StringsEnd, TypeOK, input_char, has_room, LastCell
  <1>2. /\ input_index' = input_index + 1 /\ cursor_pos' = cursor_pos + 1
        /\ \A i \in Cells : input_buffer'[i] = IF i = cursor_pos THEN c
                              ELSE IF cursor_pos < i /\ i <= input_index THEN input_buffer[i - 1]
                              ELSE input_buffer[i]
    BY DEF input_char, shifted_up
  <1>3. input_buffer' \in Buffers
    <2>1. \A i \in Cells : cursor_pos < i => i - 1 \in Cells
      BY <1>1, Sizes
    <2> QED
      BY <1>1, <2>1 DEF input_char, shifted_up, Buffers
  <1>4. input_buffer'[LastCell] = NUL
    BY <1>1, <1>2, Sizes DEF LastCell
  <1>5. ASSUME NEW i \in 0..input_index
        PROVE  input_buffer'[i] # NUL
    <2>1. i \in Cells
      BY <1>1, Sizes
    <2>2. CASE i = cursor_pos
      BY <1>2, <2>1, <2>2, Sizes
    <2>3. CASE i < cursor_pos
      BY <1>1, <1>2, <2>1, <2>3 DEF TextInv
    <2>4. CASE i > cursor_pos
      <3>1. i - 1 \in 0..(input_index - 1) /\ input_buffer'[i] = input_buffer[i - 1]
        BY <1>1, <1>2, <2>1, <2>4
      <3> QED
        BY <3>1 DEF TextInv
    <2> QED
      BY <1>1, <2>2, <2>3, <2>4
  <1>6. TextInv'
    BY <1>1, <1>2, <1>5 DEF TextInv
  <1>7. EditOK
    BY <1>1, <1>2, <1>3, <1>4, <1>6, Sizes DEF EditOK
  <1>8. /\ Line \in Seq(Chars) /\ Len(Line) = input_index
        /\ \A i \in 1..input_index : Line[i] = input_buffer[i - 1]
    BY LineProps
  <1> DEFINE new == InsertAt(Line, cursor_pos + 1, c)
  <1>9. /\ new \in Seq(Chars) /\ Len(new) = input_index + 1
        /\ \A j \in 1..(input_index + 1) :
             new[j] = IF j <= cursor_pos THEN Line[j] ELSE IF j = cursor_pos + 1 THEN c ELSE Line[j - 1]
    <2>1. cursor_pos \in 0..Len(Line)
      BY <1>1, <1>8
    <2>2. PICK s \in Seq(Chars) : s = Line
      BY <1>8
    <2>3. PICK p \in 0..Len(s) : p = cursor_pos
      BY <2>1, <2>2
    <2>4. InsertAt(s, p + 1, c) \in Seq(Chars) /\ Len(InsertAt(s, p + 1, c)) = Len(s) + 1
      BY InsertAtProps
    <2>6. \A j \in 1..(Len(s) + 1) :
            InsertAt(s, p + 1, c)[j] = IF j <= p THEN s[j] ELSE IF j = p + 1 THEN c ELSE s[j - 1]
      BY InsertedText
    <2>5. new = InsertAt(s, p + 1, c)
      BY <2>2, <2>3
    <2> HIDE DEF new
    <2> QED
      BY <1>8, <2>2, <2>3, <2>4, <2>5, <2>6
  <1> HIDE DEF new
  <1>10. ASSUME NEW j \in 1..(input_index + 1)
         PROVE  input_buffer'[j - 1] = new[j]
    <2>1. j - 1 \in Cells
      BY <1>1, Sizes
    <2>2. CASE j <= cursor_pos
      <3>1. j \in 1..input_index
        BY <1>1, <2>2
      <3> QED
        BY <1>1, <1>2, <1>8, <1>9, <2>1, <2>2, <3>1
    <2>3. CASE j = cursor_pos + 1
      BY <1>1, <1>2, <1>9, <2>1, <2>3
    <2>4. CASE j > cursor_pos + 1
      <3>1. j - 1 \in 1..input_index /\ cursor_pos < j - 1 /\ j - 1 <= input_index
        BY <1>1, <2>4
      <3>2. input_buffer'[j - 1] = input_buffer[(j - 1) - 1]
        BY <1>1, <1>2, <2>1, <3>1
      <3>3. new[j] = Line[j - 1]
        BY <1>1, <1>9, <2>4
      <3> QED
        BY <1>8, <3>1, <3>2, <3>3
    <2> QED
      BY <1>1, <2>2, <2>3, <2>4
  <1>11. new = [j \in 1..(input_index + 1) |-> new[j]]
    BY <1>9, LenProperties
  <1>12. Line' = new
    BY <1>2, <1>10, <1>11 DEF Line
  <1> QED
    BY <1>7, <1>12 DEF new

\* The character in cell k goes, and the rest closes up.
LEMMA RemoveEdits ==
  ASSUME StringsEnd, TextInv, NEW k \in 0..(input_index - 1),
         input_buffer' = closed_up(k), input_index' = input_index - 1, cursor_pos' \in 0..input_index'
  PROVE  EditOK /\ Line' = RemoveAt(Line, k + 1)
  <1>1. /\ input_index \in Nat /\ input_index < MAX_INPUT_LENGTH /\ input_buffer \in Buffers
        /\ input_buffer[LastCell] = NUL /\ k \in Nat /\ k < input_index
    BY Sizes DEF StringsEnd, TypeOK, LastCell
  <1>2. \A i \in Cells : input_buffer'[i] = IF i = input_index - 1 THEN NUL
                           ELSE IF k <= i /\ i < input_index - 1 THEN input_buffer[i + 1]
                           ELSE input_buffer[i]
    BY DEF closed_up
  <1>3. input_buffer' \in Buffers
    <2>1. \A i \in Cells : i < input_index - 1 => i + 1 \in Cells
      BY <1>1, Sizes
    <2> QED
      BY <1>1, <2>1 DEF closed_up, Buffers
  <1>4. input_buffer'[LastCell] = NUL
    BY <1>1, <1>2, Sizes DEF LastCell
  <1>5. ASSUME NEW i \in 0..(input_index - 2)
        PROVE  input_buffer'[i] # NUL
    <2>1. i \in Cells /\ i \in 0..(input_index - 1) /\ i + 1 \in 0..(input_index - 1)
      BY <1>1, Sizes
    <2> QED
      BY <1>1, <1>2, <2>1 DEF TextInv
  <1>6. TextInv'
    BY <1>1, <1>5 DEF TextInv
  <1>7. EditOK
    BY <1>1, <1>3, <1>4, <1>6, Sizes DEF EditOK
  <1>8. /\ Line \in Seq(Chars) /\ Len(Line) = input_index
        /\ \A i \in 1..input_index : Line[i] = input_buffer[i - 1]
    BY LineProps
  <1> DEFINE new == RemoveAt(Line, k + 1)
  <1>9. /\ new \in Seq(Chars) /\ Len(new) = input_index - 1
        /\ \A j \in 1..(input_index - 1) : new[j] = IF j < k + 1 THEN Line[j] ELSE Line[j + 1]
    <2>1. k + 1 \in 1..Len(Line)
      BY <1>1, <1>8
    <2> QED
      BY <1>8, <2>1, RemoveAtProps
  <1> HIDE DEF new
  <1>10. ASSUME NEW j \in 1..(input_index - 1)
         PROVE  input_buffer'[j - 1] = new[j]
    <2>1. j - 1 \in Cells /\ j - 1 # input_index - 1 /\ j - 1 < input_index - 1
          /\ j \in 1..input_index /\ j + 1 \in 1..input_index /\ (j - 1) + 1 = j /\ (j + 1) - 1 = j
      BY <1>1, Sizes
    <2>2. CASE j < k + 1
      <3>1. ~(k <= j - 1)
        BY <1>1, <2>2
      <3> QED
        BY <1>2, <1>8, <1>9, <2>1, <2>2, <3>1
    <2>3. CASE ~(j < k + 1)
      <3>1. k <= j - 1
        BY <1>1, <2>3
      <3>2. input_buffer'[j - 1] = input_buffer[(j - 1) + 1]
        BY <1>2, <2>1, <3>1
      <3>3. new[j] = Line[j + 1] /\ Line[j + 1] = input_buffer[(j + 1) - 1]
        BY <1>8, <1>9, <2>1, <2>3
      <3> QED
        BY <2>1, <3>2, <3>3
    <2> QED
      BY <2>2, <2>3
  <1>11. new = [j \in 1..(input_index - 1) |-> new[j]]
    BY <1>9, LenProperties
  <1>12. Line' = new
    BY <1>10, <1>11 DEF Line
  <1> QED
    BY <1>7, <1>12 DEF new

\* The line is cleared.
LEMMA ClearEdits ==
  ASSUME shell_clear_input
  PROVE  EditOK /\ Line' = <<>>
  <1>1. input_buffer' \in Buffers /\ input_buffer'[LastCell] = NUL
    BY Sizes DEF shell_clear_input, Empty, Buffers
  <1>2. TextInv'
    BY DEF shell_clear_input, TextInv
  <1>3. EditOK
    BY <1>1, <1>2, Sizes DEF EditOK, shell_clear_input
  <1>4. Line' = <<>>
    BY DEF Line, shell_clear_input
  <1> QED
    BY <1>3, <1>4

\* A recalled entry: the line is what strcpy made of the buffer.
LEMMA RecallEdits ==
  ASSUME StringsEnd, NEW n \in Nat, recall(n)
  PROVE  /\ EditOK /\ Line' = string(input_buffer') /\ cursor_pos' = input_index'
         /\ IsPrefix(string(Slot(n)), Line')
  <1>1. /\ input_buffer \in Buffers /\ input_buffer[LastCell] = NUL
        /\ Slot(n) \in Buffers /\ Slot(n)[LastCell] = NUL
    <2>0. n \in Int /\ MAX_HISTORY_ENTRIES \in Nat \ {0}
      BY Sizes
    <2>1. n % MAX_HISTORY_ENTRIES \in 0..(MAX_HISTORY_ENTRIES - 1)
      BY <2>0, ModRange
    <2> QED
      BY <2>1 DEF StringsEnd, TypeOK, Slot, LastCell
  <1> DEFINE b == strcpy(input_buffer, Slot(n))
  <1>2. input_buffer' = b /\ input_index' = strlen(b) /\ cursor_pos' = strlen(b)
    BY DEF recall, recall_slot, Slot
  <1>3. b \in Buffers /\ b[LastCell] = NUL /\ IsPrefix(string(Slot(n)), string(b))
    BY <1>1, StrcpyProps
  <1> HIDE DEF b
  <1>4. strlen(b) \in 0..(MAX_INPUT_LENGTH - 1) /\ \A i \in 0..(strlen(b) - 1) : b[i] # NUL
    BY <1>3, StrlenShort, StrlenProps
  <1>5. EditOK
    BY <1>2, <1>3, <1>4 DEF EditOK, TextInv
  <1>6. Line' = string(b)
    BY <1>2 DEF Line, string
  <1> QED
    BY <1>2, <1>3, <1>5, <1>6

------------------------------------------------------------------------------
(* Enter.                                                                  *)

\* The lines kept when one more is handed over.
LEMMA LatestProps ==
  ASSUME NEW s \in Seq(Seq(Chars)), NEW e \in Seq(Chars), Len(s) <= MAX_HISTORY_ENTRIES
  PROVE  /\ Latest(s, e) \in Seq(Seq(Chars))
         /\ Len(Latest(s, e)) = IF Len(s) < MAX_HISTORY_ENTRIES THEN Len(s) + 1 ELSE Len(s)
         /\ Latest(s, e)[Len(Latest(s, e))] = e
         /\ \A k \in 1..(Len(Latest(s, e)) - 1) :
              Latest(s, e)[k] = IF Len(s) < MAX_HISTORY_ENTRIES THEN s[k] ELSE s[k + 1]
  <1>1. Len(s) \in Nat /\ MAX_HISTORY_ENTRIES \in Nat /\ MAX_HISTORY_ENTRIES >= 1
    BY LenProperties, Sizes
  <1>2. CASE Len(s) < MAX_HISTORY_ENTRIES
    BY <1>1, <1>2, AppendProperties DEF Latest
  <1>3. CASE ~(Len(s) < MAX_HISTORY_ENTRIES)
    <2>1. Len(s) = MAX_HISTORY_ENTRIES
      BY <1>1, <1>3
    <2> DEFINE t == Tail(s)
    <2>2. t \in Seq(Seq(Chars)) /\ Len(t) = Len(s) - 1 /\ \A k \in 1..(Len(s) - 1) : t[k] = s[k + 1]
      BY <1>1, <2>1
    <2> HIDE DEF t
    <2>3. Latest(s, e) = Append(t, e)
      BY <1>3 DEF Latest, t
    <2> QED
      BY <1>1, <1>3, <2>1, <2>2, <2>3, AppendProperties
  <1> QED
    BY <1>2, <1>3

\* strlen finds the end that Enter marks, and so the command buffer gets the text of the line.
LEMMA CommandBuffer ==
  ASSUME StringsEnd, TextInv
  PROVE  /\ terminated \in Buffers /\ terminated[LastCell] = NUL
         /\ strncpy(terminated) \in Buffers /\ strncpy(terminated)[LastCell] = NUL
         /\ string(strncpy(terminated)) = Line
  <1>1. input_index \in 0..(MAX_INPUT_LENGTH - 1) /\ input_index \in Cells /\ input_buffer \in Buffers
        /\ input_buffer[LastCell] = NUL
    BY Sizes DEF StringsEnd, TypeOK, LastCell
  <1>2. /\ terminated \in Buffers
        /\ \A i \in Cells : terminated[i] = IF i = input_index THEN NUL ELSE input_buffer[i]
    BY <1>1 DEF terminated, Buffers
  <1>3. terminated[LastCell] = NUL
    BY <1>1, <1>2, Sizes
  <1>4. \A i \in 0..(input_index - 1) : i \in Cells /\ i # input_index
    BY <1>1, Sizes
  <1>5. strlen(terminated) = input_index
    BY <1>1, <1>2, <1>4, StrlenIs DEF TextInv
  <1>6. string(terminated) = Line
    <2>1. \A i \in 1..input_index : i - 1 \in 0..(input_index - 1)
      BY <1>1
    <2>2. \A i \in 1..input_index : terminated[i - 1] = input_buffer[i - 1]
      BY <1>2, <1>4, <2>1
    <2> QED
      BY <1>5, <2>2 DEF string, Line
  <1> QED
    BY <1>2, <1>3, <1>6, StrncpyProps

\* Enter on an empty line changes nothing but a NUL.
LEMMA EmptyEnter ==
  ASSUME ShellInv, key_enter, input_index = 0
  PROVE  ShellInv' /\ UNCHANGED <<Line, cursor_pos, entered>>
  <1>1. input_buffer' = terminated
        /\ UNCHANGED <<input_index, cursor_pos, history, history_index, history_current, waiting,
                       entered, modifiers>>
    BY DEF key_enter, historyVars
  <1>2. terminated \in Buffers /\ terminated[LastCell] = NUL
    BY CommandBuffer DEF ShellInv
  <1>3. TextInv'
    BY <1>1 DEF TextInv
  <1>4. EditOK
    BY <1>1, <1>2, <1>3 DEF EditOK, ShellInv, StringsEnd, TypeOK
  <1>5. ShellInv'
    BY <1>1, <1>4, EditKeeps DEF ShellInv, StringsEnd, TypeOK
  <1>6. Line' = Line
    BY <1>1 DEF Line
  <1> QED
    BY <1>1, <1>5, <1>6

\* Enter on a line with text files it in its slot and under its number.
LEMMA TextEnter ==
  ASSUME ShellInv, key_enter, input_index # 0
  PROVE  /\ ShellInv'
         /\ Line' = <<>> /\ cursor_pos' = 0
         /\ entered' # <<>> /\ Last(entered') = Line /\ Line # <<>>
  <1> DEFINE cb == strncpy(terminated)
             h == history_index % MAX_HISTORY_ENTRIES
             hist == [history EXCEPT ![h] = strcpy(@, cb)]
  <1>1. /\ history' = hist /\ history_index' = history_index + 1
        /\ history_current' = history_index + 1
        /\ entered' = Latest(entered, string(cb))
        /\ input_buffer' = [terminated EXCEPT ![0] = NUL]
        /\ input_index' = 0 /\ cursor_pos' = 0 /\ waiting' \in BOOLEAN /\ modifiers' = modifiers
        /\ history_index < CMD_LIMIT
    BY DEF key_enter, history_slot
  <1>2. /\ terminated \in Buffers /\ terminated[LastCell] = NUL
        /\ cb \in Buffers /\ cb[LastCell] = NUL /\ string(cb) = Line
    BY CommandBuffer DEF ShellInv
  <1> HIDE DEF cb
  <1>3. /\ history_index \in Nat /\ history_index \in Int /\ history_index + 1 \in 0..CMD_LIMIT
        /\ MAX_HISTORY_ENTRIES \in Nat \ {0} /\ entered \in Seq(Seq(Chars))
        /\ history \in [0..(MAX_HISTORY_ENTRIES - 1) -> Buffers]
        /\ \A i \in 0..(MAX_HISTORY_ENTRIES - 1) : history[i][LastCell] = NUL
    BY <1>1, Sizes DEF ShellInv, StringsEnd, TypeOK, LastCell
  <1>4. h \in 0..(MAX_HISTORY_ENTRIES - 1)
    BY <1>3, ModRange
  <1> HIDE DEF h
  <1>5. /\ strcpy(history[h], cb) \in Buffers /\ strcpy(history[h], cb)[LastCell] = NUL
        /\ IsPrefix(Line, string(strcpy(history[h], cb)))
    BY <1>2, <1>3, <1>4, StrcpyProps
  <1>6. /\ history' \in [0..(MAX_HISTORY_ENTRIES - 1) -> Buffers]
        /\ history'[h] = strcpy(history[h], cb)
        /\ \A i \in 0..(MAX_HISTORY_ENTRIES - 1) : i # h => history'[i] = history[i]
    BY <1>1, <1>3, <1>4, <1>5
  <1>7. Line \in Seq(Chars) /\ Len(Line) = input_index
    BY LineProps DEF ShellInv
  <1>8. /\ Len(entered) \in Nat
        /\ Len(entered) = IF history_index < MAX_HISTORY_ENTRIES THEN history_index ELSE MAX_HISTORY_ENTRIES
        /\ Len(entered) <= MAX_HISTORY_ENTRIES
    BY <1>3 DEF ShellInv, EnteredInv
  <1>9. /\ entered' \in Seq(Seq(Chars))
        /\ Len(entered') = IF Len(entered) < MAX_HISTORY_ENTRIES THEN Len(entered) + 1 ELSE Len(entered)
        /\ entered'[Len(entered')] = Line
        /\ \A k \in 1..(Len(entered') - 1) :
             entered'[k] = IF Len(entered) < MAX_HISTORY_ENTRIES THEN entered[k] ELSE entered[k + 1]
    <2>1. PICK e \in Seq(Chars) : e = Line
      BY <1>7
    <2>2. PICK s \in Seq(Seq(Chars)) : s = entered
      BY <1>3
    <2>3. Len(s) <= MAX_HISTORY_ENTRIES
      BY <1>8, <2>2
    <2>4. PICK l : l = Latest(s, e)
      OBVIOUS
    <2>5. entered' = l
      BY <1>1, <1>2, <2>1, <2>2, <2>4
    <2>6. /\ l \in Seq(Seq(Chars))
          /\ Len(l) = IF Len(s) < MAX_HISTORY_ENTRIES THEN Len(s) + 1 ELSE Len(s)
          /\ l[Len(l)] = e
          /\ \A k \in 1..(Len(l) - 1) :
               l[k] = IF Len(s) < MAX_HISTORY_ENTRIES THEN s[k] ELSE s[k + 1]
      <3>1. l \in Seq(Seq(Chars)) /\ l[Len(l)] = e
        BY <2>3, <2>4, LatestProps
      <3>2. Len(l) = IF Len(s) < MAX_HISTORY_ENTRIES THEN Len(s) + 1 ELSE Len(s)
        BY <2>3, <2>4, LatestProps
      <3>3. \A k \in 1..(Len(l) - 1) :
               l[k] = IF Len(s) < MAX_HISTORY_ENTRIES THEN s[k] ELSE s[k + 1]
        BY <2>3, <2>4, LatestProps
      <3> QED
        BY <3>1, <3>2, <3>3
    <2> QED
      BY <2>1, <2>2, <2>5, <2>6
  <1>10. StringsEnd'
    <2>1. input_buffer' \in Buffers /\ input_buffer'[LastCell] = NUL
      BY <1>1, <1>2, Sizes DEF Buffers
    <2>2. \A i \in 0..(MAX_HISTORY_ENTRIES - 1) : history'[i][LastCell] = NUL
      BY <1>3, <1>5, <1>6
    <2>3. DOMAIN history' = 0..(MAX_HISTORY_ENTRIES - 1)
      BY <1>6
    <2>4. modifiers \in [{"shift", "ctrl", "caps_lock"} -> BOOLEAN]
      BY DEF ShellInv, StringsEnd, TypeOK
    <2>5. TypeOK'
      BY <1>1, <1>3, <1>6, <1>9, <2>1, <2>4, Sizes DEF TypeOK
    <2> QED
      BY <2>1, <2>2, <2>3, <2>5 DEF StringsEnd, LastCell
  <1>11. TextInv'
    BY <1>1 DEF TextInv
  <1>12. EnteredInv'
    BY <1>1, <1>3, <1>8, <1>9 DEF EnteredInv
  <1>13. HistoryKeepsLines'
    <2> SUFFICES ASSUME NEW n \in Nat, n <= history_index, n >= history_index + 1 - MAX_HISTORY_ENTRIES
                 PROVE  IsPrefix(entered'[n - (history_index + 1) + Len(entered') + 1],
                                 string(history'[n % MAX_HISTORY_ENTRIES]))
      <3>1. history_index' = history_index + 1
        BY <1>1
      <3>2. ASSUME NEW n \in Kept'
            PROVE  n \in Nat /\ n <= history_index /\ n >= history_index + 1 - MAX_HISTORY_ENTRIES
        BY <1>3, <3>1 DEF Kept
      <3>3. ASSUME NEW n \in Nat
            PROVE  /\ Entered(n)' = entered'[n - (history_index + 1) + Len(entered') + 1]
                   /\ Slot(n)' = history'[n % MAX_HISTORY_ENTRIES]
        BY <3>1 DEF Entered, Slot
      <3> QED
        BY <3>2, <3>3 DEF HistoryKeepsLines
    <2>1. CASE n = history_index
      <3>1. n - (history_index + 1) + Len(entered') + 1 = Len(entered')
        BY <1>3, <1>8, <1>9, <2>1
      <3> QED
        BY <1>5, <1>6, <1>9, <2>1, <3>1 DEF h
    <2>2. CASE n < history_index
      <3>1. n % MAX_HISTORY_ENTRIES # h
        <4>1. history_index < n + MAX_HISTORY_ENTRIES /\ n <= history_index /\ n # history_index
          BY <1>3, <2>2
        <4> QED
          BY <1>3, <4>1, ModApart DEF h
      <3>2. n % MAX_HISTORY_ENTRIES \in 0..(MAX_HISTORY_ENTRIES - 1)
        BY <1>3, ModRange
      <3>3. history'[n % MAX_HISTORY_ENTRIES] = Slot(n)
        BY <1>6, <3>1, <3>2 DEF Slot
      <3>4. n \in Kept
        BY <1>3, <2>2 DEF Kept
      <3>5. IsPrefix(Entered(n), string(Slot(n)))
        BY <3>4 DEF ShellInv, HistoryKeepsLines
      <3>6. PICK k \in Int : k = n - (history_index + 1) + Len(entered') + 1
        BY <1>3, <1>8, <1>9
      <3>7. k \in 1..(Len(entered') - 1)
        BY <1>3, <1>8, <1>9, <2>2, <3>6
      <3>8. entered'[k] = Entered(n)
        <4>1. CASE Len(entered) < MAX_HISTORY_ENTRIES
          <5>1. k = n - history_index + Len(entered) + 1
            BY <1>3, <1>8, <1>9, <3>6, <4>1
          <5> QED
            BY <1>9, <3>7, <4>1, <5>1 DEF Entered
        <4>2. CASE ~(Len(entered) < MAX_HISTORY_ENTRIES)
          <5>1. k + 1 = n - history_index + Len(entered) + 1
            BY <1>3, <1>8, <1>9, <3>6, <4>2
          <5> QED
            BY <1>9, <3>7, <4>2, <5>1 DEF Entered
        <4> QED
          BY <4>1, <4>2
      <3> QED
        BY <3>3, <3>5, <3>6, <3>8
    <2> QED
      BY <1>3, <2>1, <2>2
  <1>14. Line' = <<>>
    BY <1>1 DEF Line
  <1>15. entered' # <<>> /\ Last(entered') = Line
    <2>1. Len(entered') \in Nat /\ Len(entered') >= 1
      BY <1>3, <1>8, <1>9
    <2> QED
      BY <1>9, <2>1 DEF Last
  <1>16. Line # <<>>
    BY <1>7
  <1> QED
    BY <1>1, <1>10, <1>11, <1>12, <1>13, <1>14, <1>15, <1>16 DEF ShellInv

------------------------------------------------------------------------------
(* Every step.                                                             *)

\* Initially.
LEMMA InitShell ==
  ASSUME Init
  PROVE  ShellInv /\ Editor!Init
  <1>1. Empty \in Buffers /\ Empty[LastCell] = NUL
    BY Sizes DEF Empty, Buffers
  <1>2. StringsEnd
    BY <1>1, Sizes DEF Init, StringsEnd, TypeOK, LastCell
  <1>3. TextInv /\ EnteredInv /\ HistoryKeepsLines
    BY Sizes DEF Init, TextInv, EnteredInv, HistoryKeepsLines, Kept
  <1>4. Line = <<>>
    BY DEF Init, Line
  <1> QED
    BY <1>2, <1>3, <1>4 DEF ShellInv, Init, Editor!Init

\* Steps that leave the history alone, and what they are to the line editor.
LEMMA LetterStep ==
  ASSUME ShellInv, key_letter
  PROVE  ShellInv' /\ Editor!Insert
  <1>1. PICK c \in Chars : input_char(c)
    BY DEF key_letter, get_character, Chars, Letters, Control
  <1>2. /\ has_room /\ cursor_pos' = cursor_pos + 1
        /\ UNCHANGED <<history, history_index, history_current, modifiers, waiting, entered>>
    BY <1>1 DEF input_char, historyVars
  <1>3. EditOK /\ Line' = InsertAt(Line, cursor_pos + 1, c)
    BY <1>1, InsertEdits DEF ShellInv
  <1>4. ShellInv'
    BY <1>2, <1>3, EditKeeps DEF ShellInv, StringsEnd, TypeOK
  <1>5. Len(Line) < MAX_INPUT_LENGTH - 1
    BY <1>2, LineProps DEF ShellInv, has_room
  <1> QED
    BY <1>2, <1>3, <1>4, <1>5 DEF Editor!Insert, Editor!InsertAt, InsertAt

LEMMA BackspaceStep ==
  ASSUME ShellInv, shell_backspace
  PROVE  ShellInv' /\ Editor!Rubout
  <1>1. /\ input_buffer' = closed_up(cursor_pos - 1) /\ input_index' = input_index - 1
        /\ cursor_pos' = cursor_pos - 1 /\ cursor_pos > 0
        /\ UNCHANGED <<history, history_index, history_current, modifiers, waiting, entered>>
    BY DEF shell_backspace, historyVars
  <1>2. cursor_pos \in Nat /\ input_index \in Nat /\ cursor_pos <= input_index
    BY Sizes DEF ShellInv, StringsEnd, TypeOK
  <1>3. PICK k \in 0..(input_index - 1) : k = cursor_pos - 1
    BY <1>1, <1>2
  <1>4. input_buffer' = closed_up(k) /\ cursor_pos' \in 0..input_index' /\ k + 1 = cursor_pos
    BY <1>1, <1>2, <1>3
  <1>5. EditOK /\ Line' = RemoveAt(Line, cursor_pos)
    BY <1>1, <1>4, RemoveEdits DEF ShellInv
  <1>6. ShellInv'
    BY <1>1, <1>5, EditKeeps DEF ShellInv, StringsEnd, TypeOK
  <1> QED
    BY <1>1, <1>5, <1>6 DEF Editor!Rubout, Editor!RemoveAt, RemoveAt

LEMMA DeleteStep ==
  ASSUME ShellInv, shell_delete
  PROVE  ShellInv' /\ Editor!Delete
  <1>1. /\ input_buffer' = closed_up(cursor_pos) /\ input_index' = input_index - 1
        /\ cursor_pos' = cursor_pos /\ cursor_pos < input_index
        /\ UNCHANGED <<history, history_index, history_current, modifiers, waiting, entered>>
    BY DEF shell_delete, historyVars
  <1>2. cursor_pos \in Nat /\ input_index \in Nat
    BY Sizes DEF ShellInv, StringsEnd, TypeOK
  <1>3. PICK k \in 0..(input_index - 1) : k = cursor_pos
    BY <1>1, <1>2
  <1>4. input_buffer' = closed_up(k) /\ cursor_pos' \in 0..input_index'
    BY <1>1, <1>2, <1>3
  <1>5. EditOK /\ Line' = RemoveAt(Line, cursor_pos + 1)
    BY <1>1, <1>3, <1>4, RemoveEdits DEF ShellInv
  <1>6. ShellInv'
    BY <1>1, <1>5, EditKeeps DEF ShellInv, StringsEnd, TypeOK
  <1>7. Len(Line) = input_index
    BY LineProps DEF ShellInv
  <1> QED
    BY <1>1, <1>5, <1>6, <1>7 DEF Editor!Delete, Editor!RemoveAt, RemoveAt

LEMMA MoveStep ==
  ASSUME ShellInv, shell_move_cursor
  PROVE  ShellInv' /\ Editor!Move
  <1>1. UNCHANGED <<input_buffer, input_index, history, history_index, history_current, modifiers,
                    waiting, entered>>
    BY DEF shell_move_cursor, historyVars
  <1>2. cursor_pos \in Nat /\ input_index \in Nat /\ cursor_pos <= input_index
    BY Sizes DEF ShellInv, StringsEnd, TypeOK
  <1>3. cursor_pos' \in 0..input_index
    BY <1>2 DEF shell_move_cursor
  <1>4. EditOK
    BY <1>1, <1>3 DEF ShellInv, StringsEnd, TypeOK, TextInv, EditOK, LastCell
  <1>5. ShellInv'
    BY <1>1, <1>4, EditKeeps DEF ShellInv, StringsEnd, TypeOK
  <1>6. Len(Line) = input_index /\ Line' = Line
    BY <1>1, LineProps DEF ShellInv, Line
  <1> QED
    BY <1>1, <1>3, <1>5, <1>6 DEF Editor!Move

LEMMA ClearStep ==
  ASSUME ShellInv, shell_clear_input, UNCHANGED <<history, history_index, modifiers, waiting, entered>>,
         history_current' \in 0..history_index
  PROVE  ShellInv' /\ Editor!Clear
  <1>1. EditOK /\ Line' = <<>>
    BY ClearEdits
  <1>2. ShellInv'
    BY <1>1, EditKeeps DEF ShellInv, StringsEnd, TypeOK
  <1> QED
    BY <1>1, <1>2 DEF Editor!Clear, shell_clear_input

LEMMA RecallStep ==
  ASSUME ShellInv, NEW n \in 0..history_index, recall(n),
         UNCHANGED <<history, history_index, modifiers, waiting, entered>>
  PROVE  /\ ShellInv' /\ (Editor!Recall \/ Editor!Clear)
         /\ n \in Kept => IsPrefix(Entered(n), Line')
  <1>1. n \in Nat
    BY Sizes DEF ShellInv, StringsEnd, TypeOK
  <1>2. /\ EditOK /\ Line' = string(input_buffer') /\ cursor_pos' = input_index'
        /\ IsPrefix(string(Slot(n)), Line')
    BY <1>1, RecallEdits DEF ShellInv
  <1>3. history_current' = n
    BY DEF recall
  <1>4. ShellInv'
    BY <1>2, <1>3, EditKeeps DEF ShellInv, StringsEnd, TypeOK
  <1>5. Line' \in Seq(Chars) /\ Len(Line') = cursor_pos' /\ cursor_pos' \in 0..(MAX_INPUT_LENGTH - 1)
    <2>1. Line' \in Seq(Chars) /\ Len(Line') = input_index'
      <3>1. (StringsEnd /\ TextInv)'
        BY <1>4 DEF ShellInv
      <3>2. (StringsEnd /\ TextInv => Line \in Seq(Chars) /\ Len(Line) = input_index)'
        BY LineProps, PTL
      <3> QED
        BY <3>1, <3>2
    <2> QED
      BY <1>2, <2>1 DEF EditOK
  <1>6. ASSUME cursor_pos' = 0 PROVE Editor!Clear
    <2>1. Line' = <<>>
      BY <1>5, <1>6
    <2> QED
      BY <1>6, <2>1 DEF Editor!Clear
  <1>7. ASSUME cursor_pos' # 0 PROVE Editor!Recall
    <2>1. cursor_pos' \in 1..(MAX_INPUT_LENGTH - 1)
      BY <1>5, <1>7
    <2>2. Line' \in [1..cursor_pos' -> Chars]
      BY <1>5, LenProperties
    <2> QED
      BY <2>1, <2>2 DEF Editor!Recall
  <1>8. ASSUME n \in Kept PROVE IsPrefix(Entered(n), Line')
    <2>1. IsPrefix(Entered(n), string(Slot(n)))
      BY <1>8 DEF ShellInv, HistoryKeepsLines
    <2>2. Entered(n) \in Seq(Chars)
      <3>1. /\ entered \in Seq(Seq(Chars)) /\ history_index \in Nat /\ Len(entered) \in Nat
            /\ Len(entered) = IF history_index < MAX_HISTORY_ENTRIES THEN history_index
                              ELSE MAX_HISTORY_ENTRIES
        BY Sizes DEF ShellInv, StringsEnd, TypeOK, EnteredInv
      <3>2. n - history_index + Len(entered) + 1 \in 1..Len(entered)
        BY <1>1, <1>8, <3>1, Sizes DEF Kept
      <3> QED
        BY <3>1, <3>2, ElementOfSeq DEF Entered
    <2>3. string(Slot(n)) \in Seq(Chars)
      <3>1. n \in Int /\ MAX_HISTORY_ENTRIES \in Nat \ {0}
        BY <1>1, Sizes
      <3>2. n % MAX_HISTORY_ENTRIES \in 0..(MAX_HISTORY_ENTRIES - 1)
        BY <3>1, ModRange
      <3> QED
        BY <3>2, StringProps DEF ShellInv, StringsEnd, TypeOK, Slot
    <2>4. PICK a \in Seq(Chars) : a = Entered(n)
      BY <2>2
    <2>5. PICK b \in Seq(Chars) : b = string(Slot(n))
      BY <2>3
    <2>6. PICK c \in Seq(Chars) : c = Line'
      BY <1>5
    <2>7. IsPrefix(a, b) /\ IsPrefix(b, c)
      BY <1>2, <2>1, <2>4, <2>5, <2>6
    <2>8. IsPrefix(a, c)
      BY <2>7, PrefixTransitive
    <2> QED
      BY <2>4, <2>6, <2>8
  <1> QED
    BY <1>4, <1>6, <1>7, <1>8

\* What every step keeps: the invariant, LineEditor, and what browsing shows.
StepOK ==
  /\ ShellInv'
  /\ Editor!Next \/ UNCHANGED Editor!editor
  /\ (shell_history_up \/ shell_history_down) /\ history_current' \in Kept =>
       IsPrefix(Entered(history_current'), Line')

LEMMA BrowseStep ==
  ASSUME ShellInv, shell_history_up \/ shell_history_down
  PROVE  StepOK
  <1>1. UNCHANGED <<history, history_index, modifiers, waiting, entered>>
    BY DEF shell_history_up, shell_history_down
  <1>2. history_index \in Nat /\ history_current \in 0..history_index
    BY Sizes DEF ShellInv, StringsEnd, TypeOK
  <1>3. ASSUME NEW n \in 0..history_index, recall(n) PROVE StepOK
    <2>1. /\ ShellInv' /\ (Editor!Recall \/ Editor!Clear)
          /\ n \in Kept => IsPrefix(Entered(n), Line')
      BY <1>1, <1>3, RecallStep
    <2>2. history_current' = n
      BY <1>3 DEF recall
    <2> QED
      BY <2>1, <2>2 DEF StepOK, Editor!Next
  <1>4. ASSUME history_current' = history_index, shell_clear_input PROVE StepOK
    <2>1. ShellInv' /\ Editor!Clear
      BY <1>1, <1>2, <1>4, ClearStep
    <2>2. history_current' \notin Kept
      BY <1>2, <1>4 DEF Kept
    <2> QED
      BY <2>1, <2>2 DEF StepOK, Editor!Next
  <1>5. CASE shell_history_up
    <2>1. PICK n \in 0..history_index : n = history_current - 1
      BY <1>2, <1>5 DEF shell_history_up
    <2> QED
      BY <1>3, <1>5, <2>1 DEF shell_history_up
  <1>6. CASE shell_history_down
    <2>1. CASE history_current < history_index - 1 /\ recall(history_current + 1)
      <3>1. PICK n \in 0..history_index : n = history_current + 1
        BY <1>2, <2>1
      <3> QED
        BY <1>3, <2>1, <3>1
    <2>2. CASE history_current' = history_index /\ shell_clear_input
      BY <1>4, <2>2
    <2> QED
      BY <1>6, <2>1, <2>2 DEF shell_history_down
  <1> QED
    BY <1>5, <1>6

\* The invariant only speaks of the modifiers as booleans.
LEMMA ModifierStep ==
  ASSUME ShellInv, handle_modifier
  PROVE  ShellInv' /\ UNCHANGED Editor!editor
  <1>1. UNCHANGED <<input_buffer, input_index, cursor_pos, history, history_index, history_current,
                    waiting, entered>>
    BY DEF handle_modifier, lineVars, historyVars
  <1>2. modifiers' \in [{"shift", "ctrl", "caps_lock"} -> BOOLEAN]
    BY DEF ShellInv, StringsEnd, TypeOK, handle_modifier
  <1>3. EditOK
    BY <1>1 DEF ShellInv, StringsEnd, TypeOK, TextInv, EditOK, LastCell
  <1>4. ShellInv'
    BY <1>1, <1>2, <1>3, EditKeeps DEF ShellInv, StringsEnd, TypeOK
  <1> QED
    BY <1>1, <1>4 DEF Editor!editor, Line

LEMMA EnterStep ==
  ASSUME ShellInv, key_enter
  PROVE  ShellInv' /\ (Editor!HandOver \/ UNCHANGED Editor!editor)
  <1>1. CASE input_index = 0
    BY <1>1, EmptyEnter DEF Editor!editor
  <1>2. CASE input_index # 0
    BY <1>2, TextEnter DEF Editor!HandOver
  <1> QED
    BY <1>1, <1>2

\* A step that is not browsing says nothing about the third part.
LEMMA OtherSteps ==
  ASSUME Next, ~(shell_history_up \/ shell_history_down), ShellInv
  PROVE  StepOK
  <1> SUFFICES ShellInv' /\ (Editor!Next \/ UNCHANGED Editor!editor)
    BY DEF StepOK
  <1>1. CASE handle_modifier
    BY <1>1, ModifierStep
  <1>2. CASE key_letter
    BY <1>2, LetterStep DEF Editor!Next
  <1>3. CASE shell_backspace
    BY <1>3, BackspaceStep DEF Editor!Next
  <1>4. CASE shell_delete
    BY <1>4, DeleteStep DEF Editor!Next
  <1>5. CASE shell_move_cursor
    BY <1>5, MoveStep DEF Editor!Next
  <1>6. CASE shell_cancel_input
    <2>1. shell_clear_input /\ UNCHANGED <<history, history_index, modifiers, waiting, entered>>
          /\ history_current' = history_current
      BY <1>6 DEF shell_cancel_input, historyVars
    <2>2. history_current \in 0..history_index
      BY DEF ShellInv, StringsEnd, TypeOK
    <2> QED
      BY <2>1, <2>2, ClearStep DEF Editor!Next
  <1>7. CASE key_enter
    BY <1>7, EnterStep DEF Editor!Next
  <1> QED
    BY <1>1, <1>2, <1>3, <1>4, <1>5, <1>6, <1>7 DEF Next

LEMMA StepHolds ==
  ASSUME ShellInv, Next
  PROVE  StepOK
  BY BrowseStep, OtherSteps

\* A step that changes nothing.
LEMMA StutterKeeps ==
  ASSUME ShellInv, UNCHANGED vars
  PROVE  ShellInv' /\ UNCHANGED Editor!editor
  BY DEF vars, lineVars, historyVars, ShellInv, StringsEnd, TypeOK, TextInv, EnteredInv,
         HistoryKeepsLines, Kept, Entered, Slot, Editor!editor, Line

\* The inductive invariant holds in every reachable state.
LEMMA ShellInvHolds == Spec => []ShellInv
  <1>1. Init => ShellInv
    BY InitShell
  <1>2. ShellInv /\ [Next]_vars => ShellInv'
    BY StepHolds, StutterKeeps DEF StepOK
  <1> QED
    BY <1>1, <1>2, PTL DEF Spec

\* However lines are typed, edited, recalled and copied, every buffer of the shell keeps a
\* NUL in its last cell, so that the kernel's strlen and strcpy stop inside it.
THEOREM StringsEndHolds == Spec => []StringsEnd
  BY ShellInvHolds, PTL DEF ShellInv

\* The ring of the history keeps the last MAX_HISTORY_ENTRIES lines: the slot of each
\* starts with it.
THEOREM HistoryKeepsLinesHolds == Spec => []HistoryKeepsLines
  BY ShellInvHolds, PTL DEF ShellInv

\* Up and down show the line they browse to: the prompt starts with it.
THEOREM RecallFindsLineHolds == Spec => RecallFindsLine
  <1>1. ShellInv /\ [Next]_vars =>
          [(shell_history_up \/ shell_history_down) /\ history_current' \in Kept =>
             IsPrefix(Entered(history_current'), Line')]_vars
    BY StepHolds DEF StepOK
  <1> QED
    BY <1>1, ShellInvHolds, PTL DEF Spec, RecallFindsLine

\* The shell's input line implements LineEditor: every key is an edit at the cursor, a move
\* of it, a line handed over whole, a cleared or a replaced line, or changes nothing of it.
THEOREM ShellImplementsEditor == Spec => ImplementsEditor
  <1>1. Init => Editor!Init
    BY InitShell
  <1>2. ShellInv /\ [Next]_vars => [Editor!Next]_(Editor!editor)
    BY StepHolds, StutterKeeps DEF StepOK
  <1> QED
    BY <1>1, <1>2, ShellInvHolds, PTL DEF Spec, ImplementsEditor, Editor!Spec
==============================================================================
