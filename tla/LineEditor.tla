------------------------------ MODULE LineEditor ------------------------------
(***************************************************************************)
(* What a line editor promises: a text and a cursor in it, edited at the   *)
(* cursor, that is handed over whole or replaced by a recalled text.       *)
(***************************************************************************)
EXTENDS Integers, Sequences, SequencesExt

CONSTANTS Chars, MaxLength

VARIABLES line, cursor, handed     \* handed: the last line handed over

editor == <<line, cursor, handed>>

Init == line = <<>> /\ cursor = 0 /\ handed = <<>>

\* The character goes to the cursor, which moves behind it.
Insert ==
  /\ Len(line) < MaxLength
  /\ \E c \in Chars : line' = InsertAt(line, cursor + 1, c)
  /\ cursor' = cursor + 1
  /\ UNCHANGED handed

\* The character before the cursor goes, or the one at it.
Rubout ==
  /\ cursor > 0
  /\ line' = RemoveAt(line, cursor)
  /\ cursor' = cursor - 1
  /\ UNCHANGED handed

Delete ==
  /\ cursor < Len(line)
  /\ line' = RemoveAt(line, cursor + 1)
  /\ UNCHANGED <<cursor, handed>>

Move ==
  /\ cursor' \in 0..Len(line)
  /\ UNCHANGED <<line, handed>>

Clear == line' = <<>> /\ cursor' = 0 /\ UNCHANGED handed

HandOver ==
  /\ line # <<>>
  /\ handed' = line
  /\ line' = <<>> /\ cursor' = 0

\* Some text takes the line's place, the cursor behind it.
Recall ==
  /\ cursor' \in 1..MaxLength
  /\ line' \in [1..cursor' -> Chars]
  /\ UNCHANGED handed

Next == Insert \/ Rubout \/ Delete \/ Move \/ Clear \/ HandOver \/ Recall

Spec == Init /\ [][Next]_editor
==============================================================================
