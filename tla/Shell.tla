--------------------------------- MODULE Shell --------------------------------
(***************************************************************************)
(* The keyboard driver and the shell's input line                          *)
(* (kernel/src/drivers/keyboard/ps2_keyboard.c, kernel/src/kernel/shell):  *)
(* modifiers, line editing, the command history and the dispatch of a      *)
(* line.  All of it runs in the keyboard interrupt, so one key is one step *)
(* - except pause, which waits in the handler.                             *)
(*                                                                         *)
(* Buffers are arrays of characters with NUL, and strcpy and strlen are    *)
(* the kernel's own (kernel/src/x86_64/utils/util.c): its strcpy does not  *)
(* copy the final NUL.  One letter stands for all, in both cases; the      *)
(* control characters that ctrl-l, ctrl-u and ctrl-d put into the line are *)
(* one.  What a line names is left open: a command, pause, exit, nothing.  *)
(***************************************************************************)
EXTENDS Integers, Sequences, SequencesExt

CONSTANTS
  MAX_INPUT_LENGTH,
  MAX_HISTORY_ENTRIES,
  CMD_LIMIT             \* bound: lines handed over in a behaviour

ASSUME ShellAssumption ==
  /\ MAX_INPUT_LENGTH \in Nat \ {0, 1}
  /\ MAX_HISTORY_ENTRIES \in Nat \ {0}
  /\ CMD_LIMIT \in Nat

VARIABLES
  input_buffer, input_index, cursor_pos,
  history, history_index, history_current,
  modifiers,
  waiting,              \* pause waits for received_key, in the interrupt
  entered               \* history: the last MAX_HISTORY_ENTRIES lines handed over,
                        \* oldest first

lineVars == <<input_buffer, input_index, cursor_pos>>
historyVars == <<history, history_index, history_current>>
vars == <<lineVars, historyVars, modifiers, waiting, entered>>

NUL == "nul"
Letters == {"a", "A"}
Control == "^"
Chars == Letters \cup {Control}

Cells == 0..(MAX_INPUT_LENGTH - 1)
Empty == [i \in Cells |-> NUL]

------------------------------------------------------------------------------
(* Strings in buffers.                                                     *)

\* The cells before the first NUL; all of them if there is none.
strlen(b) ==
  CHOOSE n \in 0..MAX_INPUT_LENGTH :
    /\ \A i \in 0..(n - 1) : b[i] # NUL
    /\ n < MAX_INPUT_LENGTH => b[n] = NUL

string(b) == [i \in 1..strlen(b) |-> b[i - 1]]

\* The characters of src over those of dest, and no NUL behind them.
strcpy(dest, src) == [i \in Cells |-> IF i < strlen(src) THEN src[i] ELSE dest[i]]

\* The characters of src, the rest NUL.
strncpy(src) == [i \in Cells |-> IF i < strlen(src) THEN src[i] ELSE NUL]

\* The text of the line.
Line == [i \in 1..input_index |-> input_buffer[i - 1]]

------------------------------------------------------------------------------

\* The shell_state that shell_init has cleared.  Keys typed since interrupts were enabled
\* have set the modifiers, and leave nothing else behind.
Init ==
  /\ input_buffer = Empty /\ input_index = 0 /\ cursor_pos = 0
  /\ history = [h \in 0..(MAX_HISTORY_ENTRIES - 1) |-> Empty]
  /\ history_index = 0 /\ history_current = 0
  /\ modifiers \in [{"shift", "ctrl", "caps_lock"} -> BOOLEAN]
  /\ waiting = FALSE
  /\ entered = <<>>

\* The controller delivers no key while a handler is busy.
KeyPress == ~waiting

------------------------------------------------------------------------------
(* Modifier keys.                                                          *)

handle_modifier ==
  /\ KeyPress
  /\ \/ \E on \in BOOLEAN : modifiers' = [modifiers EXCEPT !.shift = on]
     \/ \E on \in BOOLEAN : modifiers' = [modifiers EXCEPT !.ctrl = on]
     \/ modifiers' = [modifiers EXCEPT !.caps_lock = ~@]
  /\ UNCHANGED <<lineVars, historyVars, waiting, entered>>

\* The letter key gives a capital when exactly one of shift and caps lock is on.
get_character == IF modifiers.caps_lock # modifiers.shift THEN "A" ELSE "a"

------------------------------------------------------------------------------
(* Editing.                                                                *)

has_room_to_the_end == input_index < MAX_INPUT_LENGTH
\* One cell is kept for the NUL.
has_room == input_index < MAX_INPUT_LENGTH - 1

shifted_up_from_next(c) ==
  [i \in Cells |-> IF i = cursor_pos THEN c
                   ELSE IF cursor_pos + 1 < i /\ i <= input_index THEN input_buffer[i - 1]
                   ELSE input_buffer[i]]

\* The buffer with the tail moved up and c at the cursor.
shifted_up(c) ==
  [i \in Cells |-> IF i = cursor_pos THEN c
                   ELSE IF cursor_pos < i /\ i <= input_index THEN input_buffer[i - 1]
                   ELSE input_buffer[i]]

\* The buffer with the character at k closed up and a NUL behind the text.
closed_up(k) ==
  [i \in Cells |-> IF i = input_index - 1 THEN NUL
                   ELSE IF k <= i /\ i < input_index - 1 THEN input_buffer[i + 1]
                   ELSE input_buffer[i]]

\* input with a character; a full line ignores it.
input_char(c) ==
  /\ KeyPress
  /\ has_room
  /\ input_buffer' = shifted_up(c)
  /\ input_index' = input_index + 1
  /\ cursor_pos' = cursor_pos + 1
  /\ UNCHANGED <<historyVars, modifiers, waiting, entered>>

\* A letter key: without ctrl the letter, with it one of the bound control characters.
key_letter ==
  \/ ~modifiers.ctrl /\ input_char(get_character)
  \/ modifiers.ctrl /\ input_char(Control)

shell_backspace ==
  /\ KeyPress
  /\ cursor_pos > 0
  /\ input_buffer' = closed_up(cursor_pos - 1)
  /\ input_index' = input_index - 1
  /\ cursor_pos' = cursor_pos - 1
  /\ UNCHANGED <<historyVars, modifiers, waiting, entered>>

shell_delete ==
  /\ KeyPress
  /\ cursor_pos < input_index
  /\ input_buffer' = closed_up(cursor_pos)
  /\ input_index' = input_index - 1
  /\ UNCHANGED <<cursor_pos, historyVars, modifiers, waiting, entered>>

\* Left, right, home and end.
shell_move_cursor ==
  /\ KeyPress
  /\ \/ cursor_pos > 0 /\ cursor_pos' = cursor_pos - 1
     \/ cursor_pos < input_index /\ cursor_pos' = cursor_pos + 1
     \/ cursor_pos' = 0
     \/ cursor_pos' = input_index
  /\ UNCHANGED <<input_buffer, input_index, historyVars, modifiers,
                 waiting, entered>>

shell_clear_input ==
  /\ input_buffer' = Empty
  /\ input_index' = 0
  /\ cursor_pos' = 0

\* ctrl-c.
shell_cancel_input ==
  /\ KeyPress
  /\ modifiers.ctrl
  /\ shell_clear_input
  /\ UNCHANGED <<historyVars, modifiers, waiting, entered>>

------------------------------------------------------------------------------
(* History.                                                                *)

history_slot_shifted(n) == (n + 1) % MAX_HISTORY_ENTRIES
history_slot(n) == n % MAX_HISTORY_ENTRIES

recall_slot_next(n) == (n + 1) % MAX_HISTORY_ENTRIES
recall_slot(n) == n % MAX_HISTORY_ENTRIES

\* Entry n is copied over the line; the line is then as long as strlen finds it.
recall(n) ==
  LET b == strcpy(input_buffer, history[recall_slot(n)])
  IN  /\ history_current' = n
      /\ input_buffer' = b
      /\ input_index' = strlen(b)
      /\ cursor_pos' = strlen(b)

shell_history_up ==
  /\ KeyPress
  /\ history_current > 0
  /\ recall(history_current - 1)
  /\ UNCHANGED <<history, history_index, modifiers, waiting, entered>>

\* Past the newest entry the line is cleared.
shell_history_down ==
  /\ KeyPress
  /\ \/ /\ history_current < history_index - 1
        /\ recall(history_current + 1)
     \/ /\ history_current = history_index - 1
        /\ history_current' = history_index
        /\ shell_clear_input
  /\ UNCHANGED <<history, history_index, modifiers, waiting, entered>>

------------------------------------------------------------------------------
(* Enter.                                                                  *)

\* input with a newline: the line goes to the history and, through the command buffer,
\* to parse_command, which runs what it names.  An empty line only gets a new prompt.
terminated == [input_buffer EXCEPT ![input_index] = NUL]

\* S with e added, without its oldest element if it is full.
Latest(S, e) == IF Len(S) < MAX_HISTORY_ENTRIES THEN Append(S, e) ELSE Append(Tail(S), e)

key_enter ==
  /\ KeyPress
  /\ history_index < CMD_LIMIT
  /\ IF input_index = 0
       THEN /\ input_buffer' = terminated
            /\ UNCHANGED <<input_index, cursor_pos, historyVars, waiting, entered>>
       ELSE LET command_buffer == strncpy(terminated)
                h == history_slot(history_index)
            IN  /\ history' = [history EXCEPT ![h] = strcpy(@, command_buffer)]
                /\ history_index' = history_index + 1
                /\ history_current' = history_index + 1
                /\ entered' = Latest(entered, string(command_buffer))
                /\ input_buffer' = [terminated EXCEPT ![0] = NUL]
                /\ input_index' = 0 /\ cursor_pos' = 0
                /\ waiting' \in BOOLEAN     \* the line is pause, or it is not
  /\ UNCHANGED modifiers

Next ==
  \/ handle_modifier
  \/ key_letter
  \/ shell_backspace \/ shell_delete \/ shell_move_cursor \/ shell_cancel_input
  \/ shell_history_up \/ shell_history_down
  \/ key_enter

Spec == Init /\ [][Next]_vars

------------------------------------------------------------------------------
(* Properties.                                                             *)

Buffers == [Cells -> Chars \cup {NUL}]

TypeOK ==
  /\ waiting \in BOOLEAN
  /\ input_buffer \in Buffers
  /\ input_index \in 0..(MAX_INPUT_LENGTH - 1) /\ cursor_pos \in 0..input_index
  /\ history \in [0..(MAX_HISTORY_ENTRIES - 1) -> Buffers]
  /\ history_index \in 0..CMD_LIMIT /\ history_current \in 0..history_index
  /\ modifiers \in [{"shift", "ctrl", "caps_lock"} -> BOOLEAN]
  /\ entered \in Seq(Seq(Chars))

\* Every buffer keeps a NUL in its last cell, so that strlen and strcpy, which look at
\* nothing else, stop inside it however lines are typed, recalled and copied over; every
\* variable keeps its type.
StringsEnd ==
  /\ TypeOK
  /\ input_buffer[MAX_INPUT_LENGTH - 1] = NUL
  /\ \A h \in DOMAIN history : history[h][MAX_INPUT_LENGTH - 1] = NUL

\* The numbers of the lines in entered, and the n-th line.
Kept == {n \in 0..(history_index - 1) : n >= history_index - MAX_HISTORY_ENTRIES}
Entered(n) == entered[n - history_index + Len(entered) + 1]
Slot(n) == history[n % MAX_HISTORY_ENTRIES]

\* The history never forgets one of the last MAX_HISTORY_ENTRIES lines: its slot starts with
\* it, also when the ring has wrapped.
HistoryKeepsLines ==
  \A n \in Kept : IsPrefix(Entered(n), string(Slot(n)))

\* When up or down browses to one of the kept lines, the line on the prompt starts with it.
RecallFindsLine ==
  [][(shell_history_up \/ shell_history_down) /\ history_current' \in Kept =>
       IsPrefix(Entered(history_current'), Line')]_vars

Editor == INSTANCE LineEditor WITH
  MaxLength <- MAX_INPUT_LENGTH - 1, line <- Line, cursor <- cursor_pos,
  handed <- IF entered = <<>> THEN <<>> ELSE Last(entered)

\* The shell's shifting, NUL placing and recalling implement LineEditor: the text is only
\* changed where the cursor is, and what is handed over is the text.
ImplementsEditor == Editor!Spec
==============================================================================
