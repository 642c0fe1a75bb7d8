-------------------------------- MODULE Console -------------------------------
(***************************************************************************)
(* Text on the framebuffers (drivers/video/framebuffer.c) and its two      *)
(* writers: kernel_main, which prints the banner with interrupts on, and   *)
(* the keyboard interrupt, which redraws the input line and prints the     *)
(* output of commands (kernel/shell/shell.c, cmd_parser.c).                *)
(*                                                                         *)
(* One character is the unit of length, FONT_WIDTH = FONT_HEIGHT = 1.      *)
(* Drawing a character sets pixels and erases none, so a cell holds the    *)
(* set of characters drawn over each other in it.  What is typed is left   *)
(* open: an edit gives any line (the Shell module says which).             *)
(*                                                                         *)
(* A key may come between any two assignments that kernel_main's fb_print  *)
(* makes, and between any two rows that its scroll_screen moves.  The      *)
(* limits are compared with what was just stored (the build uses -O2).     *)
(***************************************************************************)
EXTENDS Integers, Sequences, SequencesExt, FiniteSetsExt

CONSTANTS
  Framebuffers,      \* sequence of [cols, rows, pitch], as the boot loader reports them
  Lines, Outputs,    \* bound: what is typed, and what commands print
  Banner,            \* what shell_init prints
  CURSOR_ROWS,       \* 2^16 / FONT_HEIGHT: cursor_position_y is a uint16_t
  KEY_LIMIT          \* bound: keys pressed in a behaviour

ASSUME ConsoleAssumption ==
  /\ Framebuffers # <<>>
  /\ \A f \in DOMAIN Framebuffers :
       Framebuffers[f].cols >= 1 /\ Framebuffers[f].rows >= 1
       /\ Framebuffers[f].pitch >= Framebuffers[f].cols
  /\ CURSOR_ROWS \in Nat /\ Framebuffers[1].rows < CURSOR_ROWS
  /\ KEY_LIMIT \in Nat

VARIABLES
  fb_count,      \* 0 until init_fb has run
  con,           \* [x, y: cursor_position; screens: the cells of each framebuffer;
                 \*  paper, top: history, see Paper below]
  shell,         \* [line, cursor_pos, prompt_x, prompt_y]
  to_print,      \* what kernel_main still prints in shell_init
  main,          \* where kernel_main is: [at, cells: still to go for this character;
                 \*  fb, row: where scroll_screen is]
  keys,          \* keys pressed so far
  torn           \* history: a key came while kernel_main was in scroll_screen, and the screen
                 \* has not been cleared since

vars == <<fb_count, con, shell, to_print, main, keys, torn>>

NEWLINE == "nl"
RETURN == "cr"
TAB == "tab"
SPACE == "sp"
PROMPT == <<"$", SPACE>>
Controls == {NEWLINE, RETURN, TAB, SPACE}

fb_width == IF fb_count = 0 THEN 0 ELSE Framebuffers[1].cols
fb_height == IF fb_count = 0 THEN 0 ELSE Framebuffers[1].rows
Live == 1..fb_count
Cells(f) == (0..(Framebuffers[f].rows - 1)) \X (0..(Framebuffers[f].cols - 1))

Blank(f) == [p \in Cells(f) |-> {}]

------------------------------------------------------------------------------
(* Paper: the text as it would stand on an endless roll, of which the      *)
(* framebuffers show the part that starts at row top.  History only: sets  *)
(* of [row, col, char], moved by nothing.                                  *)

Marked(c, x, y, char) == c.paper \cup {[row |-> c.top + y, col |-> x, char |-> char]}

Erased(c, x, y, w, h) ==
  {m \in c.paper : ~(/\ m.row - c.top \in y..(y + h - 1)
                     /\ m.col \in x..(x + w - 1))}

------------------------------------------------------------------------------
(* Drawing.                                                                *)

\* A cell cleared by clear_screen: it counts pixels as if rows had no padding.
cleared(f, p) ==
  p[1] * Framebuffers[f].pitch + p[2] < Framebuffers[f].cols * Framebuffers[f].rows

clear_screen(c) ==
  [c EXCEPT !.screens = [f \in DOMAIN @ |->
                           [p \in Cells(f) |-> IF f \in Live /\ cleared(f, p) THEN {} ELSE @[f][p]]],
            !.paper = {}]

\* Clipped to each framebuffer; a space, like an unprintable character, sets no pixel.
draw_char(c, x, y, char) ==
  IF char \in Controls \/ fb_count = 0 THEN c
  ELSE [c EXCEPT !.screens = [f \in DOMAIN @ |->
                   [p \in Cells(f) |-> IF f \in Live /\ p = <<y, x>> THEN @[f][p] \cup {char}
                                       ELSE @[f][p]]],
                 !.paper = Marked(c, x, y, char)]

\* Filled with the background.
draw_rect(c, x, y, w, h) ==
  [c EXCEPT !.screens = [f \in DOMAIN @ |->
              [p \in Cells(f) |-> IF f \in Live /\ p[1] \in y..(y + h - 1) /\ p[2] \in x..(x + w - 1)
                                  THEN {} ELSE @[f][p]]],
            !.paper = Erased(c, x, y, w, h)]

below_keeping_last(f, screen, p) ==
  IF p[1] < Framebuffers[f].rows - 1 THEN screen[<<p[1] + 1, p[2]>>] ELSE screen[p]

\* What comes to stand in a cell: what is below it, nothing below the last row.
below(f, screen, p) ==
  IF p[1] < Framebuffers[f].rows - 1 THEN screen[<<p[1] + 1, p[2]>>] ELSE {}

move_row(f, screen, row) ==
  [p \in Cells(f) |-> IF p[1] = row THEN below(f, screen, p) ELSE screen[p]]

\* All rows of all framebuffers at once, then the cursor.
scroll_screen(c) ==
  [c EXCEPT !.screens = [f \in DOMAIN @ |->
                           IF f \in Live THEN [p \in Cells(f) |-> below(f, @[f], p)] ELSE @[f]],
            !.y = (@ - 1) % CURSOR_ROWS,
            !.top = IF fb_count = 0 THEN @ ELSE @ + 1]

------------------------------------------------------------------------------
(* Printing, by the interrupt.                                             *)

scrolled_past_end(c) == IF c.y >= fb_height THEN scroll_screen(c) ELSE c

\* The last row is kept empty.
scrolled(c) == IF c.y >= fb_height - 1 THEN scroll_screen(c) ELSE c

new_line(c) == scrolled([c EXCEPT !.x = 0, !.y = (@ + 1) % CURSOR_ROWS])

\* One to the right, or to the next row when only the last column is left.
next_cell(c) == IF c.x + 1 >= fb_width - 1 THEN new_line(c) ELSE [c EXCEPT !.x = @ + 1]

advance(c, char) ==
  CASE char = NEWLINE -> new_line(c)
    [] char = RETURN -> [c EXCEPT !.x = 0]
    [] char = TAB -> FoldLeft(LAMBDA d, i : next_cell(d), c, [i \in 1..(4 - (c.x % 4)) |-> i])
    [] OTHER -> next_cell(c)

\* Nothing interrupts the interrupt: a text at once.
fb_print(c, text) ==
  FoldLeft(LAMBDA d, char : advance(draw_char(d, d.x, d.y, char), char), c, text)

\* Each coordinate is taken only if it is on the screen.
move_cursor_to(c, x, y) ==
  [c EXCEPT !.x = IF x < fb_width THEN x ELSE @,
            !.y = IF y < fb_height THEN y ELSE @]

------------------------------------------------------------------------------
(* kernel_main, interrupts on.                                             *)

At(place, cells) == [at |-> place, cells |-> cells, fb |-> 1, row |-> 0]

Init ==
  /\ fb_count = 0
  /\ con = [x |-> 0, y |-> 0, top |-> 0, paper |-> {},
            screens |-> [f \in DOMAIN Framebuffers |-> Blank(f)]]
  /\ shell = [line |-> <<>>, cursor_pos |-> 0, prompt_x |-> 0, prompt_y |-> 0]
  /\ to_print = Banner
  /\ main = At("init_fb", 0)
  /\ keys = 0 /\ torn = FALSE

init_fb ==
  /\ main.at = "init_fb"
  /\ fb_count' = Len(Framebuffers)
  /\ con' = [con EXCEPT !.screens = [f \in DOMAIN @ |-> Blank(f)], !.paper = {}]
  /\ main' = At("print", 0)
  /\ UNCHANGED <<shell, to_print, keys, torn>>

\* The next of the cells that a character takes, or the next character.
next_step(cells) ==
  IF cells > 1 THEN main' = At("right", cells - 1) /\ UNCHANGED to_print
  ELSE /\ to_print' = Tail(to_print)
       /\ main' = At(IF Len(to_print) = 1 THEN "memset" ELSE "print", 0)

\* shell_init prints a character: a new line and a return start with the column, others are
\* drawn where the cursor is.
shell_init_prints ==
  /\ main.at = "print" /\ to_print # <<>>
  /\ LET char == Head(to_print)
     IN  \/ /\ char = NEWLINE
            /\ con' = [con EXCEPT !.x = 0]
            /\ main' = At("down", 0) /\ UNCHANGED to_print
         \/ /\ char = RETURN
            /\ con' = [con EXCEPT !.x = 0]
            /\ next_step(0)
         \/ /\ char \notin {NEWLINE, RETURN}
            /\ con' = draw_char(con, con.x, con.y, char)
            /\ main' = At("right", IF char = TAB THEN 4 - (con.x % 4) ELSE 1)
            /\ UNCHANGED to_print
  /\ UNCHANGED <<fb_count, shell, keys, torn>>

\* The cursor, wherever it is by now, moves to the right ...
shell_init_moves_right ==
  /\ main.at = "right"
  /\ con' = [con EXCEPT !.x = @ + 1]
  /\ IF con.x + 1 >= fb_width - 1 THEN main' = At("wrap", main.cells) /\ UNCHANGED to_print
     ELSE next_step(main.cells)
  /\ UNCHANGED <<fb_count, shell, keys, torn>>

shell_init_wraps ==
  /\ main.at = "wrap"
  /\ con' = [con EXCEPT !.x = 0]
  /\ main' = At("down", main.cells)
  /\ UNCHANGED <<fb_count, shell, to_print, keys, torn>>

\* ... or to the next row ...
shell_init_moves_down ==
  /\ main.at = "down"
  /\ LET y == (con.y + 1) % CURSOR_ROWS
     IN  /\ con' = [con EXCEPT !.y = y]
         /\ IF y >= fb_height - 1 THEN main' = At("scroll", main.cells) /\ UNCHANGED to_print
            ELSE next_step(main.cells)
  /\ UNCHANGED <<fb_count, shell, keys, torn>>

\* ... and scroll_screen moves the screens up, row by row, ...
shell_init_moves_row ==
  /\ main.at = "scroll"
  /\ con' = [con EXCEPT !.screens[main.fb] = move_row(main.fb, @, main.row)]
  /\ main' = IF main.row < Framebuffers[main.fb].rows - 1 THEN [main EXCEPT !.row = @ + 1]
             ELSE IF main.fb < fb_count THEN [main EXCEPT !.fb = @ + 1, !.row = 0]
             ELSE At("back", main.cells)
  /\ UNCHANGED <<fb_count, shell, to_print, keys, torn>>

\* ... and then the cursor, wherever that is.
shell_init_moves_back ==
  /\ main.at = "back"
  /\ con' = [con EXCEPT !.y = (@ - 1) % CURSOR_ROWS, !.top = @ + 1]
  /\ next_step(main.cells)
  /\ UNCHANGED <<fb_count, shell, keys, torn>>

shell_init_clears ==
  /\ main.at = "memset"
  /\ shell' = [line |-> <<>>, cursor_pos |-> 0, prompt_x |-> 0, prompt_y |-> 0]
  /\ main' = At("idle", 0)
  /\ UNCHANGED <<fb_count, con, to_print, keys, torn>>

\* The loop around hlt.
idle == main.at = "idle" /\ UNCHANGED vars

\* kernel_main is in scroll_screen.
Scrolling == main.at \in {"scroll", "back"}

------------------------------------------------------------------------------
(* The keyboard interrupt, which nothing interrupts.                       *)

Key == keys < KEY_LIMIT /\ keys' = keys + 1 /\ UNCHANGED <<fb_count, to_print, main>>
Tears == torn' = (torn \/ Scrolling)

\* The prompt, and the shell that remembers where it ends.
shell_print_prompt(s, c) ==
  LET d == fb_print(c, PROMPT)
  IN  <<[s EXCEPT !.prompt_x = d.x, !.prompt_y = d.y], d>>

MAX_INPUT_LENGTH == 1 + Max({Len(l) : l \in Lines})

shell_redraw_input(s, c) ==
  LET erased == draw_rect(c, s.prompt_x, s.prompt_y, MAX_INPUT_LENGTH, 1)
      typed == FoldLeft(LAMBDA d, i : draw_char(d, s.prompt_x + i - 1, s.prompt_y, s.line[i]),
                        erased, [i \in 1..Len(s.line) |-> i])
  IN  move_cursor_to(typed, s.prompt_x + s.cursor_pos, s.prompt_y)

\* A character typed, erased or recalled.
key_edit ==
  /\ Key /\ Tears
  /\ \E line \in Lines : \E pos \in 0..Len(line) :
       LET s == [shell EXCEPT !.line = line, !.cursor_pos = pos]
       IN  shell' = s /\ con' = shell_redraw_input(s, con)

\* Left, right, home and end.
key_move ==
  /\ Key /\ Tears
  /\ \E pos \in 0..Len(shell.line) :
       /\ shell' = [shell EXCEPT !.cursor_pos = pos]
       /\ con' = move_cursor_to(con, shell.prompt_x + pos, shell.prompt_y)

Prompts(s, c) ==
  LET p == shell_print_prompt(s, c)
  IN  shell' = p[1] /\ con' = shell_redraw_input(p[1], p[2])

emptied == [shell EXCEPT !.line = <<>>, !.cursor_pos = 0]

cmd_clear(c) == move_cursor_to(clear_screen(c), 0, 0)

\* The output of the command, or of its not being found, and a prompt; none after exit.
parse_command(s, c) ==
  \/ Tears /\ \E text \in Outputs : Prompts(s, fb_print(c, text))
  \/ torn' = Scrolling /\ Prompts(s, cmd_clear(c))
  \/ Tears /\ \E text \in Outputs : shell' = s /\ con' = fb_print(c, text)

\* enter: a new line and, unless the line is empty, its command.
key_enter ==
  /\ Key
  /\ IF shell.line = <<>> THEN Tears /\ Prompts(shell, new_line(con))
     ELSE parse_command(emptied, new_line(con))

\* ctrl-c.
shell_cancel_input ==
  /\ Key /\ Tears
  /\ LET p == shell_print_prompt(emptied, new_line(shell_redraw_input(emptied, con)))
     IN  shell' = p[1] /\ con' = p[2]

Next ==
  \/ init_fb \/ shell_init_prints \/ shell_init_moves_right \/ shell_init_wraps
  \/ shell_init_moves_down \/ shell_init_moves_row \/ shell_init_moves_back
  \/ shell_init_clears \/ idle
  \/ key_edit \/ key_move \/ key_enter \/ shell_cancel_input

Spec == Init /\ [][Next]_vars

------------------------------------------------------------------------------
(* Properties.                                                             *)

OnPaper(p) == {m.char : m \in {n \in con.paper : n.row = con.top + p[1] /\ n.col = p[2]}}

Unpadded(f) == Framebuffers[f].pitch = Framebuffers[f].cols
AsLarge(f) == Framebuffers[f].cols >= Framebuffers[1].cols
              /\ Framebuffers[f].rows >= Framebuffers[1].rows

\* Scrolling loses and repeats nothing, on however many framebuffers, and also when keys
\* arrive in the middle of the banner, but for those that arrive while its rows are being
\* moved: each framebuffer shows the part of the text that starts at the first row not
\* scrolled away, and one smaller than the first, which alone counts for wrapping and
\* scrolling, shows nothing else.  What such a key has torn, the clear command mends.
\* (scroll_screen, draw_char, draw_rect and clear_screen against each other.)
ScreensShowText ==
  ~torn /\ ~Scrolling =>
    \A f \in Live : Unpadded(f) =>
      \A p \in Cells(f) :
        /\ con.screens[f][p] \subseteq OnPaper(p)
        /\ AsLarge(f) => con.screens[f][p] = OnPaper(p)

\* Wherever else a key interrupts the banner, between any two assignments to the cursor,
\* wraps, tabs and scrolls leave the cursor and the remembered prompt above the last row and
\* in a column, so that the next character and the redrawn line are visible on the first
\* framebuffer; text is never drawn outside it except for the end of a line that is longer
\* than the row.
CursorOnScreen ==
  fb_count > 0 /\ ~torn /\ ~Scrolling =>
    /\ con.y \in 0..Max({0, fb_height - 2})
    /\ con.x \in 0..(fb_width - 1) \/ main.at = "wrap"
    /\ shell.prompt_y \in 0..Max({0, fb_height - 2})
    /\ \A m \in con.paper : m.row - con.top < Max({1, fb_height - 1})
==============================================================================
