------------------------------- MODULE Terminal -------------------------------
(***************************************************************************)
(* The scrollback terminal of kernel.c: a ring of lines and a window on    *)
(* it.  A line is represented by its length: term_col is the length of the *)
(* line at scrollback_head.  terminal_refresh_view draws the screen from   *)
(* this state after every change, so the screen is the operator Shown.     *)
(*                                                                         *)
(* Nothing locks the terminal.  A command that has taken a mutex prints    *)
(* with interrupts on: each character it draws has a beginning and an end, *)
(* and a key or another such command that changes the terminal between the *)
(* two tears the stores of terminal_putchar (head, count, term_col).  What *)
(* they leave is Garbled, about which nothing more is claimed.             *)
(***************************************************************************)
EXTENDS Integers, SequencesExt

CONSTANTS
  VGA_WIDTH,          \* 80 in the code
  SCROLLBACK_LINES,   \* 200
  VISIBLE_LINES,      \* 20
  Garbled             \* a terminal whose update was torn

ASSUME TerminalAssumption ==
  /\ VGA_WIDTH \in Nat \ {0}
  /\ SCROLLBACK_LINES \in Nat \ {0}
  /\ VISIBLE_LINES \in 1 .. SCROLLBACK_LINES

VARIABLES
  term,      \* line lengths, scrollback_head, scrollback_count, view_offset
  printing   \* the handlers inside terminal_putchar with interrupts on

Lines == 0 .. SCROLLBACK_LINES - 1

\* The two characters terminal_putchar treats apart.
NL == "newline"
BS == "backspace"

\* scrollback_init, and with it terminal_clear.
scrollback_init == [len |-> [i \in Lines |-> 0], head |-> 0, count |-> 0, view_offset |-> 0]

scrollback_add_line(s) ==
  LET h == (s.head + 1) % SCROLLBACK_LINES
  IN [len |-> [s.len EXCEPT ![h] = 0], head |-> h, view_offset |-> 0,
      count |-> IF s.count < SCROLLBACK_LINES THEN s.count + 1 ELSE s.count]

terminal_putchar(s, c) ==
  LET col == s.len[s.head]
      t == [s EXCEPT !.len[s.head] = col + 1]
  IN CASE c = NL -> scrollback_add_line(s)
       [] c = BS -> [s EXCEPT !.len[s.head] = IF col > 0 THEN col - 1 ELSE 0]
       [] OTHER  -> IF col + 1 >= VGA_WIDTH THEN scrollback_add_line(t) ELSE t

print_str(s, str) ==
  LET t[n \in 0 .. Len(str)] == IF n = 0 THEN s ELSE terminal_putchar(t[n - 1], str[n])
  IN t[Len(str)]

MaxOffset(s) == Max({s.count - VISIBLE_LINES, 0})

\* Mutant: no cap.
terminal_scroll_up_uncapped(s, n) == [s EXCEPT !.view_offset = @ + n]

terminal_scroll_up(s, n) == [s EXCEPT !.view_offset = Min({@ + n, MaxOffset(s)})]
terminal_scroll_down(s, n) == [s EXCEPT !.view_offset = Max({@ - n, 0})]
terminal_scroll_to_top(s) == [s EXCEPT !.view_offset = MaxOffset(s)]
terminal_scroll_to_bottom(s) == [s EXCEPT !.view_offset = 0]

\* Mutant: off by one.
scrollback_get_line_index_short(s, row) ==
  LET from_end == VISIBLE_LINES - 1 - row + s.view_offset
      idx == s.head - from_end
  IN IF s.count = 0 \/ from_end >= s.count - 1 THEN -1
     ELSE IF idx < 0 THEN idx + SCROLLBACK_LINES ELSE idx

\* scrollback_get_line_index: the line a row shows, or -1.
scrollback_get_line_index(s, row) ==
  LET from_end == VISIBLE_LINES - 1 - row + s.view_offset
      idx == s.head - from_end
  IN IF s.count = 0 \/ from_end >= s.count THEN -1
     ELSE IF idx < 0 THEN idx + SCROLLBACK_LINES ELSE idx

\* terminal_refresh_view: the lines on the screen.
Shown(s) == {scrollback_get_line_index(s, row) : row \in 0 .. VISIBLE_LINES - 1} \ {-1}

\* The terminal goes from term to t while `others' are inside a character.
Draw(t, others) == term' = IF term = Garbled \/ (others # {} /\ t # term) THEN Garbled ELSE t

\* `clear' stores everything anew, whatever was there.
DrawFresh(t, others) == term' = IF others = {} THEN t ELSE Garbled
=============================================================================
