------------------------------- MODULE Console --------------------------------
(***************************************************************************)
(* The console: keyboard.c's interrupt handler driving the shell and the   *)
(* terminal.  A scancode is one step, unless its command turns interrupts  *)
(* on: then the step ends there and the handler goes on among other keys   *)
(* and other such handlers, nested in it or on other tasks (Shell).  Which *)
(* handlers nest is left open: any of them may take the next step.         *)
(***************************************************************************)
EXTENDS Shell

CONSTANT SCROLL_STEP   \* lines per Page Up or Page Down: 10 in the code

ASSUME ConsoleAssumption == SCROLL_STEP \in 1 .. VISIBLE_LINES

VARIABLES ctrl_pressed, extended_mode

consoleVars == <<term, printing, shellVars, ctrl_pressed, extended_mode>>

ConsoleInit == init_shell /\ ctrl_pressed = FALSE /\ extended_mode = FALSE

\* The prefix E0.
Prefix ==
  /\ extended_mode' = TRUE
  /\ UNCHANGED <<term, printing, shellVars, ctrl_pressed>>

\* Ctrl, left or (after E0) right: extended_mode stays as it is.
Ctrl(down) ==
  /\ ctrl_pressed' = down
  /\ UNCHANGED <<term, printing, shellVars, extended_mode>>

\* Any other key released; also a key with nothing to do after E0 (Home
\* without Ctrl, Up at the oldest command), which only clears the mode.
Release ==
  /\ extended_mode' = FALSE
  /\ UNCHANGED <<term, printing, shellVars, ctrl_pressed>>

\* The keys that only count after E0; without it they are past the table.
Scroll ==
  /\ \/ Draw(terminal_scroll_up(term, SCROLL_STEP), printing)
     \/ Draw(terminal_scroll_down(term, SCROLL_STEP), printing)
     \/ ctrl_pressed /\ Draw(terminal_scroll_to_top(term), printing)
     \/ ctrl_pressed /\ Draw(terminal_scroll_to_bottom(term), printing)
  /\ UNCHANGED <<printing, shellVars>>

Extended ==
  /\ extended_mode
  /\ extended_mode' = FALSE
  /\ Scroll \/ shell_history_up \/ shell_history_down
  /\ UNCHANGED ctrl_pressed

\* A key of the table, with or without E0.
Plain(c) ==
  /\ extended_mode' = FALSE
  /\ shell_handle_key(c)
  /\ UNCHANGED ctrl_pressed

ConsoleNext ==
  \/ Prefix \/ Ctrl(TRUE) \/ Ctrl(FALSE) \/ Release \/ Extended
  \/ \E c \in Chars \cup {NL, BS} : Plain(c)
  \/ \E h \in Handlers : HandlerStep(h) /\ UNCHANGED <<ctrl_pressed, extended_mode>>

ConsoleSpec == ConsoleInit /\ [][ConsoleNext]_consoleVars

-----------------------------------------------------------------------------
\* Every variable keeps its type, whatever the user types while a command runs
\* with interrupts on: no index of the shell leaves its array, and unless two
\* updates of the terminal have torn one another (kernel.c:110-126 and 198-216
\* have no lock), none of the terminal's does and the window stays on lines
\* that exist.
TypeOK ==
  /\ term # Garbled =>
       /\ term.len \in [Lines -> 0 .. VGA_WIDTH]
       /\ term.len[term.head] < VGA_WIDTH
       /\ term.head \in Lines /\ term.count \in 0 .. SCROLLBACK_LINES
       /\ term.view_offset \in 0 .. MaxOffset(term)
  /\ running \in [Handlers -> [stage : {"off", "out", "prompt"}, todo : Seq(STRING)]]
  /\ printing \subseteq {h \in Handlers : running[h].todo # <<>>}
  /\ \A h \in Handlers : running[h].stage = "off" => running[h].todo = <<>>
  /\ Len(buffer) <= MAX_BUFFER - 1 /\ buf_idx \in 0 .. Len(buffer)
  /\ Len(saved_buffer) <= MAX_BUFFER - 1 /\ saved_buf_idx \in 0 .. Len(saved_buffer)
  /\ Len(command_history) <= HISTORY_SIZE
  /\ history_index \in -1 .. Len(command_history) - 1
  /\ ctrl_pressed \in BOOLEAN /\ extended_mode \in BOOLEAN

\* Every line with text that is still in the ring can be scrolled to, as long
\* as no two updates of the terminal have torn one another: commands may print
\* among other keys, character by character.  scrollback_get_line_index never
\* shows the oldest line of a ring that has not filled up; that line is always
\* empty, because all that is printed to an empty ring begins with
\* print_prompt's newline.
TextReachable ==
  term # Garbled =>
    \A i \in Lines : term.len[i] > 0 =>
      \E o \in 0 .. MaxOffset(term) : i \in Shown([term EXCEPT !.view_offset = o])

\* While the user browses the history, the line that was being typed is kept,
\* and coming back down past the newest command brings exactly it back.
TypedLineKept ==
  [][/\ history_index = -1 /\ history_index' # -1
          => SubSeq(saved_buffer', 1, saved_buf_idx') = Line
     /\ history_index # -1 /\ history_index' # -1
          => UNCHANGED <<saved_buffer, saved_buf_idx>>
     /\ history_index # -1 /\ history_index' = -1 /\ command_history' = command_history
          => \/ Line' = SubSeq(saved_buffer, 1, saved_buf_idx)
             \/ saved_buffer' = <<>>]_consoleVars

\* The history holds no empty command and never the same one twice in a row,
\* before and after it has begun to shift.
HistoryDistinct ==
  \A i \in DOMAIN command_history :
    /\ command_history[i] # <<>>
    /\ i > 1 => command_history[i] # command_history[i - 1]
=============================================================================
