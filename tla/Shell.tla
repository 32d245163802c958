-------------------------------- MODULE Shell ---------------------------------
(***************************************************************************)
(* The shell's line editor and command history, shell.c, on the terminal.  *)
(* What a command prints is an input; what else a command does belongs to  *)
(* the modules of the parts it calls.                                      *)
(*                                                                         *)
(* The interrupt handler that receives a key starts with interrupts off:   *)
(* what it does until a mutex or semaphore call ends in sti is one step.   *)
(* alloc, free, mem, sysinfo, pages, vmmap, testsig and sem make one.  The *)
(* rest of their output, `buf_idx = 0' and the prompt then run with        *)
(* interrupts on, as the steps of a handler, and other keys may strike     *)
(* before, between and inside them.                                        *)
(***************************************************************************)
EXTENDS Terminal

CONSTANTS
  MAX_BUFFER,     \* 128 in the code
  HISTORY_SIZE,   \* 20
  Chars,          \* the printable characters used, SPACE among them
  SPACE,
  Prompt,         \* what print_prompt prints: a newline first
  Outputs,        \* what commands print with interrupts off
  Unmasked,       \* what commands print before and after their first sti
  Handlers        \* bounds the commands that run with interrupts on

ASSUME ShellAssumption ==
  /\ MAX_BUFFER \in Nat \ {0}
  /\ HISTORY_SIZE \in Nat \ {0}
  /\ SPACE \in Chars
  /\ {NL, BS} \cap Chars = {}
  /\ Prompt \in Seq(STRING) /\ Prompt # <<>> /\ Prompt[1] = NL
  /\ Outputs \subseteq Seq(STRING)
  /\ Unmasked \subseteq [before : Seq(STRING), after : Seq(STRING)]

VARIABLES
  buffer,           \* the C string in buffer[]: up to its NUL
  buf_idx,
  command_history,
  history_index,    \* as in the code: from 0, -1 when not browsing
  saved_buffer, saved_buf_idx,
  running           \* per handler: what it prints, and what is left of it

lineVars == <<buffer, buf_idx, command_history, history_index, saved_buffer, saved_buf_idx>>
shellVars == <<lineVars, running>>

\* What the user sees as the input line.
Line == SubSeq(buffer, 1, buf_idx)

\* init_shell.  The two lines of welcome count as output.
init_shell ==
  /\ buffer = <<>> /\ buf_idx = 0
  /\ command_history = <<>> /\ history_index = -1
  /\ saved_buffer = <<>> /\ saved_buf_idx = 0
  /\ term = print_str(scrollback_init, Prompt) /\ printing = {}
  /\ running = [h \in Handlers |-> [stage |-> "off", todo |-> <<>>]]

-----------------------------------------------------------------------------
\* Mutant: repeated commands are recorded.
history_add_repeat(cmd) ==
  IF Len(command_history) < HISTORY_SIZE THEN Append(command_history, cmd)
  ELSE Append(Tail(command_history), cmd)

\* A command that repeats the last one is not added; a full history shifts.
history_add(cmd) ==
  IF command_history # <<>> /\ Last(command_history) = cmd THEN command_history
  ELSE IF Len(command_history) < HISTORY_SIZE THEN Append(command_history, cmd)
  ELSE Append(Tail(command_history), cmd)

\* clear_input_line, then the new line is displayed.
Redraw(line) == print_str(term, [i \in 1 .. buf_idx |-> BS] \o line)

\* Mutant: the buffer is saved on every move.
shell_history_up_saves ==
  /\ history_index' = IF history_index = -1 THEN Len(command_history) - 1
                      ELSE history_index - 1
  /\ history_index' >= 0
  /\ saved_buffer' = buffer /\ saved_buf_idx' = buf_idx
  /\ buffer' = command_history[history_index' + 1]
  /\ buf_idx' = Len(buffer')
  /\ Draw(Redraw(buffer'), printing)
  /\ UNCHANGED <<command_history, printing, running>>

\* Up arrow.  With nothing older the code returns at once: no step here.
shell_history_up ==
  /\ history_index' = IF history_index = -1 THEN Len(command_history) - 1
                      ELSE history_index - 1
  /\ history_index' >= 0
  /\ IF history_index = -1
     THEN saved_buffer' = buffer /\ saved_buf_idx' = buf_idx
     ELSE UNCHANGED <<saved_buffer, saved_buf_idx>>
  /\ buffer' = command_history[history_index' + 1]
  /\ buf_idx' = Len(buffer')
  /\ Draw(Redraw(buffer'), printing)
  /\ UNCHANGED <<command_history, printing, running>>

shell_history_down ==
  /\ history_index # -1
  /\ IF history_index < Len(command_history) - 1
     THEN /\ history_index' = history_index + 1
          /\ buffer' = command_history[history_index' + 1]
          /\ buf_idx' = Len(buffer')
     ELSE /\ history_index' = -1
          /\ buffer' = saved_buffer
          /\ buf_idx' = saved_buf_idx
  /\ Draw(Redraw(SubSeq(buffer', 1, buf_idx')), printing)
  /\ UNCHANGED <<command_history, saved_buffer, saved_buf_idx, printing, running>>

\* A command whose handler keeps interrupts off to its end: `clear', which
\* empties the scrollback, and any other.
Clear ==
  /\ DrawFresh(print_str(scrollback_init, Prompt), printing)
  /\ buf_idx' = 0 /\ UNCHANGED running

Masked(s) ==
  /\ \E out \in Outputs : Draw(print_str(s, out \o Prompt), printing)
  /\ buf_idx' = 0 /\ UNCHANGED running

\* One that turns them on: handler h has the rest to do.
Unmask(s) ==
  \E h \in Handlers, out \in Unmasked :
    /\ running[h].stage = "off"
    /\ running' = [running EXCEPT ![h] = [stage |-> "out", todo |-> out.after]]
    /\ Draw(print_str(s, out.before), printing)
    /\ UNCHANGED buf_idx

\* execute_command, until it returns or turns interrupts on.  An empty line and
\* one of spaces only print the prompt; the second goes into the history and
\* stays in the buffer.
execute_command(s) ==
  /\ buffer' = Line
  /\ history_index' = -1 /\ saved_buf_idx' = 0 /\ saved_buffer' = <<>>
  /\ command_history' = IF Line = <<>> THEN command_history ELSE history_add(Line)
  /\ IF \A i \in 1 .. buf_idx : Line[i] = SPACE
     THEN Draw(print_str(s, Prompt), printing) /\ UNCHANGED <<buf_idx, running>>
     ELSE Clear \/ Masked(s) \/ Unmask(s)
  /\ UNCHANGED printing

\* A handler with interrupts on draws a character: the beginning and the end of
\* terminal_putchar.
PutBegin(h) ==
  /\ running[h].todo # <<>> /\ h \notin printing
  /\ printing' = printing \cup {h}
  /\ UNCHANGED <<term, shellVars>>

PutEnd(h) ==
  /\ h \in printing
  /\ printing' = printing \ {h}
  /\ Draw(terminal_putchar(term, Head(running[h].todo)), printing')
  /\ running' = [running EXCEPT ![h].todo = Tail(@)]
  /\ UNCHANGED lineVars

\* execute_command's last two statements: `buf_idx = 0', then print_prompt.
ResetLine(h) ==
  /\ running[h] = [stage |-> "out", todo |-> <<>>]
  /\ running' = [running EXCEPT ![h] = [stage |-> "prompt", todo |-> Prompt]]
  /\ buf_idx' = 0
  /\ UNCHANGED <<term, printing, buffer, command_history, history_index, saved_buffer,
                 saved_buf_idx>>

Return(h) ==
  /\ running[h] = [stage |-> "prompt", todo |-> <<>>]
  /\ running' = [running EXCEPT ![h].stage = "off"]
  /\ UNCHANGED <<term, printing, lineVars>>

HandlerStep(h) == PutBegin(h) \/ PutEnd(h) \/ ResetLine(h) \/ Return(h)

\* shell_handle_key for a backspace and for any other character.
EraseKey(s) ==
  /\ IF buf_idx > 0
     THEN /\ buf_idx' = buf_idx - 1
          /\ buffer' = SubSeq(buffer, 1, buf_idx - 1)
          /\ Draw(terminal_putchar(s, BS), printing)
     ELSE Draw(s, printing) /\ UNCHANGED <<buffer, buf_idx>>
  /\ UNCHANGED <<command_history, history_index, saved_buffer, saved_buf_idx, printing, running>>

TypeKey(s, c) ==
  /\ IF buf_idx < MAX_BUFFER - 1
     THEN /\ buf_idx' = buf_idx + 1
          /\ buffer' = Append(Line, c)
          /\ Draw(terminal_putchar(s, c), printing)
     ELSE Draw(s, printing) /\ UNCHANGED <<buffer, buf_idx>>
  /\ UNCHANGED <<command_history, history_index, saved_buffer, saved_buf_idx, printing, running>>

shell_handle_key(c) ==
  LET s == terminal_scroll_to_bottom(term)
  IN \/ c = NL /\ execute_command(s)
     \/ c = BS /\ EraseKey(s)
     \/ c \in Chars /\ TypeKey(s, c)
=============================================================================
