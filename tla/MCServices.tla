------------------------------ MODULE MCServices ------------------------------
(***************************************************************************)
(* The services that share no state with one another, for TLC: heap, pages,*)
(* files, log, timer callbacks and console.  Init picks the one that is    *)
(* exercised; the others stay as they are after boot.                      *)
(***************************************************************************)
EXTENDS Heap, Paging, Vfs, Log, TimerCallbacks, Console

VARIABLE service

vars == <<heapVars, pagingVars, vfsVars, logVars, callbackVars, consoleVars, service>>

MCPreloaded == << [name |-> "readme", content |-> "text"] >>

MCEntries == { [level |-> 0, text |-> "a"], [level |-> 1, text |-> "b"] }

\* Two characters and a prompt of one column after its newline.  One command
\* prints with interrupts off, more than a line; one prints its newline with
\* interrupts off and the rest, a column, with interrupts on.
MCChars == {"a", "_"}
MCPrompt == << NL, ">" >>
MCOutputs == { << NL, "x", "x" >> }
MCUnmasked == { [before |-> << NL >>, after |-> << "x" >>] }

\* Nothing tells the handlers of the console apart.
MCSymmetry == Permutations(Handlers)

Init ==
  /\ service \in {"heap", "pages", "files", "log", "callbacks", "console"}
  /\ HeapInit /\ PagingInit /\ VfsInit /\ LogInit /\ CallbackInit
  /\ ConsoleInit

UseHeap ==
  /\ service = "heap" /\ HeapNext
  /\ UNCHANGED <<pagingVars, vfsVars, logVars, callbackVars, consoleVars, service>>

UsePages ==
  /\ service = "pages" /\ PagingNext
  /\ UNCHANGED <<heapVars, vfsVars, logVars, callbackVars, consoleVars, service>>

UseFiles ==
  /\ service = "files" /\ VfsNext
  /\ UNCHANGED <<heapVars, pagingVars, logVars, callbackVars, consoleVars, service>>

UseLog ==
  /\ service = "log" /\ LogNext
  /\ UNCHANGED <<heapVars, pagingVars, vfsVars, callbackVars, consoleVars, service>>

UseCallbacks ==
  /\ service = "callbacks" /\ CallbackNext
  /\ UNCHANGED <<heapVars, pagingVars, vfsVars, logVars, consoleVars, service>>

UseConsole ==
  /\ service = "console" /\ ConsoleNext
  /\ UNCHANGED <<heapVars, pagingVars, vfsVars, logVars, callbackVars, service>>

Next == UseHeap \/ UsePages \/ UseFiles \/ UseLog \/ UseCallbacks \/ UseConsole

Spec == Init /\ [][Next]_vars
=============================================================================
