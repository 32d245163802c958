------------------------------ MODULE FileStore -------------------------------
(***************************************************************************)
(* What vfs.c promises: a map from names to contents that holds a bounded  *)
(* number of files.  An operation succeeds and does what it says, or it    *)
(* fails and nothing has changed.                                          *)
(***************************************************************************)
EXTENDS Integers, FiniteSets, Functions

CONSTANTS
  FileNames, FileContents,   \* what callers pass
  TooLong,                   \* those of them that do not fit their array
  Empty,                     \* the empty content
  Capacity

VARIABLES
  store,    \* the files: a function from the names in use to their contents
  result    \* what the last operation returned: 0 or -1

storeVars == <<store, result>>

\* Some files may be there from the start.
Init ==
  /\ store \in UNION {[S -> FileContents \ TooLong] : S \in SUBSET (FileNames \ TooLong)}
  /\ Cardinality(DOMAIN store) <= Capacity
  /\ result = 0

Fail == result' = -1 /\ UNCHANGED store

CanWrite(n, c) ==
  /\ c \notin TooLong
  /\ n \in DOMAIN store \/ (n \notin TooLong /\ Cardinality(DOMAIN store) < Capacity)

Write(n, c) ==
  \/ /\ CanWrite(n, c)
     /\ store' = [m \in DOMAIN store \cup {n} |-> IF m = n THEN c ELSE store[m]]
     /\ result' = 0
  \/ ~ CanWrite(n, c) /\ Fail

\* An existing file is left alone.
Touch(n) ==
  \/ n \in DOMAIN store /\ result' = 0 /\ UNCHANGED store
  \/ n \notin DOMAIN store /\ Write(n, Empty)

Remove(n) ==
  \/ /\ n \in DOMAIN store
     /\ store' = Restrict(store, DOMAIN store \ {n})
     /\ result' = 0
  \/ n \notin DOMAIN store /\ Fail

Next ==
  \E n \in FileNames :
    \/ Touch(n) \/ Remove(n)
    \/ \E c \in FileContents : Write(n, c)

Spec == Init /\ [][Next]_storeVars
=============================================================================
