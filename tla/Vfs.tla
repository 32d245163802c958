--------------------------------- MODULE Vfs ----------------------------------
(***************************************************************************)
(* The in-memory files of vfs.c: a table of slots, searched from the start.*)
(* Of its operations the shell dispatches vfs_list and vfs_open only (`ls',*)
(* `cat'; touch, write and rm are in its help text and nowhere else), with *)
(* interrupts off.  The others have no caller yet; here they may be called *)
(* in any order, an operation at a time.                                   *)
(***************************************************************************)
EXTENDS Integers, FiniteSets, Sequences

CONSTANTS
  MAX_FILES,                 \* 10 in the code
  FileNames, FileContents,   \* what callers pass
  TooLong,                   \* those of them that do not fit their array
  Empty,                     \* "", one of the contents
  Preloaded                  \* what vfs_init creates: a sequence of [name, content]

ASSUME VfsAssumption ==
  /\ MAX_FILES \in Nat
  /\ Empty \in FileContents \ TooLong
  /\ Preloaded \in Seq([name : FileNames, content : FileContents])
  /\ \A i, j \in 1 .. Len(Preloaded) : Preloaded[i].name = Preloaded[j].name => i = j

VARIABLES
  files,   \* per slot: [used, name, content]; size is the content's length
  ret      \* what the last operation returned

vfsVars == <<files, ret>>

FileSlots == 0 .. MAX_FILES - 1

\* The slots with the least index: where a loop over the table stops.
First(S) == {i \in S : \A j \in S : i <= j}
InUse(tab) == {i \in FileSlots : tab[i].used}

\* vfs_open: the first slot in use with that name, as a set of at most one.
vfs_open(n) == First({i \in InUse(files) : files[i].name = n})

\* safe_copy: what the array holds afterwards.
safe_copy(old, new) == IF new \in TooLong THEN old ELSE new

\* Mutant: the slot is in use although its content was refused.
vfs_create_early(tab, n, c) ==
  [i \in FileSlots |->
     IF i \notin First(FileSlots \ InUse(tab)) \/ n \in TooLong THEN tab[i]
     ELSE [used |-> TRUE, name |-> n, content |-> safe_copy(tab[i].content, c)]]

\* vfs_create: the table afterwards.  A name too long changes nothing; a
\* content too long leaves the name behind in a slot that stays unused.
vfs_create(tab, n, c) ==
  [i \in FileSlots |->
     IF i \notin First(FileSlots \ InUse(tab)) \/ n \in TooLong THEN tab[i]
     ELSE [used |-> c \notin TooLong, name |-> n, content |-> safe_copy(tab[i].content, c)]]

vfs_init ==
  LET tab[k \in 0 .. Len(Preloaded)] ==
        IF k = 0
        THEN [i \in FileSlots |-> [used |-> FALSE, name |-> Empty, content |-> Empty]]
        ELSE vfs_create(tab[k - 1], Preloaded[k].name, Preloaded[k].content)
  IN files = tab[Len(Preloaded)]

VfsInit == vfs_init /\ ret = 0

-----------------------------------------------------------------------------
\* vfs_create and its result: 0, or -1 if there is no slot or a copy failed.
Create(n, c) ==
  /\ files' = vfs_create(files, n, c)
  /\ ret' = IF InUse(files) # FileSlots /\ {n, c} \cap TooLong = {} THEN 0 ELSE -1

\* A file that exists is left as it is.
vfs_touch(n) ==
  IF vfs_open(n) # {} THEN ret' = 0 /\ UNCHANGED files ELSE Create(n, Empty)

vfs_write(n, c) ==
  IF vfs_open(n) = {} THEN Create(n, c)
  ELSE /\ files' = [i \in FileSlots |->
                      IF i \in vfs_open(n)
                      THEN [files[i] EXCEPT !.content = safe_copy(@, c)]
                      ELSE files[i]]
       /\ ret' = IF c \in TooLong THEN -1 ELSE 0

vfs_remove(n) ==
  /\ files' = [i \in FileSlots |->
                 IF i \in vfs_open(n) THEN [files[i] EXCEPT !.used = FALSE] ELSE files[i]]
  /\ ret' = IF vfs_open(n) = {} THEN -1 ELSE 0

VfsNext ==
  \E n \in FileNames :
    \/ vfs_touch(n) \/ vfs_remove(n)
    \/ \E c \in FileContents : vfs_write(n, c)

VfsSpec == VfsInit /\ [][VfsNext]_vfsVars

-----------------------------------------------------------------------------
\* The map a user of vfs_open sees.
Stored ==
  [n \in {files[i].name : i \in InUse(files)} |->
     files[CHOOSE i \in vfs_open(n) : TRUE].content]

Store == INSTANCE FileStore WITH
  Capacity <- MAX_FILES, store <- Stored, result <- ret

\* Slots that are left half written by a failed vfs_create, freed slots that
\* keep their name, and searches that stop at the first match never show:
\* vfs.c is a bounded map whose operations do all or nothing.
ImplementsFileStore == Store!Spec
=============================================================================
