-------------------------------- MODULE Heap ---------------------------------
(***************************************************************************)
(* The kernel heap, heap.c: kmalloc and kfree over a list of headers in    *)
(* one region.  Each runs under heap_mutex, so each is one step.           *)
(*                                                                         *)
(* The list is the sequence of its headers in list order, with the address *)
(* of each (relative to HEAP_START).  A caller frees only what it owns.    *)
(***************************************************************************)
EXTENDS Integers, SequencesExt

CONSTANTS
  HEAP_SIZE,   \* 4 MB in the code
  Header,      \* sizeof(header_t), 12
  MinSplit,    \* what a split must leave beside a header, 16
  SIZE_MOD,    \* size_t wraps here (2^32)
  Requests     \* the sizes asked for

ASSUME HeapAssumption ==
  /\ HEAP_SIZE \in Nat /\ Header \in Nat \ {0} /\ MinSplit \in Nat /\ SIZE_MOD \in Nat
  /\ HEAP_SIZE > Header
  /\ SIZE_MOD > HEAP_SIZE
  /\ Header % 4 = 0 /\ SIZE_MOD % 4 = 0
  /\ Requests \subseteq 0 .. SIZE_MOD - 1

VARIABLES
  blocks,   \* [addr, size, is_free] of every header, along the list
  held      \* what callers hold: the address returned and the size asked for

heapVars == <<blocks, held>>

init_heap == blocks = << [addr |-> 0, size |-> HEAP_SIZE - Header, is_free |-> TRUE] >>

HeapInit == init_heap /\ held = {}

-----------------------------------------------------------------------------
\* Mutant: rounded down.
Align_down(n) == n - (n % 4)

\* Alignment to 4 bytes, in size_t.
Align(n) == IF n % 4 # 0 THEN (n + 4 - (n % 4)) % SIZE_MOD ELSE n

\* First fit: the index of the block kmalloc takes.
Fits(n) == {i \in DOMAIN blocks : blocks[i].is_free /\ blocks[i].size >= n}
FirstFit(n) == CHOOSE i \in Fits(n) : \A j \in Fits(n) : i <= j

\* Mutant: the new header is not counted.
Carve_noheader(b, n) ==
  IF b.size >= n + Header + MinSplit
  THEN << [addr |-> b.addr, size |-> n, is_free |-> FALSE],
          [addr |-> b.addr + Header + n, size |-> b.size - n, is_free |-> TRUE] >>
  ELSE << [b EXCEPT !.is_free = FALSE] >>

\* The block, taken for n bytes: split in two if enough is left, or whole.
Carve(b, n) ==
  IF b.size >= n + Header + MinSplit
  THEN << [addr |-> b.addr, size |-> n, is_free |-> FALSE],
          [addr |-> b.addr + Header + n, size |-> b.size - n - Header, is_free |-> TRUE] >>
  ELSE << [b EXCEPT !.is_free = FALSE] >>

\* kmalloc(0) and a heap with no fit return 0: no step.
kmalloc(size) ==
  LET n == Align(size)
      i == FirstFit(n)
  IN /\ size # 0
     /\ Fits(n) # {}
     /\ blocks' = SubSeq(blocks, 1, i - 1) \o Carve(blocks[i], n)
                    \o SubSeq(blocks, i + 1, Len(blocks))
     /\ held' = held \cup {[ptr |-> blocks[i].addr + Header, size |-> size]}

\* Mutants: the header absorbed is not counted; only the first block of the
\* heap absorbs its neighbour.
Merge_noheader(done, b) ==
  IF done # <<>> /\ Last(done).is_free /\ b.is_free
  THEN [done EXCEPT ![Len(done)].size = @ + b.size]
  ELSE Append(done, b)

Merge_once(done, b) ==
  IF Len(done) = 1 /\ Last(done).is_free /\ b.is_free
  THEN [done EXCEPT ![Len(done)].size = @ + Header + b.size]
  ELSE Append(done, b)

\* One turn of kfree's loop: a free block is absorbed by a free one before.
Merge(done, b) ==
  IF done # <<>> /\ Last(done).is_free /\ b.is_free
  THEN [done EXCEPT ![Len(done)].size = @ + Header + b.size]
  ELSE Append(done, b)

\* kfree's loop along the whole list.
MergeAll(bs) ==
  LET done[n \in 0 .. Len(bs)] == IF n = 0 THEN <<>> ELSE Merge(done[n - 1], bs[n])
  IN done[Len(bs)]

kfree(o) ==
  LET freed == [i \in DOMAIN blocks |->
                  IF blocks[i].addr = o.ptr - Header
                  THEN [blocks[i] EXCEPT !.is_free = TRUE] ELSE blocks[i]]
  IN /\ blocks' = MergeAll(freed)
     /\ held' = held \ {o}

HeapNext ==
  \/ \E size \in Requests : kmalloc(size)
  \/ \E o \in held : kfree(o)

HeapSpec == HeapInit /\ [][HeapNext]_heapVars

-----------------------------------------------------------------------------
\* heap_get_used and heap_get_free.
heap_get_used ==
  LET used[n \in 0 .. Len(blocks)] ==
        IF n = 0 THEN 0
        ELSE used[n - 1] + IF blocks[n].is_free THEN 0 ELSE blocks[n].size + Header
  IN used[Len(blocks)]
heap_get_free == HEAP_SIZE - heap_get_used

\* The blocks tile the region: each begins where the one before ends, the
\* first at its start, the last ends with it.  So no two overlap and no byte
\* is lost, whatever was split and merged.
Tiling ==
  /\ blocks[1].addr = 0
  /\ \A i \in 1 .. Len(blocks) - 1 :
       blocks[i + 1].addr = blocks[i].addr + Header + blocks[i].size
  /\ Last(blocks).addr + Header + Last(blocks).size = HEAP_SIZE

\* Free space is never left in pieces: of two neighbours one is taken.
Coalesced ==
  \A i \in 1 .. Len(blocks) - 1 : ~ (blocks[i].is_free /\ blocks[i + 1].is_free)

\* The blocks that are not free are the ones callers hold, one each, aligned
\* and with the room that was asked for: nothing leaks, nothing is handed out
\* twice or too small.  A size within 3 of SIZE_MOD is the exception: it
\* rounds up to 0, kmalloc succeeds and the block has no room at all.
HeldIsTaken ==
  /\ {b.addr + Header : b \in {blocks[i] : i \in {j \in DOMAIN blocks : ~ blocks[j].is_free}}}
       = {o.ptr : o \in held}
  /\ \A o, p \in held : o.ptr = p.ptr => o = p
  /\ \A o \in held : \E i \in DOMAIN blocks :
       /\ blocks[i].addr + Header = o.ptr
       /\ blocks[i].size >= o.size \/ o.size > SIZE_MOD - 4
       /\ o.ptr % 4 = 0

\* Once everything is freed the heap is as it was, and all of it is free.
AllFreedIsInitial == held = {} => init_heap /\ heap_get_free = HEAP_SIZE
=============================================================================
