-------------------------------- MODULE Paging --------------------------------
(***************************************************************************)
(* The physical page allocator of paging.c: a bitmap, a counter of free    *)
(* pages kept beside it, and paging_lock.  An operation that returns does  *)
(* so with the lock released and is one step; a pointer is its page        *)
(* number.  The entries of page tables are abstracted away: of map_page    *)
(* what is left is whether the table it needs exists.                      *)
(***************************************************************************)
EXTENDS Integers, FiniteSets, FiniteSetsExt

CONSTANTS
  Callers,          \* kernel code using the allocator
  TOTAL_PAGES,      \* 2^20 in the code
  PAGES_PER_TABLE,  \* 1024
  RESERVED,         \* pages identity-mapped by paging_init: 16 tables' worth
  Counts,           \* arguments of alloc_pages and free_pages (no uint32 wrap)
  NoOne             \* a value that is not a caller

ASSUME PagingAssumption ==
  /\ TOTAL_PAGES \in Nat /\ PAGES_PER_TABLE \in Nat \ {0}
  /\ RESERVED \in 1 .. TOTAL_PAGES
  /\ RESERVED % PAGES_PER_TABLE = 0
  /\ Counts \subseteq 0 .. TOTAL_PAGES
  /\ NoOne \notin Callers

VARIABLES
  page_bitmap,      \* the pages marked used
  num_free_pages,
  page_tables,      \* the directory entries that have a table
  paging_lock,      \* who holds it between steps, or NoOne
  granted,          \* the pages each caller was given and has not freed
  mapping           \* the page a caller is about to map: alloc_page_user, _kernel

pagingVars == <<page_bitmap, num_free_pages, page_tables, paging_lock, granted, mapping>>

Pages == 0 .. TOTAL_PAGES - 1
FreePages == Pages \ page_bitmap
pd_idx(v) == v \div PAGES_PER_TABLE

paging_init ==
  /\ page_bitmap = 0 .. RESERVED - 1
  /\ num_free_pages = TOTAL_PAGES - RESERVED
  /\ page_tables = {pd_idx(v) : v \in 0 .. RESERVED - 1}
  /\ paging_lock = NoOne

PagingInit ==
  /\ paging_init
  /\ granted = [c \in Callers |-> {}]
  /\ mapping = [c \in Callers |-> NoOne]

-----------------------------------------------------------------------------
\* A caller makes one call at a time, and mutex_lock waits for the lock.
MayCall(c) == paging_lock = NoOne /\ mapping[c] = NoOne

Give(c, pages) ==
  /\ page_bitmap' = page_bitmap \cup pages
  /\ num_free_pages' = num_free_pages - Cardinality(pages)
  /\ granted' = [granted EXCEPT ![c] = @ \cup pages]

\* The first free page.  With none the call returns 0 and changes nothing.
alloc_page(c) ==
  /\ MayCall(c)
  /\ FreePages # {}
  /\ Give(c, {Min(FreePages)})
  /\ UNCHANGED <<page_tables, paging_lock, mapping>>

\* Mutant: the last page of the run is not looked at.
Runs_short(count) ==
  {s \in Pages : s .. s + count - 2 \subseteq FreePages /\ s + count <= TOTAL_PAGES}

\* The first run of count free pages: the loop's counter of consecutive ones
\* reaches count at the end of the earliest.
Runs(count) == {s \in Pages : s .. s + count - 1 \subseteq FreePages}

alloc_pages(c, count) ==
  /\ MayCall(c)
  /\ count # 0
  /\ Runs(count) # {}
  /\ Give(c, Min(Runs(count)) .. Min(Runs(count)) + count - 1)
  /\ UNCHANGED <<page_tables, paging_lock, mapping>>

\* Mutant: a page already free is not refused.
free_page_twice(c, p) ==
  /\ MayCall(c)
  /\ p # 0
  /\ p \in page_bitmap => p \in granted[c]
  /\ page_bitmap' = page_bitmap \ {p}
  /\ num_free_pages' = num_free_pages + 1
  /\ granted' = [granted EXCEPT ![c] = @ \ {p}]
  /\ UNCHANGED <<page_tables, paging_lock, mapping>>

\* Page 0 and a page that is already free (a double free) are refused.  The
\* code frees any other page it is given: that a caller passes none that is
\* reserved or another's is an assumption about the callers.
free_page(c, p) ==
  /\ MayCall(c)
  /\ p # 0
  /\ p \in page_bitmap
  /\ p \in page_bitmap => p \in granted[c]
  /\ page_bitmap' = page_bitmap \ {p}
  /\ num_free_pages' = num_free_pages + 1
  /\ granted' = [granted EXCEPT ![c] = @ \ {p}]
  /\ UNCHANGED <<page_tables, paging_lock, mapping>>

\* A page of the range that is already free is skipped.
free_pages(c, p, count) ==
  LET range == p .. p + count - 1
  IN /\ MayCall(c)
     /\ p # 0 /\ count # 0
     /\ p + count <= TOTAL_PAGES
     /\ range \cap page_bitmap \subseteq granted[c]
     /\ page_bitmap' = page_bitmap \ range
     /\ num_free_pages' = num_free_pages + Cardinality(range \cap page_bitmap)
     /\ granted' = [granted EXCEPT ![c] = @ \ range]
     /\ UNCHANGED <<page_tables, paging_lock, mapping>>

\* map_page: with a table the entry is written.  Without one it calls
\* alloc_page while it holds paging_lock, and alloc_page waits for that lock:
\* the lines behind the call are never reached.
map_page(c, v) ==
  /\ paging_lock = NoOne
  /\ paging_lock' = IF pd_idx(v) \in page_tables THEN NoOne ELSE c
  /\ UNCHANGED <<page_bitmap, num_free_pages, page_tables, granted>>

MapPage(c, v) == MayCall(c) /\ map_page(c, v) /\ UNCHANGED mapping

\* alloc_page_user and alloc_page_kernel: alloc_page, then a map_page of the
\* page to itself.  The lock is free in between.
AllocPageMapped(c) ==
  /\ MayCall(c)
  /\ FreePages # {}
  /\ Give(c, {Min(FreePages)})
  /\ mapping' = [mapping EXCEPT ![c] = Min(FreePages)]
  /\ UNCHANGED <<page_tables, paging_lock>>

MapAllocated(c) ==
  /\ mapping[c] # NoOne
  /\ map_page(c, mapping[c])
  /\ mapping' = [mapping EXCEPT ![c] = IF paging_lock' = c THEN @ ELSE NoOne]

PagingNext ==
  \E c \in Callers :
    \/ alloc_page(c)
    \/ \E count \in Counts : alloc_pages(c, count)
    \/ \E p \in Pages : free_page(c, p)
    \/ \E p \in Pages, count \in Counts : free_pages(c, p, count)
    \/ \E v \in Pages : MapPage(c, v)
    \/ AllocPageMapped(c)
    \/ MapAllocated(c)

PagingSpec == PagingInit /\ [][PagingNext]_pagingVars

\* A caller inside alloc_page_user goes on as soon as it can.
PagingFairSpec == PagingSpec /\ \A c \in Callers : WF_pagingVars(MapAllocated(c))

-----------------------------------------------------------------------------
\* The counter the shell shows is the number of pages the bitmap leaves free,
\* whatever mix of single and ranged calls got there: the two are updated by
\* different lines of each operation.
FreeCountExact == num_free_pages = Cardinality(FreePages)

\* The identity-mapped pages under the kernel are never given out, and no page
\* is in two hands ("ne les redistribue jamais par-dessus le noyau/tas").  This
\* is for callers that free what they were granted, if need be twice: free_page
\* and free_pages (paging.c:196-241) accept any page number, a reserved page or
\* another caller's too, and a caller that passed one is outside the model.
GrantsDisjoint ==
  /\ \A c \in Callers : granted[c] \cap (0 .. RESERVED - 1) = {}
  /\ \A c, d \in Callers : c # d => granted[c] \cap granted[d] = {}
  /\ page_bitmap = 0 .. RESERVED - 1 \cup UNION {granted[c] : c \in Callers}

\* alloc_page_user returns a page once it has allocated one.
AllocReturns == \A c \in Callers : mapping[c] # NoOne ~> mapping[c] = NoOne
=============================================================================
