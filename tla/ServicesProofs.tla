---------------------------- MODULE ServicesProofs ----------------------------
(***************************************************************************)
(* Proofs about the kernel services, each under its own specification:     *)
(* pages, timer callbacks, log, files, heap and the console.               *)
(***************************************************************************)
EXTENDS Console, Heap, Paging, Vfs, Log, TimerCallbacks, FiniteSetTheorems, ProofBasics

-----------------------------------------------------------------------------
(* Paging.                                                                 *)

\* The bitmap and the grants concern pages that exist.
PagingType ==
  /\ page_bitmap \subseteq Pages
  /\ granted \in [Callers -> SUBSET Pages]
  /\ num_free_pages \in Int

\* The inductive invariant of the page allocator.
PagingInv == PagingType /\ FreeCountExact /\ GrantsDisjoint

\* Sets of pages are finite.
LEMMA PagesFinite == ASSUME NEW S \in SUBSET Pages PROVE IsFiniteSet(S) /\ Cardinality(S) \in Nat
<1>1. IsFiniteSet(Pages)
  BY PagingAssumption, FS_Interval DEF Pages
<1>2. IsFiniteSet(S)
  BY <1>1, FS_Subset
<1> QED
  BY <1>2, FS_CardinalityType

\* Free pages given to a caller: the counter and the bitmap agree afterwards.
LEMMA GiveInv ==
  ASSUME PagingInv, NEW c \in Callers, NEW pages \in SUBSET FreePages, Give(c, pages)
  PROVE  PagingInv'
<1>1. /\ page_bitmap' = page_bitmap \cup pages
      /\ num_free_pages' = num_free_pages - Cardinality(pages)
      /\ granted' = [granted EXCEPT ![c] = granted[c] \cup pages]
  BY DEF Give
<1>2. FreePages \in SUBSET Pages /\ pages \in SUBSET Pages
  BY DEF FreePages
<1>3. FreePages' = FreePages \ pages /\ FreePages \cap pages = pages
  BY <1>1 DEF FreePages
<1>4. IsFiniteSet(FreePages) /\ Cardinality(FreePages) \in Nat /\ Cardinality(pages) \in Nat
  BY <1>2, PagesFinite
<1>5. Cardinality(FreePages \ pages) = Cardinality(FreePages) - Cardinality(FreePages \cap pages)
  BY <1>4, FS_Difference
<1>6. FreeCountExact'
  BY <1>1, <1>3, <1>5 DEF PagingInv, FreeCountExact
<1>7. PagingType'
  BY <1>1, <1>2, <1>4 DEF PagingInv, PagingType
<1>8. /\ granted'[c] = granted[c] \cup pages
      /\ \A d \in Callers : d # c => granted'[d] = granted[d]
  BY <1>1 DEF PagingInv, PagingType
<1>9. /\ pages \cap (0 .. RESERVED - 1) = {}
      /\ \A d \in Callers : pages \cap granted[d] = {}
  BY DEF PagingInv, GrantsDisjoint, FreePages
<1>10. page_bitmap' = 0 .. RESERVED - 1 \cup UNION {granted'[d] : d \in Callers}
  <2>1. page_bitmap = 0 .. RESERVED - 1 \cup UNION {granted[d] : d \in Callers}
    BY DEF PagingInv, GrantsDisjoint
  <2>2. UNION {granted'[d] : d \in Callers} = pages \cup UNION {granted[d] : d \in Callers}
    BY <1>8
  <2> QED
    BY <1>1, <2>1, <2>2
<1>11. \A d, e \in Callers : d # e => granted'[d] \cap granted'[e] = {}
  BY <1>8, <1>9 DEF PagingInv, GrantsDisjoint
<1>12. \A d \in Callers : granted'[d] \cap (0 .. RESERVED - 1) = {}
  BY <1>8, <1>9 DEF PagingInv, GrantsDisjoint
<1> QED
  BY <1>6, <1>7, <1>10, <1>11, <1>12 DEF PagingInv, GrantsDisjoint

\* A range of pages taken back from its holder: those of it that are in use.
LEMMA TakeBackInv ==
  ASSUME PagingInv, NEW c \in Callers, NEW R \in SUBSET Pages,
         R \cap page_bitmap \subseteq granted[c],
         page_bitmap' = page_bitmap \ R,
         num_free_pages' = num_free_pages + Cardinality(R \cap page_bitmap),
         granted' = [granted EXCEPT ![c] = granted[c] \ R]
  PROVE  PagingInv'
<1> DEFINE B == R \cap page_bitmap
<1>1. FreePages \in SUBSET Pages /\ B \in SUBSET Pages
  BY DEF FreePages
<1>2. FreePages' = FreePages \cup B /\ FreePages \cap B = {}
  BY DEF FreePages, PagingInv, PagingType
<1>3. /\ IsFiniteSet(FreePages) /\ IsFiniteSet(B)
      /\ Cardinality(FreePages) \in Nat /\ Cardinality(B) \in Nat
  BY <1>1, PagesFinite
<1>4. Cardinality(FreePages \cup B) = Cardinality(FreePages) + Cardinality(B)
  <2> HIDE DEF B
  <2>1. Cardinality(FreePages \cup B)
          = Cardinality(FreePages) + Cardinality(B) - Cardinality(FreePages \cap B)
    BY <1>3, FS_Union
  <2>2. Cardinality(FreePages \cap B) = 0
    BY <1>2, FS_EmptySet
  <2> QED
    BY <1>3, <2>1, <2>2
<1>5. FreeCountExact'
  BY <1>2, <1>4 DEF PagingInv, FreeCountExact
<1>6. PagingType'
  BY <1>3 DEF PagingInv, PagingType
<1>7. /\ granted'[c] = granted[c] \ R
      /\ \A d \in Callers : d # c => granted'[d] = granted[d]
  BY DEF PagingInv, PagingType
<1>8. /\ page_bitmap = 0 .. RESERVED - 1 \cup UNION {granted[d] : d \in Callers}
      /\ \A d \in Callers : granted[d] \cap (0 .. RESERVED - 1) = {}
      /\ \A d, e \in Callers : d # e => granted[d] \cap granted[e] = {}
  BY DEF PagingInv, GrantsDisjoint
<1>9. (0 .. RESERVED - 1) \cap R = {} /\ \A d \in Callers : d # c => granted[d] \cap R = {}
  BY <1>8
<1>10. page_bitmap' = 0 .. RESERVED - 1 \cup UNION {granted'[d] : d \in Callers}
  <2>1. UNION {granted'[d] : d \in Callers} = (UNION {granted[d] : d \in Callers}) \ R
    BY <1>7, <1>9
  <2> QED
    BY <1>8, <1>9, <2>1
<1>11. /\ \A d \in Callers : granted'[d] \cap (0 .. RESERVED - 1) = {}
       /\ \A d, e \in Callers : d # e => granted'[d] \cap granted'[e] = {}
  BY <1>7, <1>8
<1> QED
  BY <1>5, <1>6, <1>10, <1>11 DEF PagingInv, GrantsDisjoint

\* The first free page, and the first page of a run, exist and are free.
LEMMA FirstFree ==
  /\ FreePages # {} => Min(FreePages) \in FreePages
  /\ \A n \in Counts : Runs(n) # {} => Min(Runs(n)) .. Min(Runs(n)) + n - 1 \in SUBSET FreePages
<1>1. ASSUME NEW S \in SUBSET Pages, S # {} PROVE Min(S) \in S
  <2>1. S \subseteq Nat
    BY PagingAssumption DEF Pages
  <2>2. \E x \in S : \A y \in S : x <= y
    BY <1>1, <2>1, LeastNat
  <2> QED
    BY <2>2 DEF Min
<1>2. FreePages \in SUBSET Pages /\ \A n \in Counts : Runs(n) \in SUBSET Pages
  BY DEF FreePages, Runs
<1>3. FreePages # {} => Min(FreePages) \in FreePages
  BY <1>1, <1>2
<1>4. ASSUME NEW n \in Counts, Runs(n) # {}
      PROVE  Min(Runs(n)) .. Min(Runs(n)) + n - 1 \in SUBSET FreePages
  <2>1. Min(Runs(n)) \in Runs(n)
    BY <1>1, <1>2, <1>4
  <2> HIDE DEF FreePages
  <2> QED
    BY <2>1 DEF Runs
<1> QED
  BY <1>3, <1>4

\* Every operation of paging.c keeps it.
LEMMA PagingNextInv == PagingInv /\ [PagingNext]_pagingVars => PagingInv'
<1> SUFFICES ASSUME PagingInv, [PagingNext]_pagingVars PROVE PagingInv'
  OBVIOUS
<1>0. ASSUME UNCHANGED <<page_bitmap, num_free_pages, granted>> PROVE PagingInv'
  BY <1>0 DEF PagingInv, PagingType, FreeCountExact, GrantsDisjoint, FreePages
<1>1. CASE UNCHANGED pagingVars
  BY <1>0, <1>1 DEF pagingVars
<1>2. ASSUME NEW c \in Callers, alloc_page(c) \/ AllocPageMapped(c) PROVE PagingInv'
  <2>1. FreePages # {} /\ Give(c, {Min(FreePages)})
    BY <1>2 DEF alloc_page, AllocPageMapped
  <2>2. {Min(FreePages)} \in SUBSET FreePages
    BY <2>1, FirstFree
  <2> QED
    BY <2>1, <2>2, GiveInv
<1>3. ASSUME NEW c \in Callers, NEW n \in Counts, alloc_pages(c, n) PROVE PagingInv'
  <2>1. Runs(n) # {} /\ Give(c, Min(Runs(n)) .. Min(Runs(n)) + n - 1)
    BY <1>3 DEF alloc_pages
  <2>2. Min(Runs(n)) .. Min(Runs(n)) + n - 1 \in SUBSET FreePages
    BY <2>1, FirstFree
  <2> QED
    BY <2>1, <2>2, GiveInv
<1>4. ASSUME NEW c \in Callers, NEW p \in Pages, free_page(c, p) PROVE PagingInv'
  <2>1. /\ p \in page_bitmap /\ p \in granted[c]
        /\ page_bitmap' = page_bitmap \ {p} /\ num_free_pages' = num_free_pages + 1
        /\ granted' = [granted EXCEPT ![c] = granted[c] \ {p}]
    BY <1>4 DEF free_page
  <2>2. {p} \cap page_bitmap = {p} /\ {p} \in SUBSET Pages
    BY <2>1
  <2>3. Cardinality({p} \cap page_bitmap) = 1
    BY <2>2, FS_Singleton
  <2> QED
    BY <2>1, <2>2, <2>3, TakeBackInv
<1>5. ASSUME NEW c \in Callers, NEW p \in Pages, NEW n \in Counts, free_pages(c, p, n)
      PROVE  PagingInv'
  <2> DEFINE R == p .. p + n - 1
  <2>1. /\ p + n <= TOTAL_PAGES /\ R \cap page_bitmap \subseteq granted[c]
        /\ page_bitmap' = page_bitmap \ R
        /\ num_free_pages' = num_free_pages + Cardinality(R \cap page_bitmap)
        /\ granted' = [granted EXCEPT ![c] = granted[c] \ R]
    BY <1>5 DEF free_pages
  <2>2. R \in SUBSET Pages
    BY <2>1, PagingAssumption DEF Pages
  <2> HIDE DEF R
  <2> QED
    BY <2>1, <2>2, TakeBackInv
<1>6. ASSUME NEW c \in Callers, NEW v \in Pages, MapPage(c, v) PROVE PagingInv'
  BY <1>0, <1>6 DEF MapPage, map_page
<1>7. ASSUME NEW c \in Callers, MapAllocated(c) PROVE PagingInv'
  BY <1>0, <1>7 DEF MapAllocated, map_page
<1> QED
  BY <1>1, <1>2, <1>3, <1>4, <1>5, <1>6, <1>7 DEF PagingNext

\* The pages under the kernel are taken and nobody's.
LEMMA PagingInitInv == PagingInit => PagingInv
<1> SUFFICES ASSUME PagingInit PROVE PagingInv
  OBVIOUS
<1>1. /\ page_bitmap = 0 .. RESERVED - 1 /\ num_free_pages = TOTAL_PAGES - RESERVED
      /\ granted = [c \in Callers |-> {}]
  BY DEF PagingInit, paging_init
<1>2. /\ RESERVED \in Nat /\ TOTAL_PAGES \in Nat /\ RESERVED >= 1 /\ RESERVED <= TOTAL_PAGES
  BY PagingAssumption
<1>3. FreePages = RESERVED .. TOTAL_PAGES - 1
  BY <1>1, <1>2 DEF FreePages, Pages
<1>4. Cardinality(RESERVED .. TOTAL_PAGES - 1) = TOTAL_PAGES - RESERVED
  <2>1. TOTAL_PAGES - 1 \in Int /\ RESERVED \in Int
    BY <1>2
  <2>2. Cardinality(RESERVED .. TOTAL_PAGES - 1)
          = IF RESERVED > TOTAL_PAGES - 1 THEN 0 ELSE TOTAL_PAGES - 1 - RESERVED + 1
    BY <2>1, FS_Interval
  <2> QED
    BY <1>2, <2>2
<1>5. FreeCountExact
  BY <1>1, <1>3, <1>4 DEF FreeCountExact
<1>6. PagingType
  BY <1>1, <1>2 DEF PagingType, Pages
<1>7. GrantsDisjoint
  BY <1>1 DEF GrantsDisjoint
<1> QED
  BY <1>5, <1>6, <1>7 DEF PagingInv

\* The inductive invariant of the page allocator, for any size of memory.
THEOREM PagingInductive == PagingSpec => []PagingInv
BY PagingInitInv, PagingNextInv, PTL DEF PagingSpec

\* num_free_pages is the number of free bits of page_bitmap (paging.c).
THEOREM FreeCountCorrect == PagingSpec => []FreeCountExact
BY PagingInductive, PTL DEF PagingInv

\* No page is handed out twice, and none from under the kernel.
THEOREM PagesNotShared == PagingSpec => []GrantsDisjoint
BY PagingInductive, PTL DEF PagingInv

-----------------------------------------------------------------------------
(* Timer callbacks.                                                        *)

CallbackType ==
  /\ callbacks \in [CbSlots -> Callbacks \cup {NoCallback}]
  /\ cb_count \in 0 .. TIMER_MAX_CALLBACKS
  /\ registered \in [Callbacks -> Int]
  /\ call \in [op : {"none", "store", "count", "shift"}, cb : Callbacks \cup {NoCallback}, j : Int]
  /\ call.op = "none" \/ call.cb \in Callbacks

\* Where the call under way is: the slot of its next store, and what is there.
CallAt ==
  /\ call.op = "none" => call = NoCall
  /\ call.op = "store" => /\ call.j = cb_count - 1 /\ cb_count > 0
                          /\ callbacks[call.j] = NoCallback
  /\ call.op = "count" => /\ call.j = cb_count /\ cb_count < TIMER_MAX_CALLBACKS
                          /\ callbacks[call.j] = call.cb
  /\ call.op = "shift" =>
       /\ call.j \in 0 .. cb_count - 1
       /\ callbacks[call.j] = call.cb
            \/ (call.j > 0 /\ callbacks[call.j] = callbacks[call.j - 1])

\* Past the end there are null pointers, but for a slot that is being filled.
CleanPast ==
  \A i \in CbSlots : i >= cb_count /\ ~ (call.op = "count" /\ i = call.j) => callbacks[i] = NoCallback

\* The slots with callback cb, without the one that a shift is about to
\* overwrite: its callback is gone, or has its copy in the slot before.
Where(cb) ==
  {i \in CbSlots : i < cb_count /\ callbacks[i] = cb /\ ~ (call.op = "shift" /\ i = call.j)}

\* A callback is registered as often as the table has it.
RegisteredCounted == \A cb \in Callbacks : registered[cb] = Cardinality(Where(cb))

\* The inductive invariant of the callback table.
CallbackInv == CallbackType /\ CallAt /\ CleanPast /\ RegisteredCounted

\* The slots of the table that hold a callback are a finite set.
LEMMA WhereFinite ==
  ASSUME NEW cb
  PROVE  IsFiniteSet(Where(cb)) /\ Cardinality(Where(cb)) \in Nat
         /\ (Cardinality(Where(cb)) = 0 <=> Where(cb) = {})
<1>1. IsFiniteSet(CbSlots)
  BY TimerCallbacksAssumption, FS_Interval DEF CbSlots
<1>2. IsFiniteSet(Where(cb))
  BY <1>1, FS_Subset DEF Where
<1> QED
  BY <1>2, FS_CardinalityType, FS_EmptySet

\* One slot more, one slot less, and one slot for another.
LEMMA OneSlot ==
  ASSUME NEW S, IsFiniteSet(S), NEW x
  PROVE  /\ x \notin S => Cardinality(S \cup {x}) = Cardinality(S) + 1
         /\ x \in S => Cardinality(S \ {x}) = Cardinality(S) - 1
<1>1. Cardinality(S \cup {x}) = IF x \in S THEN Cardinality(S) ELSE Cardinality(S) + 1
  BY FS_AddElement
<1>2. Cardinality(S \ {x}) = IF x \in S THEN Cardinality(S) - 1 ELSE Cardinality(S)
  BY FS_RemoveElement
<1> QED
  BY <1>1, <1>2

\* The types the steps need, in one place.
LEMMA SlotArith ==
  ASSUME CallbackInv
  PROVE  /\ cb_count \in Nat /\ cb_count <= TIMER_MAX_CALLBACKS /\ TIMER_MAX_CALLBACKS \in Nat
         /\ \A i : i \in CbSlots <=> i \in Nat /\ i < TIMER_MAX_CALLBACKS
         /\ callbacks \in [CbSlots -> Callbacks \cup {NoCallback}]
         /\ NoCallback \notin Callbacks
<1>1. cb_count \in 0 .. TIMER_MAX_CALLBACKS /\ TIMER_MAX_CALLBACKS \in Nat
  BY TimerCallbacksAssumption DEF CallbackInv, CallbackType
<1>2. \A i : i \in CbSlots <=> i \in Nat /\ i < TIMER_MAX_CALLBACKS
  BY <1>1 DEF CbSlots
<1> QED
  BY <1>1, <1>2, TimerCallbacksAssumption DEF CallbackInv, CallbackType

\* timer_register_callback, first store, in either order.
LEMMA RegisterInv ==
  ASSUME CallbackInv, NEW cb \in Callbacks, Register(cb)
  PROVE  CallbackInv'
<1>1. /\ call = NoCall /\ cb_count < TIMER_MAX_CALLBACKS /\ registered' = registered
  BY DEF Register
<1>2. call.op = "none"
  BY <1>1 DEF NoCall
<1>3. /\ cb_count \in Nat /\ cb_count <= TIMER_MAX_CALLBACKS /\ TIMER_MAX_CALLBACKS \in Nat
      /\ \A i : i \in CbSlots <=> i \in Nat /\ i < TIMER_MAX_CALLBACKS
      /\ callbacks \in [CbSlots -> Callbacks \cup {NoCallback}] /\ NoCallback \notin Callbacks
  BY SlotArith
<1>4. cb_count \in CbSlots /\ callbacks[cb_count] = NoCallback
  <2>1. cb_count \in CbSlots
    BY <1>1, <1>3
  <2> QED
    BY <1>2, <1>3, <2>1 DEF CallbackInv, CleanPast
<1>5. CASE /\ cb_count' = cb_count + 1
           /\ call' = [op |-> "store", cb |-> cb, j |-> cb_count]
           /\ callbacks' = callbacks
  <2>1. call'.op = "store" /\ call'.cb = cb /\ call'.j = cb_count
    BY <1>5
  <2>2. CallbackType'
    <3>1. cb_count + 1 \in 0 .. TIMER_MAX_CALLBACKS
      BY <1>1, <1>3
    <3> QED
      BY <1>1, <1>3, <1>5, <2>1, <3>1 DEF CallbackInv, CallbackType
  <2>3. CallAt'
    BY <1>3, <1>4, <1>5, <2>1 DEF CallAt
  <2>4. CleanPast'
    <3>1. \A i \in CbSlots : i >= cb_count + 1 => i >= cb_count
      BY <1>3
    <3> QED
      BY <1>2, <1>5, <3>1 DEF CallbackInv, CleanPast
  <2>5. \A x \in Callbacks : Where(x)' = Where(x)
    <3>1. \A i \in CbSlots : i < cb_count + 1 <=> i < cb_count \/ i = cb_count
      BY <1>3
    <3> QED
      BY <1>2, <1>3, <1>4, <1>5, <2>1, <3>1 DEF Where
  <2>6. RegisteredCounted'
    BY <1>1, <2>5 DEF CallbackInv, RegisteredCounted
  <2> QED
    BY <2>2, <2>3, <2>4, <2>6 DEF CallbackInv
<1>6. CASE /\ callbacks' = [callbacks EXCEPT ![cb_count] = cb]
           /\ call' = [op |-> "count", cb |-> cb, j |-> cb_count]
           /\ cb_count' = cb_count
  <2>1. call'.op = "count" /\ call'.cb = cb /\ call'.j = cb_count
    BY <1>6
  <2>2. CallbackType'
    BY <1>1, <1>3, <1>6, <2>1 DEF CallbackInv, CallbackType
  <2>3. callbacks'[cb_count] = cb /\ \A i \in CbSlots : i # cb_count => callbacks'[i] = callbacks[i]
    BY <1>3, <1>4, <1>6
  <2>4. CallAt'
    BY <1>1, <1>6, <2>1, <2>3 DEF CallAt
  <2>5. CleanPast'
    BY <1>2, <1>6, <2>1, <2>3 DEF CallbackInv, CleanPast
  <2>6. \A x \in Callbacks : Where(x)' = Where(x)
    <3>1. \A i \in CbSlots : i < cb_count => i # cb_count
      BY <1>3
    <3> QED
      BY <1>2, <1>6, <2>1, <2>3, <3>1 DEF Where
  <2>7. RegisteredCounted'
    BY <1>1, <2>6 DEF CallbackInv, RegisteredCounted
  <2> QED
    BY <2>2, <2>4, <2>5, <2>7 DEF CallbackInv
<1> QED
  BY <1>5, <1>6 DEF Register

\* Its second store: now the table has the callback once more.
LEMMA RegisteredInv ==
  ASSUME CallbackInv, NEW cb, cb = call.cb, NEW j, j = call.j, RegisterStore \/ RegisterCount
  PROVE  CallbackInv'
<1>1. /\ call.op \in {"store", "count"} /\ call' = NoCall
      /\ registered' = [registered EXCEPT ![cb] = registered[cb] + 1]
  BY DEF RegisterStore, RegisterCount
<1>2. /\ cb_count \in Nat /\ cb_count <= TIMER_MAX_CALLBACKS /\ TIMER_MAX_CALLBACKS \in Nat
      /\ \A i : i \in CbSlots <=> i \in Nat /\ i < TIMER_MAX_CALLBACKS
      /\ callbacks \in [CbSlots -> Callbacks \cup {NoCallback}] /\ NoCallback \notin Callbacks
  BY SlotArith
<1>3. cb \in Callbacks /\ registered \in [Callbacks -> Int]
  BY <1>1 DEF CallbackInv, CallbackType
<1>4. call'.op = "none" /\ call'.cb = NoCallback /\ call'.j = 0
  BY <1>1 DEF NoCall
<1>5. /\ j \in CbSlots /\ j \in Nat /\ cb_count' = j + 1
      /\ callbacks' = [callbacks EXCEPT ![j] = cb]
  <2>1. CASE RegisterStore
    <3>1. /\ call.j = cb_count - 1 /\ cb_count > 0 /\ cb_count' = cb_count
          /\ callbacks' = [callbacks EXCEPT ![call.j] = call.cb]
      BY <2>1 DEF RegisterStore, CallbackInv, CallAt
    <3> QED
      BY <1>2, <3>1
  <2>2. CASE RegisterCount
    <3>1. /\ call.j = cb_count /\ cb_count < TIMER_MAX_CALLBACKS /\ cb_count' = call.j + 1
          /\ callbacks' = callbacks /\ callbacks[call.j] = call.cb
      BY <2>2 DEF RegisterCount, CallbackInv, CallAt
    <3>2. j \in CbSlots
      BY <1>2, <3>1
    <3> QED
      BY <1>2, <3>1, <3>2
  <2> QED
    BY <2>1, <2>2
<1>6. \A i \in CbSlots : i < j <=> (i < cb_count /\ i # j)
  <2>1. CASE call.op = "store"
    <3>1. j = cb_count - 1
      BY <2>1 DEF CallbackInv, CallAt
    <3> QED
      BY <1>2, <3>1
  <2>2. CASE call.op = "count"
    <3>1. j = cb_count
      BY <2>2 DEF CallbackInv, CallAt
    <3> QED
      BY <1>2, <3>1
  <2> QED
    BY <1>1, <2>1, <2>2
<1>7. callbacks[j] = NoCallback \/ ~ (j < cb_count)
  <2>1. CASE call.op = "store"
    BY <2>1 DEF CallbackInv, CallAt
  <2>2. CASE call.op = "count"
    <3>1. j = cb_count
      BY <2>2 DEF CallbackInv, CallAt
    <3> QED
      BY <1>2, <3>1
  <2> QED
    BY <1>1, <2>1, <2>2
<1>8. callbacks'[j] = cb /\ \A i \in CbSlots : i # j => callbacks'[i] = callbacks[i]
  BY <1>2, <1>5
<1>9. CallbackType'
  <2>1. cb_count' \in 0 .. TIMER_MAX_CALLBACKS
    BY <1>2, <1>5
  <2>2. callbacks' \in [CbSlots -> Callbacks \cup {NoCallback}] /\ registered' \in [Callbacks -> Int]
    BY <1>1, <1>2, <1>3, <1>5
  <2> QED
    BY <1>1, <1>4, <2>1, <2>2 DEF CallbackType, NoCall
<1>10. CallAt'
  BY <1>1, <1>4 DEF CallAt
<1>11. CleanPast'
  <2> SUFFICES ASSUME NEW i \in CbSlots, i >= j + 1 PROVE callbacks'[i] = NoCallback
    BY <1>5 DEF CleanPast
  <2>1. i # j /\ i >= cb_count
    BY <1>2, <1>5, <1>6
  <2> QED
    BY <1>8, <2>1 DEF CallbackInv, CleanPast
<1>12. Where(cb)' = Where(cb) \cup {j} /\ j \notin Where(cb)
  <2>1. \A i \in CbSlots : i < j + 1 <=> i < j \/ i = j
    BY <1>2, <1>5
  <2>2. \A i \in CbSlots : i < cb_count' <=> (i < cb_count /\ i # j) \/ i = j
    BY <1>5, <1>6, <2>1
  <2>3. j \notin Where(cb)
    BY <1>2, <1>3, <1>7 DEF Where
  <2>4. \A i \in CbSlots : i \in Where(cb) <=> i < cb_count /\ i # j /\ callbacks[i] = cb
    BY <1>1, <2>3 DEF Where
  <2>5. \A i \in CbSlots : i < cb_count' /\ callbacks'[i] = cb
                              <=> (i < cb_count /\ i # j /\ callbacks[i] = cb) \/ i = j
    BY <1>8, <2>2
  <2>6. \A i : i \in {k \in CbSlots : k < cb_count' /\ callbacks'[k] = cb} <=> i \in Where(cb) \/ i = j
    BY <1>5, <2>4, <2>5 DEF Where
  <2>7. {k \in CbSlots : k < cb_count' /\ callbacks'[k] = cb} = Where(cb) \cup {j}
    BY <2>6
  <2> QED
    BY <1>4, <2>3, <2>7 DEF Where
<1>13. \A x \in Callbacks : x # cb => Where(x)' = Where(x)
  <2> SUFFICES ASSUME NEW x \in Callbacks, x # cb PROVE Where(x)' = Where(x)
    OBVIOUS
  <2>1. \A i \in CbSlots : i < j + 1 <=> i < j \/ i = j
    BY <1>2, <1>5
  <2>2. \A i \in CbSlots : i < cb_count' /\ callbacks'[i] = x <=> i < cb_count /\ callbacks[i] = x
    BY <1>2, <1>5, <1>6, <1>7, <1>8, <2>1
  <2> QED
    BY <1>1, <1>4, <2>2 DEF Where
<1>14. RegisteredCounted'
  <2>1. Cardinality(Where(cb) \cup {j}) = Cardinality(Where(cb)) + 1
    BY <1>12, WhereFinite, OneSlot
  <2>2. Cardinality(Where(cb)') = Cardinality(Where(cb)) + 1
    BY <1>12, <2>1
  <2>3. \A x \in Callbacks : registered[x] = Cardinality(Where(x))
    BY DEF CallbackInv, RegisteredCounted
  <2>4. \A x \in Callbacks : registered'[x] = IF x = cb THEN registered[x] + 1 ELSE registered[x]
    BY <1>1, <1>3
  <2> QED
    BY <1>13, <2>2, <2>3, <2>4 DEF RegisteredCounted
<1> QED
  BY <1>9, <1>10, <1>11, <1>14 DEF CallbackInv

\* timer_unregister_callback has found its slot.
LEMMA UnregisterInv ==
  ASSUME CallbackInv, NEW cb \in Callbacks, Unregister(cb)
  PROVE  CallbackInv'
<1>1. /\ call = NoCall /\ callbacks' = callbacks /\ cb_count' = cb_count
      /\ registered' = [registered EXCEPT ![cb] = registered[cb] - 1]
  BY DEF Unregister
<1>2. PICK j \in 0 .. cb_count - 1 : callbacks[j] = cb /\ call' = [op |-> "shift", cb |-> cb, j |-> j]
  BY DEF Unregister
<1>3. call.op = "none" /\ call'.op = "shift" /\ call'.cb = cb /\ call'.j = j
  BY <1>1, <1>2 DEF NoCall
<1>4. /\ cb_count \in Nat /\ cb_count <= TIMER_MAX_CALLBACKS /\ TIMER_MAX_CALLBACKS \in Nat
      /\ \A i : i \in CbSlots <=> i \in Nat /\ i < TIMER_MAX_CALLBACKS
      /\ callbacks \in [CbSlots -> Callbacks \cup {NoCallback}] /\ NoCallback \notin Callbacks
  BY SlotArith
<1>5. j \in CbSlots /\ j < cb_count /\ j \in Int
  BY <1>4
<1>6. registered \in [Callbacks -> Int]
  BY DEF CallbackInv, CallbackType
<1>7. CallbackType'
  <2>1. registered' \in [Callbacks -> Int]
    BY <1>1, <1>6
  <2>2. call' \in [op : {"none", "store", "count", "shift"}, cb : Callbacks \cup {NoCallback}, j : Int]
    BY <1>2, <1>5
  <2> QED
    BY <1>1, <1>3, <2>1, <2>2 DEF CallbackInv, CallbackType
<1>8. CallAt'
  BY <1>1, <1>2, <1>3 DEF CallAt
<1>9. CleanPast'
  BY <1>1, <1>3 DEF CallbackInv, CleanPast
<1>10. j \in Where(cb) /\ Where(cb)' = Where(cb) \ {j}
  BY <1>1, <1>2, <1>3, <1>5 DEF Where
<1>11. \A x \in Callbacks : x # cb => Where(x)' = Where(x)
  BY <1>1, <1>2, <1>3 DEF Where
<1>12. RegisteredCounted'
  <2>1. Cardinality(Where(cb)') = Cardinality(Where(cb)) - 1
    BY <1>10, WhereFinite, OneSlot
  <2>2. \A x \in Callbacks : registered[x] = Cardinality(Where(x))
    BY DEF CallbackInv, RegisteredCounted
  <2>3. \A x \in Callbacks : registered'[x] = IF x = cb THEN registered[x] - 1 ELSE registered[x]
    BY <1>1, <1>6
  <2> QED
    BY <1>11, <2>1, <2>2, <2>3 DEF RegisteredCounted
<1> QED
  BY <1>7, <1>8, <1>9, <1>12 DEF CallbackInv

\* One store of the shift: the slot to be overwritten moves up by one, and what
\* was there is in the slot before.
LEMMA ShiftInv ==
  ASSUME CallbackInv, NEW j, j = call.j, Shift
  PROVE  CallbackInv'
<1>1. /\ call.op = "shift" /\ j < cb_count - 1
      /\ callbacks' = [callbacks EXCEPT ![j] = callbacks[j + 1]]
      /\ call' = [call EXCEPT !.j = @ + 1]
      /\ cb_count' = cb_count /\ registered' = registered
  BY DEF Shift
<1>2. /\ cb_count \in Nat /\ cb_count <= TIMER_MAX_CALLBACKS /\ TIMER_MAX_CALLBACKS \in Nat
      /\ \A i : i \in CbSlots <=> i \in Nat /\ i < TIMER_MAX_CALLBACKS
      /\ callbacks \in [CbSlots -> Callbacks \cup {NoCallback}] /\ NoCallback \notin Callbacks
  BY SlotArith
<1>3. j \in 0 .. cb_count - 1
  BY <1>1 DEF CallbackInv, CallAt
<1>4. /\ j \in CbSlots /\ j + 1 \in CbSlots /\ j + 1 \in 0 .. cb_count - 1
      /\ j < cb_count /\ j + 1 < cb_count /\ j # j + 1 /\ j \in Int
  BY <1>1, <1>2, <1>3
<1>5. /\ call'.op = "shift" /\ call'.cb = call.cb /\ call'.j = j + 1
      /\ call' \in [op : {"none", "store", "count", "shift"}, cb : Callbacks \cup {NoCallback}, j : Int]
  <2>1. call \in [op : {"none", "store", "count", "shift"}, cb : Callbacks \cup {NoCallback}, j : Int]
    BY DEF CallbackInv, CallbackType
  <2> QED
    BY <1>1, <1>4, <2>1
<1>6. callbacks'[j] = callbacks[j + 1] /\ \A i \in CbSlots : i # j => callbacks'[i] = callbacks[i]
  BY <1>1, <1>2, <1>4
<1>7. CallbackType'
  <2>1. callbacks' \in [CbSlots -> Callbacks \cup {NoCallback}]
    BY <1>1, <1>2, <1>4
  <2> QED
    BY <1>1, <1>5, <2>1 DEF CallbackInv, CallbackType
<1>8. CallAt'
  <2>1. callbacks'[j + 1] = callbacks[j + 1] /\ callbacks'[j] = callbacks[j + 1]
    BY <1>4, <1>6
  <2>2. j + 1 > 0 /\ j + 1 - 1 = j
    BY <1>3
  <2>3. callbacks'[j + 1] = callbacks'[j + 1 - 1]
    BY <2>1, <2>2
  <2> QED
    BY <1>1, <1>4, <1>5, <2>2, <2>3 DEF CallAt
<1>9. CleanPast'
  <2> SUFFICES ASSUME NEW i \in CbSlots, i >= cb_count PROVE callbacks'[i] = NoCallback
    BY <1>1 DEF CleanPast
  <2>1. i # j
    BY <1>2, <1>4
  <2> QED
    BY <1>1, <1>6, <2>1 DEF CallbackInv, CleanPast
<1>10. ASSUME NEW x \in Callbacks PROVE Cardinality(Where(x)') = Cardinality(Where(x))
  <2>1. \A i \in CbSlots : i \in Where(x) <=> i < cb_count /\ callbacks[i] = x /\ i # j
    BY <1>1 DEF Where
  <2>2. \A i \in CbSlots : i \in Where(x)' <=> i < cb_count /\ callbacks'[i] = x /\ i # j + 1
    BY <1>1, <1>5 DEF Where
  <2>3. Where(x) \subseteq CbSlots /\ Where(x)' \subseteq CbSlots
    BY DEF Where
  <2>4. CASE callbacks[j + 1] = x
    <3>1. j + 1 \in Where(x) /\ j \notin Where(x)
      BY <1>4, <2>1, <2>4
    <3>2. \A i \in CbSlots : i \in Where(x)' <=> i \in (Where(x) \ {j + 1}) \cup {j}
      BY <1>4, <1>6, <2>1, <2>2, <2>4
    <3>3. Where(x)' = (Where(x) \ {j + 1}) \cup {j}
      BY <1>4, <2>3, <3>2
    <3>4. Cardinality(Where(x) \ {j + 1}) = Cardinality(Where(x)) - 1 /\ IsFiniteSet(Where(x) \ {j + 1})
      BY <3>1, WhereFinite, OneSlot, FS_RemoveElement
    <3>5. Cardinality((Where(x) \ {j + 1}) \cup {j}) = Cardinality(Where(x) \ {j + 1}) + 1
      BY <3>1, <3>4, OneSlot
    <3>6. Cardinality(Where(x)) \in Nat
      BY WhereFinite
    <3> QED
      BY <3>3, <3>4, <3>5, <3>6
  <2>5. CASE callbacks[j + 1] # x
    <3>1. \A i \in CbSlots : i \in Where(x)' <=> i \in Where(x)
      BY <1>4, <1>6, <2>1, <2>2, <2>5
    <3>2. Where(x)' = Where(x)
      BY <2>3, <3>1
    <3> QED
      BY <3>2
  <2> QED
    BY <2>4, <2>5
<1>11. RegisteredCounted'
  BY <1>1, <1>10 DEF CallbackInv, RegisteredCounted
<1> QED
  BY <1>7, <1>8, <1>9, <1>11 DEF CallbackInv

\* The last slot is given up.
LEMMA DropInv ==
  ASSUME CallbackInv, NEW j, j = call.j, Drop
  PROVE  CallbackInv'
<1>1. /\ call.op = "shift" /\ j >= cb_count - 1
      /\ callbacks' = [callbacks EXCEPT ![cb_count - 1] = NoCallback]
      /\ call' = NoCall
      /\ cb_count' = cb_count - 1 /\ registered' = registered
  BY DEF Drop
<1>2. /\ cb_count \in Nat /\ cb_count <= TIMER_MAX_CALLBACKS /\ TIMER_MAX_CALLBACKS \in Nat
      /\ \A i : i \in CbSlots <=> i \in Nat /\ i < TIMER_MAX_CALLBACKS
      /\ callbacks \in [CbSlots -> Callbacks \cup {NoCallback}] /\ NoCallback \notin Callbacks
  BY SlotArith
<1>3. j \in 0 .. cb_count - 1
  BY <1>1 DEF CallbackInv, CallAt
<1>4. j = cb_count - 1 /\ j \in CbSlots /\ j \in Nat
  BY <1>1, <1>2, <1>3
<1>5. call'.op = "none" /\ call'.cb = NoCallback /\ call'.j = 0
  BY <1>1 DEF NoCall
<1>6. callbacks'[j] = NoCallback /\ \A i \in CbSlots : i # j => callbacks'[i] = callbacks[i]
  BY <1>1, <1>2, <1>4
<1>7. CallbackType'
  <2>1. callbacks' \in [CbSlots -> Callbacks \cup {NoCallback}]
    BY <1>1, <1>2, <1>4
  <2>2. cb_count' \in 0 .. TIMER_MAX_CALLBACKS
    BY <1>1, <1>2, <1>4
  <2> QED
    BY <1>1, <1>5, <2>1, <2>2 DEF CallbackInv, CallbackType, NoCall
<1>8. CallAt'
  BY <1>1, <1>5 DEF CallAt
<1>9. CleanPast'
  <2> SUFFICES ASSUME NEW i \in CbSlots, i >= cb_count - 1 PROVE callbacks'[i] = NoCallback
    BY <1>1 DEF CleanPast
  <2>1. CASE i = j
    BY <1>6, <2>1
  <2>2. CASE i # j
    <3>1. i >= cb_count
      BY <1>2, <1>4, <2>2
    <3> QED
      BY <1>1, <1>6, <2>2, <3>1 DEF CallbackInv, CleanPast
  <2> QED
    BY <2>1, <2>2
<1>10. \A x \in Callbacks : Where(x)' = Where(x)
  <2>1. \A i \in CbSlots : i < cb_count - 1 <=> i < cb_count /\ i # j
    BY <1>2, <1>4
  <2> QED
    BY <1>1, <1>5, <1>6, <2>1 DEF Where
<1>11. RegisteredCounted'
  BY <1>1, <1>10 DEF CallbackInv, RegisteredCounted
<1> QED
  BY <1>7, <1>8, <1>9, <1>11 DEF CallbackInv

\* The table is empty at the start.
LEMMA CallbackInitInv == CallbackInit => CallbackInv
<1> SUFFICES ASSUME CallbackInit PROVE CallbackInv
  OBVIOUS
<1>1. /\ callbacks = [i \in CbSlots |-> NoCallback] /\ cb_count = 0
      /\ call = NoCall /\ registered = [cb \in Callbacks |-> 0]
  BY DEF CallbackInit, init_timer
<1>2. call.op = "none"
  BY <1>1 DEF NoCall
<1>3. CallbackType
  <2>1. 0 \in 0 .. TIMER_MAX_CALLBACKS
    BY TimerCallbacksAssumption
  <2> QED
    BY <1>1, <1>2, <2>1 DEF CallbackType, NoCall
<1>4. CallAt /\ CleanPast
  BY <1>1, <1>2 DEF CallAt, CleanPast
<1>5. \A cb \in Callbacks : Where(cb) = {}
  BY <1>1, TimerCallbacksAssumption DEF Where
<1>6. RegisteredCounted
  BY <1>1, <1>5, FS_EmptySet DEF RegisteredCounted
<1> QED
  BY <1>3, <1>4, <1>6 DEF CallbackInv

\* Every store of timer.c to the table keeps the invariant.
LEMMA CallbackNextInv == CallbackInv /\ [CallbackNext]_callbackVars => CallbackInv'
<1> SUFFICES ASSUME CallbackInv, [CallbackNext]_callbackVars PROVE CallbackInv'
  OBVIOUS
<1>1. CASE UNCHANGED callbackVars
  <2>1. UNCHANGED <<callbacks, cb_count, call, registered>>
    BY <1>1 DEF callbackVars
  <2>2. CallbackType' /\ CallAt' /\ CleanPast'
    BY <2>1 DEF CallbackInv, CallbackType, CallAt, CleanPast
  <2>3. RegisteredCounted'
    BY <2>1 DEF CallbackInv, RegisteredCounted, Where
  <2> QED
    BY <2>2, <2>3 DEF CallbackInv
<1>2. ASSUME NEW cb \in Callbacks, Register(cb) \/ Unregister(cb) PROVE CallbackInv'
  BY <1>2, RegisterInv, UnregisterInv
<1>3. CASE RegisterStore \/ RegisterCount
  BY <1>3, RegisteredInv
<1>4. CASE Shift
  BY <1>4, ShiftInv
<1>5. CASE Drop
  BY <1>5, DropInv
<1> QED
  BY <1>1, <1>2, <1>3, <1>4, <1>5 DEF CallbackNext

\* The inductive invariant of the callback table.
THEOREM CallbackInductive == CallbackSpec => []CallbackInv
BY CallbackInitInv, CallbackNextInv, PTL DEF CallbackSpec

\* IRQ 0 calls what is registered and nothing else, wherever between the stores
\* of timer_register_callback and timer_unregister_callback it strikes.
THEOREM TickCallsRegistered == CallbackSpec => []CallsRegistered
<1>1. CallbackInv => CallsRegistered
  <2> SUFFICES ASSUME CallbackInv PROVE CallsRegistered
    OBVIOUS
  <2>1. /\ cb_count \in Nat /\ cb_count <= TIMER_MAX_CALLBACKS /\ TIMER_MAX_CALLBACKS \in Nat
        /\ \A i : i \in CbSlots <=> i \in Nat /\ i < TIMER_MAX_CALLBACKS
        /\ callbacks \in [CbSlots -> Callbacks \cup {NoCallback}] /\ NoCallback \notin Callbacks
    BY SlotArith
  <2>2. \A cb \in Callbacks : registered[cb] > 0 <=> Where(cb) # {}
    BY WhereFinite DEF CallbackInv, RegisteredCounted
  <2>3. \A i \in 0 .. cb_count - 1 : i \in CbSlots /\ i < cb_count
    BY <2>1
  <2>4. ASSUME NEW cb \in Callbacks, registered[cb] > 0 PROVE cb \in Calls
    <3>1. PICK i \in CbSlots : i < cb_count /\ callbacks[i] = cb
      BY <2>2, <2>4 DEF Where
    <3>2. i \in 0 .. cb_count - 1 /\ cb # NoCallback
      BY <2>1, <3>1
    <3> QED
      BY <3>1, <3>2 DEF Calls
  <2>5. ASSUME NEW i \in 0 .. cb_count - 1, callbacks[i] # NoCallback
        PROVE  callbacks[i] = call.cb \/ (callbacks[i] \in Callbacks /\ registered[callbacks[i]] > 0)
    <3>1. i \in CbSlots /\ i < cb_count /\ callbacks[i] \in Callbacks
      BY <2>1, <2>3, <2>5
    <3>2. CASE ~ (call.op = "shift" /\ i = call.j)
      <4>1. i \in Where(callbacks[i])
        BY <3>1, <3>2 DEF Where
      <4> QED
        BY <2>2, <3>1, <4>1
    <3>3. CASE call.op = "shift" /\ i = call.j /\ callbacks[i] # call.cb
      <4>1. i > 0 /\ callbacks[i] = callbacks[i - 1]
        BY <3>3 DEF CallbackInv, CallAt
      <4>2. i - 1 \in CbSlots /\ i - 1 < cb_count /\ i - 1 # i
        BY <2>1, <3>1, <4>1
      <4>3. i - 1 \in Where(callbacks[i])
        BY <3>3, <4>1, <4>2 DEF Where
      <4> QED
        BY <2>2, <3>1, <4>3
    <3> QED
      BY <3>2, <3>3
  <2>6. {cb \in Callbacks : registered[cb] > 0} \subseteq Calls
    BY <2>4
  <2>7. Calls \subseteq {cb \in Callbacks : registered[cb] > 0} \cup {call.cb}
    BY <2>5 DEF Calls
  <2> QED
    BY <2>6, <2>7 DEF CallsRegistered
<1> QED
  BY <1>1, CallbackInductive, PTL

-----------------------------------------------------------------------------
(* The kernel log.                                                         *)

Entry == Entries \cup {Blank}

\* The index k messages before h in the ring.
Back(h, k) == IF k <= h THEN h - k ELSE h - k + LOG_ENTRIES

\* The ring with head h and count c holds the latest messages of r, those of
\* them that a race d messages before the end of its effect cannot have hit.
Good(b, h, c, d, r) ==
  /\ d = 0 => c = Len(r) /\ (Len(r) < LOG_ENTRIES => h = Len(r))
  /\ d > 0 => c >= LOG_ENTRIES - d /\ Len(r) >= LOG_ENTRIES - d
  /\ \A k \in 1 .. Len(r) : k <= LOG_ENTRIES - d => b[Back(h, k)] = r[Len(r) + 1 - k]

WriterType ==
  [pc : {"off", "entry", "head", "count"}, entry : Entry, head : Indices,
   count : 0 .. LOG_ENTRIES, raced : BOOLEAN]

LogType ==
  /\ log_buffer \in [Indices -> Entry]
  /\ log_head \in Indices /\ log_count \in 0 .. LOG_ENTRIES
  /\ recent \in Seq(Entry) /\ Len(recent) <= LOG_ENTRIES
  /\ damaged \in 0 .. LOG_ENTRIES
  /\ writing \in [Writers -> WriterType]

\* The message of w is in the ring, which was good before it.
Without(w) ==
  \E b \in [Indices -> Entry] :
    /\ log_buffer = [b EXCEPT ![writing[w].head] = writing[w].entry]
    /\ Good(b, writing[w].head, log_count, damaged, recent)

\* How far a log_msg has come with the ring, if nobody raced with it.
CallInv(w) ==
  /\ writing[w].count = log_count
  /\ writing[w].pc = "entry" =>
       writing[w].head = log_head /\ Good(log_buffer, log_head, log_count, damaged, recent)
  /\ writing[w].pc = "head" => writing[w].head = log_head /\ Without(w)
  /\ writing[w].pc = "count" => log_head = Advance(writing[w].head) /\ Without(w)

\* The ring is good between calls, and one with which nobody raced is alone.
WritersInv ==
  /\ Busy = {} => Good(log_buffer, log_head, log_count, damaged, recent)
  /\ \A w \in Busy : ~ writing[w].raced => Busy = {w} /\ CallInv(w)

\* The inductive invariant of the log.
LogInv == LogType /\ WritersInv

\* The history after one more message.
Remembered(r, e) ==
  IF Len(Append(r, e)) > LOG_ENTRIES THEN Tail(Append(r, e)) ELSE Append(r, e)

\* The history's length and its messages, counted from the latest.
LEMMA RememberedIs ==
  ASSUME NEW r \in Seq(Entry), Len(r) <= LOG_ENTRIES, NEW e \in Entry
  PROVE  /\ Remembered(r, e) \in Seq(Entry)
         /\ Len(Remembered(r, e)) = IF Len(r) < LOG_ENTRIES THEN Len(r) + 1 ELSE LOG_ENTRIES
         /\ Remembered(r, e)[Len(Remembered(r, e))] = e
         /\ \A k \in 1 .. Len(Remembered(r, e)) - 1 :
              /\ k \in 1 .. Len(r)
              /\ Remembered(r, e)[Len(Remembered(r, e)) - k] = r[Len(r) + 1 - k]
<1> DEFINE a == Append(r, e)
           m == Len(r)
<1>1. m \in Nat /\ LOG_ENTRIES \in Nat /\ LOG_ENTRIES > 0
  BY LogAssumption, LenProperties
<1>2. /\ a \in Seq(Entry) /\ Len(a) = m + 1
      /\ a[m + 1] = e /\ \A i \in 1 .. m : a[i] = r[i]
  BY AppendProperties
<1> HIDE DEF a, m
<1>m. m = Len(r) /\ Remembered(r, e) = IF Len(a) > LOG_ENTRIES THEN Tail(a) ELSE a
  BY DEF Remembered, a, m
<1>3. CASE m < LOG_ENTRIES
  <2>1. Remembered(r, e) = a
    BY <1>1, <1>2, <1>3, <1>m
  <2>2. ASSUME NEW k \in 1 .. m PROVE a[m + 1 - k] = r[m + 1 - k]
    <3>1. m + 1 - k \in 1 .. m
      BY <1>1
    <3> QED
      BY <1>2, <3>1
  <2>3. m + 1 - 1 = m
    BY <1>1
  <2> QED
    BY <1>2, <1>3, <1>m, <2>1, <2>2, <2>3
<1>4. CASE ~ (m < LOG_ENTRIES)
  <2>1. m = LOG_ENTRIES
    BY <1>1, <1>4, <1>m
  <2>2. Remembered(r, e) = Tail(a) /\ Len(a) # 0
    BY <1>1, <1>2, <1>m, <2>1
  <2>3. a # <<>>
    BY <1>2, <2>2, EmptySeq
  <2>4. /\ Tail(a) \in Seq(Entry) /\ Len(Tail(a)) = Len(a) - 1
        /\ \A i \in 1 .. Len(Tail(a)) : Tail(a)[i] = a[i + 1]
    BY <1>2, <2>3, HeadTailProperties
  <2>5. Len(Tail(a)) = m
    BY <1>1, <1>2, <2>4
  <2>6. Tail(a)[m] = e
    <3>1. m \in 1 .. m
      BY <1>1, <2>1
    <3> QED
      BY <1>2, <2>4, <2>5, <3>1
  <2>7. ASSUME NEW k \in 1 .. m - 1 PROVE k \in 1 .. m /\ Tail(a)[m - k] = r[m + 1 - k]
    <3>1. m - k \in 1 .. m /\ m - k + 1 = m + 1 - k /\ m + 1 - k \in 1 .. m /\ k \in 1 .. m
      BY <1>1
    <3>2. Tail(a)[m - k] = a[m + 1 - k]
      BY <2>4, <2>5, <3>1
    <3> QED
      BY <1>2, <3>1, <3>2
  <2> QED
    BY <1>4, <1>m, <2>1, <2>2, <2>4, <2>5, <2>6, <2>7
<1> QED
  BY <1>3, <1>4

\* A message stored at the head, the head and the count moved on, keeps the
\* ring good, and brings it a message nearer to the end of a race's effect.
LEMMA GoodStep ==
  ASSUME NEW b \in [Indices -> Entry], NEW h \in Indices, NEW c \in 0 .. LOG_ENTRIES,
         NEW d \in 0 .. LOG_ENTRIES, NEW r \in Seq(Entry), Len(r) <= LOG_ENTRIES,
         NEW e \in Entry, Good(b, h, c, d, r)
  PROVE  Good([b EXCEPT ![h] = e], Advance(h), Counted(c), IF d > 0 THEN d - 1 ELSE 0,
              Remembered(r, e))
<1> DEFINE L == LOG_ENTRIES
           q == Remembered(r, e)
           m == Len(r)
           x == Len(q)
           g == Advance(h)
           f == IF d > 0 THEN d - 1 ELSE 0
           n == Counted(c)
           a == [b EXCEPT ![h] = e]
<1>1. /\ q \in Seq(Entry) /\ x = IF m < L THEN m + 1 ELSE L
      /\ q[x] = e /\ \A k \in 1 .. x - 1 : k \in 1 .. m /\ q[x - k] = r[m + 1 - k]
  BY RememberedIs
<1>2. /\ L \in Nat /\ L > 0 /\ m \in Nat /\ m <= L /\ h \in Nat /\ h < L
      /\ c \in Nat /\ c <= L /\ d \in Nat /\ d <= L
  BY LogAssumption, LenProperties DEF Indices
<1>3. g = IF h = L - 1 THEN 0 ELSE h + 1
  <2>1. h \in 0 .. LOG_ENTRIES - 1 /\ LOG_ENTRIES \in Nat \ {0}
    BY LogAssumption DEF Indices
  <2> QED
    BY <2>1, ModSucc DEF Advance
<1>4. n = IF c < L THEN c + 1 ELSE c
  BY DEF Counted
<1>5. /\ d = 0 => c = m /\ (m < L => h = m)
      /\ d > 0 => c >= L - d /\ m >= L - d
      /\ \A k \in 1 .. m : k <= L - d => b[Back(h, k)] = r[m + 1 - k]
  BY DEF Good
<1>6. a[h] = e /\ \A i \in Indices : i # h => a[i] = b[i]
  OBVIOUS
<1> HIDE DEF L, q, m, x, g, n, a
<1>7. f \in Nat /\ f <= L
  BY <1>2
<1>8. f = 0 => n = x /\ (x < L => g = x)
  BY <1>1, <1>2, <1>3, <1>4, <1>5
<1>9. f > 0 => n >= L - f /\ x >= L - f
  BY <1>1, <1>2, <1>4, <1>5
<1>10. ASSUME NEW k \in 1 .. x, k <= L - f PROVE a[Back(g, k)] = q[x + 1 - k]
  <2>1. CASE k = 1
    <3>1. Back(g, 1) = h /\ x + 1 - 1 = x
      BY <1>1, <1>2, <1>3 DEF Back, L
    <3> QED
      BY <1>1, <1>6, <2>1, <3>1
  <2>2. CASE k # 1
    <3> DEFINE j == k - 1
    <3>1. x \in Nat /\ x <= L
      BY <1>1, <1>2
    <3>2. j \in 1 .. x - 1 /\ x - j = x + 1 - k /\ j <= L - 1 /\ j <= L - d /\ j \in Nat /\ j > 0
      BY <1>2, <1>10, <2>2, <3>1
    <3>3. Back(g, k) = Back(h, j) /\ Back(h, j) \in Indices /\ Back(h, j) # h
      BY <1>2, <1>3, <3>2, LogAssumption DEF Back, Indices, L
    <3>4. j \in 1 .. m /\ q[x - j] = r[m + 1 - j]
      BY <1>1, <3>2
    <3>5. b[Back(h, j)] = r[m + 1 - j]
      BY <1>5, <3>2, <3>4
    <3> QED
      BY <1>6, <3>2, <3>3, <3>4, <3>5
  <2> QED
    BY <2>1, <2>2
<1> QED
  BY <1>8, <1>9, <1>10 DEF Good, L, q, x, g, n, a

\* A ring of which nothing is asked.
LEMMA GoodDamaged ==
  ASSUME NEW b, NEW h, NEW c \in 0 .. LOG_ENTRIES, NEW r \in Seq(Entry)
  PROVE  Good(b, h, c, LOG_ENTRIES, r)
<1>1. LOG_ENTRIES \in Nat /\ LOG_ENTRIES > 0 /\ Len(r) \in Nat
  BY LogAssumption, LenProperties
<1>2. /\ ~ (LOG_ENTRIES = 0) /\ c >= LOG_ENTRIES - LOG_ENTRIES /\ Len(r) >= LOG_ENTRIES - LOG_ENTRIES
      /\ \A k \in 1 .. Len(r) : ~ (k <= LOG_ENTRIES - LOG_ENTRIES)
  BY <1>1
<1> QED
  BY <1>2 DEF Good

\* The empty ring.
LEMMA GoodEmpty == ASSUME NEW b PROVE Good(b, 0, 0, 0, <<>>)
BY DEF Good

\* The counters of one more message stay in range.
LEMMA LogArith ==
  ASSUME LogInv
  PROVE  /\ \A h \in Indices : Advance(h) \in Indices
         /\ \A c \in 0 .. LOG_ENTRIES : Counted(c) \in 0 .. LOG_ENTRIES
         /\ (IF damaged > 0 THEN damaged - 1 ELSE 0) \in 0 .. LOG_ENTRIES
         /\ \A e \in Entry : /\ Remembered(recent, e) \in Seq(Entry)
                             /\ Len(Remembered(recent, e)) <= LOG_ENTRIES
<1>1. LOG_ENTRIES \in Nat \ {0}
  BY LogAssumption
<1>2. \A h \in Indices : Advance(h) \in Indices
  BY <1>1 DEF Advance, Indices
<1>3. \A c \in 0 .. LOG_ENTRIES : Counted(c) \in 0 .. LOG_ENTRIES
  BY <1>1 DEF Counted
<1>4. (IF damaged > 0 THEN damaged - 1 ELSE 0) \in 0 .. LOG_ENTRIES
  BY <1>1 DEF LogInv, LogType
<1>5. recent \in Seq(Entry) /\ Len(recent) <= LOG_ENTRIES /\ Len(recent) \in Nat
  BY LenProperties DEF LogInv, LogType
<1>6. ASSUME NEW e \in Entry
      PROVE  Remembered(recent, e) \in Seq(Entry) /\ Len(Remembered(recent, e)) <= LOG_ENTRIES
  <2>1. /\ Remembered(recent, e) \in Seq(Entry)
        /\ Len(Remembered(recent, e)) = IF Len(recent) < LOG_ENTRIES THEN Len(recent) + 1 ELSE LOG_ENTRIES
    BY <1>5, RememberedIs
  <2> QED
    BY <1>1, <1>5, <2>1
<1> QED
  BY <1>2, <1>3, <1>4, <1>6

\* What Raced does: it marks those in log_msg.
LEMMA RacedIs ==
  ASSUME LogInv
  PROVE  /\ Raced \in [Writers -> WriterType]
         /\ \A w \in Writers : Raced[w].pc = writing[w].pc /\ Raced[w].raced = (writing[w].pc # "off")
<1>1. \A w \in Writers : writing[w] \in WriterType
  BY DEF LogInv, LogType
<1>2. \A w \in Writers : Raced[w] = [writing[w] EXCEPT !.raced = writing[w].pc # "off"]
  BY DEF Raced
<1>3. ASSUME NEW w \in Writers
      PROVE  /\ Raced[w] \in WriterType /\ Raced[w].pc = writing[w].pc
             /\ Raced[w].raced = (writing[w].pc # "off")
  <2>1. PICK x : x = writing[w]
    OBVIOUS
  <2>2. PICK b \in BOOLEAN : b = (x.pc # "off")
    OBVIOUS
  <2>3. x \in WriterType /\ Raced[w] = [x EXCEPT !.raced = b]
    BY <1>1, <1>2, <2>1, <2>2
  <2>4. Raced[w] \in WriterType /\ Raced[w].pc = x.pc /\ Raced[w].raced = b
    BY <2>3 DEF WriterType
  <2> QED
    BY <2>1, <2>2, <2>4
<1>4. Raced = [w \in Writers |-> Raced[w]]
  BY DEF Raced
<1> QED
  BY <1>3, <1>4

\* A message or a log_clear with interrupts off: good, if nobody is in log_msg.
LEMMA InterruptInv ==
  ASSUME LogInv, writing' = Raced, log_buffer' \in [Indices -> Entry], log_head' \in Indices,
         log_count' \in 0 .. LOG_ENTRIES, recent' \in Seq(Entry), Len(recent') <= LOG_ENTRIES,
         damaged' \in 0 .. LOG_ENTRIES,
         Busy = {} => Good(log_buffer, log_head, log_count, damaged, recent)'
  PROVE  LogInv'
<1>1. /\ writing' \in [Writers -> WriterType]
      /\ \A w \in Writers : writing'[w].pc = writing[w].pc /\ writing'[w].raced = (writing[w].pc # "off")
  BY RacedIs
<1>2. LogType'
  BY <1>1 DEF LogType, WriterType
<1>3. Busy' = Busy
  BY <1>1 DEF Busy
<1>4. \A w \in Busy : writing'[w].raced
  BY <1>1 DEF Busy
<1>5. WritersInv'
  BY <1>3, <1>4 DEF WritersInv
<1> QED
  BY <1>2, <1>5 DEF LogInv

\* log_msg with interrupts off.
LEMMA LogMsgInv ==
  ASSUME LogInv, NEW e \in Entries, log_msg(e)
  PROVE  LogInv'
<1>1. /\ log_buffer' = [log_buffer EXCEPT ![log_head] = e]
      /\ log_head' = Advance(log_head) /\ log_count' = Counted(log_count)
      /\ writing' = Raced /\ recent' = Remembered(recent, e)
      /\ damaged' = IF damaged > 0 THEN damaged - 1 ELSE 0
  BY DEF log_msg, Remember, Remembered
<1>2. /\ log_buffer \in [Indices -> Entry] /\ log_head \in Indices
      /\ log_count \in 0 .. LOG_ENTRIES /\ recent \in Seq(Entry) /\ Len(recent) <= LOG_ENTRIES
      /\ damaged \in 0 .. LOG_ENTRIES /\ e \in Entry
  BY DEF LogInv, LogType, Entry
<1>3. /\ log_buffer' \in [Indices -> Entry] /\ log_head' \in Indices
      /\ log_count' \in 0 .. LOG_ENTRIES /\ recent' \in Seq(Entry) /\ Len(recent') <= LOG_ENTRIES
      /\ damaged' \in 0 .. LOG_ENTRIES
  BY <1>1, <1>2, LogArith
<1>4. Busy = {} => Good(log_buffer, log_head, log_count, damaged, recent)'
  <2> SUFFICES ASSUME Busy = {}
               PROVE  Good(log_buffer', log_head', log_count', damaged', recent')
    BY DEF Good, Back
  <2>1. Good(log_buffer, log_head, log_count, damaged, recent)
    BY DEF LogInv, WritersInv
  <2> QED
    BY <1>1, <1>2, <2>1, GoodStep
<1> QED
  BY <1>1, <1>3, <1>4, InterruptInv

\* log_clear.
LEMMA LogClearInv ==
  ASSUME LogInv, log_clear
  PROVE  LogInv'
<1>1. /\ log_buffer' = [i \in Indices |-> Blank] /\ log_head' = 0 /\ log_count' = 0
      /\ writing' = Raced /\ recent' = <<>> /\ damaged' = 0
  BY DEF log_clear
<1>2. LOG_ENTRIES \in Nat /\ LOG_ENTRIES > 0
  BY LogAssumption
<1>3. 0 \in Indices /\ 0 \in 0 .. LOG_ENTRIES /\ <<>> \in Seq(Entry) /\ Len(<<>>) <= LOG_ENTRIES
  BY <1>2 DEF Indices
<1>4. log_buffer' \in [Indices -> Entry]
  BY <1>1 DEF Entry
<1>5. Good(log_buffer, log_head, log_count, damaged, recent)'
  <2>1. Good(log_buffer', 0, 0, 0, <<>>)
    BY GoodEmpty
  <2>2. Good(log_buffer', log_head', log_count', damaged', recent')
    BY <1>1, <2>1
  <2> QED
    BY <2>2 DEF Good, Back
<1> QED
  BY <1>1, <1>3, <1>4, <1>5, InterruptInv

\* A writer reads the counters: if it is alone, the ring is good.
LEMMA WriterReadInv ==
  ASSUME LogInv, NEW w \in Writers, NEW e \in Entries, LogBegin(w, e)
  PROVE  LogInv'
<1> DEFINE mine == [pc |-> "entry", entry |-> e, head |-> log_head, count |-> log_count,
                    raced |-> Busy # {}]
<1>1. /\ writing[w].pc = "off" /\ UNCHANGED <<log_buffer, log_head, log_count, recent, damaged>>
      /\ writing' = [Raced EXCEPT ![w] = mine]
  BY DEF LogBegin, ringVars
<1>2. mine \in WriterType
  <2>1. e \in Entry /\ log_head \in Indices /\ log_count \in 0 .. LOG_ENTRIES
    BY DEF Entry, LogInv, LogType
  <2> QED
    BY <2>1 DEF WriterType
<1>3. /\ mine.pc = "entry" /\ mine.head = log_head /\ mine.count = log_count
      /\ mine.raced = (Busy # {})
  OBVIOUS
<1> HIDE DEF mine
<1>4. /\ Raced \in [Writers -> WriterType]
      /\ \A v \in Writers : Raced[v].pc = writing[v].pc /\ Raced[v].raced = (writing[v].pc # "off")
  BY RacedIs
<1>5. /\ writing' \in [Writers -> WriterType] /\ writing'[w] = mine
      /\ \A v \in Writers : v # w => writing'[v] = Raced[v]
  BY <1>1, <1>2, <1>4
<1>6. LogType'
  BY <1>1, <1>5 DEF LogInv, LogType, WriterType
<1>7. Busy' = Busy \cup {w}
  BY <1>3, <1>4, <1>5 DEF Busy
<1>8. ASSUME NEW v \in Busy', ~ writing'[v].raced PROVE Busy' = {v} /\ CallInv(v)'
  <2>1. v = w
    BY <1>4, <1>5, <1>8 DEF Busy
  <2>2. Busy = {}
    BY <1>3, <1>5, <1>8, <2>1
  <2>3. Good(log_buffer, log_head, log_count, damaged, recent)
    BY <2>2 DEF LogInv, WritersInv
  <2>4. Good(log_buffer, log_head, log_count, damaged, recent)'
    BY <1>1, <2>3 DEF Good, Back
  <2>5. CallInv(w)'
    BY <1>1, <1>3, <1>5, <2>4 DEF CallInv
  <2> QED
    BY <1>7, <2>1, <2>2, <2>5
<1>9. WritersInv'
  BY <1>7, <1>8 DEF WritersInv
<1> QED
  BY <1>6, <1>9 DEF LogInv

\* A step of w inside log_msg that keeps the types: it is enough to look at w,
\* and only if nobody raced with it.
LEMMA WriterStep ==
  ASSUME LogInv, NEW w \in Busy, NEW p \in {"head", "count"},
         writing' = [writing EXCEPT ![w].pc = p],
         log_buffer' \in [Indices -> Entry], log_head' \in Indices,
         UNCHANGED <<log_count, recent, damaged>>,
         ~ writing[w].raced => CallInv(w)'
  PROVE  LogInv'
<1>1. w \in Writers /\ writing[w] \in WriterType
  BY DEF Busy, LogInv, LogType
<1>2. /\ writing' \in [Writers -> WriterType]
      /\ \A v \in Writers : writing'[v].raced = writing[v].raced
      /\ \A v \in Writers : v # w => writing'[v] = writing[v]
      /\ writing'[w].pc = p
  BY <1>1 DEF LogInv, LogType, WriterType
<1>3. LogType'
  BY <1>2 DEF LogInv, LogType, WriterType
<1>4. Busy' = Busy
  BY <1>2 DEF Busy
<1>5. ASSUME NEW v \in Busy', ~ writing'[v].raced PROVE Busy' = {v} /\ CallInv(v)'
  <2>1. v \in Writers /\ v \in Busy /\ ~ writing[v].raced
    BY <1>2, <1>4, <1>5 DEF Busy
  <2>2. Busy = {v}
    BY <2>1 DEF LogInv, WritersInv
  <2>3. v = w
    BY <2>2
  <2> QED
    BY <1>4, <2>1, <2>2, <2>3
<1>6. WritersInv'
  BY <1>4, <1>5 DEF WritersInv
<1> QED
  BY <1>3, <1>6 DEF LogInv

\* A writer stores its message.
LEMMA WriterEntryInv ==
  ASSUME LogInv, NEW w \in Writers, LogEntry(w)
  PROVE  LogInv'
<1>1. /\ writing[w].pc = "entry" /\ writing' = [writing EXCEPT ![w].pc = "head"]
      /\ UNCHANGED <<log_head, log_count, recent, damaged>>
  BY DEF LogEntry
<1>2. PICK h \in {writing[w].head, log_head} : log_buffer' = [log_buffer EXCEPT ![h] = writing[w].entry]
  BY DEF LogEntry
<1>3. w \in Busy /\ writing[w] \in WriterType
  BY <1>1 DEF Busy, LogInv, LogType
<1>4. log_head' \in Indices /\ log_buffer' \in [Indices -> Entry] /\ log_buffer \in [Indices -> Entry]
  BY <1>1, <1>2, <1>3 DEF LogInv, LogType, WriterType
<1>5. /\ writing'[w].head = writing[w].head /\ writing'[w].count = writing[w].count
      /\ writing'[w].entry = writing[w].entry /\ writing'[w].pc = "head"
  BY <1>1, <1>3 DEF LogInv, LogType, WriterType
<1>6. ~ writing[w].raced => CallInv(w)'
  <2> SUFFICES ASSUME ~ writing[w].raced PROVE CallInv(w)'
    OBVIOUS
  <2>1. /\ writing[w].head = log_head /\ writing[w].count = log_count
        /\ Good(log_buffer, log_head, log_count, damaged, recent)
    BY <1>1, <1>3 DEF LogInv, WritersInv, CallInv
  <2>2. \E b \in [Indices -> Entry] :
          /\ log_buffer' = [b EXCEPT ![writing'[w].head] = writing'[w].entry]
          /\ Good(b, writing'[w].head, log_count', damaged', recent')
    BY <1>1, <1>2, <1>4, <1>5, <2>1
  <2>3. Without(w)'
    BY <2>2 DEF Without, Good, Back
  <2> QED
    BY <1>1, <1>5, <2>1, <2>3 DEF CallInv
<1> QED
  BY <1>1, <1>3, <1>4, <1>6, WriterStep

\* A writer moves the head.
LEMMA WriterHeadInv ==
  ASSUME LogInv, NEW w \in Writers, LogHead(w)
  PROVE  LogInv'
<1>1. /\ writing[w].pc = "head" /\ writing' = [writing EXCEPT ![w].pc = "count"]
      /\ UNCHANGED <<log_buffer, log_count, recent, damaged>>
  BY DEF LogHead
<1>2. PICK h \in {writing[w].head, log_head} : log_head' = Advance(h)
  BY DEF LogHead
<1>3. w \in Busy /\ writing[w] \in WriterType
  BY <1>1 DEF Busy, LogInv, LogType
<1>4. log_head' \in Indices /\ log_buffer' \in [Indices -> Entry]
  <2>1. h \in Indices
    BY <1>3 DEF LogInv, LogType, WriterType
  <2> QED
    BY <1>1, <1>2, <2>1, LogArith DEF LogInv, LogType
<1>5. /\ writing'[w].head = writing[w].head /\ writing'[w].count = writing[w].count
      /\ writing'[w].entry = writing[w].entry /\ writing'[w].pc = "count"
  BY <1>1, <1>3 DEF LogInv, LogType, WriterType
<1>6. ~ writing[w].raced => CallInv(w)'
  <2> SUFFICES ASSUME ~ writing[w].raced PROVE CallInv(w)'
    OBVIOUS
  <2>1. writing[w].head = log_head /\ writing[w].count = log_count /\ Without(w)
    BY <1>1, <1>3 DEF LogInv, WritersInv, CallInv
  <2>2. Without(w)'
    <3>1. PICK b \in [Indices -> Entry] :
            /\ log_buffer = [b EXCEPT ![writing[w].head] = writing[w].entry]
            /\ Good(b, writing[w].head, log_count, damaged, recent)
      BY <2>1 DEF Without
    <3>2. /\ log_buffer' = [b EXCEPT ![writing'[w].head] = writing'[w].entry]
          /\ Good(b, writing'[w].head, log_count', damaged', recent')
      BY <1>1, <1>5, <3>1
    <3> QED
      BY <3>2 DEF Without, Good, Back
  <2>3. log_head' = Advance(writing'[w].head)
    BY <1>2, <1>5, <2>1
  <2> QED
    BY <1>1, <1>5, <2>1, <2>2, <2>3 DEF CallInv, Advance
<1> QED
  BY <1>1, <1>3, <1>4, <1>6, WriterStep

\* A writer counts its message: the ring is good with it, or damaged for as
\* many messages as it holds.
LEMMA WriterCountInv ==
  ASSUME LogInv, NEW w \in Writers, LogCount(w)
  PROVE  LogInv'
<1>1. /\ writing[w].pc = "count" /\ writing' = [writing EXCEPT ![w] = NotLogging]
      /\ recent' = Remembered(recent, writing[w].entry)
      /\ UNCHANGED <<log_buffer, log_head>>
  BY DEF LogCount, Remember, Remembered
<1>2. PICK c \in {writing[w].count, log_count} : log_count' = IF c < LOG_ENTRIES THEN c + 1 ELSE log_count
  BY DEF LogCount
<1>3. damaged' = IF writing[w].raced THEN LOG_ENTRIES ELSE IF damaged > 0 THEN damaged - 1 ELSE 0
  BY DEF LogCount
<1>4. w \in Busy /\ writing[w] \in WriterType /\ writing \in [Writers -> WriterType]
  BY <1>1 DEF Busy, LogInv, LogType
<1>5. LOG_ENTRIES \in Nat /\ LOG_ENTRIES > 0
  BY LogAssumption
<1>6. /\ log_buffer \in [Indices -> Entry] /\ log_head \in Indices
      /\ log_count \in 0 .. LOG_ENTRIES /\ recent \in Seq(Entry) /\ Len(recent) <= LOG_ENTRIES
      /\ damaged \in 0 .. LOG_ENTRIES /\ c \in 0 .. LOG_ENTRIES
      /\ writing[w].entry \in Entry /\ writing[w].head \in Indices
  BY <1>2, <1>4 DEF LogInv, LogType, WriterType
<1>7. log_count' \in 0 .. LOG_ENTRIES
  BY <1>2, <1>5, <1>6
<1>8. recent' \in Seq(Entry) /\ Len(recent') <= LOG_ENTRIES
  BY <1>1, <1>6, LogArith
<1>9. damaged' \in 0 .. LOG_ENTRIES
  <2>1. LOG_ENTRIES \in 0 .. LOG_ENTRIES
    BY <1>5
  <2> QED
    BY <1>3, <2>1, LogArith
<1>10. NotLogging \in WriterType /\ NotLogging.pc = "off"
  <2>1. 0 \in Indices /\ 0 \in 0 .. LOG_ENTRIES
    BY <1>5 DEF Indices
  <2> QED
    BY <2>1 DEF NotLogging, Entry, WriterType
<1>11. /\ writing' \in [Writers -> WriterType] /\ writing'[w].pc = "off"
       /\ \A v \in Writers : v # w => writing'[v] = writing[v]
  BY <1>1, <1>4, <1>10
<1>12. LogType'
  BY <1>1, <1>6, <1>7, <1>8, <1>9, <1>11 DEF LogType, WriterType
<1>13. Busy' = Busy \ {w}
  BY <1>11 DEF Busy
<1>14. ASSUME NEW v \in Busy', ~ writing'[v].raced PROVE FALSE
  <2>1. v \in Busy /\ v # w /\ ~ writing[v].raced
    BY <1>11, <1>13, <1>14 DEF Busy
  <2>2. Busy = {v}
    BY <2>1 DEF LogInv, WritersInv
  <2> QED
    BY <1>4, <2>1, <2>2
<1>15. Good(log_buffer', log_head', log_count', damaged', recent')
  <2>1. CASE writing[w].raced
    BY <1>3, <1>7, <1>8, <2>1, GoodDamaged
  <2>2. CASE ~ writing[w].raced
    <3>1. writing[w].count = log_count /\ log_head = Advance(writing[w].head) /\ Without(w)
      BY <1>1, <1>4, <2>2 DEF LogInv, WritersInv, CallInv
    <3>2. log_count' = Counted(log_count)
      BY <1>2, <3>1 DEF Counted
    <3>3. PICK b \in [Indices -> Entry] :
            /\ log_buffer = [b EXCEPT ![writing[w].head] = writing[w].entry]
            /\ Good(b, writing[w].head, log_count, damaged, recent)
      BY <3>1 DEF Without
    <3>4. Good([b EXCEPT ![writing[w].head] = writing[w].entry], Advance(writing[w].head), Counted(log_count),
               IF damaged > 0 THEN damaged - 1 ELSE 0, Remembered(recent, writing[w].entry))
      BY <1>6, <3>3, GoodStep
    <3> QED
      BY <1>1, <1>3, <2>2, <3>1, <3>2, <3>3, <3>4
  <2> QED
    BY <2>1, <2>2
<1>16. WritersInv'
  <2>1. Good(log_buffer, log_head, log_count, damaged, recent)'
    BY <1>15 DEF Good, Back
  <2> QED
    BY <1>14, <2>1 DEF WritersInv
<1> QED
  BY <1>12, <1>16 DEF LogInv

\* A step that leaves ring and history alone.
LEMMA LogStutter ==
  ASSUME LogInv, UNCHANGED <<ringVars, writing, recent, damaged>>
  PROVE  LogInv'
<1>1. UNCHANGED <<log_buffer, log_head, log_count, writing, recent, damaged>>
  BY DEF ringVars
<1>2. LogType'
  BY <1>1 DEF LogInv, LogType
<1>3. Good(log_buffer, log_head, log_count, damaged, recent) => Good(log_buffer, log_head, log_count, damaged, recent)'
  BY <1>1 DEF Good, Back
<1>4. Busy' = Busy
  BY <1>1 DEF Busy
<1>5. ASSUME NEW w \in Busy, CallInv(w) PROVE CallInv(w)'
  <2>1. Without(w) => Without(w)'
    BY <1>1 DEF Without, Good, Back
  <2> QED
    BY <1>1, <1>3, <1>5, <2>1 DEF CallInv, Advance
<1>6. WritersInv'
  BY <1>1, <1>3, <1>4, <1>5 DEF LogInv, WritersInv
<1> QED
  BY <1>2, <1>6 DEF LogInv

\* The inductive invariant of the log, with the races between the calls of
\* log_msg and with log_clear.
THEOREM LogInductive == LogSpec => []LogInv
<1>1. LogInit => LogInv
  <2> SUFFICES ASSUME LogInit PROVE LogInv
    OBVIOUS
  <2>1. /\ log_buffer = [i \in Indices |-> Blank] /\ log_head = 0 /\ log_count = 0
        /\ writing = [w \in Writers |-> NotLogging] /\ recent = <<>> /\ damaged = 0
    BY DEF LogInit, log_init
  <2>2. LOG_ENTRIES \in Nat /\ LOG_ENTRIES > 0
    BY LogAssumption
  <2>3. 0 \in Indices /\ 0 \in 0 .. LOG_ENTRIES /\ <<>> \in Seq(Entry) /\ Len(<<>>) <= LOG_ENTRIES
    BY <2>2 DEF Indices
  <2>4. NotLogging \in WriterType /\ NotLogging.pc = "off"
    BY <2>3 DEF NotLogging, WriterType, Entry
  <2>5. LogType
    BY <2>1, <2>3, <2>4 DEF LogType, Entry
  <2>6. Good(log_buffer, log_head, log_count, damaged, recent)
    BY <2>1, GoodEmpty
  <2>7. Busy = {}
    BY <2>1, <2>4 DEF Busy
  <2> QED
    BY <2>5, <2>6, <2>7 DEF LogInv, WritersInv
<1>2. LogInv /\ [LogNext]_logVars => LogInv'
  <2> SUFFICES ASSUME LogInv, [LogNext]_logVars PROVE LogInv'
    OBVIOUS
  <2>1. ASSUME NEW e \in Entries, log_msg(e) PROVE LogInv'
    BY <2>1, LogMsgInv
  <2>2. CASE log_clear
    BY <2>2, LogClearInv
  <2>3. ASSUME NEW n \in TypedLevels, cmd_loglevel(n) PROVE LogInv'
    BY <2>3, LogStutter DEF cmd_loglevel, log_set_level
  <2>4. ASSUME NEW w \in Writers, NEW e \in Entries, LogBegin(w, e) PROVE LogInv'
    BY <2>4, WriterReadInv
  <2>5. ASSUME NEW w \in Writers, LogEntry(w) \/ LogHead(w) \/ LogCount(w) PROVE LogInv'
    BY <2>5, WriterEntryInv, WriterHeadInv, WriterCountInv
  <2>6. CASE UNCHANGED logVars
    BY <2>6, LogStutter DEF logVars
  <2> QED
    BY <2>1, <2>2, <2>3, <2>4, <2>5, <2>6 DEF LogNext
<1> QED
  BY <1>1, <1>2, PTL DEF LogSpec

\* log_dump shows the latest messages in order, for any size of the ring, any
\* number of writers that interrupts can strike and any race between them: the
\* damage is gone once the ring has been written once over.
THEOREM DumpShowsLatest == LogSpec => []LogKeepsLatest
<1>1. LogInv => LogKeepsLatest
  <2> SUFFICES ASSUME LogInv, Busy = {}, damaged = 0 PROVE log_dump = recent
    BY DEF LogKeepsLatest
  <2> DEFINE L == LOG_ENTRIES
             m == Len(recent)
             start == IF log_count < LOG_ENTRIES THEN 0 ELSE log_head
  <2>1. /\ log_count = m /\ (m < L => log_head = m)
        /\ \A k \in 1 .. m : k <= L - 0 => log_buffer[Back(log_head, k)] = recent[m + 1 - k]
    BY DEF LogInv, WritersInv, Good
  <2>2. /\ L \in Nat \ {0} /\ m \in Nat /\ m <= L /\ log_head \in 0 .. L - 1
        /\ recent \in Seq(Entry)
    BY LogAssumption, LenProperties DEF LogInv, LogType, Indices
  <2>3. log_dump = [i \in 1 .. log_count |-> log_buffer[(start + i - 1) % L]]
    BY DEF log_dump
  <2> HIDE DEF L, m
  <2>4. ASSUME NEW i \in 1 .. m PROVE log_buffer[(start + i - 1) % L] = recent[i]
    <3> DEFINE k == m + 1 - i
    <3>1. k \in 1 .. m /\ k <= L - 0 /\ m + 1 - k = i
      BY <2>2
    <3>2. log_buffer[Back(log_head, k)] = recent[i]
      BY <2>1, <3>1
    <3>3. (start + i - 1) % L = Back(log_head, k)
      <4>1. CASE m < L
        <5>1. start = 0 /\ i - 1 \in 0 .. L - 1 /\ log_head = m
          BY <2>1, <2>2, <4>1 DEF L
        <5>2. (i - 1) % L = i - 1
          BY <2>2, <5>1, ModSmall
        <5>3. Back(log_head, k) = i - 1 /\ 0 + i - 1 = i - 1
          BY <2>2, <5>1 DEF Back
        <5> QED
          BY <5>1, <5>2, <5>3
      <4>2. CASE m = L /\ log_head + i - 1 < L
        <5>1. start = log_head /\ log_head + i - 1 \in 0 .. L - 1
          BY <2>1, <2>2, <4>2 DEF L
        <5>2. (log_head + i - 1) % L = log_head + i - 1
          BY <2>2, <5>1, ModSmall
        <5>3. Back(log_head, k) = log_head + i - 1
          BY <2>2, <4>2 DEF Back, L
        <5> QED
          BY <5>1, <5>2, <5>3
      <4>3. CASE m = L /\ ~ (log_head + i - 1 < L)
        <5>1. start = log_head /\ log_head + i - 1 \in L .. 2 * L - 1
          BY <2>1, <2>2, <4>3 DEF L
        <5>2. (log_head + i - 1) % L = (log_head + i - 1) - L
          <6>1. PICK x : x = log_head + i - 1
            OBVIOUS
          <6>2. x \in L .. 2 * L - 1 /\ L \in Nat \ {0}
            BY <2>2, <5>1, <6>1
          <6>3. x % L = x - L
            BY <6>2, ModLarge
          <6> QED
            BY <6>1, <6>3
        <5>3. Back(log_head, k) = (log_head + i - 1) - L
          BY <2>2, <4>3 DEF Back, L
        <5> QED
          BY <5>1, <5>2, <5>3
      <4> QED
        BY <2>2, <4>1, <4>2, <4>3
    <3> QED
      BY <3>2, <3>3
  <2>5. recent = [i \in 1 .. m |-> recent[i]]
    <3>1. DOMAIN recent = 1 .. Len(recent) /\ recent \in [1 .. Len(recent) -> Entry]
      BY <2>2, LenProperties
    <3> QED
      BY <3>1 DEF m
  <2>6. [i \in 1 .. m |-> log_buffer[(start + i - 1) % L]] = [i \in 1 .. m |-> recent[i]]
    <3> HIDE DEF start
    <3> QED
      BY <2>4
  <2> QED
    BY <2>1, <2>3, <2>5, <2>6
<1> QED
  BY <1>1, LogInductive, PTL

-----------------------------------------------------------------------------
(* Files.                                                                  *)

\* A table with distinct names in use, none of them and no content too long.
FileRow == [used : BOOLEAN, name : FileNames \cup {Empty}, content : FileContents]

\* The inductive invariant of the files, as a property of the table.
TableOK(tab) ==
  /\ tab \in [FileSlots -> FileRow]
  /\ \A i \in InUse(tab) : tab[i].name \in FileNames \ TooLong /\ tab[i].content \notin TooLong
  /\ \A i, j \in InUse(tab) : tab[i].name = tab[j].name => i = j

\* vfs_open and the map it defines, for any table.
OpenIn(tab, n) == First({i \in InUse(tab) : tab[i].name = n})
NamesIn(tab) == {tab[i].name : i \in InUse(tab)}
StoredIn(tab) == [n \in NamesIn(tab) |-> tab[CHOOSE i \in OpenIn(tab, n) : TRUE].content]

\* The loops stop at the only slot there is, or find none.
LEMMA OpenIs ==
  ASSUME NEW tab, TableOK(tab), NEW n
  PROVE  /\ \A i \in InUse(tab) : tab[i].name = n => OpenIn(tab, n) = {i}
         /\ n \notin NamesIn(tab) => OpenIn(tab, n) = {}
<1>1. ASSUME NEW i \in InUse(tab), tab[i].name = n PROVE OpenIn(tab, n) = {i}
  <2>1. {j \in InUse(tab) : tab[j].name = n} = {i}
    BY <1>1 DEF TableOK
  <2>2. i <= i
    BY DEF InUse, FileSlots
  <2> QED
    BY <2>1, <2>2 DEF OpenIn, First
<1>2. n \notin NamesIn(tab) => OpenIn(tab, n) = {}
  BY DEF OpenIn, First, NamesIn
<1> QED
  BY <1>1, <1>2

\* The map, by slots.
LEMMA StoredIs ==
  ASSUME NEW tab, TableOK(tab)
  PROVE  /\ DOMAIN StoredIn(tab) = NamesIn(tab)
         /\ \A i \in InUse(tab) : StoredIn(tab)[tab[i].name] = tab[i].content
<1>1. DOMAIN StoredIn(tab) = NamesIn(tab)
  BY DEF StoredIn
<1>2. ASSUME NEW i \in InUse(tab) PROVE StoredIn(tab)[tab[i].name] = tab[i].content
  <2>1. OpenIn(tab, tab[i].name) = {i} /\ tab[i].name \in NamesIn(tab)
    BY OpenIs DEF NamesIn
  <2>2. (CHOOSE j \in {i} : TRUE) = i
    OBVIOUS
  <2> QED
    BY <2>1, <2>2 DEF StoredIn
<1> QED
  BY <1>1, <1>2

\* It is the only such map.
LEMMA StoredEqual ==
  ASSUME NEW tab, TableOK(tab), NEW g, g = [m \in NamesIn(tab) |-> g[m]],
         \A i \in InUse(tab) : g[tab[i].name] = tab[i].content
  PROVE  StoredIn(tab) = g
<1>1. \A m \in NamesIn(tab) : StoredIn(tab)[m] = g[m]
  BY StoredIs DEF NamesIn
<1>2. StoredIn(tab) = [m \in NamesIn(tab) |-> StoredIn(tab)[m]]
  BY DEF StoredIn
<1> QED
  BY <1>1, <1>2

\* As many files as slots in use: the table is full when the map is.
LEMMA Full ==
  ASSUME NEW tab, TableOK(tab)
  PROVE  /\ Cardinality(NamesIn(tab)) \in Nat /\ Cardinality(NamesIn(tab)) <= MAX_FILES
         /\ Cardinality(NamesIn(tab)) < MAX_FILES <=> InUse(tab) # FileSlots
<1>1. IsFiniteSet(FileSlots) /\ Cardinality(FileSlots) = MAX_FILES /\ MAX_FILES \in Nat
  <2>1. MAX_FILES \in Nat /\ 0 \in Int /\ MAX_FILES - 1 \in Int
    BY VfsAssumption
  <2>2. /\ IsFiniteSet(0 .. MAX_FILES - 1)
        /\ Cardinality(0 .. MAX_FILES - 1) = IF 0 > MAX_FILES - 1 THEN 0 ELSE MAX_FILES - 1 - 0 + 1
    BY <2>1, FS_Interval
  <2> QED
    BY <2>1, <2>2 DEF FileSlots
<1>2. InUse(tab) \in SUBSET FileSlots
  BY DEF InUse
<1>3. /\ IsFiniteSet(InUse(tab)) /\ Cardinality(InUse(tab)) <= Cardinality(FileSlots)
      /\ Cardinality(FileSlots) = Cardinality(InUse(tab)) => FileSlots = InUse(tab)
      /\ Cardinality(InUse(tab)) \in Nat
  BY <1>1, <1>2, FS_Subset, FS_CardinalityType
<1>4. ExistsBijection(InUse(tab), NamesIn(tab))
  <2> DEFINE f == [i \in InUse(tab) |-> tab[i].name]
  <2>1. f \in [InUse(tab) -> NamesIn(tab)]
    BY DEF NamesIn
  <2>2. \A i, j \in InUse(tab) : f[i] = f[j] => i = j
    BY DEF TableOK
  <2>3. \A m \in NamesIn(tab) : \E i \in InUse(tab) : f[i] = m
    BY DEF NamesIn
  <2> HIDE DEF f
  <2>4. f \in Bijection(InUse(tab), NamesIn(tab))
    BY <2>1, <2>2, <2>3 DEF Bijection, Injection, Surjection, IsInjective
  <2> QED
    BY <2>4 DEF ExistsBijection
<1>5. Cardinality(NamesIn(tab)) = Cardinality(InUse(tab))
  BY <1>3, <1>4, FS_Bijection
<1> QED
  BY <1>1, <1>3, <1>5

\* What vfs_create does to the table: nothing, or one slot that was not in use.
LEMMA CreateIs ==
  ASSUME NEW tab, TableOK(tab), NEW n \in FileNames, NEW c \in FileContents, n \notin NamesIn(tab)
  PROVE  /\ TableOK(vfs_create(tab, n, c))
         /\ InUse(tab) # FileSlots /\ n \notin TooLong /\ c \notin TooLong =>
              \E k \in FileSlots :
                /\ InUse(vfs_create(tab, n, c)) = InUse(tab) \cup {k} /\ k \notin InUse(tab)
                /\ vfs_create(tab, n, c)[k].name = n /\ vfs_create(tab, n, c)[k].content = c
                /\ \A i \in InUse(tab) : vfs_create(tab, n, c)[i] = tab[i]
         /\ ~ (InUse(tab) # FileSlots /\ n \notin TooLong /\ c \notin TooLong) =>
              /\ InUse(vfs_create(tab, n, c)) = InUse(tab)
              /\ \A i \in InUse(tab) : vfs_create(tab, n, c)[i] = tab[i]
<1>1. PICK new : new = vfs_create(tab, n, c)
  OBVIOUS
<1>2. PICK F : F = First(FileSlots \ InUse(tab))
  OBVIOUS
<1>3. \A i \in FileSlots :
        new[i] = IF i \notin F \/ n \in TooLong THEN tab[i]
                 ELSE [used |-> c \notin TooLong, name |-> n, content |-> safe_copy(tab[i].content, c)]
  BY <1>1, <1>2 DEF vfs_create
<1>4. DOMAIN new = FileSlots /\ new = [i \in FileSlots |-> new[i]]
  BY <1>1 DEF vfs_create
<1>5. F \subseteq FileSlots \ InUse(tab) /\ \A i, j \in F : i = j
  BY <1>2 DEF First, FileSlots
<1>6. InUse(tab) # FileSlots => F # {}
  <2> SUFFICES ASSUME InUse(tab) # FileSlots PROVE F # {}
    OBVIOUS
  <2>1. FileSlots \ InUse(tab) # {} /\ FileSlots \ InUse(tab) \subseteq Nat
    BY DEF InUse, FileSlots
  <2>2. \E i \in FileSlots \ InUse(tab) : \A j \in FileSlots \ InUse(tab) : i <= j
    BY <2>1, LeastNat
  <2> QED
    BY <1>2, <2>2 DEF First
<1>7. /\ tab \in [FileSlots -> FileRow]
      /\ \A i \in InUse(tab) : tab[i].name \in FileNames \ TooLong /\ tab[i].content \notin TooLong
      /\ \A i, j \in InUse(tab) : tab[i].name = tab[j].name => i = j
      /\ \A i \in InUse(tab) : tab[i].name # n
      /\ InUse(tab) \subseteq FileSlots
      /\ \A i \in FileSlots : i \in InUse(tab) <=> tab[i].used
  BY DEF TableOK, NamesIn, InUse
<1>8. \A i \in InUse(tab) : new[i] = tab[i]
  BY <1>3, <1>5, <1>7
<1>9. new \in [FileSlots -> FileRow]
  <2>1. ASSUME NEW i \in FileSlots PROVE new[i] \in FileRow
    <3>1. tab[i] \in FileRow
      BY <1>7
    <3>2. safe_copy(tab[i].content, c) \in FileContents
      BY <3>1 DEF safe_copy, FileRow
    <3>3. [used |-> c \notin TooLong, name |-> n, content |-> safe_copy(tab[i].content, c)] \in FileRow
      BY <3>2 DEF FileRow
    <3> QED
      BY <1>3, <3>1, <3>3
  <2> QED
    BY <1>4, <2>1
<1>10. \A i \in FileSlots : i \in InUse(new) <=> new[i].used
  BY DEF InUse
<1>11. InUse(new) \subseteq FileSlots
  BY DEF InUse
<1>12. CASE InUse(tab) # FileSlots /\ n \notin TooLong /\ c \notin TooLong
  <2>1. PICK k \in F : F = {k}
    BY <1>5, <1>6, <1>12
  <2>2. k \in FileSlots /\ k \notin InUse(tab) /\ new[k] = [used |-> TRUE, name |-> n, content |-> c]
    <3>1. k \in FileSlots /\ k \notin InUse(tab)
      BY <1>5
    <3>2. safe_copy(tab[k].content, c) = c /\ (c \notin TooLong) = TRUE
      BY <1>12 DEF safe_copy
    <3>3. new[k] = [used |-> c \notin TooLong, name |-> n, content |-> safe_copy(tab[k].content, c)]
      BY <1>3, <1>12, <3>1
    <3> QED
      BY <3>1, <3>2, <3>3
  <2>3. new[k].used /\ new[k].name = n /\ new[k].content = c
    BY <2>2
  <2>4. \A i \in FileSlots : i # k => new[i] = tab[i]
    BY <1>3, <2>1
  <2>5. InUse(new) = InUse(tab) \cup {k}
    BY <1>7, <1>10, <1>11, <2>2, <2>3, <2>4
  <2>6. \A i \in InUse(new) : new[i].name \in FileNames \ TooLong /\ new[i].content \notin TooLong
    BY <1>7, <1>8, <1>12, <2>3, <2>5
  <2>7. \A i, j \in InUse(new) : new[i].name = new[j].name => i = j
    BY <1>7, <1>8, <2>3, <2>5
  <2>8. TableOK(new)
    BY <1>9, <2>6, <2>7 DEF TableOK
  <2> QED
    BY <1>1, <1>8, <1>12, <2>2, <2>3, <2>5, <2>8
<1>13. CASE ~ (InUse(tab) # FileSlots /\ n \notin TooLong /\ c \notin TooLong)
  <2>1. InUse(new) = InUse(tab)
    <3>1. ASSUME NEW i \in FileSlots PROVE i \in InUse(new) <=> i \in InUse(tab)
      <4>1. CASE i \notin F \/ n \in TooLong
        BY <1>3, <1>7, <1>10, <4>1
      <4>2. CASE i \in F /\ n \notin TooLong
        <5>1. InUse(tab) # FileSlots /\ i \notin InUse(tab)
          BY <1>5, <4>2
        <5>2. c \in TooLong
          BY <1>13, <4>2, <5>1
        <5>3. new[i] = [used |-> c \notin TooLong, name |-> n, content |-> safe_copy(tab[i].content, c)]
          BY <1>3, <4>2
        <5>4. new[i].used = (c \notin TooLong)
          BY <5>3
        <5>5. ~ new[i].used
          BY <5>2, <5>4, Zenon
        <5> QED
          BY <1>10, <5>1, <5>5
      <4> QED
        BY <4>1, <4>2
    <3> QED
      BY <1>7, <1>11, <3>1
  <2>2. TableOK(new)
    BY <1>7, <1>8, <1>9, <2>1 DEF TableOK
  <2> QED
    BY <1>1, <1>8, <1>13, <2>1, <2>2
<1> QED
  BY <1>12, <1>13

\* The specification's own copy of Cardinality.
LEMMA SameCardinality == ASSUME NEW S PROVE Store!Cardinality(S) = Cardinality(S)
  BY DEF Store!Cardinality, Cardinality

\* The map of the specification is that of the table.
LEMMA StoredNow == Stored = StoredIn(files) /\ Stored' = StoredIn(files')
  BY DEF Stored, StoredIn, NamesIn, OpenIn, vfs_open, InUse, First

\* A table with the same slots in use, unchanged, holds the same map.
LEMMA SameStored ==
  ASSUME NEW tab, NEW new, TableOK(tab), TableOK(new), InUse(new) = InUse(tab),
         \A i \in InUse(tab) : new[i].name = tab[i].name /\ new[i].content = tab[i].content
  PROVE  StoredIn(new) = StoredIn(tab)
<1>1. NamesIn(new) = NamesIn(tab)
  BY DEF NamesIn
<1>2. StoredIn(tab) = [m \in NamesIn(new) |-> StoredIn(tab)[m]]
  BY <1>1 DEF StoredIn
<1>3. \A i \in InUse(new) : StoredIn(tab)[new[i].name] = new[i].content
  BY StoredIs
<1> QED
  BY <1>2, <1>3, StoredEqual

\* vfs_create of a name that is not there writes a new file, or fails.
LEMMA CreateRefines ==
  ASSUME TableOK(files), NEW n \in FileNames, NEW c \in FileContents, n \notin NamesIn(files),
         Create(n, c)
  PROVE  TableOK(files') /\ Store!Write(n, c)
<1>1. PICK tab, new : tab = files /\ new = files'
  OBVIOUS
<1>2. new = vfs_create(tab, n, c) /\ TableOK(tab) /\ n \notin NamesIn(tab)
  BY <1>1 DEF Create
<1>3. Stored = StoredIn(tab) /\ Stored' = StoredIn(new) /\ DOMAIN Stored = NamesIn(tab)
  BY <1>1, <1>2, StoredNow, StoredIs
<1>4. TableOK(new)
  BY <1>2, CreateIs
<1>5. ret' = IF InUse(tab) # FileSlots /\ {n, c} \cap TooLong = {} THEN 0 ELSE -1
  BY <1>1 DEF Create
<1>6. Cardinality(NamesIn(tab)) < MAX_FILES <=> InUse(tab) # FileSlots
  BY <1>2, Full
<1>7. Store!CanWrite(n, c) <=> InUse(tab) # FileSlots /\ n \notin TooLong /\ c \notin TooLong
  <2>1. n \notin DOMAIN Stored /\ (Cardinality(DOMAIN Stored) < MAX_FILES <=> InUse(tab) # FileSlots)
    BY <1>2, <1>3, <1>6
  <2>2. Store!CanWrite(n, c) <=>
          c \notin TooLong /\ (n \in DOMAIN Stored \/ (n \notin TooLong /\ Cardinality(DOMAIN Stored) < MAX_FILES))
    BY SameCardinality DEF Store!CanWrite
  <2> QED
    BY <2>1, <2>2
<1>8. CASE InUse(tab) # FileSlots /\ n \notin TooLong /\ c \notin TooLong
  <2>1. PICK k \in FileSlots :
          /\ InUse(new) = InUse(tab) \cup {k} /\ k \notin InUse(tab)
          /\ new[k].name = n /\ new[k].content = c
          /\ \A i \in InUse(tab) : new[i] = tab[i]
    BY <1>2, <1>8, CreateIs
  <2>2. PICK g : g = [m \in NamesIn(tab) \cup {n} |-> IF m = n THEN c ELSE StoredIn(tab)[m]]
    OBVIOUS
  <2>3. NamesIn(new) = NamesIn(tab) \cup {n}
    BY <2>1 DEF NamesIn
  <2>4. g = [m \in NamesIn(new) |-> g[m]]
    BY <2>2, <2>3
  <2>5. ASSUME NEW i \in InUse(new) PROVE g[new[i].name] = new[i].content
    <3>1. CASE i = k
      BY <2>1, <2>2, <3>1
    <3>2. CASE i \in InUse(tab)
      <4>1. new[i] = tab[i] /\ tab[i].name \in NamesIn(tab) /\ tab[i].name # n
        BY <1>2, <2>1, <3>2 DEF NamesIn
      <4>2. StoredIn(tab)[tab[i].name] = tab[i].content
        BY <1>2, <3>2, StoredIs
      <4> QED
        BY <2>2, <4>1, <4>2
    <3> QED
      BY <2>1, <3>1, <3>2
  <2>6. StoredIn(new) = g
    BY <1>4, <2>4, <2>5, StoredEqual
  <2>7. Stored' = [m \in DOMAIN Stored \cup {n} |-> IF m = n THEN c ELSE Stored[m]]
    BY <1>3, <2>2, <2>6
  <2>8. ret' = 0
    BY <1>5, <1>8
  <2> QED
    BY <1>1, <1>4, <1>7, <1>8, <2>7, <2>8 DEF Store!Write
<1>9. CASE ~ (InUse(tab) # FileSlots /\ n \notin TooLong /\ c \notin TooLong)
  <2>1. InUse(new) = InUse(tab) /\ \A i \in InUse(tab) : new[i] = tab[i]
    BY <1>2, <1>9, CreateIs
  <2>2. Stored' = Stored
    BY <1>2, <1>3, <1>4, <2>1, SameStored
  <2>3. ret' = -1
    BY <1>5, <1>9
  <2> QED
    BY <1>1, <1>4, <1>7, <1>9, <2>2, <2>3 DEF Store!Write, Store!Fail
<1> QED
  BY <1>8, <1>9

\* vfs_touch.
LEMMA TouchRefines ==
  ASSUME TableOK(files), NEW n \in FileNames, vfs_touch(n)
  PROVE  TableOK(files') /\ Store!Touch(n)
<1>1. Empty \in FileContents
  BY VfsAssumption
<1>2. vfs_open(n) = OpenIn(files, n) /\ DOMAIN Stored = NamesIn(files)
  BY StoredNow, StoredIs DEF vfs_open, OpenIn
<1>3. CASE n \in NamesIn(files)
  <2>1. vfs_open(n) # {}
    BY <1>2, <1>3, OpenIs DEF NamesIn
  <2>2. ret' = 0 /\ files' = files
    BY <2>1 DEF vfs_touch
  <2>3. Stored' = Stored
    BY <2>2, StoredNow
  <2> QED
    BY <1>2, <1>3, <2>2, <2>3 DEF Store!Touch
<1>4. CASE n \notin NamesIn(files)
  <2>1. vfs_open(n) = {}
    BY <1>2, <1>4, OpenIs
  <2>2. Create(n, Empty)
    BY <2>1 DEF vfs_touch
  <2> QED
    BY <1>1, <1>2, <1>4, <2>2, CreateRefines DEF Store!Touch
<1> QED
  BY <1>3, <1>4

\* vfs_write.
LEMMA WriteRefines ==
  ASSUME TableOK(files), NEW n \in FileNames, NEW c \in FileContents, vfs_write(n, c)
  PROVE  TableOK(files') /\ Store!Write(n, c)
<1>1. PICK tab, new : tab = files /\ new = files'
  OBVIOUS
<1>2. vfs_open(n) = OpenIn(tab, n) /\ TableOK(tab)
  BY <1>1 DEF vfs_open, OpenIn
<1>3. CASE n \notin NamesIn(tab)
  <2>1. vfs_open(n) = {}
    BY <1>2, <1>3, OpenIs
  <2> QED
    BY <1>1, <1>3, <2>1, CreateRefines DEF vfs_write
<1>4. CASE n \in NamesIn(tab)
  <2>1. PICK k \in InUse(tab) : tab[k].name = n
    BY <1>4 DEF NamesIn
  <2>2. vfs_open(n) = {k}
    BY <1>2, <2>1, OpenIs
  <2>3. /\ new = [i \in FileSlots |-> IF i = k THEN [tab[i] EXCEPT !.content = safe_copy(@, c)] ELSE tab[i]]
        /\ ret' = IF c \in TooLong THEN -1 ELSE 0
    BY <1>1, <2>2 DEF vfs_write
  <2>4. /\ tab \in [FileSlots -> FileRow] /\ InUse(tab) \subseteq FileSlots /\ k \in FileSlots
        /\ \A i \in InUse(tab) : tab[i].name \in FileNames \ TooLong /\ tab[i].content \notin TooLong
        /\ \A i, j \in InUse(tab) : tab[i].name = tab[j].name => i = j
    BY <1>2 DEF TableOK, InUse
  <2>5. PICK r \in FileRow : r = tab[k]
    BY <2>4
  <2>6. PICK v : v = IF c \in TooLong THEN r.content ELSE c
    OBVIOUS
  <2>7. PICK s : s = [r EXCEPT !.content = v]
    OBVIOUS
  <2>8. v \in FileContents /\ s \in FileRow /\ s.used = r.used /\ s.name = r.name /\ s.content = v
    BY <2>6, <2>7 DEF FileRow
  <2>9. new[k] = s /\ \A i \in FileSlots : i # k => new[i] = tab[i]
    BY <2>3, <2>4, <2>5, <2>6, <2>7 DEF safe_copy, FileRow
  <2>10. new \in [FileSlots -> FileRow]
    BY <2>3, <2>4, <2>8, <2>9
  <2>11. InUse(new) = InUse(tab)
    <3>1. \A i \in FileSlots : new[i].used = tab[i].used
      BY <2>5, <2>8, <2>9
    <3> QED
      BY <3>1 DEF InUse
  <2>12. v \notin TooLong
    BY <2>1, <2>4, <2>5, <2>6
  <2>13. \A i \in InUse(tab) : new[i].name = tab[i].name
    BY <2>4, <2>5, <2>8, <2>9
  <2>14. TableOK(new)
    <3>1. \A i \in InUse(new) : new[i].name \in FileNames \ TooLong /\ new[i].content \notin TooLong
      BY <2>4, <2>8, <2>9, <2>11, <2>12, <2>13
    <3>2. \A i, j \in InUse(new) : new[i].name = new[j].name => i = j
      BY <2>4, <2>11, <2>13
    <3> QED
      BY <2>10, <3>1, <3>2 DEF TableOK
  <2>15. Stored = StoredIn(tab) /\ Stored' = StoredIn(new) /\ DOMAIN Stored = NamesIn(tab)
    BY <1>1, <1>2, StoredNow, StoredIs
  <2>16. Store!CanWrite(n, c) <=> c \notin TooLong
    BY <1>4, <2>15 DEF Store!CanWrite
  <2>17. CASE c \in TooLong
    <3>1. \A i \in InUse(tab) : new[i].content = tab[i].content
      BY <2>4, <2>5, <2>6, <2>8, <2>9, <2>17
    <3>2. Stored' = Stored
      BY <1>2, <2>11, <2>13, <2>14, <2>15, <3>1, SameStored
    <3>3. ret' = -1
      BY <2>3, <2>17
    <3> QED
      BY <1>1, <2>14, <2>16, <2>17, <3>2, <3>3 DEF Store!Write, Store!Fail
  <2>18. CASE c \notin TooLong
    <3>1. PICK g : g = [m \in NamesIn(tab) \cup {n} |-> IF m = n THEN c ELSE StoredIn(tab)[m]]
      OBVIOUS
    <3>2. NamesIn(new) = NamesIn(tab) \cup {n}
      BY <1>4, <2>11, <2>13 DEF NamesIn
    <3>3. g = [m \in NamesIn(new) |-> g[m]]
      BY <3>1, <3>2
    <3>4. ASSUME NEW i \in InUse(new) PROVE g[new[i].name] = new[i].content
      <4>1. CASE i = k
        BY <2>1, <2>6, <2>8, <2>9, <2>11, <2>13, <2>18, <3>1, <4>1
      <4>2. CASE i # k
        <5>1. i \in InUse(tab) /\ new[i] = tab[i]
          BY <2>4, <2>9, <2>11, <4>2
        <5>2. tab[i].name # n /\ tab[i].name \in NamesIn(tab)
          BY <2>1, <2>4, <4>2, <5>1 DEF NamesIn
        <5>3. StoredIn(tab)[tab[i].name] = tab[i].content
          BY <1>2, <5>1, StoredIs
        <5> QED
          BY <3>1, <5>1, <5>2, <5>3
      <4> QED
        BY <4>1, <4>2
    <3>5. StoredIn(new) = g
      BY <2>14, <3>3, <3>4, StoredEqual
    <3>6. Stored' = [m \in DOMAIN Stored \cup {n} |-> IF m = n THEN c ELSE Stored[m]]
      BY <2>15, <3>1, <3>5
    <3>7. ret' = 0
      BY <2>3, <2>18
    <3> QED
      BY <1>1, <2>14, <2>16, <2>18, <3>6, <3>7 DEF Store!Write
  <2> QED
    BY <2>17, <2>18
<1> QED
  BY <1>3, <1>4

\* vfs_remove.
LEMMA RemoveRefines ==
  ASSUME TableOK(files), NEW n \in FileNames, vfs_remove(n)
  PROVE  TableOK(files') /\ Store!Remove(n)
<1>1. PICK tab, new : tab = files /\ new = files'
  OBVIOUS
<1>2. vfs_open(n) = OpenIn(tab, n) /\ TableOK(tab)
  BY <1>1 DEF vfs_open, OpenIn
<1>3. Stored = StoredIn(tab) /\ Stored' = StoredIn(new) /\ DOMAIN Stored = NamesIn(tab)
  BY <1>1, <1>2, StoredNow, StoredIs
<1>4. /\ tab \in [FileSlots -> FileRow] /\ InUse(tab) \subseteq FileSlots
      /\ \A i \in InUse(tab) : tab[i].name \in FileNames \ TooLong /\ tab[i].content \notin TooLong
      /\ \A i, j \in InUse(tab) : tab[i].name = tab[j].name => i = j
  BY <1>2 DEF TableOK, InUse
<1>5. CASE n \notin NamesIn(tab)
  <2>1. vfs_open(n) = {}
    BY <1>2, <1>5, OpenIs
  <2>2. new = [i \in FileSlots |-> tab[i]] /\ ret' = -1
    BY <1>1, <2>1 DEF vfs_remove
  <2>3. new = tab
    BY <1>4, <2>2
  <2> QED
    BY <1>1, <1>2, <1>3, <1>5, <2>2, <2>3 DEF Store!Remove, Store!Fail
<1>6. CASE n \in NamesIn(tab)
  <2>1. PICK k \in InUse(tab) : tab[k].name = n
    BY <1>6 DEF NamesIn
  <2>2. vfs_open(n) = {k}
    BY <1>2, <2>1, OpenIs
  <2>3. /\ new = [i \in FileSlots |-> IF i = k THEN [tab[i] EXCEPT !.used = FALSE] ELSE tab[i]]
        /\ ret' = 0
    BY <1>1, <2>2 DEF vfs_remove
  <2>4. PICK r \in FileRow : r = tab[k]
    BY <1>4
  <2>5. PICK s : s = [r EXCEPT !.used = FALSE]
    OBVIOUS
  <2>6. s \in FileRow /\ ~ s.used
    BY <2>5 DEF FileRow
  <2>7. k \in FileSlots /\ new[k] = s /\ \A i \in FileSlots : i # k => new[i] = tab[i]
    BY <1>4, <2>3, <2>4, <2>5
  <2>8. new \in [FileSlots -> FileRow]
    BY <1>4, <2>3, <2>6, <2>7
  <2>9. InUse(new) = InUse(tab) \ {k}
    BY <2>6, <2>7 DEF InUse
  <2>10. \A i \in InUse(new) : i \in InUse(tab) /\ i # k /\ new[i] = tab[i]
    BY <1>4, <2>7, <2>9
  <2>11. TableOK(new)
    BY <1>4, <2>8, <2>10 DEF TableOK
  <2>12. NamesIn(new) = NamesIn(tab) \ {n}
    <3>1. \A i \in InUse(tab) : tab[i].name = n <=> i = k
      BY <1>4, <2>1
    <3> QED
      BY <2>9, <2>10, <3>1 DEF NamesIn
  <2>13. PICK g : g = [m \in NamesIn(tab) \ {n} |-> StoredIn(tab)[m]]
    OBVIOUS
  <2>14. g = [m \in NamesIn(new) |-> g[m]]
    BY <2>12, <2>13
  <2>15. ASSUME NEW i \in InUse(new) PROVE g[new[i].name] = new[i].content
    <3>1. new[i] = tab[i] /\ i \in InUse(tab) /\ tab[i].name \in NamesIn(tab) \ {n}
      BY <2>10, <2>12 DEF NamesIn
    <3>2. StoredIn(tab)[tab[i].name] = tab[i].content
      BY <1>2, <3>1, StoredIs
    <3> QED
      BY <2>13, <3>1, <3>2
  <2>16. StoredIn(new) = g
    BY <2>11, <2>14, <2>15, StoredEqual
  <2>17. Stored' = Store!Restrict(Stored, DOMAIN Stored \ {n})
    BY <1>3, <2>13, <2>16 DEF Store!Restrict
  <2> QED
    BY <1>1, <1>3, <1>6, <2>3, <2>11, <2>17 DEF Store!Remove
<1> QED
  BY <1>5, <1>6

\* The table after the first k files of vfs_init: their names at most.
Preset(tab, k) == TableOK(tab) /\ NamesIn(tab) \subseteq {Preloaded[j].name : j \in 1 .. k}

\* vfs_init's calls of vfs_create, one by one.
LEMMA PresetNext ==
  ASSUME NEW k \in 1 .. Len(Preloaded), NEW tab, Preset(tab, k - 1)
  PROVE  Preset(vfs_create(tab, Preloaded[k].name, Preloaded[k].content), k)
<1>1. PICK n, c, new : /\ n = Preloaded[k].name /\ c = Preloaded[k].content
                       /\ new = vfs_create(tab, n, c)
  OBVIOUS
<1>2. n \in FileNames /\ c \in FileContents
  <2>1. Preloaded \in Seq([name : FileNames, content : FileContents])
    BY VfsAssumption
  <2>2. Preloaded[k] \in [name : FileNames, content : FileContents]
    BY <2>1, LenProperties
  <2> QED
    BY <1>1, <2>2
<1>3. Len(Preloaded) \in Nat
  BY VfsAssumption, LenProperties
<1>4. n \notin NamesIn(tab)
  <2> SUFFICES ASSUME n \in NamesIn(tab) PROVE FALSE
    OBVIOUS
  <2>1. PICK j \in 1 .. k - 1 : Preloaded[j].name = n
    BY DEF Preset
  <2>2. j \in 1 .. Len(Preloaded) /\ j # k
    BY <1>3
  <2> QED
    BY <1>1, <2>1, <2>2, VfsAssumption
<1>5. TableOK(tab)
  BY DEF Preset
<1>6. TableOK(new)
  BY <1>1, <1>2, <1>4, <1>5, CreateIs
<1>7. NamesIn(new) \subseteq NamesIn(tab) \cup {n}
  <2>1. CASE InUse(tab) # FileSlots /\ n \notin TooLong /\ c \notin TooLong
    <3>1. PICK i \in FileSlots :
            /\ InUse(new) = InUse(tab) \cup {i} /\ new[i].name = n
            /\ \A j \in InUse(tab) : new[j] = tab[j]
      BY <1>1, <1>2, <1>4, <1>5, <2>1, CreateIs
    <3> QED
      BY <3>1 DEF NamesIn
  <2>2. CASE ~ (InUse(tab) # FileSlots /\ n \notin TooLong /\ c \notin TooLong)
    <3>1. InUse(new) = InUse(tab) /\ \A j \in InUse(tab) : new[j] = tab[j]
      BY <1>1, <1>2, <1>4, <1>5, <2>2, CreateIs
    <3> QED
      BY <3>1 DEF NamesIn
  <2> QED
    BY <2>1, <2>2
<1>8. NamesIn(new) \subseteq {Preloaded[j].name : j \in 1 .. k}
  <2>1. NamesIn(tab) \subseteq {Preloaded[j].name : j \in 1 .. k - 1}
    BY DEF Preset
  <2>2. \A j \in 1 .. k - 1 : j \in 1 .. k
    BY <1>3
  <2>3. {Preloaded[j].name : j \in 1 .. k - 1} \subseteq {Preloaded[j].name : j \in 1 .. k}
    BY <2>2
  <2>4. k \in 1 .. k
    BY <1>3
  <2>5. n \in {Preloaded[j].name : j \in 1 .. k}
    BY <1>1, <2>4
  <2> QED
    BY <1>7, <2>1, <2>3, <2>5
<1> QED
  BY <1>1, <1>6, <1>8 DEF Preset

\* vfs_init.
LEMMA InitTable == VfsInit => TableOK(files)
<1> SUFFICES ASSUME VfsInit PROVE TableOK(files)
  OBVIOUS
<1> DEFINE K == Len(Preloaded)
           blank == [i \in FileSlots |-> [used |-> FALSE, name |-> Empty, content |-> Empty]]
           Step(f) == [k \in 0 .. Len(Preloaded) |->
                         IF k = 0
                         THEN [i \in FileSlots |-> [used |-> FALSE, name |-> Empty, content |-> Empty]]
                         ELSE vfs_create(f[k - 1], Preloaded[k].name, Preloaded[k].content)]
           h == CHOOSE f : f = Step(f)
           Tables == [FileSlots -> FileRow]
<1>1. K \in Nat /\ Empty \in FileContents /\ \A k \in 1 .. K : Preloaded[k] \in [name : FileNames, content : FileContents]
  <2>1. Preloaded \in Seq([name : FileNames, content : FileContents]) /\ Empty \in FileContents
    BY VfsAssumption
  <2>2. Len(Preloaded) \in Nat
        /\ \A k \in 1 .. Len(Preloaded) : Preloaded[k] \in [name : FileNames, content : FileContents]
    BY <2>1, LenProperties
  <2> QED
    BY <2>1, <2>2
<1>2. blank \in Tables
  BY <1>1 DEF FileRow
<1>3. \E f : f = Step(f)
  <2> DEFINE G == [k \in 1 .. K |-> [t \in Tables |-> vfs_create(t, Preloaded[k].name, Preloaded[k].content)]]
  <2>1. ASSUME NEW k \in 1 .. K, NEW t \in Tables
        PROVE  vfs_create(t, Preloaded[k].name, Preloaded[k].content) \in Tables
    <3>1. PICK n, c : n = Preloaded[k].name /\ c = Preloaded[k].content /\ n \in FileNames /\ c \in FileContents
      BY <1>1
    <3>2. ASSUME NEW i \in FileSlots
          PROVE  [used |-> c \notin TooLong, name |-> n, content |-> safe_copy(t[i].content, c)] \in FileRow
      <4>1. t[i] \in FileRow
        OBVIOUS
      <4> QED
        BY <3>1, <4>1 DEF FileRow, safe_copy
    <3>3. vfs_create(t, n, c) \in Tables
      BY <3>2 DEF vfs_create
    <3> QED
      BY <3>1, <3>3
  <2> HIDE DEF Tables
  <2>2. G \in StepFunctions(K, Tables)
    BY <2>1 DEF StepFunctions
  <2>3. \A k \in 1 .. K, t \in Tables : G[k][t] = vfs_create(t, Preloaded[k].name, Preloaded[k].content)
    OBVIOUS
  <2> HIDE DEF G, blank, K
  <2>4. Orbits(blank, K, Tables, G) # {}
    BY <1>1, <1>2, <2>2, Recursion
  <2>5. PICK f \in [0 .. K -> Tables] : f[0] = blank /\ \A k \in 1 .. K : f[k] = G[k][f[k - 1]]
    BY <2>4 DEF Orbits
  <2>6. ASSUME NEW k \in 1 .. K PROVE f[k] = vfs_create(f[k - 1], Preloaded[k].name, Preloaded[k].content)
    <3>1. f[k - 1] \in Tables
      BY <1>1
    <3> QED
      BY <2>3, <2>5, <3>1
  <2>7. \A k \in 0 .. K : f[k] = IF k = 0 THEN blank
                                 ELSE vfs_create(f[k - 1], Preloaded[k].name, Preloaded[k].content)
    BY <2>5, <2>6
  <2>8. f = [k \in 0 .. K |-> IF k = 0 THEN blank
                              ELSE vfs_create(f[k - 1], Preloaded[k].name, Preloaded[k].content)]
    BY <2>7
  <2> QED
    BY <2>8 DEF K, blank
<1>4. h = Step(h)
  BY <1>3
<1>5. files = h[K]
  BY DEF VfsInit, vfs_init
<1> HIDE DEF h
<1>6. h[0] = blank /\ \A k \in 1 .. K : h[k] = vfs_create(h[k - 1], Preloaded[k].name, Preloaded[k].content)
  <2>1. \A k \in 0 .. K : h[k] = IF k = 0 THEN blank
                                 ELSE vfs_create(h[k - 1], Preloaded[k].name, Preloaded[k].content)
    BY <1>4
  <2>2. 0 \in 0 .. K /\ \A k \in 1 .. K : k \in 0 .. K /\ k # 0
    BY <1>1
  <2> HIDE DEF blank, K
  <2> QED
    BY <2>1, <2>2
<1> DEFINE T == {k \in 0 .. K : Preset(h[k], k)}
<1>7. 0 \in T
  <2>1. InUse(blank) = {}
    BY DEF InUse
  <2> HIDE DEF blank
  <2>2. Preset(blank, 0)
    BY <1>2, <2>1 DEF Preset, TableOK, NamesIn
  <2> QED
    BY <1>1, <1>6, <2>2
<1>8. ASSUME NEW k \in 1 .. K, k - 1 \in T PROVE k \in T
  <2>1. Preset(h[k - 1], k - 1) /\ k \in 0 .. K /\ k \in 1 .. Len(Preloaded)
    BY <1>1, <1>8
  <2>2. Preset(vfs_create(h[k - 1], Preloaded[k].name, Preloaded[k].content), k)
    BY <2>1, PresetNext
  <2>3. Preset(h[k], k)
    BY <1>6, <2>2
  <2> QED
    BY <2>1, <2>3
<1>9. K \in T
  <2> HIDE DEF K, T
  <2>1. \A k \in 1 .. K : k - 1 \in T => k \in T
    BY <1>8
  <2>2. 0 .. K \subseteq T
    BY <1>1, <1>7, <2>1, InductionTo
  <2> QED
    BY <1>1, <2>2
<1> QED
  BY <1>5, <1>9 DEF Preset

\* vfs.c implements the bounded map: every call does what it says or fails
\* and changes nothing, for any number of slots, names and contents.
THEOREM FilesAreBoundedMap == VfsSpec => ImplementsFileStore
<1>1. VfsInit => TableOK(files)
  BY InitTable
<1>2. VfsInit => Store!Init
  <2> SUFFICES ASSUME VfsInit PROVE Store!Init
    OBVIOUS
  <2>1. PICK tab : tab = files
    OBVIOUS
  <2>2. TableOK(tab)
    BY <1>1, <2>1
  <2>3. Stored = StoredIn(tab) /\ DOMAIN Stored = NamesIn(tab)
    BY <2>1, <2>2, StoredNow, StoredIs
  <2>4. Cardinality(DOMAIN Stored) <= MAX_FILES
    BY <2>2, <2>3, Full
  <2>5. NamesIn(tab) \in SUBSET (FileNames \ TooLong)
    BY <2>2 DEF TableOK, NamesIn
  <2>6. ASSUME NEW m \in NamesIn(tab) PROVE StoredIn(tab)[m] \in FileContents \ TooLong
    <3>1. PICK i \in InUse(tab) : tab[i].name = m
      BY DEF NamesIn
    <3>2. StoredIn(tab)[m] = tab[i].content
      BY <2>2, <3>1, StoredIs
    <3>3. tab[i] \in FileRow /\ tab[i].content \notin TooLong
      BY <2>2 DEF TableOK, InUse
    <3> QED
      BY <3>2, <3>3 DEF FileRow
  <2>7. StoredIn(tab) \in [NamesIn(tab) -> FileContents \ TooLong]
    <3>1. StoredIn(tab) = [m \in NamesIn(tab) |-> StoredIn(tab)[m]]
      BY DEF StoredIn
    <3> QED
      BY <2>6, <3>1
  <2>8. StoredIn(tab) \in UNION {[S -> FileContents \ TooLong] : S \in SUBSET (FileNames \ TooLong)}
    BY <2>5, <2>7
  <2>9. ret = 0
    BY DEF VfsInit
  <2> QED
    BY <2>3, <2>4, <2>8, <2>9, SameCardinality DEF Store!Init
<1>3. TableOK(files) /\ [VfsNext]_vfsVars => TableOK(files)' /\ [Store!Next]_(Store!storeVars)
  <2> SUFFICES ASSUME TableOK(files), [VfsNext]_vfsVars
               PROVE  TableOK(files') /\ [Store!Next]_(Store!storeVars)
    BY DEF TableOK, InUse
  <2>1. ASSUME NEW n \in FileNames, vfs_touch(n) PROVE TableOK(files') /\ Store!Next
    BY <2>1, TouchRefines DEF Store!Next
  <2>2. ASSUME NEW n \in FileNames, vfs_remove(n) PROVE TableOK(files') /\ Store!Next
    BY <2>2, RemoveRefines DEF Store!Next
  <2>3. ASSUME NEW n \in FileNames, NEW c \in FileContents, vfs_write(n, c)
        PROVE  TableOK(files') /\ Store!Next
    BY <2>3, WriteRefines DEF Store!Next
  <2>4. CASE UNCHANGED vfsVars
    <3>1. files' = files /\ ret' = ret
      BY <2>4 DEF vfsVars
    <3>2. Stored' = Stored
      BY <3>1, StoredNow
    <3> QED
      BY <3>1, <3>2 DEF Store!storeVars
  <2> QED
    BY <2>1, <2>2, <2>3, <2>4 DEF VfsNext
<1> QED
  BY <1>1, <1>2, <1>3, PTL DEF VfsSpec, ImplementsFileStore, Store!Spec

-----------------------------------------------------------------------------
(* Heap.                                                                   *)

\* A header, and the address just after its block.
Block == [addr : Nat, size : Nat, is_free : BOOLEAN]
End(b) == b.addr + Header + b.size

\* The list bs covers the region from its start to address e: contiguous,
\* in order, every header at a multiple of 4.
Covers(bs, e) ==
  /\ bs \in Seq(Block) /\ bs # <<>>
  /\ bs[1].addr = 0
  /\ \A i \in 1 .. Len(bs) - 1 : bs[i + 1].addr = End(bs[i])
  /\ End(bs[Len(bs)]) = e
  /\ \A i \in 1 .. Len(bs) : bs[i].addr % 4 = 0
  /\ \A i, j \in 1 .. Len(bs) : i < j => bs[i].addr < bs[j].addr

\* No two free neighbours.
Apart(bs) == \A i \in 1 .. Len(bs) - 1 : ~ (bs[i].is_free /\ bs[i + 1].is_free)

\* Those of the first n blocks that are not free.
Taken(bs, n) == {bs[i] : i \in {j \in 1 .. n : ~ bs[j].is_free}}

\* What callers hold and what is taken match, one to one.
HeldMatches ==
  /\ held \subseteq [ptr : Nat, size : Nat]
  /\ \A b \in Taken(blocks, Len(blocks)) : \E o \in held : o.ptr = b.addr + Header
  /\ \A o \in held : \E b \in Taken(blocks, Len(blocks)) :
       b.addr + Header = o.ptr /\ (b.size >= o.size \/ o.size > SIZE_MOD - 4)
  /\ \A o, p \in held : o.ptr = p.ptr => o = p

\* The inductive invariant of the heap.
HeapInv == Covers(blocks, HEAP_SIZE) /\ Apart(blocks) /\ HeldMatches

\* Rounding up gives a multiple of 4 that is enough, unless it wraps to 0.
LEMMA AlignIs ==
  ASSUME NEW n \in 1 .. SIZE_MOD - 1
  PROVE  Align(n) \in Nat /\ Align(n) % 4 = 0 /\ (Align(n) >= n \/ n > SIZE_MOD - 4)
<1>1. SIZE_MOD \in Nat \ {0} /\ SIZE_MOD % 4 = 0 /\ n \in Nat
  BY HeapAssumption
<1>2. CASE n % 4 = 0
  BY <1>1, <1>2 DEF Align
<1>3. CASE n % 4 # 0
  <2>1. PICK x : x = n + 4 - (n % 4)
    OBVIOUS
  <2>2. x \in Nat /\ x % 4 = 0 /\ x > n /\ x <= n + 3
    BY <1>1, <1>3, <2>1
  <2>3. Align(n) = x % SIZE_MOD
    BY <1>3, <2>1 DEF Align
  <2>4. CASE x < SIZE_MOD
    <3>1. x \in 0 .. SIZE_MOD - 1
      BY <1>1, <2>2, <2>4
    <3>2. x % SIZE_MOD = x
      BY <1>1, <3>1, ModSmall
    <3> QED
      BY <2>2, <2>3, <3>2
  <2>5. CASE x >= SIZE_MOD
    <3>1. x = SIZE_MOD
      BY <1>1, <2>2, <2>5
    <3>2. SIZE_MOD \in SIZE_MOD .. 2 * SIZE_MOD - 1 /\ SIZE_MOD - SIZE_MOD = 0
      BY <1>1
    <3>3. SIZE_MOD % SIZE_MOD = 0
      BY <1>1, <3>2, ModLarge
    <3>4. Align(n) = 0 /\ 0 % 4 = 0
      BY <2>3, <3>1, <3>3
    <3>5. n > SIZE_MOD - 4
      BY <1>1, <2>2, <3>1
    <3> QED
      BY <3>4, <3>5
  <2> QED
    BY <1>1, <2>2, <2>4, <2>5
<1> QED
  BY <1>2, <1>3

\* One turn of kfree's loop, by cases.
LEMMA MergeIs ==
  ASSUME NEW d \in Seq(Block), NEW b \in Block
  PROVE  /\ Merge(d, b) \in Seq(Block)
         /\ d # <<>> /\ d[Len(d)].is_free /\ b.is_free =>
              /\ Len(Merge(d, b)) = Len(d)
              /\ \A i \in 1 .. Len(d) - 1 : Merge(d, b)[i] = d[i]
              /\ Merge(d, b)[Len(d)] = [addr |-> d[Len(d)].addr,
                                        size |-> d[Len(d)].size + Header + b.size,
                                        is_free |-> TRUE]
         /\ ~ (d # <<>> /\ d[Len(d)].is_free /\ b.is_free) => Merge(d, b) = Append(d, b)
<1>1. Header \in Nat
  BY HeapAssumption
<1>2. CASE d # <<>> /\ d[Len(d)].is_free /\ b.is_free
  <2> DEFINE L == Len(d)
             x == [d[L] EXCEPT !.size = @ + Header + b.size]
             y == [addr |-> d[L].addr, size |-> d[L].size + Header + b.size, is_free |-> TRUE]
  <2>1. L \in 1 .. L /\ L \in Nat /\ d \in [1 .. L -> Block] /\ d[L] \in Block
    BY <1>2, LenProperties
  <2>2. Merge(d, b) = [d EXCEPT ![L] = x]
    BY <1>2 DEF Merge, Last
  <2>3. x = y /\ y \in Block
    <3>1. d[L].is_free \in BOOLEAN /\ d[L].addr \in Nat /\ d[L].size \in Nat /\ b.size \in Nat
      BY <2>1 DEF Block
    <3>2. d[L].is_free = TRUE
      BY <1>2, <3>1, Zenon
    <3>3. y \in Block
      BY <1>1, <3>1 DEF Block
    <3>4. PICK q \in Block : q = d[L]
      BY <2>1
    <3>5. [q EXCEPT !.size = @ + Header + b.size] =
            [addr |-> q.addr, size |-> q.size + Header + b.size, is_free |-> q.is_free]
      BY DEF Block
    <3>6. x = y
      BY <3>2, <3>4, <3>5
    <3> QED
      BY <3>3, <3>6
  <2> HIDE DEF x, y, L
  <2>4. [d EXCEPT ![L] = y] \in [1 .. L -> Block]
    BY <2>1, <2>3
  <2>5. [d EXCEPT ![L] = y] \in Seq(Block) /\ Len([d EXCEPT ![L] = y]) = L
    BY <2>1, <2>4, FunctionIsSeq
  <2>6. [d EXCEPT ![L] = y][L] = y /\ \A i \in 1 .. L - 1 : [d EXCEPT ![L] = y][i] = d[i]
    BY <2>1
  <2> QED
    BY <1>2, <2>2, <2>3, <2>5, <2>6 DEF y, L
<1>3. CASE ~ (d # <<>> /\ d[Len(d)].is_free /\ b.is_free)
  <2>1. Merge(d, b) = Append(d, b)
    BY <1>3 DEF Merge, Last
  <2> QED
    BY <1>3, <2>1
<1> QED
  BY <1>2, <1>3

\* What kfree's loop has made of the first n blocks of a list without gaps.
Merged(d, bs, n) ==
  /\ Covers(d, End(bs[n]))
  /\ Apart(d)
  /\ d[Len(d)].is_free = bs[n].is_free
  /\ Taken(d, Len(d)) = Taken(bs, n)

\* The blocks taken, one by one.
LEMMA TakenNext ==
  ASSUME NEW bs, NEW n \in Nat
  PROVE  Taken(bs, n + 1) = Taken(bs, n) \cup (IF bs[n + 1].is_free THEN {} ELSE {bs[n + 1]})
<1>1. {j \in 1 .. n + 1 : ~ bs[j].is_free} =
        {j \in 1 .. n : ~ bs[j].is_free} \cup (IF bs[n + 1].is_free THEN {} ELSE {n + 1})
  OBVIOUS
<1> QED
  BY <1>1 DEF Taken

\* Equal blocks, the same ones taken.
LEMMA TakenSame ==
  ASSUME NEW bs, NEW cs, NEW n \in Nat, \A i \in 1 .. n : bs[i] = cs[i]
  PROVE  Taken(bs, n) = Taken(cs, n)
  BY DEF Taken

\* The first block opens the list.
LEMMA MergeFirst ==
  ASSUME NEW e, NEW bs, Covers(bs, e)
  PROVE  Merged(Merge(<<>>, bs[1]), bs, 1)
<1>1. bs[1] \in Block /\ bs[1].addr = 0 /\ bs[1].addr % 4 = 0
  BY LenProperties DEF Covers
<1>2. Merge(<<>>, bs[1]) = << bs[1] >>
  BY DEF Merge
<1> DEFINE d == << bs[1] >>
<1>3. d \in Seq(Block) /\ d # <<>> /\ Len(d) = 1 /\ d[1] = bs[1]
  BY <1>1
<1> HIDE DEF d
<1>4. Covers(d, End(bs[1])) /\ Apart(d)
  BY <1>1, <1>3 DEF Covers, Apart
<1>5. Taken(d, Len(d)) = Taken(bs, 1)
  BY <1>3 DEF Taken
<1> QED
  BY <1>2, <1>3, <1>4, <1>5 DEF Merged, d

\* A block with its neighbour ends where the neighbour ended.
LEMMA EndOfBoth ==
  \A a, h, s, t \in Nat : a + h + (s + h + t) = (a + h + s) + h + t
  OBVIOUS

\* Each further one is appended or absorbed.
LEMMA MergeNext ==
  ASSUME NEW e, NEW bs, Covers(bs, e), NEW n \in 2 .. Len(bs), NEW d, Merged(d, bs, n - 1),
         NEW L, L = Len(d), NEW b, b = bs[n], NEW m, m = Merge(d, b)
  PROVE  Merged(m, bs, n)
<1>1. /\ n \in Nat /\ n - 1 \in 1 .. Len(bs) - 1 /\ n \in 1 .. Len(bs) /\ n - 1 + 1 = n
      /\ b \in Block /\ Header \in Nat \ {0}
  BY LenProperties, HeapAssumption DEF Covers
<1>2. /\ d \in Seq(Block) /\ L \in Nat /\ L >= 1 /\ \A i \in 1 .. L : d[i] \in Block
      /\ d[1].addr = 0 /\ d # <<>>
      /\ \A i \in 1 .. L - 1 : d[i + 1].addr = End(d[i])
      /\ End(d[L]) = End(bs[n - 1])
      /\ \A i \in 1 .. L : d[i].addr % 4 = 0
      /\ \A i, j \in 1 .. L : i < j => d[i].addr < d[j].addr
  BY LenProperties, EmptySeq DEF Merged, Covers
<1>3. b.addr = End(d[L]) /\ b.addr % 4 = 0
  BY <1>1, <1>2 DEF Covers
<1>4. /\ \A i \in 1 .. L - 1 : ~ (d[i].is_free /\ d[i + 1].is_free)
      /\ d[L].is_free = bs[n - 1].is_free
      /\ Taken(d, L) = Taken(bs, n - 1)
  BY DEF Merged, Apart
<1>t. /\ \A i \in 1 .. L : d[i].addr \in Nat /\ d[i].size \in Nat /\ d[i].is_free \in BOOLEAN
      /\ b.addr \in Nat /\ b.size \in Nat /\ b.is_free \in BOOLEAN
      /\ L \in 1 .. L /\ L \in Nat /\ L >= 1
  BY <1>1, <1>2 DEF Block
<1>m. /\ m \in Seq(Block)
      /\ d # <<>> /\ d[L].is_free /\ b.is_free =>
           /\ Len(m) = L
           /\ \A i \in 1 .. L - 1 : m[i] = d[i]
           /\ m[L] = [addr |-> d[L].addr, size |-> d[L].size + Header + b.size, is_free |-> TRUE]
      /\ ~ (d # <<>> /\ d[L].is_free /\ b.is_free) => m = Append(d, b)
  BY <1>1, <1>2, MergeIs
<1>u. d[L].addr \in Nat /\ d[L].size \in Nat /\ d[L].is_free \in BOOLEAN
  BY <1>t
<1>5. d[L].addr < b.addr
  <2>1. b.addr = d[L].addr + Header + d[L].size
    BY <1>3 DEF End
  <2>2. PICK a, s \in Nat : a = d[L].addr /\ s = d[L].size
    BY <1>u
  <2>3. a < a + Header + s
    BY <1>1
  <2> QED
    BY <2>1, <2>2, <2>3
<1>6. CASE d[L].is_free /\ b.is_free
  <2>1. /\ m \in Seq(Block) /\ Len(m) = L
        /\ \A i \in 1 .. L - 1 : m[i] = d[i]
        /\ m[L] = [addr |-> d[L].addr, size |-> d[L].size + Header + b.size, is_free |-> TRUE]
    BY <1>2, <1>6, <1>m
  <2>2. \A i \in 1 .. L : m[i].addr = d[i].addr /\ m[i].is_free = d[i].is_free
    <3>1. m[L].addr = d[L].addr /\ m[L].is_free = TRUE
      BY <2>1
    <3>2. d[L].is_free = TRUE
      BY <1>6, <1>u, Zenon
    <3> QED
      <4> TAKE i \in 1 .. L
      <4>1. CASE i = L
        BY <3>1, <3>2, <4>1
      <4>2. CASE i \in 1 .. L - 1
        BY <2>1, <4>2
      <4> QED
        BY <1>t, <4>1, <4>2
  <2>3. End(m[L]) = End(b)
    <3>1. m[L].addr = d[L].addr /\ m[L].size = d[L].size + Header + b.size
      BY <2>1
    <3> QED
      <4>1. d[L].addr \in Nat /\ d[L].size \in Nat /\ b.size \in Nat /\ Header \in Nat
        BY <1>1, <1>t, <1>u
      <4>2. b.addr = d[L].addr + Header + d[L].size
        BY <1>3 DEF End
      <4>3. PICK a, s, t \in Nat : a = d[L].addr /\ s = d[L].size /\ t = b.size
        BY <4>1
      <4>4. End(m[L]) = a + Header + (s + Header + t)
        BY <3>1, <4>3 DEF End
      <4>5. End(b) = (a + Header + s) + Header + t
        BY <4>2, <4>3 DEF End
      <4>6. a + Header + (s + Header + t) = (a + Header + s) + Header + t
        BY <4>1, EndOfBoth
      <4> QED
        BY <4>4, <4>5, <4>6
  <2>4. Covers(m, End(b))
    <3>1. ASSUME NEW i \in 1 .. L - 1 PROVE m[i + 1].addr = End(m[i])
      <4>1. m[i] = d[i] /\ i + 1 \in 1 .. L
        BY <1>t, <2>1
      <4> QED
        BY <1>2, <2>2, <4>1
    <3>2. m # <<>> /\ m[1].addr = 0
      BY <1>2, <2>1, <2>2
    <3> QED
      BY <1>2, <2>1, <2>2, <2>3, <3>1, <3>2 DEF Covers
  <2>5. Apart(m)
    <3>1. ASSUME NEW i \in 1 .. L - 1 PROVE ~ (m[i].is_free /\ m[i + 1].is_free)
      <4>1. i \in 1 .. L /\ i + 1 \in 1 .. L
        BY <1>t
      <4> QED
        BY <1>4, <2>2, <4>1
    <3> QED
      BY <2>1, <3>1 DEF Apart
  <2>6. Taken(m, L) = Taken(d, L)
    <3>1. \A i \in {j \in 1 .. L : ~ m[j].is_free} : i \in 1 .. L - 1
      BY <1>2, <1>6, <2>2
    <3>2. {j \in 1 .. L : ~ m[j].is_free} = {j \in 1 .. L : ~ d[j].is_free}
      BY <2>2
    <3> QED
      BY <2>1, <3>1, <3>2 DEF Taken
  <2>7. Taken(bs, n) = Taken(bs, n - 1)
    <3>1. {j \in 1 .. n : ~ bs[j].is_free} = {j \in 1 .. n - 1 : ~ bs[j].is_free}
      BY <1>1, <1>6
    <3> QED
      BY <3>1 DEF Taken
  <2>8. m[L].is_free = b.is_free
    <3>1. b.is_free \in BOOLEAN /\ m[L].is_free = TRUE
      BY <1>1, <2>1 DEF Block
    <3> QED
      BY <1>6, <3>1, Zenon
  <2> QED
    BY <1>4, <2>1, <2>4, <2>5, <2>6, <2>7, <2>8 DEF Merged
<1>7. CASE ~ (d[L].is_free /\ b.is_free)
  <2>1. m = Append(d, b)
    BY <1>7, <1>m
  <2>2. /\ m \in Seq(Block) /\ Len(m) = L + 1 /\ m # <<>>
        /\ \A i \in 1 .. L : m[i] = d[i]
        /\ m[L + 1] = b
    BY <1>1, <1>2, <2>1, AppendProperties
  <2>3. Covers(m, End(b))
    <3>1. ASSUME NEW i \in 1 .. L PROVE m[i + 1].addr = End(m[i])
      <4>1. CASE i = L
        BY <1>3, <1>t, <2>2, <4>1
      <4>2. CASE i \in 1 .. L - 1
        <5>1. m[i] = d[i] /\ i + 1 \in 1 .. L /\ m[i + 1] = d[i + 1]
          BY <1>t, <2>2, <4>2
        <5> QED
          BY <1>2, <4>2, <5>1
      <4> QED
        BY <1>t, <4>1, <4>2
    <3>2. \A i \in 1 .. L + 1 : m[i].addr % 4 = 0
      BY <1>2, <1>3, <2>2
    <3>3. \A i, j \in 1 .. L + 1 : i < j => m[i].addr < m[j].addr
      <4> TAKE i, j \in 1 .. L + 1
      <4> SUFFICES ASSUME i < j PROVE m[i].addr < m[j].addr
        OBVIOUS
      <4>1. i \in 1 .. L /\ m[i] = d[i]
        BY <2>2
      <4>2. CASE j \in 1 .. L
        BY <1>2, <2>2, <4>1, <4>2
      <4>3. CASE j = L + 1
        <5>1. d[i].addr \in Nat /\ d[L].addr \in Nat /\ b.addr \in Nat
          BY <1>t, <4>1
        <5>2. d[i].addr <= d[L].addr
          <6>1. CASE i = L
            BY <5>1, <6>1
          <6>2. CASE i < L
            BY <1>2, <1>t, <4>1, <5>1, <6>2
          <6> QED
            BY <1>t, <4>1, <6>1, <6>2
        <5> QED
          BY <1>5, <2>2, <4>1, <4>3, <5>1, <5>2
      <4> QED
        BY <1>2, <4>2, <4>3
    <3>4. m[1].addr = 0
      BY <1>2, <2>2
    <3> QED
      BY <2>2, <3>1, <3>2, <3>3, <3>4 DEF Covers
  <2>4. Apart(m)
    <3>1. ASSUME NEW i \in 1 .. L PROVE ~ (m[i].is_free /\ m[i + 1].is_free)
      <4>1. CASE i = L
        BY <1>7, <1>t, <2>2, <4>1
      <4>2. CASE i \in 1 .. L - 1
        <5>1. m[i] = d[i] /\ m[i + 1] = d[i + 1]
          BY <1>t, <2>2, <4>2
        <5> QED
          BY <1>4, <4>2, <5>1
      <4> QED
        BY <1>t, <4>1, <4>2
    <3>2. Len(m) - 1 = L
      BY <1>t, <2>2
    <3> QED
      BY <3>1, <3>2 DEF Apart
  <2>5. Taken(m, L + 1) = Taken(bs, n)
    <3>1. Taken(m, L + 1) = Taken(d, L) \cup (IF b.is_free THEN {} ELSE {b})
      <4>1. Taken(m, L + 1) = Taken(m, L) \cup (IF m[L + 1].is_free THEN {} ELSE {m[L + 1]})
        BY <1>t, TakenNext
      <4>2. Taken(m, L) = Taken(d, L)
        BY <1>t, <2>2, TakenSame
      <4> QED
        BY <2>2, <4>1, <4>2
    <3>2. Taken(bs, n) = Taken(bs, n - 1) \cup (IF b.is_free THEN {} ELSE {b})
      <4>1. n - 1 \in Nat
        BY <1>1
      <4>2. Taken(bs, n - 1 + 1) =
              Taken(bs, n - 1) \cup (IF bs[n - 1 + 1].is_free THEN {} ELSE {bs[n - 1 + 1]})
        BY <4>1, TakenNext
      <4> QED
        BY <1>1, <4>2
    <3> QED
      BY <1>4, <3>1, <3>2
  <2> QED
    BY <2>2, <2>3, <2>4, <2>5 DEF Merged
<1> QED
  BY <1>6, <1>7

\* MergeAll's recursion defines a function.
LEMMA MergeRecursion ==
  ASSUME NEW k \in Nat, NEW bs, \A i \in 1 .. k : bs[i] \in Block
  PROVE  \E f : f = [n \in 0 .. k |-> IF n = 0 THEN <<>> ELSE Merge(f[n - 1], bs[n])]
<1> DEFINE G == [n \in 1 .. k |-> [s \in Seq(Block) |-> Merge(s, bs[n])]]
<1>1. G \in [1 .. k -> [Seq(Block) -> Seq(Block)]]
  BY MergeIs
<1>2. <<>> \in Seq(Block)
  OBVIOUS
<1>3. \A n \in 1 .. k, s \in Seq(Block) : G[n][s] = Merge(s, bs[n])
  OBVIOUS
<1> HIDE DEF G
<1>4. Orbits(<<>>, k, Seq(Block), G) # {}
  BY <1>1, <1>2, Recursion DEF StepFunctions
<1>5. PICK f \in [0 .. k -> Seq(Block)] : f[0] = <<>> /\ \A n \in 1 .. k : f[n] = G[n][f[n - 1]]
  BY <1>4 DEF Orbits
<1>6. ASSUME NEW n \in 1 .. k PROVE f[n] = Merge(f[n - 1], bs[n])
  <2>1. f[n - 1] \in Seq(Block)
    OBVIOUS
  <2> QED
    BY <1>3, <1>5, <2>1
<1>7. \A n \in 0 .. k : f[n] = IF n = 0 THEN <<>> ELSE Merge(f[n - 1], bs[n])
  BY <1>5, <1>6
<1> QED
  BY <1>7

\* kfree's loop leaves a list that covers the same region, with the same
\* blocks taken and no free neighbours.
LEMMA MergeAllIs ==
  ASSUME NEW e, NEW bs, Covers(bs, e)
  PROVE  /\ Covers(MergeAll(bs), e)
         /\ Apart(MergeAll(bs))
         /\ Taken(MergeAll(bs), Len(MergeAll(bs))) = Taken(bs, Len(bs))
<1> DEFINE k == Len(bs)
           Step(f) == [n \in 0 .. k |-> IF n = 0 THEN <<>> ELSE Merge(f[n - 1], bs[n])]
           h == CHOOSE f : f = Step(f)
<1>1. k \in Nat /\ k >= 1 /\ \A i \in 1 .. k : bs[i] \in Block
  BY LenProperties, EmptySeq DEF Covers
<1>2. \E f : f = Step(f)
  BY <1>1, MergeRecursion
<1>3. h = Step(h)
  BY <1>2
<1>4. MergeAll(bs) = h[k]
  BY DEF MergeAll
<1> HIDE DEF h
<1>5. h[0] = <<>> /\ \A n \in 1 .. k : h[n] = Merge(h[n - 1], bs[n])
  BY <1>1, <1>3
<1> DEFINE T == {n \in 0 .. k : n # 0 => Merged(h[n], bs, n)}
<1>6. 0 \in T
  BY <1>1
<1>7. ASSUME NEW n \in 1 .. k, n - 1 \in T PROVE n \in T
  <2>1. CASE n = 1
    BY <1>5, <2>1, MergeFirst
  <2>2. CASE n # 1
    <3>1. n \in 2 .. Len(bs) /\ Merged(h[n - 1], bs, n - 1)
      BY <1>1, <1>7, <2>2
    <3>2. Merged(Merge(h[n - 1], bs[n]), bs, n)
      BY <3>1, MergeNext
    <3> QED
      BY <1>5, <3>2
  <2> QED
    BY <2>1, <2>2
<1> HIDE DEF T
<1>8. k \in T
  <2> HIDE DEF k
  <2>1. \A n \in 1 .. k : n - 1 \in T => n \in T
    BY <1>7
  <2>2. 0 .. k \subseteq T
    BY <1>1, <1>6, <2>1, InductionTo
  <2> QED
    BY <1>1, <2>2
<1>9. Merged(h[k], bs, k)
  BY <1>1, <1>8 DEF T
<1>10. End(bs[k]) = e
  BY DEF Covers
<1> QED
  BY <1>4, <1>9, <1>10 DEF Merged

\* What is taken, element by element.
LEMMA TakenIff ==
  ASSUME NEW bs, NEW n, NEW b
  PROVE  b \in Taken(bs, n) <=> \E i \in 1 .. n : bs[i] = b /\ ~ bs[i].is_free
  BY DEF Taken

\* Changing is_free alone leaves the blocks where they are.
LEMMA CoversSameShape ==
  ASSUME NEW e, NEW bs, Covers(bs, e), NEW cs \in Seq(Block), Len(cs) = Len(bs),
         \A i \in 1 .. Len(bs) : cs[i].addr = bs[i].addr /\ cs[i].size = bs[i].size
  PROVE  Covers(cs, e)
<1>1. bs \in Seq(Block) /\ bs # <<>> /\ Len(bs) \in Nat /\ Len(bs) >= 1
  BY LenProperties, EmptySeq DEF Covers
<1>2. cs # <<>>
  BY <1>1
<1>3. \A i \in 1 .. Len(bs) : End(cs[i]) = End(bs[i])
  BY DEF End
<1>4. \A i \in 1 .. Len(bs) - 1 : cs[i + 1].addr = End(cs[i])
  <2> TAKE i \in 1 .. Len(bs) - 1
  <2>1. i \in 1 .. Len(bs) /\ i + 1 \in 1 .. Len(bs)
    BY <1>1
  <2> QED
    BY <1>3, <2>1 DEF Covers
<1>5. cs[1].addr = 0 /\ End(cs[Len(cs)]) = e
  BY <1>1, <1>3 DEF Covers
<1>6. \A i \in 1 .. Len(bs) : cs[i].addr % 4 = 0
  BY DEF Covers
<1>7. \A i, j \in 1 .. Len(bs) : i < j => cs[i].addr < cs[j].addr
  BY DEF Covers
<1> QED
  BY <1>2, <1>4, <1>5, <1>6, <1>7 DEF Covers

\* A request served: one more block taken, one more pointer held.
LEMMA HeldGrows ==
  ASSUME HeldMatches, NEW x \in Block, NEW size \in Nat,
         x.size >= size \/ size > SIZE_MOD - 4,
         \A b \in Taken(blocks, Len(blocks)) : b \in Block /\ b.addr # x.addr,
         Taken(blocks', Len(blocks')) = Taken(blocks, Len(blocks)) \cup {x},
         held' = held \cup {[ptr |-> x.addr + Header, size |-> size]}
  PROVE  HeldMatches'
<1> DEFINE old == Taken(blocks, Len(blocks))
           new == Taken(blocks', Len(blocks'))
<1>0. Header \in Nat /\ x.addr \in Nat /\ x.addr + Header \in Nat
  BY HeapAssumption DEF Block
<1>1. PICK q : q = [ptr |-> x.addr + Header, size |-> size]
  OBVIOUS
<1>2. /\ q \in [ptr : Nat, size : Nat] /\ q.ptr = x.addr + Header /\ q.size = size
      /\ held' = held \cup {q} /\ new = old \cup {x}
  BY <1>0, <1>1
<1> HIDE DEF old, new
<1>3. /\ held \subseteq [ptr : Nat, size : Nat]
      /\ \A b \in old : \E o \in held : o.ptr = b.addr + Header
      /\ \A o \in held : \E b \in old :
           b.addr + Header = o.ptr /\ (b.size >= o.size \/ o.size > SIZE_MOD - 4)
      /\ \A o, p \in held : o.ptr = p.ptr => o = p
  BY DEF HeldMatches, old
<1>4. held' \subseteq [ptr : Nat, size : Nat]
  BY <1>2, <1>3
<1>5. \A b \in new : \E o \in held' : o.ptr = b.addr + Header
  BY <1>2, <1>3
<1>6. \A o \in held' : \E b \in new :
        b.addr + Header = o.ptr /\ (b.size >= o.size \/ o.size > SIZE_MOD - 4)
  BY <1>2, <1>3
<1>7. ASSUME NEW o \in held PROVE o.ptr # q.ptr
  <2>1. PICK b \in old : b.addr + Header = o.ptr
    BY <1>3
  <2>2. b.addr \in Nat /\ b.addr # x.addr
    BY <2>1 DEF old, Block
  <2> QED
    BY <1>0, <1>2, <2>1, <2>2
<1>8. \A o, p \in held' : o.ptr = p.ptr => o = p
  BY <1>2, <1>3, <1>7
<1> QED
  BY <1>4, <1>5, <1>6, <1>8 DEF HeldMatches, Taken, new

\* A block freed: its pointer is held no more.
LEMMA HeldShrinks ==
  ASSUME HeldMatches, NEW x \in Block, NEW o \in held, x.addr + Header = o.ptr,
         \A b \in Taken(blocks, Len(blocks)) : b \in Block /\ (b.addr = x.addr => b = x),
         Taken(blocks', Len(blocks')) = Taken(blocks, Len(blocks)) \ {x},
         held' = held \ {o}
  PROVE  HeldMatches'
<1> DEFINE old == Taken(blocks, Len(blocks))
           new == Taken(blocks', Len(blocks'))
<1>0. Header \in Nat /\ x.addr \in Nat /\ \A b \in old : b.addr \in Nat
  BY HeapAssumption DEF Block
<1>2. new = old \ {x}
  OBVIOUS
<1> HIDE DEF old, new
<1>3. /\ held \subseteq [ptr : Nat, size : Nat]
      /\ \A b \in old : \E p \in held : p.ptr = b.addr + Header
      /\ \A p \in held : \E b \in old :
           b.addr + Header = p.ptr /\ (b.size >= p.size \/ p.size > SIZE_MOD - 4)
      /\ \A p, q \in held : p.ptr = q.ptr => p = q
  BY DEF HeldMatches, old
<1>4. held' \subseteq [ptr : Nat, size : Nat] /\ \A p, q \in held' : p.ptr = q.ptr => p = q
  BY <1>3
<1>5. ASSUME NEW b \in new PROVE \E p \in held' : p.ptr = b.addr + Header
  <2>1. PICK p \in held : p.ptr = b.addr + Header
    BY <1>2, <1>3
  <2>2. b.addr # x.addr /\ b.addr \in Nat
    BY <1>0, <1>2 DEF old
  <2>3. p # o
    BY <1>0, <2>1, <2>2
  <2> QED
    BY <2>1, <2>3
<1>6. ASSUME NEW p \in held'
      PROVE  \E b \in new : b.addr + Header = p.ptr /\ (b.size >= p.size \/ p.size > SIZE_MOD - 4)
  <2>1. PICK b \in old : b.addr + Header = p.ptr /\ (b.size >= p.size \/ p.size > SIZE_MOD - 4)
    BY <1>3
  <2>2. b # x
    BY <1>3, <2>1
  <2> QED
    BY <1>2, <2>1, <2>2
<1> QED
  BY <1>4, <1>5, <1>6 DEF HeldMatches, Taken, new

\* Facts about the list as the invariant has it.
LEMMA ListFacts ==
  ASSUME HeapInv
  PROVE  /\ blocks \in Seq(Block) /\ Len(blocks) \in Nat /\ Len(blocks) >= 1
         /\ DOMAIN blocks = 1 .. Len(blocks)
         /\ \A i \in 1 .. Len(blocks) : blocks[i] \in Block
         /\ \A i, j \in 1 .. Len(blocks) : blocks[i].addr = blocks[j].addr => i = j
<1>1. /\ blocks \in Seq(Block) /\ blocks # <<>>
      /\ \A i, j \in 1 .. Len(blocks) : i < j => blocks[i].addr < blocks[j].addr
  BY DEF HeapInv, Covers
<1>2. /\ Len(blocks) \in Nat /\ Len(blocks) >= 1 /\ DOMAIN blocks = 1 .. Len(blocks)
      /\ \A i \in 1 .. Len(blocks) : blocks[i] \in Block
  BY <1>1, LenProperties, EmptySeq
<1>3. ASSUME NEW i \in 1 .. Len(blocks), NEW j \in 1 .. Len(blocks), blocks[i].addr = blocks[j].addr
      PROVE  i = j
  <2>1. blocks[i].addr \in Nat
    BY <1>2 DEF Block
  <2>2. ~ (i < j) /\ ~ (j < i)
    BY <1>1, <1>3, <2>1
  <2> QED
    BY <1>2, <2>2
<1> QED
  BY <1>1, <1>2, <1>3

\* kfree.
LEMMA FreeInv ==
  ASSUME HeapInv, NEW o \in held, kfree(o)
  PROVE  HeapInv'
<1>1. PICK L : L = Len(blocks)
  OBVIOUS
<1>2. /\ blocks \in Seq(Block) /\ L \in Nat /\ L >= 1 /\ DOMAIN blocks = 1 .. L
      /\ \A i \in 1 .. L : blocks[i] \in Block
      /\ \A i, j \in 1 .. L : blocks[i].addr = blocks[j].addr => i = j
  BY <1>1, ListFacts
<1>3. PICK freed : freed = [i \in DOMAIN blocks |->
                              IF blocks[i].addr = o.ptr - Header
                              THEN [blocks[i] EXCEPT !.is_free = TRUE] ELSE blocks[i]]
  OBVIOUS
<1>4. blocks' = MergeAll(freed) /\ held' = held \ {o}
  BY <1>3 DEF kfree
<1>5. PICK x \in Taken(blocks, L) : x.addr + Header = o.ptr
  BY <1>1 DEF HeapInv, HeldMatches
<1>6. PICK k \in 1 .. L : blocks[k] = x /\ ~ x.is_free
  BY <1>5, TakenIff
<1>7. Header \in Nat /\ x \in Block /\ x.addr \in Nat /\ o.ptr - Header = x.addr
  BY <1>2, <1>5, <1>6, HeapAssumption DEF Block
<1>8. \A i \in 1 .. L : blocks[i].addr = x.addr <=> i = k
  BY <1>2, <1>6
<1>9. PICK y : y = [x EXCEPT !.is_free = TRUE]
  OBVIOUS
<1>10. y \in Block /\ y.is_free /\ y.addr = x.addr /\ y.size = x.size
  BY <1>7, <1>9 DEF Block
<1>11. \A i \in 1 .. L : freed[i] = IF i = k THEN y ELSE blocks[i]
  BY <1>2, <1>3, <1>6, <1>7, <1>8, <1>9
<1>12. freed \in Seq(Block) /\ Len(freed) = L
  <2>1. DOMAIN freed = 1 .. L /\ freed \in [1 .. L -> Block]
    BY <1>2, <1>3, <1>10, <1>11
  <2> QED
    BY <1>2, <2>1, FunctionIsSeq
<1>13. Covers(freed, HEAP_SIZE)
  <2>1. \A i \in 1 .. L : freed[i].addr = blocks[i].addr /\ freed[i].size = blocks[i].size
    BY <1>6, <1>10, <1>11
  <2>2. Covers(blocks, HEAP_SIZE)
    BY DEF HeapInv
  <2> QED
    BY <1>1, <1>12, <2>1, <2>2, CoversSameShape
<1>14. Taken(freed, L) = Taken(blocks, L) \ {x}
  <2>1. ASSUME NEW b PROVE b \in Taken(freed, L) <=> b \in Taken(blocks, L) \ {x}
    <3>1. b \in Taken(freed, L) => b \in Taken(blocks, L) \ {x}
      <4> SUFFICES ASSUME NEW i \in 1 .. L, freed[i] = b, ~ freed[i].is_free
                   PROVE  b \in Taken(blocks, L) \ {x}
        BY TakenIff
      <4>1. i # k /\ b = blocks[i]
        BY <1>10, <1>11
      <4>2. b # x
        BY <1>8, <4>1
      <4> QED
        BY <4>1, <4>2, TakenIff
    <3>2. b \in Taken(blocks, L) \ {x} => b \in Taken(freed, L)
      <4> SUFFICES ASSUME NEW i \in 1 .. L, blocks[i] = b, ~ blocks[i].is_free, b # x
                   PROVE  b \in Taken(freed, L)
        BY TakenIff
      <4>1. i # k /\ b = freed[i]
        BY <1>6, <1>11
      <4> QED
        BY <4>1, TakenIff
    <3> QED
      BY <3>1, <3>2
  <2> QED
    BY <2>1
<1>15. /\ Covers(blocks', HEAP_SIZE) /\ Apart(blocks')
       /\ Taken(blocks', Len(blocks')) = Taken(blocks, Len(blocks)) \ {x}
  BY <1>1, <1>4, <1>12, <1>13, <1>14, MergeAllIs
<1>16. \A b \in Taken(blocks, Len(blocks)) : b \in Block /\ (b.addr = x.addr => b = x)
  BY <1>1, <1>2, <1>6, <1>8, TakenIff
<1>17. HeldMatches'
  <2>1. HeldMatches
    BY DEF HeapInv
  <2> QED
    BY <1>4, <1>5, <1>7, <1>15, <1>16, <2>1, HeldShrinks
<1>18. Covers(blocks, HEAP_SIZE)' /\ Apart(blocks)'
  BY <1>15 DEF Covers, Apart, End, Block
<1> QED
  BY <1>17, <1>18 DEF HeapInv

\* A free block cut in two: the region stays covered.
LEMMA CoversSplit ==
  ASSUME NEW e, NEW bs, Covers(bs, e), NEW L, L = Len(bs), NEW i \in 1 .. L,
         NEW x \in Block, NEW y \in Block, NEW cs \in Seq(Block), Len(cs) = L + 1,
         \A j \in 1 .. i - 1 : cs[j] = bs[j],
         cs[i] = x, cs[i + 1] = y,
         \A j \in i + 2 .. L + 1 : cs[j] = bs[j - 1],
         x.addr = bs[i].addr, y.addr = End(x), End(y) = End(bs[i]), y.addr % 4 = 0
  PROVE  Covers(cs, e)
<1>1. /\ bs \in Seq(Block) /\ L \in Nat /\ L >= 1 /\ \A j \in 1 .. L : bs[j] \in Block
      /\ bs[1].addr = 0
      /\ \A j \in 1 .. L - 1 : bs[j + 1].addr = End(bs[j])
      /\ End(bs[L]) = e
      /\ \A j \in 1 .. L : bs[j].addr % 4 = 0
      /\ \A j, k \in 1 .. L : j < k => bs[j].addr < bs[k].addr
  BY LenProperties, EmptySeq DEF Covers
<1>2. /\ \A j \in 1 .. L : bs[j].addr \in Nat /\ bs[j].size \in Nat
      /\ x.addr \in Nat /\ x.size \in Nat /\ y.addr \in Nat /\ y.size \in Nat
      /\ Header \in Nat \ {0} /\ i \in Nat
  <2>1. \A j \in 1 .. L : bs[j].addr \in Nat /\ bs[j].size \in Nat
    BY <1>1 DEF Block
  <2>2. x.addr \in Nat /\ x.size \in Nat /\ y.addr \in Nat /\ y.size \in Nat
    BY DEF Block
  <2>3. Header \in Nat \ {0} /\ i \in Nat
    BY <1>1, HeapAssumption
  <2> QED
    BY <2>1, <2>2, <2>3
<1>3. ASSUME NEW j \in 1 .. L PROVE cs[j + 1].addr = End(cs[j])
  <2>1. CASE j < i - 1
    <3>1. cs[j] = bs[j] /\ cs[j + 1] = bs[j + 1] /\ j \in 1 .. L - 1
      BY <1>1, <1>2, <2>1
    <3> QED
      BY <1>1, <3>1
  <2>2. CASE j = i - 1
    <3>1. cs[j] = bs[j] /\ j \in 1 .. L - 1 /\ j + 1 = i
      BY <1>1, <1>2, <2>2
    <3> QED
      BY <1>1, <3>1
  <2>3. CASE j = i
    BY <2>3
  <2>4. CASE j = i + 1
    <3>1. i \in 1 .. L - 1 /\ j + 1 \in i + 2 .. L + 1 /\ j + 1 - 1 = i + 1
      BY <1>1, <1>2, <2>4
    <3>2. cs[j + 1] = bs[i + 1]
      BY <3>1
    <3> QED
      BY <1>1, <2>4, <3>1, <3>2
  <2>5. CASE j > i + 1
    <3>1. /\ j \in i + 2 .. L + 1 /\ j + 1 \in i + 2 .. L + 1
          /\ j - 1 \in 1 .. L - 1 /\ j + 1 - 1 = j - 1 + 1
      BY <1>1, <1>2, <2>5
    <3>2. cs[j] = bs[j - 1] /\ cs[j + 1] = bs[j - 1 + 1]
      BY <3>1
    <3> QED
      BY <1>1, <3>1, <3>2
  <2> QED
    BY <1>1, <1>2, <2>1, <2>2, <2>3, <2>4, <2>5
<1>4. cs[1].addr = 0 /\ cs # <<>>
  <2>1. CASE i = 1
    BY <1>1, <2>1
  <2>2. CASE i > 1
    BY <1>1, <1>2, <2>2
  <2> QED
    BY <1>2, <2>1, <2>2
<1>5. End(cs[L + 1]) = e
  <2>1. CASE i = L
    BY <1>1, <2>1
  <2>2. CASE i < L
    <3>1. cs[L + 1] = bs[L]
      <4>1. L + 1 \in i + 2 .. L + 1 /\ L + 1 - 1 = L
        BY <1>1, <1>2, <2>2
      <4> QED
        BY <4>1
    <3> QED
      BY <1>1, <3>1
  <2> QED
    BY <1>1, <1>2, <2>1, <2>2
<1>6. \A j \in 1 .. L + 1 : cs[j].addr % 4 = 0
  <2> TAKE j \in 1 .. L + 1
  <2>1. CASE j <= i
    <3>1. cs[j].addr = bs[j].addr /\ j \in 1 .. L
      BY <1>1, <1>2, <2>1
    <3> QED
      BY <1>1, <3>1
  <2>2. CASE j = i + 1
    BY <2>2
  <2>3. CASE j > i + 1
    <3>1. j \in i + 2 .. L + 1 /\ j - 1 \in 1 .. L
      BY <1>1, <1>2, <2>3
    <3> QED
      BY <1>1, <3>1
  <2> QED
    BY <1>1, <1>2, <2>1, <2>2, <2>3
<1>7. bs[i].addr < y.addr /\ \A k \in 1 .. L : i < k => y.addr < bs[k].addr
  <2>1. bs[i].addr < y.addr
    <3>1. y.addr = x.addr + Header + x.size
      BY DEF End
    <3>2. x.addr < y.addr
      BY <1>2, <3>1
    <3> QED
      BY <3>2
  <2>2. ASSUME NEW k \in 1 .. L, i < k PROVE y.addr < bs[k].addr
    <3>1. i \in 1 .. L - 1 /\ i + 1 \in 1 .. L
      BY <1>1, <1>2, <2>2
    <3>2. bs[i + 1].addr = End(y)
      BY <1>1, <3>1
    <3>3. y.addr < bs[i + 1].addr
      <4>1. y.addr < End(y)
        BY <1>2 DEF End
      <4> QED
        BY <3>2, <4>1
    <3>4. bs[i + 1].addr <= bs[k].addr
      <4>1. CASE k = i + 1
        BY <1>2, <4>1
      <4>2. CASE i + 1 < k
        BY <1>1, <1>2, <3>1, <4>2
      <4> QED
        BY <1>2, <2>2, <4>1, <4>2
    <3>5. bs[i + 1].addr \in Nat /\ bs[k].addr \in Nat
      BY <1>2, <3>1
    <3> QED
      BY <1>2, <3>3, <3>4, <3>5
  <2> QED
    BY <2>1, <2>2
<1>8. ASSUME NEW j \in 1 .. L + 1, NEW k \in 1 .. L + 1, j < k PROVE cs[j].addr < cs[k].addr
  <2>1. ASSUME NEW n \in 1 .. i PROVE cs[n].addr = bs[n].addr /\ n \in 1 .. L
    BY <1>1, <1>2
  <2>2. ASSUME NEW n \in i + 2 .. L + 1 PROVE cs[n].addr = bs[n - 1].addr /\ n - 1 \in 1 .. L
    BY <1>1, <1>2
  <2>3. CASE k <= i
    <3>1. j \in 1 .. i /\ k \in 1 .. i
      BY <1>1, <1>2, <1>8, <2>3
    <3> QED
      BY <1>1, <1>8, <2>1, <3>1
  <2>4. CASE k = i + 1
    <3>1. j \in 1 .. i /\ i \in 1 .. L
      BY <1>1, <1>2, <1>8, <2>4
    <3>2. bs[j].addr <= bs[i].addr /\ bs[j].addr \in Nat /\ bs[i].addr \in Nat
      <4>1. j \in 1 .. L
        BY <2>1, <3>1
      <4>2. CASE j = i
        BY <1>2, <4>2
      <4>3. CASE j < i
        BY <1>1, <1>2, <4>1, <4>3
      <4> QED
        BY <1>2, <3>1, <4>2, <4>3
    <3> QED
      BY <1>2, <1>7, <2>1, <2>4, <3>1, <3>2
  <2>5. CASE k > i + 1 /\ j <= i
    <3>1. k \in i + 2 .. L + 1 /\ j \in 1 .. i /\ j < k - 1
      BY <1>1, <1>2, <2>5
    <3>2. bs[j].addr < bs[k - 1].addr
      BY <1>1, <2>1, <2>2, <3>1
    <3> QED
      BY <2>1, <2>2, <3>1, <3>2
  <2>6. CASE k > i + 1 /\ j = i + 1
    <3>1. k \in i + 2 .. L + 1 /\ i < k - 1
      BY <1>1, <1>2, <2>6
    <3> QED
      BY <1>7, <2>2, <2>6, <3>1
  <2>7. CASE j > i + 1
    <3>1. k \in i + 2 .. L + 1 /\ j \in i + 2 .. L + 1 /\ j - 1 < k - 1
      BY <1>1, <1>2, <1>8, <2>7
    <3>2. bs[j - 1].addr < bs[k - 1].addr
      BY <1>1, <2>2, <3>1
    <3> QED
      BY <2>2, <3>1, <3>2
  <2> QED
    BY <1>1, <1>2, <1>8, <2>3, <2>4, <2>5, <2>6, <2>7
<1>9. Len(cs) - 1 = L
  BY <1>1
<1> QED
  BY <1>3, <1>4, <1>5, <1>6, <1>8, <1>9 DEF Covers

\* kmalloc: the block is split in two, or taken whole.
LEMMA AllocInv ==
  ASSUME HeapInv, NEW size \in Requests, kmalloc(size)
  PROVE  HeapInv'
<1>1. PICK L : L = Len(blocks)
  OBVIOUS
<1>2. /\ blocks \in Seq(Block) /\ L \in Nat /\ L >= 1 /\ DOMAIN blocks = 1 .. L
      /\ \A j \in 1 .. L : blocks[j] \in Block
      /\ \A j, k \in 1 .. L : blocks[j].addr = blocks[k].addr => j = k
  BY <1>1, ListFacts
<1>3. size \in 1 .. SIZE_MOD - 1 /\ size \in Nat /\ Header \in Nat \ {0} /\ MinSplit \in Nat
  BY HeapAssumption DEF kmalloc
<1>4. PICK n : n = Align(size)
  OBVIOUS
<1>5. n \in Nat /\ n % 4 = 0 /\ (n >= size \/ size > SIZE_MOD - 4)
  BY <1>3, <1>4, AlignIs
<1>6. PICK i : i = FirstFit(n)
  OBVIOUS
<1>7. /\ Fits(n) # {}
      /\ blocks' = SubSeq(blocks, 1, i - 1) \o Carve(blocks[i], n)
                     \o SubSeq(blocks, i + 1, Len(blocks))
      /\ held' = held \cup {[ptr |-> blocks[i].addr + Header, size |-> size]}
  BY <1>4, <1>6 DEF kmalloc
<1>8. i \in Fits(n)
  <2>1. Fits(n) \subseteq Nat
    BY <1>2 DEF Fits
  <2>2. \E j \in Fits(n) : \A k \in Fits(n) : j <= k
    BY <1>7, <2>1, LeastNat
  <2> QED
    BY <1>6, <2>2 DEF FirstFit
<1>9. PICK b : b = blocks[i]
  OBVIOUS
<1>10. i \in 1 .. L /\ b \in Block /\ b.is_free /\ b.size >= n /\ b.addr \in Nat /\ b.size \in Nat
  BY <1>2, <1>8, <1>9 DEF Fits, Block
<1>11. /\ Covers(blocks, HEAP_SIZE) /\ HeldMatches
       /\ \A j \in 1 .. L - 1 : ~ (blocks[j].is_free /\ blocks[j + 1].is_free)
  BY <1>1 DEF HeapInv, Apart
<1>12. \A c \in Taken(blocks, L) : c \in Block /\ c.addr # b.addr
  <2> TAKE c \in Taken(blocks, L)
  <2>1. PICK j \in 1 .. L : blocks[j] = c /\ ~ c.is_free
    BY TakenIff
  <2>2. j # i
    BY <1>9, <1>10, <2>1
  <2> QED
    BY <1>2, <1>9, <1>10, <2>1, <2>2
<1>13. CASE b.size >= n + Header + MinSplit
  <2>1. PICK x, y : /\ x = [addr |-> b.addr, size |-> n, is_free |-> FALSE]
                    /\ y = [addr |-> b.addr + Header + n, size |-> b.size - n - Header, is_free |-> TRUE]
    OBVIOUS
  <2>2. /\ x \in Block /\ ~ x.is_free /\ x.addr = b.addr /\ x.size = n
        /\ y \in Block /\ y.is_free /\ y.addr = b.addr + Header + n /\ y.size = b.size - n - Header
    <3>1. b.addr + Header + n \in Nat /\ b.size - n - Header \in Nat
      BY <1>3, <1>5, <1>10, <1>13
    <3> QED
      BY <1>5, <1>10, <2>1, <3>1 DEF Block
  <2>3. Carve(blocks[i], n) = << x, y >>
    BY <1>9, <1>13, <2>1 DEF Carve
  <2>4. PICK c : c = << x, y >>
    OBVIOUS
  <2>5. c \in Seq(Block) /\ Len(c) = 2 /\ c[1] = x /\ c[2] = y
    BY <2>2, <2>4
  <2>6. PICK cs : cs = blocks'
    OBVIOUS
  <2>7. /\ cs \in Seq(Block) /\ Len(cs) = L - 1 + 2
        /\ \A j \in 1 .. i - 1 : cs[j] = blocks[j]
        /\ \A j \in 1 .. 2 : cs[i - 1 + j] = c[j]
        /\ \A j \in i + 1 .. L : cs[j - 1 + 2] = blocks[j]
    <3>1. IsSplice(Splice(blocks, i, c), blocks, i, c, Block, L, 2)
      <4>1. 2 \in Nat
        OBVIOUS
      <4> QED
        BY <1>1, <1>2, <1>10, <2>5, <4>1, Replaced
    <3>2. cs = Splice(blocks, i, c)
      BY <1>7, <2>3, <2>4, <2>6 DEF Splice
    <3>3. IsSplice(cs, blocks, i, c, Block, L, 2)
      BY <3>1, <3>2
    <3> QED
      BY <3>3 DEF IsSplice
  <2>8. /\ Len(cs) = L + 1 /\ cs[i] = x /\ cs[i + 1] = y
        /\ \A j \in i + 2 .. L + 1 : cs[j] = blocks[j - 1]
    <3>1. i - 1 + 1 = i /\ i - 1 + 2 = i + 1 /\ 1 \in 1 .. 2 /\ 2 \in 1 .. 2 /\ L - 1 + 2 = L + 1
      BY <1>2, <1>10
    <3>2. ASSUME NEW j \in i + 2 .. L + 1 PROVE cs[j] = blocks[j - 1]
      <4>1. j - 1 \in i + 1 .. L /\ j - 1 - 1 + 2 = j
        BY <1>2, <1>10
      <4> QED
        BY <2>7, <4>1
    <3> QED
      BY <2>5, <2>7, <3>1, <3>2
  <2>9. Covers(cs, HEAP_SIZE)
    <3>1. y.addr = End(x) /\ End(y) = End(b)
      <4>1. b.addr + Header + n + Header + (b.size - n - Header) = b.addr + Header + b.size
        BY <1>3, <1>5, <1>10
      <4> QED
        BY <2>2, <4>1 DEF End
    <3>2. y.addr % 4 = 0
      <4>1. b.addr % 4 = 0 /\ Header % 4 = 0
        BY <1>1, <1>9, <1>10, HeapAssumption DEF HeapInv, Covers
      <4>2. (b.addr + Header + n) % 4 = 0
        BY <1>3, <1>5, <1>10, <4>1
      <4> QED
        BY <2>2, <4>2
    <3>3. /\ Covers(blocks, HEAP_SIZE) /\ L = Len(blocks) /\ i \in 1 .. L
          /\ x \in Block /\ y \in Block /\ cs \in Seq(Block) /\ Len(cs) = L + 1
          /\ \A j \in 1 .. i - 1 : cs[j] = blocks[j]
          /\ cs[i] = x /\ cs[i + 1] = y
          /\ \A j \in i + 2 .. L + 1 : cs[j] = blocks[j - 1]
          /\ x.addr = blocks[i].addr /\ End(y) = End(blocks[i])
      BY <1>1, <1>9, <1>10, <1>11, <2>2, <2>7, <2>8, <3>1
    <3> QED
      BY <3>1, <3>2, <3>3, CoversSplit
  <2>10. Apart(cs)
    <3>1. ASSUME NEW j \in 1 .. L PROVE ~ (cs[j].is_free /\ cs[j + 1].is_free)
      <4>1. CASE j < i - 1
        <5>1. cs[j] = blocks[j] /\ cs[j + 1] = blocks[j + 1] /\ j \in 1 .. L - 1
          BY <1>2, <1>10, <2>7, <4>1
        <5> QED
          BY <1>11, <5>1
      <4>2. CASE j = i - 1 \/ j = i
        BY <1>2, <1>10, <2>2, <2>8, <4>2
      <4>3. CASE j = i + 1
        <5>1. j + 1 \in i + 2 .. L + 1 /\ j + 1 - 1 = i + 1 /\ i \in 1 .. L - 1
          BY <1>2, <1>10, <4>3
        <5>2. cs[j + 1] = blocks[i + 1]
          BY <2>8, <5>1
        <5> QED
          BY <1>9, <1>10, <1>11, <5>1, <5>2
      <4>4. CASE j > i + 1
        <5>1. /\ j \in i + 2 .. L + 1 /\ j + 1 \in i + 2 .. L + 1 /\ j - 1 \in 1 .. L - 1
              /\ j + 1 - 1 = j - 1 + 1
          BY <1>2, <1>10, <4>4
        <5>2. cs[j] = blocks[j - 1] /\ cs[j + 1] = blocks[j - 1 + 1]
          BY <2>8, <5>1
        <5> QED
          BY <1>11, <5>1, <5>2
      <4>5. j < i - 1 \/ (j = i - 1 \/ j = i) \/ j = i + 1 \/ j > i + 1
        BY <1>2, <1>10
      <4> QED
        BY <4>1, <4>2, <4>3, <4>4, <4>5
    <3>2. Len(cs) - 1 = L
      BY <1>2, <2>8
    <3> QED
      BY <3>1, <3>2 DEF Apart
  <2>11. Taken(cs, L + 1) = Taken(blocks, L) \cup {x}
    <3>1. ASSUME NEW q, q \in Taken(cs, L + 1) PROVE q \in Taken(blocks, L) \cup {x}
      <4>1. PICK j \in 1 .. L + 1 : cs[j] = q /\ ~ q.is_free
        BY <3>1, TakenIff
      <4>2. CASE j < i
        <5>1. j \in 1 .. L /\ blocks[j] = q
          BY <1>2, <1>10, <2>7, <4>1, <4>2
        <5> QED
          BY <4>1, <5>1, TakenIff
      <4>3. CASE j = i \/ j = i + 1
        BY <2>2, <2>8, <4>1, <4>3
      <4>4. CASE j > i + 1
        <5>1. j - 1 \in 1 .. L /\ blocks[j - 1] = q
          BY <1>2, <1>10, <2>8, <4>1, <4>4
        <5> QED
          BY <4>1, <5>1, TakenIff
      <4>5. j < i \/ (j = i \/ j = i + 1) \/ j > i + 1
        BY <1>2, <1>10
      <4> QED
        BY <4>2, <4>3, <4>4, <4>5
    <3>2. ASSUME NEW q, q \in Taken(blocks, L) PROVE q \in Taken(cs, L + 1)
      <4>1. PICK j \in 1 .. L : blocks[j] = q /\ ~ q.is_free
        BY <3>2, TakenIff
      <4>2. CASE j < i
        <5>1. j \in 1 .. L + 1 /\ cs[j] = q
          BY <1>2, <1>10, <2>7, <4>1, <4>2
        <5> QED
          BY <4>1, <5>1, TakenIff
      <4>3. CASE j > i
        <5>1. j + 1 \in 1 .. L + 1 /\ j + 1 \in i + 2 .. L + 1 /\ j + 1 - 1 = j
          BY <1>2, <1>10, <4>3
        <5>2. cs[j + 1] = q
          BY <2>8, <4>1, <5>1
        <5> QED
          BY <4>1, <5>1, <5>2, TakenIff
      <4> QED
        BY <1>2, <1>9, <1>10, <4>1, <4>2, <4>3
    <3>3. x \in Taken(cs, L + 1)
      <4>1. i \in 1 .. L + 1
        BY <1>2, <1>10
      <4> QED
        BY <2>2, <2>8, <4>1, TakenIff
    <3> QED
      BY <3>1, <3>2, <3>3
  <2>12. HeldMatches'
    <3>1. held' = held \cup {[ptr |-> x.addr + Header, size |-> size]}
      BY <1>7, <1>9, <2>2
    <3>2. Taken(blocks', Len(blocks')) = Taken(blocks, Len(blocks)) \cup {x}
      BY <1>1, <2>6, <2>8, <2>11
    <3>3. x.size >= size \/ size > SIZE_MOD - 4
      BY <1>5, <2>2
    <3>4. \A c1 \in Taken(blocks, Len(blocks)) : c1 \in Block /\ c1.addr # x.addr
      BY <1>1, <1>12, <2>2
    <3> QED
      BY <1>3, <1>11, <2>2, <3>1, <3>2, <3>3, <3>4, HeldGrows
  <2>13. Covers(blocks, HEAP_SIZE)' /\ Apart(blocks)'
    BY <2>6, <2>9, <2>10 DEF Covers, Apart, End, Block
  <2> QED
    BY <2>12, <2>13 DEF HeapInv
<1>14. CASE ~ (b.size >= n + Header + MinSplit)
  <2>1. PICK x : x = [b EXCEPT !.is_free = FALSE]
    OBVIOUS
  <2>2. x \in Block /\ ~ x.is_free /\ x.addr = b.addr /\ x.size = b.size
    BY <1>10, <2>1 DEF Block
  <2>3. Carve(blocks[i], n) = << x >>
    BY <1>9, <1>14, <2>1 DEF Carve
  <2>4. PICK c : c = << x >>
    OBVIOUS
  <2>5. c \in Seq(Block) /\ Len(c) = 1 /\ c[1] = x
    BY <2>2, <2>4
  <2>6. PICK cs : cs = blocks'
    OBVIOUS
  <2>7. /\ cs \in Seq(Block) /\ Len(cs) = L - 1 + 1
        /\ \A j \in 1 .. i - 1 : cs[j] = blocks[j]
        /\ \A j \in 1 .. 1 : cs[i - 1 + j] = c[j]
        /\ \A j \in i + 1 .. L : cs[j - 1 + 1] = blocks[j]
    <3>1. IsSplice(Splice(blocks, i, c), blocks, i, c, Block, L, 1)
      <4>1. 1 \in Nat
        OBVIOUS
      <4> QED
        BY <1>1, <1>2, <1>10, <2>5, <4>1, Replaced
    <3>2. cs = Splice(blocks, i, c)
      BY <1>7, <2>3, <2>4, <2>6 DEF Splice
    <3>3. IsSplice(cs, blocks, i, c, Block, L, 1)
      BY <3>1, <3>2
    <3> QED
      BY <3>3 DEF IsSplice
  <2>8. Len(cs) = L /\ \A j \in 1 .. L : cs[j] = IF j = i THEN x ELSE blocks[j]
    <3>1. i - 1 + 1 = i /\ 1 \in 1 .. 1 /\ L - 1 + 1 = L
      BY <1>2, <1>10
    <3>2. ASSUME NEW j \in i + 1 .. L PROVE cs[j] = blocks[j]
      <4>1. j - 1 + 1 = j
        BY <1>2, <1>10
      <4> QED
        BY <2>7, <4>1
    <3>3. cs[i] = x
      BY <2>5, <2>7, <3>1
    <3> QED
      BY <1>2, <1>10, <2>7, <3>1, <3>2, <3>3
  <2>9. Covers(cs, HEAP_SIZE)
    <3>1. \A j \in 1 .. L : cs[j].addr = blocks[j].addr /\ cs[j].size = blocks[j].size
      BY <1>9, <2>2, <2>8
    <3> QED
      BY <1>1, <1>11, <2>7, <2>8, <3>1, CoversSameShape
  <2>10. Apart(cs)
    <3>1. ASSUME NEW j \in 1 .. L - 1 PROVE ~ (cs[j].is_free /\ cs[j + 1].is_free)
      <4>1. j \in 1 .. L /\ j + 1 \in 1 .. L
        BY <1>2
      <4> QED
        BY <1>11, <2>2, <2>8, <4>1
    <3> QED
      BY <2>8, <3>1 DEF Apart
  <2>11. Taken(cs, L) = Taken(blocks, L) \cup {x}
    <3>1. ASSUME NEW q, q \in Taken(cs, L) PROVE q \in Taken(blocks, L) \cup {x}
      <4>1. PICK j \in 1 .. L : cs[j] = q /\ ~ q.is_free
        BY <3>1, TakenIff
      <4> QED
        BY <2>8, <4>1, TakenIff
    <3>2. ASSUME NEW q, q \in Taken(blocks, L) PROVE q \in Taken(cs, L)
      <4>1. PICK j \in 1 .. L : blocks[j] = q /\ ~ q.is_free
        BY <3>2, TakenIff
      <4>2. j # i /\ cs[j] = q
        BY <1>9, <1>10, <2>8, <4>1
      <4> QED
        BY <4>1, <4>2, TakenIff
    <3>3. x \in Taken(cs, L)
      BY <1>10, <2>2, <2>8, TakenIff
    <3> QED
      BY <3>1, <3>2, <3>3
  <2>12. HeldMatches'
    <3>1. held' = held \cup {[ptr |-> x.addr + Header, size |-> size]}
      BY <1>7, <1>9, <2>2
    <3>2. Taken(blocks', Len(blocks')) = Taken(blocks, Len(blocks)) \cup {x}
      BY <1>1, <2>6, <2>8, <2>11
    <3>3. x.size >= size \/ size > SIZE_MOD - 4
      BY <1>3, <1>5, <1>10, <2>2
    <3>4. \A c1 \in Taken(blocks, Len(blocks)) : c1 \in Block /\ c1.addr # x.addr
      BY <1>1, <1>12, <2>2
    <3> QED
      BY <1>3, <1>11, <2>2, <3>1, <3>2, <3>3, <3>4, HeldGrows
  <2>13. Covers(blocks, HEAP_SIZE)' /\ Apart(blocks)'
    BY <2>6, <2>9, <2>10 DEF Covers, Apart, End, Block
  <2> QED
    BY <2>12, <2>13 DEF HeapInv
<1> QED
  BY <1>13, <1>14

\* The inductive invariant of the heap, for any sizes.
THEOREM HeapInductive == HeapSpec => []HeapInv
<1>1. HeapInit => HeapInv
  <2> SUFFICES ASSUME HeapInit PROVE HeapInv
    OBVIOUS
  <2>1. PICK b : b = [addr |-> 0, size |-> HEAP_SIZE - Header, is_free |-> TRUE]
    OBVIOUS
  <2>2. blocks = << b >> /\ held = {}
    BY <2>1 DEF HeapInit, init_heap
  <2>3. HEAP_SIZE - Header \in Nat /\ 0 + Header + (HEAP_SIZE - Header) = HEAP_SIZE /\ 0 % 4 = 0
    BY HeapAssumption
  <2>4. b \in Block /\ b.addr = 0 /\ b.is_free /\ End(b) = HEAP_SIZE
    BY <2>1, <2>3 DEF Block, End
  <2>5. blocks \in Seq(Block) /\ Len(blocks) = 1 /\ blocks[1] = b /\ blocks # <<>>
    BY <2>2, <2>4
  <2>6. Covers(blocks, HEAP_SIZE)
    BY <2>3, <2>4, <2>5 DEF Covers
  <2>7. Apart(blocks)
    BY <2>5 DEF Apart
  <2>8. Taken(blocks, Len(blocks)) = {}
    BY <2>4, <2>5 DEF Taken
  <2> QED
    BY <2>2, <2>6, <2>7, <2>8 DEF HeapInv, HeldMatches
<1>2. HeapInv /\ [HeapNext]_heapVars => HeapInv'
  <2> SUFFICES ASSUME HeapInv, [HeapNext]_heapVars PROVE HeapInv'
    OBVIOUS
  <2>1. ASSUME NEW size \in Requests, kmalloc(size) PROVE HeapInv'
    BY <2>1, AllocInv
  <2>2. ASSUME NEW o \in held, kfree(o) PROVE HeapInv'
    BY <2>2, FreeInv
  <2>3. CASE UNCHANGED heapVars
    BY <2>3 DEF heapVars, HeapInv, Covers, Apart, HeldMatches, Taken, End, Block
  <2> QED
    BY <2>1, <2>2, <2>3 DEF HeapNext
<1> QED
  BY <1>1, <1>2, PTL DEF HeapSpec

\* Whatever is allocated and freed, in any order, the blocks cover the region
\* of heap.c without gap or overlap.
THEOREM BlocksTile == HeapSpec => []Tiling
<1>1. HeapInv => Tiling
  BY DEF HeapInv, Covers, Tiling, Last, End
<1> QED
  BY <1>1, HeapInductive, PTL

\* kfree leaves no two free neighbours, wherever the freed block is.
THEOREM FreeSpaceMerged == HeapSpec => []Coalesced
<1>1. HeapInv => Coalesced
  BY DEF HeapInv, Apart, Coalesced
<1> QED
  BY <1>1, HeapInductive, PTL

\* Callers hold exactly the blocks that are taken, each with the room asked
\* for, for any request that kmalloc does not wrap to 0.
THEOREM PointersOwnBlocks == HeapSpec => []HeldIsTaken
<1>1. HeapInv => HeldIsTaken
  <2> SUFFICES ASSUME HeapInv PROVE HeldIsTaken
    OBVIOUS
  <2> DEFINE T == Taken(blocks, Len(blocks))
  <2>1. /\ blocks \in Seq(Block) /\ DOMAIN blocks = 1 .. Len(blocks)
        /\ \A i \in 1 .. Len(blocks) : blocks[i] \in Block
    BY ListFacts
  <2>2. T = {blocks[i] : i \in {j \in DOMAIN blocks : ~ blocks[j].is_free}}
    BY <2>1 DEF Taken
  <2>3. /\ \A b \in T : \E o \in held : o.ptr = b.addr + Header
        /\ \A o \in held : \E b \in T :
             b.addr + Header = o.ptr /\ (b.size >= o.size \/ o.size > SIZE_MOD - 4)
        /\ \A o, p \in held : o.ptr = p.ptr => o = p
    BY DEF HeapInv, HeldMatches
  <2>4. ASSUME NEW o \in held
        PROVE  \E i \in DOMAIN blocks :
                 /\ blocks[i].addr + Header = o.ptr
                 /\ blocks[i].size >= o.size \/ o.size > SIZE_MOD - 4
                 /\ o.ptr % 4 = 0
    <3>1. PICK b \in T : b.addr + Header = o.ptr /\ (b.size >= o.size \/ o.size > SIZE_MOD - 4)
      BY <2>3
    <3>2. PICK i \in 1 .. Len(blocks) : blocks[i] = b
      BY <3>1, TakenIff
    <3>3. b.addr % 4 = 0 /\ b.addr \in Nat /\ Header \in Nat /\ Header % 4 = 0
      BY <2>1, <3>2, HeapAssumption DEF HeapInv, Covers, Block
    <3>4. (b.addr + Header) % 4 = 0
      BY <3>3
    <3> QED
      BY <2>1, <3>1, <3>2, <3>4
  <2>5. {b.addr + Header : b \in T} = {o.ptr : o \in held}
    <3> HIDE DEF T
    <3>1. \A b \in T : b.addr + Header \in {o.ptr : o \in held}
      BY <2>3
    <3>2. \A o \in held : o.ptr \in {b.addr + Header : b \in T}
      BY <2>3
    <3> QED
      BY <3>1, <3>2
  <2> HIDE DEF T
  <2> QED
    BY <2>2, <2>3, <2>4, <2>5 DEF HeldIsTaken
<1> QED
  BY <1>1, HeapInductive, PTL

\* Nothing leaks: with everything freed the heap is one free block again, and
\* heap_get_free reports all of it.
THEOREM NothingLeaks == HeapSpec => []AllFreedIsInitial
<1>1. HeapInv => AllFreedIsInitial
  <2> SUFFICES ASSUME HeapInv, held = {} PROVE init_heap /\ heap_get_free = HEAP_SIZE
    BY DEF AllFreedIsInitial
  <2>1. PICK L : L = Len(blocks)
    OBVIOUS
  <2>2. /\ blocks \in Seq(Block) /\ L \in Nat /\ L >= 1 /\ \A i \in 1 .. L : blocks[i] \in Block
        /\ HEAP_SIZE \in Nat /\ Header \in Nat
    BY <2>1, ListFacts, HeapAssumption
  <2>3. \A i \in 1 .. L : blocks[i].is_free
    <3>1. Taken(blocks, L) = {}
      BY <2>1 DEF HeapInv, HeldMatches
    <3> QED
      BY <3>1 DEF Taken
  <2>4. L = 1
    <3>1. CASE L > 1
      <4>1. 1 \in 1 .. L - 1 /\ 1 \in 1 .. L /\ 1 + 1 \in 1 .. L
        BY <2>2, <3>1
      <4> QED
        BY <2>1, <2>3, <4>1 DEF HeapInv, Apart
    <3> QED
      BY <2>2, <3>1
  <2>5. PICK b \in Block : b = blocks[1]
    BY <2>2, <2>4
  <2>6. b.addr = 0 /\ End(b) = HEAP_SIZE /\ b.is_free
    BY <2>1, <2>2, <2>3, <2>4, <2>5 DEF HeapInv, Covers
  <2>7. b.size = HEAP_SIZE - Header
    <3>1. b.size \in Nat /\ 0 + Header + b.size = HEAP_SIZE
      BY <2>6 DEF End, Block
    <3> QED
      BY <2>2, <3>1
  <2>8. b = [addr |-> 0, size |-> HEAP_SIZE - Header, is_free |-> TRUE]
    <3>1. b.is_free \in BOOLEAN
      BY DEF Block
    <3>2. b.is_free = TRUE
      BY <2>6, <3>1, Zenon
    <3> QED
      BY <2>6, <2>7, <3>2 DEF Block
  <2>9. init_heap
    <3>1. Len(<< b >>) = 1 /\ << b >>[1] = b /\ << b >> \in Seq(Block)
      OBVIOUS
    <3>2. PICK c \in Seq(Block) : c = << b >>
      BY <3>1
    <3>3. Len(blocks) = Len(c) /\ \A i \in 1 .. Len(blocks) : blocks[i] = c[i]
      BY <2>1, <2>4, <2>5, <3>1, <3>2
    <3>4. blocks = c
      BY <2>2, <3>3, SeqEqual
    <3> QED
      BY <2>8, <3>2, <3>4 DEF init_heap
  <2>10. heap_get_used = 0
    <3> DEFINE Step(f) == [n \in 0 .. Len(blocks) |->
                             IF n = 0 THEN 0
                             ELSE f[n - 1] + IF blocks[n].is_free THEN 0 ELSE blocks[n].size + Header]
               h == CHOOSE f : f = Step(f)
    <3>1. \E f : f = Step(f)
      <4> DEFINE z == [n \in 0 .. Len(blocks) |-> 0]
      <4>1. \A n \in 0 .. Len(blocks) :
              z[n] = IF n = 0 THEN 0
                     ELSE z[n - 1] + IF blocks[n].is_free THEN 0 ELSE blocks[n].size + Header
        BY <2>1, <2>2, <2>3
      <4>2. z = Step(z)
        BY <4>1
      <4> QED
        BY <4>2
    <3>2. h = Step(h)
      BY <3>1
    <3>3. heap_get_used = h[Len(blocks)]
      BY DEF heap_get_used
    <3> HIDE DEF h
    <3>4. h[0] = 0
      BY <2>1, <2>2, <3>2
    <3>5. h[1] = h[0] + IF blocks[1].is_free THEN 0 ELSE blocks[1].size + Header
      <4>1. \A n \in 0 .. Len(blocks) :
              h[n] = IF n = 0 THEN 0
                     ELSE h[n - 1] + IF blocks[n].is_free THEN 0 ELSE blocks[n].size + Header
        BY <3>2
      <4>2. 1 \in 0 .. Len(blocks) /\ 1 # 0 /\ 1 - 1 = 0
        BY <2>1, <2>4
      <4> QED
        BY <4>1, <4>2
    <3>6. h[1] = 0
      BY <2>5, <2>6, <3>4, <3>5
    <3> QED
      BY <2>1, <2>4, <3>3, <3>6
  <2>11. heap_get_free = HEAP_SIZE
    BY <2>2, <2>10 DEF heap_get_free
  <2> QED
    BY <2>9, <2>11
<1> QED
  BY <1>1, HeapInductive, PTL

-----------------------------------------------------------------------------
(* The console: the shell's line and history.                              *)

\* A line that fits the buffer.
Lined(b) == b \in Seq(Chars) /\ Len(b) <= MAX_BUFFER - 1

\* No line of the history is empty or repeats the one before.
Distinct(h) == \A i \in 1 .. Len(h) : h[i] # <<>> /\ (i > 1 => h[i] # h[i - 1])

\* A history as shell.c keeps it.
HistoryOK(h) ==
  /\ h \in Seq(Seq(Chars)) /\ Len(h) <= HISTORY_SIZE
  /\ \A i \in 1 .. Len(h) : Lined(h[i])
  /\ Distinct(h)

\* The part of the inductive invariant about shell.c.
ShellInv ==
  /\ Lined(buffer) /\ buf_idx \in 0 .. Len(buffer)
  /\ Lined(saved_buffer) /\ saved_buf_idx \in 0 .. Len(saved_buffer)
  /\ HistoryOK(command_history)
  /\ history_index \in -1 .. Len(command_history) - 1
  /\ ctrl_pressed \in BOOLEAN /\ extended_mode \in BOOLEAN

\* The beginning of a line is a line, of the length asked for.
LEMMA LinePrefix ==
  ASSUME NEW b, Lined(b), NEW n \in 0 .. Len(b)
  PROVE  /\ Lined(SubSeq(b, 1, n)) /\ Len(SubSeq(b, 1, n)) = n
         /\ Len(b) \in Nat
<1>1. b \in Seq(Chars) /\ Len(b) \in Nat /\ Len(b) <= MAX_BUFFER - 1
  BY LenProperties DEF Lined
<1>2. PICK k \in Nat : k = Len(b)
  BY <1>1
<1>3. SubSeq(b, 1, n) \in Seq(Chars) /\ Len(SubSeq(b, 1, n)) = n
  <2>1. \A i \in 1 .. n : i \in 1 .. Len(b)
    BY <1>1
  <2>2. n \in Nat /\ n <= Len(b)
    BY <1>1
  <2> QED
    BY <1>1, <2>1, <2>2, SubSeqProperties
<1> QED
  BY <1>1, <1>2, <1>3, ShellAssumption DEF Lined

\* Adding a line keeps the history in order, shifted or not.
LEMMA AddKeeps ==
  ASSUME HistoryOK(command_history), NEW c, Lined(c), c # <<>>
  PROVE  HistoryOK(history_add(c))
<1> DEFINE h == command_history
           g == history_add(c)
<1>1. /\ h \in Seq(Seq(Chars)) /\ Len(h) \in Nat /\ Len(h) <= HISTORY_SIZE
      /\ HISTORY_SIZE \in Nat \ {0} /\ c \in Seq(Chars)
  BY LenProperties, ShellAssumption DEF HistoryOK, Lined
<1>2. PICK n \in Nat : n = Len(h)
  BY <1>1
<1>3. CASE h # <<>> /\ Last(h) = c
  BY <1>3 DEF history_add
<1>4. CASE ~ (h # <<>> /\ Last(h) = c)
  <2>1. n > 0 => h[n] # c
    <3>1. n > 0 => h # <<>>
      BY <1>1, <1>2
    <3> QED
      BY <1>2, <1>4, <3>1 DEF Last
  <2>2. CASE n < HISTORY_SIZE
    <3>1. g = Append(h, c)
      BY <1>2, <1>4, <2>2 DEF history_add
    <3>2. /\ g \in Seq(Seq(Chars)) /\ Len(g) = n + 1
          /\ \A i \in 1 .. n : g[i] = h[i]
          /\ g[n + 1] = c
      BY <1>1, <1>2, <3>1, AppendProperties
    <3> HIDE DEF g
    <3>3. \A i \in 1 .. n + 1 : i \in 1 .. n \/ i = n + 1
      OBVIOUS
    <3>4. \A i \in 1 .. n + 1 : i > 1 => i - 1 \in 1 .. n
      OBVIOUS
    <3>5. \A i \in 1 .. n + 1 : Lined(g[i]) /\ g[i] # <<>>
      BY <1>2, <3>2, <3>3 DEF HistoryOK, Distinct
    <3>6. ASSUME NEW i \in 1 .. n + 1, i > 1 PROVE g[i] # g[i - 1]
      <4>1. g[i - 1] = h[i - 1]
        BY <3>2, <3>4, <3>6
      <4>2. CASE i \in 1 .. n
        BY <1>2, <3>2, <3>6, <4>1, <4>2 DEF HistoryOK, Distinct
      <4>3. CASE i = n + 1
        <5>1. i - 1 = n /\ n > 0
          BY <3>6, <4>3
        <5> QED
          BY <2>1, <3>2, <4>1, <4>3, <5>1
      <4> QED
        BY <3>3, <4>2, <4>3
    <3>7. Len(g) <= HISTORY_SIZE
      BY <1>1, <2>2, <3>2
    <3>8. HistoryOK(g)
      <4>1. Distinct(g)
        BY <3>2, <3>5, <3>6 DEF Distinct
      <4> QED
        BY <3>2, <3>5, <3>7, <4>1 DEF HistoryOK
    <3> QED
      BY <3>8 DEF g
  <2>3. CASE n = HISTORY_SIZE
    <3>1. g = Append(Tail(h), c)
      BY <1>2, <1>4, <2>3 DEF history_add
    <3>2. /\ Tail(h) \in Seq(Seq(Chars)) /\ Len(Tail(h)) = n - 1
          /\ \A i \in 1 .. n - 1 : Tail(h)[i] = h[i + 1]
      <4>1. h # <<>>
        BY <1>1, <1>2, <2>3
      <4>2. /\ Tail(h) \in Seq(Seq(Chars)) /\ Len(Tail(h)) = Len(h) - 1
            /\ \A i \in 1 .. Len(Tail(h)) : Tail(h)[i] = h[i + 1]
        BY <1>1, <4>1, HeadTailProperties
      <4> QED
        BY <1>2, <4>2
    <3>3. /\ g \in Seq(Seq(Chars)) /\ Len(g) = n
          /\ \A i \in 1 .. n - 1 : g[i] = h[i + 1]
          /\ g[n] = c
      <4> DEFINE t == Tail(h)
      <4>1. t \in Seq(Seq(Chars)) /\ Len(t) = n - 1 /\ n >= 1
        BY <1>1, <2>3, <3>2
      <4>2. /\ Append(t, c) \in Seq(Seq(Chars)) /\ Len(Append(t, c)) = n
            /\ \A i \in 1 .. n - 1 : Append(t, c)[i] = t[i]
            /\ Append(t, c)[n] = c
        BY <1>1, <4>1, AppendProperties
      <4> HIDE DEF t
      <4> QED
        BY <3>1, <3>2, <4>2 DEF t
    <3> HIDE DEF g
    <3>4. \A i \in 1 .. n : i \in 1 .. n - 1 \/ i = n
      OBVIOUS
    <3>5. \A i \in 1 .. n - 1 : i + 1 \in 1 .. n /\ i + 1 > 1 /\ (i + 1) - 1 = i
      OBVIOUS
    <3>6. \A i \in 1 .. n : Lined(g[i]) /\ g[i] # <<>>
      BY <1>2, <3>3, <3>4, <3>5 DEF HistoryOK, Distinct
    <3>7. ASSUME NEW i \in 1 .. n, i > 1 PROVE g[i] # g[i - 1]
      <4>1. i - 1 \in 1 .. n - 1 /\ (i - 1) + 1 = i
        BY <3>7
      <4>2. g[i - 1] = h[i]
        BY <3>3, <4>1
      <4>3. CASE i \in 1 .. n - 1
        <5>1. g[i] = h[i + 1] /\ h[i + 1] # h[(i + 1) - 1]
          BY <1>2, <3>3, <3>5, <4>3 DEF HistoryOK, Distinct
        <5> QED
          BY <3>5, <4>2, <4>3, <5>1
      <4>4. CASE i = n
        BY <2>1, <3>3, <3>7, <4>2, <4>4
      <4> QED
        BY <3>4, <4>3, <4>4
    <3>8. Len(g) <= HISTORY_SIZE
      BY <1>1, <1>2, <3>3
    <3>9. HistoryOK(g)
      BY <3>3, <3>6, <3>7, <3>8 DEF HistoryOK, Distinct
    <3> QED
      BY <3>9 DEF g
  <2> QED
    BY <1>1, <1>2, <2>2, <2>3
<1> QED
  BY <1>3, <1>4

\* A shell that has just started.
LEMMA ShellInitInv == ConsoleInit => ShellInv
<1>1. <<>> \in Seq(Chars) /\ <<>> \in Seq(Seq(Chars)) /\ Len(<<>>) = 0
  OBVIOUS
<1>2. 0 <= MAX_BUFFER - 1 /\ 0 <= HISTORY_SIZE
  BY ShellAssumption
<1>3. Lined(<<>>) /\ 0 \in 0 .. Len(<<>>) /\ -1 \in -1 .. Len(<<>>) - 1
  BY <1>1, <1>2 DEF Lined
<1>4. HistoryOK(<<>>)
  <2>1. 1 .. Len(<<>>) = {}
    BY <1>1
  <2> QED
    BY <1>1, <1>2, <2>1 DEF HistoryOK, Distinct
<1> QED
  BY <1>3, <1>4 DEF ConsoleInit, init_shell, ShellInv

\* The lines of the history are lines.
LEMMA OldLine ==
  ASSUME ShellInv, NEW i \in 0 .. Len(command_history) - 1
  PROVE  Lined(command_history[i + 1]) /\ Len(command_history[i + 1]) \in Nat
<1>1. Len(command_history) \in Nat
  BY LenProperties DEF ShellInv, HistoryOK
<1>2. i + 1 \in 1 .. Len(command_history)
  BY <1>1
<1>3. Lined(command_history[i + 1])
  BY <1>2 DEF ShellInv, HistoryOK
<1> QED
  BY <1>3, LenProperties DEF Lined

\* The line on the screen fits the buffer.
LEMMA LineIs == ASSUME ShellInv PROVE Lined(Line) /\ Len(Line) = buf_idx /\ buf_idx \in Nat
<1>1. Lined(buffer) /\ buf_idx \in 0 .. Len(buffer)
  BY DEF ShellInv
<1> QED
  BY <1>1, LinePrefix DEF Line

\* shell_history_up shows a line of the history.
LEMMA UpInv ==
  ASSUME ShellInv, shell_history_up, UNCHANGED ctrl_pressed, extended_mode' = FALSE
  PROVE  ShellInv'
<1>1. Len(command_history) \in Nat
  BY LenProperties DEF ShellInv, HistoryOK
<1>2. history_index' \in 0 .. Len(command_history) - 1
  BY <1>1 DEF ShellInv, shell_history_up
<1>3. PICK k \in 0 .. Len(command_history) - 1 : k = history_index'
  BY <1>2
<1>4. Lined(command_history[k + 1]) /\ Len(command_history[k + 1]) \in Nat
  BY <1>3, OldLine
<1>5. buffer' = command_history[k + 1] /\ buf_idx' = Len(buffer')
  BY <1>3 DEF shell_history_up
<1>6. Lined(buffer') /\ buf_idx' \in 0 .. Len(buffer')
  BY <1>4, <1>5
<1>7. Lined(saved_buffer') /\ saved_buf_idx' \in 0 .. Len(saved_buffer')
  BY DEF shell_history_up, ShellInv
<1>8. command_history' = command_history
  BY DEF shell_history_up
<1>9. history_index' \in -1 .. Len(command_history) - 1
  BY <1>1, <1>2
<1> QED
  BY <1>6, <1>7, <1>8, <1>9 DEF ShellInv, HistoryOK, Distinct, Lined

\* shell_history_down gives back a line of the history or the saved one.
LEMMA DownInv ==
  ASSUME ShellInv, shell_history_down, UNCHANGED ctrl_pressed, extended_mode' = FALSE
  PROVE  ShellInv'
<1>1. Len(command_history) \in Nat /\ command_history' = command_history
      /\ UNCHANGED <<saved_buffer, saved_buf_idx>>
  BY LenProperties DEF ShellInv, HistoryOK, shell_history_down
<1>2. CASE history_index < Len(command_history) - 1
  <2>1. history_index + 1 \in 0 .. Len(command_history) - 1
    BY <1>1, <1>2 DEF ShellInv
  <2>2. PICK k \in 0 .. Len(command_history) - 1 : k = history_index + 1
    BY <2>1
  <2>3. Lined(command_history[k + 1]) /\ Len(command_history[k + 1]) \in Nat
    BY <2>2, OldLine
  <2>4. buffer' = command_history[k + 1] /\ buf_idx' = Len(buffer') /\ history_index' = k
    BY <1>2, <2>2 DEF shell_history_down
  <2>5. Lined(buffer') /\ buf_idx' \in 0 .. Len(buffer')
    BY <2>3, <2>4
  <2>6. history_index' \in -1 .. Len(command_history) - 1
    BY <1>1, <2>2, <2>4
  <2> QED
    BY <1>1, <2>5, <2>6 DEF ShellInv, HistoryOK, Distinct, Lined
<1>3. CASE ~ (history_index < Len(command_history) - 1)
  <2>1. history_index' = -1 /\ buffer' = saved_buffer /\ buf_idx' = saved_buf_idx
    BY <1>3 DEF shell_history_down
  <2>2. history_index' \in -1 .. Len(command_history) - 1
    BY <1>1, <2>1
  <2> QED
    BY <1>1, <2>1, <2>2 DEF ShellInv, HistoryOK, Distinct, Lined
<1> QED
  BY <1>2, <1>3

\* A key that goes to the shell: it executes, erases or types.
LEMMA KeyInv ==
  ASSUME ShellInv, NEW c, shell_handle_key(c), UNCHANGED ctrl_pressed, extended_mode' = FALSE
  PROVE  ShellInv'
<1> DEFINE s == terminal_scroll_to_bottom(term)
<1>1. Lined(Line) /\ Len(Line) = buf_idx /\ buf_idx \in Nat
  BY LineIs
<1>2. Len(command_history) \in Nat /\ Lined(buffer) /\ Len(buffer) \in Nat
  BY LenProperties DEF ShellInv, HistoryOK, Lined
<1>3. CASE execute_command(s)
  <2>1. /\ buffer' = Line /\ history_index' = -1 /\ saved_buf_idx' = 0 /\ saved_buffer' = <<>>
        /\ command_history' = IF Line = <<>> THEN command_history ELSE history_add(Line)
        /\ buf_idx' = buf_idx \/ buf_idx' = 0
    BY <1>3 DEF execute_command, Clear, Masked, Unmask
  <2>2. HistoryOK(command_history')
    BY <1>1, <2>1, AddKeeps DEF ShellInv
  <2>3. Len(command_history') \in Nat
    BY <2>2, LenProperties DEF HistoryOK
  <2>4. Lined(<<>>) /\ 0 \in 0 .. Len(<<>>)
    BY ShellAssumption DEF Lined
  <2>5. buf_idx' \in 0 .. Len(Line) /\ -1 \in -1 .. Len(command_history') - 1
    BY <1>1, <2>1, <2>3
  <2> QED
    BY <1>1, <2>1, <2>2, <2>4, <2>5 DEF ShellInv, HistoryOK, Distinct, Lined
<1>4. ASSUME UNCHANGED <<command_history, history_index, saved_buffer, saved_buf_idx>>,
             Lined(buffer'), buf_idx' \in 0 .. Len(buffer')
      PROVE  ShellInv'
  BY <1>4 DEF ShellInv, HistoryOK, Distinct, Lined
<1>5. CASE EraseKey(s)
  <2>1. CASE buf_idx > 0
    <3>1. buf_idx - 1 \in 0 .. Len(buffer)
      BY <1>1, <1>2, <2>1 DEF ShellInv
    <3>2. PICK k \in 0 .. Len(buffer) : k = buf_idx - 1
      BY <3>1
    <3>3. Lined(SubSeq(buffer, 1, k)) /\ Len(SubSeq(buffer, 1, k)) = k
      BY <1>2, LinePrefix
    <3>4. buffer' = SubSeq(buffer, 1, k) /\ buf_idx' = k /\ k \in 0 .. k
      BY <1>2, <1>5, <2>1, <3>2 DEF EraseKey
    <3>5. Lined(buffer') /\ buf_idx' \in 0 .. Len(buffer')
      BY <3>3, <3>4
    <3> QED
      BY <1>4, <1>5, <3>5 DEF EraseKey
  <2>2. CASE ~ (buf_idx > 0)
    BY <1>4, <1>5, <2>2 DEF EraseKey, ShellInv
  <2> QED
    BY <2>1, <2>2
<1>6. CASE c \in Chars /\ TypeKey(s, c)
  <2>1. CASE buf_idx < MAX_BUFFER - 1
    <3>1. buffer' = Append(Line, c) /\ buf_idx' = buf_idx + 1
      BY <1>6, <2>1 DEF TypeKey
    <3>2. Append(Line, c) \in Seq(Chars) /\ Len(Append(Line, c)) = buf_idx + 1
      BY <1>1, <1>6, AppendProperties DEF Lined
    <3>3. buf_idx + 1 <= MAX_BUFFER - 1 /\ buf_idx + 1 \in 0 .. buf_idx + 1
      BY <1>1, <2>1, ShellAssumption
    <3>4. Lined(buffer') /\ buf_idx' \in 0 .. Len(buffer')
      BY <3>1, <3>2, <3>3 DEF Lined
    <3> QED
      BY <1>4, <1>6, <3>4 DEF TypeKey
  <2>2. CASE ~ (buf_idx < MAX_BUFFER - 1)
    BY <1>4, <1>6, <2>2 DEF TypeKey, ShellInv
  <2> QED
    BY <2>1, <2>2
<1> QED
  BY <1>3, <1>5, <1>6 DEF shell_handle_key

\* The shell's part of the invariant is inductive by itself.
LEMMA ShellNextInv == ShellInv /\ [ConsoleNext]_consoleVars => ShellInv'
<1> SUFFICES ASSUME ShellInv, [ConsoleNext]_consoleVars PROVE ShellInv'
  OBVIOUS
<1>1. ASSUME UNCHANGED lineVars, ctrl_pressed' \in BOOLEAN, extended_mode' \in BOOLEAN
      PROVE  ShellInv'
  BY <1>1 DEF ShellInv, lineVars, HistoryOK, Distinct, Lined
<1>2. CASE Prefix \/ Ctrl(TRUE) \/ Ctrl(FALSE) \/ Release
  <2>1. UNCHANGED lineVars /\ ctrl_pressed' \in BOOLEAN /\ extended_mode' \in BOOLEAN
    BY <1>2 DEF Prefix, Ctrl, Release, ShellInv, shellVars
  <2> QED
    BY <1>1, <2>1
<1>3. CASE Extended
  <2>1. CASE Scroll
    <3>1. UNCHANGED lineVars /\ ctrl_pressed' \in BOOLEAN /\ extended_mode' \in BOOLEAN
      BY <1>3, <2>1 DEF Extended, Scroll, ShellInv, shellVars
    <3> QED
      BY <1>1, <3>1
  <2> QED
    BY <1>3, <2>1, UpInv, DownInv DEF Extended
<1>4. ASSUME NEW c \in Chars \cup {NL, BS}, Plain(c) PROVE ShellInv'
  BY <1>4, KeyInv DEF Plain
<1>5. CASE UNCHANGED consoleVars
  BY <1>1, <1>5 DEF consoleVars, shellVars, ShellInv
<1>6. ASSUME NEW h \in Handlers, HandlerStep(h), UNCHANGED <<ctrl_pressed, extended_mode>>
      PROVE  ShellInv'
  <2>1. CASE ResetLine(h)
    <3>1. Len(buffer) \in Nat
      BY LenProperties DEF ShellInv, Lined
    <3>2. 0 \in 0 .. Len(buffer)
      BY <3>1
    <3> QED
      BY <1>6, <2>1, <3>2 DEF ResetLine, ShellInv, HistoryOK, Distinct, Lined
  <2>2. CASE PutBegin(h) \/ PutEnd(h) \/ Return(h)
    BY <1>1, <1>6, <2>2 DEF PutBegin, PutEnd, Return, shellVars, ShellInv
  <2> QED
    BY <1>6, <2>1, <2>2 DEF HandlerStep
<1> QED
  BY <1>2, <1>3, <1>4, <1>5, <1>6 DEF ConsoleNext

\* shell.c's line, saved line and history keep their invariant.
THEOREM ShellInductive == ConsoleSpec => []ShellInv
  BY ShellInitInv, ShellNextInv, PTL DEF ConsoleSpec

\* The history has no empty command and no repetition, for any size, before and
\* after history_add begins to shift.
THEOREM HistoryHasNoRepeats == ConsoleSpec => []HistoryDistinct
<1>1. ShellInv => HistoryDistinct
  BY LenProperties DEF ShellInv, HistoryOK, Distinct, HistoryDistinct
<1> QED
  BY <1>1, ShellInductive, PTL

\* Browsing the history gives the line that was being typed back, however far
\* shell_history_up and shell_history_down went.
THEOREM BrowsingKeepsLine == ConsoleSpec => TypedLineKept
<1> DEFINE A == /\ history_index = -1 /\ history_index' # -1
                     => SubSeq(saved_buffer', 1, saved_buf_idx') = Line
                /\ history_index # -1 /\ history_index' # -1
                     => UNCHANGED <<saved_buffer, saved_buf_idx>>
                /\ history_index # -1 /\ history_index' = -1 /\ command_history' = command_history
                     => \/ Line' = SubSeq(saved_buffer, 1, saved_buf_idx)
                        \/ saved_buffer' = <<>>
<1>1. ASSUME ShellInv, ConsoleNext PROVE A
  <2>0. /\ Len(command_history) \in Nat
        /\ history_index \in -1 .. Len(command_history) - 1
    BY <1>1, LenProperties DEF ShellInv, HistoryOK
  <2>1. CASE UNCHANGED <<history_index, saved_buffer, saved_buf_idx>>
    BY <2>1
  <2>2. CASE shell_history_up
    <3>1. history_index' >= 0 /\ history_index' = IF history_index = -1 THEN Len(command_history) - 1
                                                  ELSE history_index - 1
      BY <2>2 DEF shell_history_up
    <3>2. history_index' # -1
      BY <2>0, <3>1
    <3> QED
      BY <2>2, <3>2 DEF shell_history_up, Line
  <2>3. CASE shell_history_down
    <3>1. CASE history_index < Len(command_history) - 1
      <4>1. history_index' = history_index + 1 /\ history_index # -1
        BY <2>3, <3>1 DEF shell_history_down
      <4>2. history_index' # -1
        BY <2>0, <4>1
      <4> QED
        BY <2>3, <4>1, <4>2 DEF shell_history_down
    <3>2. CASE ~ (history_index < Len(command_history) - 1)
      BY <2>3, <3>2 DEF shell_history_down, Line
    <3> QED
      BY <3>1, <3>2
  <2>4. ASSUME NEW c, shell_handle_key(c) PROVE A
    <3> DEFINE s == terminal_scroll_to_bottom(term)
    <3>1. CASE execute_command(s)
      BY <3>1 DEF execute_command
    <3>2. CASE EraseKey(s) \/ TypeKey(s, c)
      <4>1. UNCHANGED <<history_index, saved_buffer, saved_buf_idx>>
        BY <3>2 DEF EraseKey, TypeKey
      <4> QED
        BY <4>1
    <3> QED
      BY <2>4, <3>1, <3>2 DEF shell_handle_key
  <2> HIDE DEF A
  <2>5. ASSUME NEW h \in Handlers, HandlerStep(h) PROVE A
    BY <2>1, <2>5 DEF HandlerStep, PutBegin, PutEnd, ResetLine, Return, shellVars, lineVars
  <2> QED
    BY <1>1, <2>1, <2>2, <2>3, <2>4, <2>5 DEF ConsoleNext, Prefix, Ctrl, Release, Extended, Scroll,
       Plain, shellVars, lineVars
<1>2. ShellInv /\ [ConsoleNext]_consoleVars => [A]_consoleVars
  BY <1>1
<1> QED
  BY <1>2, ShellInductive, PTL DEF ConsoleSpec, TypedLineKept

-----------------------------------------------------------------------------
(* The console: the terminal.                                              *)

\* A terminal whose indices are in range, with the window at the end or on
\* lines that exist.
TermOK(s) ==
  /\ s \in [len : [Lines -> 0 .. VGA_WIDTH], head : Lines, count : 0 .. SCROLLBACK_LINES,
            view_offset : Nat]
  /\ s.len[s.head] < VGA_WIDTH
  /\ s.view_offset <= MaxOffset(s)

\* Before the ring has filled up its lines follow one another, the first is
\* empty (no row ever shows it) and nothing is written behind the head.
OldestEmpty(s) ==
  s.count < SCROLLBACK_LINES =>
    s.head = s.count /\ s.len[0] = 0 /\ \A i \in Lines : i > s.head => s.len[i] = 0

\* A terminal on which something has been printed.
Screens == {s \in [len : [Lines -> 0 .. VGA_WIDTH], head : Lines, count : 0 .. SCROLLBACK_LINES,
                   view_offset : Nat] : TermOK(s) /\ OldestEmpty(s) /\ s.count > 0}

\* The larger and the smaller of two numbers.
LEMMA MaxMin ==
  ASSUME NEW a \in Int, NEW b \in Int
  PROVE  /\ Max({a, b}) = IF a >= b THEN a ELSE b
         /\ Min({a, b}) = IF a <= b THEN a ELSE b
<1>1. \E x \in {a, b} : \A y \in {a, b} : x >= y
  OBVIOUS
<1>2. \E x \in {a, b} : \A y \in {a, b} : x <= y
  OBVIOUS
<1>3. Max({a, b}) \in {a, b} /\ \A y \in {a, b} : Max({a, b}) >= y
  BY <1>1 DEF Max
<1>4. Min({a, b}) \in {a, b} /\ \A y \in {a, b} : Min({a, b}) <= y
  BY <1>2 DEF Min
<1> QED
  BY <1>3, <1>4

\* How far the window can go back.
LEMMA OffsetIs ==
  ASSUME NEW s, s.count \in Nat
  PROVE  /\ MaxOffset(s) = IF s.count >= VISIBLE_LINES THEN s.count - VISIBLE_LINES ELSE 0
         /\ MaxOffset(s) \in Nat
<1>1. VISIBLE_LINES \in Nat /\ s.count - VISIBLE_LINES \in Int
  BY TerminalAssumption
<1>2. MaxOffset(s) = IF s.count - VISIBLE_LINES >= 0 THEN s.count - VISIBLE_LINES ELSE 0
  BY <1>1, MaxMin DEF MaxOffset
<1> QED
  BY <1>1, <1>2

\* A new line: the head moves on, and the ring begins to overwrite when full.
LEMMA AddLineKeeps ==
  ASSUME NEW s \in [len : [Lines -> 0 .. VGA_WIDTH], head : Lines, count : 0 .. SCROLLBACK_LINES,
                    view_offset : Nat],
         OldestEmpty(s)
  PROVE  scrollback_add_line(s) \in Screens
<1> DEFINE h == (s.head + 1) % SCROLLBACK_LINES
           c == IF s.count < SCROLLBACK_LINES THEN s.count + 1 ELSE s.count
           r == scrollback_add_line(s)
<1>1. PICK N \in Nat \ {0} : N = SCROLLBACK_LINES
  BY TerminalAssumption
<1>2. PICK W \in Nat \ {0} : W = VGA_WIDTH
  BY TerminalAssumption
<1>3. s.head \in 0 .. N - 1 /\ s.count \in 0 .. N /\ s.len \in [Lines -> 0 .. W] /\ Lines = 0 .. N - 1
  BY <1>1, <1>2 DEF Lines
<1>4. PICK p \in 0 .. N - 1 : p = s.head
  BY <1>3
<1>5. PICK k \in 0 .. N : k = s.count
  BY <1>3
<1>6. h = IF p = N - 1 THEN 0 ELSE p + 1
  BY <1>1, <1>4, ModSucc
<1>7. h \in Lines
  BY <1>3, <1>6
<1>8. c \in 1 .. N /\ c = IF k < N THEN k + 1 ELSE k
  BY <1>1, <1>5
<1>9. r = [len |-> [s.len EXCEPT ![h] = 0], head |-> h, view_offset |-> 0, count |-> c]
  BY DEF scrollback_add_line
<1> HIDE DEF h, c
<1>a. /\ r.len = [s.len EXCEPT ![h] = 0] /\ r.head = h /\ r.view_offset = 0 /\ r.count = c
  BY <1>9
<1>b. [s.len EXCEPT ![h] = 0] \in [Lines -> 0 .. VGA_WIDTH] /\ [s.len EXCEPT ![h] = 0][h] = 0
  <2>1. 0 \in 0 .. VGA_WIDTH
    BY <1>2
  <2> QED
    BY <1>7, <2>1
<1>c. r \in [len : [Lines -> 0 .. VGA_WIDTH], head : Lines, count : 0 .. SCROLLBACK_LINES,
             view_offset : Nat]
  <2>1. c \in 0 .. SCROLLBACK_LINES /\ 0 \in Nat
    BY <1>1, <1>8
  <2> QED
    BY <1>7, <1>9, <1>b, <2>1
<1> HIDE DEF r
<1>d. TermOK(r)
  <2>1. r.len[r.head] < VGA_WIDTH
    BY <1>2, <1>a, <1>b
  <2>2. r.view_offset <= MaxOffset(r)
    BY <1>8, <1>a, OffsetIs
  <2> QED
    BY <1>c, <2>1, <2>2 DEF TermOK
<1>e. OldestEmpty(r)
  <2> SUFFICES ASSUME c < N
               PROVE  h = c /\ r.len[0] = 0 /\ \A i \in Lines : i > h => r.len[i] = 0
    BY <1>1, <1>a DEF OldestEmpty
  <2>1. k < N /\ c = k + 1
    BY <1>8
  <2>2. p = k /\ s.len[0] = 0 /\ \A i \in Lines : i > p => s.len[i] = 0
    BY <1>1, <1>4, <1>5, <2>1 DEF OldestEmpty
  <2>3. h = c /\ h # 0 /\ h > p
    BY <1>6, <2>1, <2>2
  <2>4. \A i \in Lines : i # h => r.len[i] = s.len[i]
    BY <1>a, <1>3
  <2>5. 0 \in Lines /\ \A i \in Lines : i > h => i # h /\ i > p
    BY <1>3, <1>8, <2>3
  <2> QED
    BY <2>2, <2>3, <2>4, <2>5
<1> QED
  BY <1>8, <1>a, <1>c, <1>d, <1>e DEF Screens, r

\* Whatever character is printed.
LEMMA PutcharKeeps ==
  ASSUME NEW s \in Screens, NEW c
  PROVE  terminal_putchar(s, c) \in Screens
<1> DEFINE R == [len : [Lines -> 0 .. VGA_WIDTH], head : Lines, count : 0 .. SCROLLBACK_LINES,
                 view_offset : Nat]
           col == s.len[s.head]
<1>1. s \in R /\ s.len[s.head] < VGA_WIDTH /\ s.view_offset <= MaxOffset(s) /\ OldestEmpty(s)
      /\ s.count > 0
  BY DEF Screens, TermOK
<1>2. PICK W \in Nat \ {0} : W = VGA_WIDTH
  BY TerminalAssumption
<1>3. col \in 0 .. W - 1
  <2>1. col \in 0 .. VGA_WIDTH /\ col < VGA_WIDTH
    BY <1>1
  <2> QED
    BY <1>2, <2>1
<1>4. ASSUME NEW m \in 0 .. W
      PROVE  LET u == [s EXCEPT !.len[s.head] = m]
             IN  u \in R /\ OldestEmpty(u) /\ u.len[u.head] = m /\ MaxOffset(u) = MaxOffset(s)
                 /\ u.count = s.count /\ u.view_offset = s.view_offset
  <2> DEFINE u == [s EXCEPT !.len[s.head] = m]
  <2>1. /\ u.len = [s.len EXCEPT ![s.head] = m] /\ u.head = s.head /\ u.count = s.count
        /\ u.view_offset = s.view_offset /\ u \in R
    BY <1>1, <1>2, <1>4
  <2> HIDE DEF u
  <2>2. s.len \in [Lines -> 0 .. VGA_WIDTH] /\ s.head \in Lines
    BY <1>1
  <2>3. u.len[u.head] = m /\ \A i \in Lines : i # s.head => u.len[i] = s.len[i]
    BY <2>1, <2>2
  <2>4. MaxOffset(u) = MaxOffset(s)
    BY <2>1 DEF MaxOffset
  <2>5. OldestEmpty(u)
    <3> SUFFICES ASSUME s.count < SCROLLBACK_LINES
                 PROVE  s.head = s.count /\ u.len[0] = 0 /\ \A i \in Lines : i > s.head => u.len[i] = 0
      BY <2>1 DEF OldestEmpty
    <3>1. s.head = s.count /\ s.len[0] = 0 /\ \A i \in Lines : i > s.head => s.len[i] = 0
      BY <1>1 DEF OldestEmpty
    <3>2. 0 \in Lines /\ s.head # 0 /\ \A i \in Lines : i > s.head => i # s.head
      BY <1>1, <2>2, <3>1, TerminalAssumption DEF Lines
    <3> QED
      BY <2>3, <3>1, <3>2
  <2> QED
    BY <2>1, <2>3, <2>4, <2>5 DEF u
<1>5. CASE c = NL
  <2>1. terminal_putchar(s, c) = scrollback_add_line(s)
    BY <1>5 DEF terminal_putchar, NL, BS
  <2> QED
    BY <1>1, <2>1, AddLineKeeps
<1>6. CASE c = BS
  <2>1. PICK m \in 0 .. W : m = (IF col > 0 THEN col - 1 ELSE 0) /\ m < W
    BY <1>3
  <2> DEFINE u == [s EXCEPT !.len[s.head] = m]
  <2>2. terminal_putchar(s, c) = u
    BY <1>6, <2>1 DEF terminal_putchar, NL, BS
  <2>3. /\ u \in R /\ OldestEmpty(u) /\ u.len[u.head] = m /\ MaxOffset(u) = MaxOffset(s)
        /\ u.count = s.count /\ u.view_offset = s.view_offset
    BY <1>4
  <2> HIDE DEF u
  <2> QED
    BY <1>1, <1>2, <2>1, <2>2, <2>3 DEF Screens, TermOK
<1>7. CASE c # NL /\ c # BS
  <2>1. PICK m \in 0 .. W : m = col + 1
    BY <1>3
  <2> DEFINE u == [s EXCEPT !.len[s.head] = m]
  <2>2. terminal_putchar(s, c) = IF m >= W THEN scrollback_add_line(u) ELSE u
    BY <1>2, <1>7, <2>1 DEF terminal_putchar
  <2>3. /\ u \in R /\ OldestEmpty(u) /\ u.len[u.head] = m /\ MaxOffset(u) = MaxOffset(s)
        /\ u.count = s.count /\ u.view_offset = s.view_offset
    BY <1>4
  <2> HIDE DEF u
  <2>4. scrollback_add_line(u) \in Screens
    BY <2>3, AddLineKeeps
  <2>5. ~ (m >= W) => u \in Screens
    <3>1. ~ (m >= W) => m < W
      OBVIOUS
    <3> QED
      BY <1>1, <1>2, <2>3, <3>1 DEF Screens, TermOK
  <2> QED
    BY <2>2, <2>4, <2>5
<1> QED
  BY <1>5, <1>6, <1>7

\* What print_str leaves, turn by turn: from a screen z, or from a terminal
\* that the first character turns into one.
LEMMA PrintKeeps ==
  ASSUME NEW z, NEW S, NEW str \in Seq(S),
         z \in Screens \/ (str # <<>> /\ terminal_putchar(z, str[1]) \in Screens)
  PROVE  print_str(z, str) \in Screens
<1>1. PICK k \in Nat : k = Len(str)
  BY LenProperties
<1>2. z \in Screens \/ (k > 0 /\ terminal_putchar(z, str[1]) \in Screens)
  BY <1>1
<1> DEFINE Z == Screens \cup {z}
           G == [n \in 1 .. k |-> [x \in Z |->
                   IF x \in Screens \/ n = 1 THEN terminal_putchar(x, str[n]) ELSE x]]
           t == CHOOSE t : t = [n \in 0 .. Len(str) |->
                                  IF n = 0 THEN z ELSE terminal_putchar(t[n - 1], str[n])]
<1>3. G \in StepFunctions(k, Z)
  <2>1. ASSUME NEW n \in 1 .. k, NEW x \in Z
        PROVE  (IF x \in Screens \/ n = 1 THEN terminal_putchar(x, str[n]) ELSE x) \in Z
    BY <1>2, PutcharKeeps
  <2> HIDE DEF Z
  <2> QED
    BY <2>1 DEF StepFunctions
<1>4. PICK f \in [0 .. k -> Z] : f[0] = z /\ \A n \in 1 .. k : f[n] = G[n][f[n - 1]]
  <2>1. z \in Z
    OBVIOUS
  <2> HIDE DEF Z, G
  <2>2. Orbits(z, k, Z, G) # {}
    BY <1>3, <2>1, Recursion
  <2> QED
    BY <2>2 DEF Orbits
<1>5. \A n \in 1 .. k : f[n - 1] \in Screens \/ n = 1 => f[n] = terminal_putchar(f[n - 1], str[n])
  <2> SUFFICES ASSUME NEW n \in 1 .. k, f[n - 1] \in Screens \/ n = 1
               PROVE  f[n] = terminal_putchar(f[n - 1], str[n])
    OBVIOUS
  <2>1. n - 1 \in 0 .. k
    OBVIOUS
  <2>2. f[n - 1] \in Z
    BY <2>1
  <2> QED
    BY <1>4, <2>2
<1> HIDE DEF G, Z
\* Each turn but the first begins with a screen.
<1>6. ASSUME NEW g, g[0] = z,
             \A n \in 1 .. k : g[n - 1] \in Screens \/ n = 1 => g[n] = terminal_putchar(g[n - 1], str[n])
      PROVE  \A n \in 0 .. k : n = 0 \/ g[n] \in Screens
  <2> DEFINE T == {n \in 0 .. k : n = 0 \/ g[n] \in Screens}
  <2>1. 0 \in T
    OBVIOUS
  <2>2. \A n \in 1 .. k : n - 1 \in T => n \in T
    <3> SUFFICES ASSUME NEW n \in 1 .. k, n - 1 \in T PROVE n \in T
      OBVIOUS
    <3>1. n \in 0 .. k /\ (n - 1 = 0 => n = 1)
      OBVIOUS
    <3>2. g[n] = terminal_putchar(g[n - 1], str[n])
      BY <1>6, <3>1
    <3>3. n = 1 => g[n] \in Screens
      <4>1. n = 1 => g[n] = terminal_putchar(z, str[1])
        BY <1>6, <3>2
      <4> QED
        BY <1>2, <4>1, PutcharKeeps
    <3> QED
      BY <3>1, <3>2, <3>3, PutcharKeeps
  <2> HIDE DEF T
  <2>3. 0 .. k \subseteq T
    BY <2>1, <2>2, InductionTo
  <2> QED
    BY <2>3 DEF T
<1>7. f = [n \in 0 .. k |-> IF n = 0 THEN z ELSE terminal_putchar(f[n - 1], str[n])]
  <2>1. \A n \in 0 .. k : n = 0 \/ f[n] \in Screens
    BY <1>4, <1>5, <1>6
  <2>2. \A n \in 1 .. k : n - 1 \in 0 .. k /\ (n - 1 = 0 => n = 1)
    OBVIOUS
  <2>3. \A n \in 1 .. k : f[n] = terminal_putchar(f[n - 1], str[n])
    BY <1>5, <2>1, <2>2
  <2>4. \A n \in 0 .. k : n = 0 \/ n \in 1 .. k
    OBVIOUS
  <2>5. \A n \in 0 .. k : f[n] = IF n = 0 THEN z ELSE terminal_putchar(f[n - 1], str[n])
    BY <1>4, <2>3, <2>4
  <2> QED
    BY <2>5
<1>8. t = [n \in 0 .. k |-> IF n = 0 THEN z ELSE terminal_putchar(t[n - 1], str[n])]
  BY <1>1, <1>7
<1> HIDE DEF t
<1>9. t[0] = z /\ \A n \in 1 .. k : t[n] = terminal_putchar(t[n - 1], str[n])
  <2>1. 0 \in 0 .. k /\ \A n \in 1 .. k : n \in 0 .. k /\ n # 0
    OBVIOUS
  <2> QED
    BY <1>8, <2>1
<1>a. \A n \in 0 .. k : n = 0 \/ t[n] \in Screens
  BY <1>6, <1>9
<1>b. print_str(z, str) = t[k]
  BY <1>1 DEF print_str, t
<1>c. k = 0 => t[k] \in Screens
  BY <1>2, <1>9
<1> QED
  BY <1>a, <1>b, <1>c

\* `clear', and the start: the prompt's newline comes first.
LEMMA PromptKeeps == print_str(scrollback_init, Prompt) \in Screens
<1> DEFINE s == scrollback_init
<1>1. Prompt \in Seq(STRING) /\ Prompt # <<>> /\ Prompt[1] = NL
  BY ShellAssumption
<1>2. 0 \in Lines /\ 0 \in 0 .. VGA_WIDTH /\ 0 \in 0 .. SCROLLBACK_LINES
  BY TerminalAssumption DEF Lines
<1>3. s \in [len : [Lines -> 0 .. VGA_WIDTH], head : Lines, count : 0 .. SCROLLBACK_LINES,
             view_offset : Nat]
  BY <1>2 DEF scrollback_init
<1>4. OldestEmpty(s)
  BY <1>2 DEF scrollback_init, OldestEmpty
<1>5. terminal_putchar(s, Prompt[1]) = scrollback_add_line(s)
  BY <1>1 DEF terminal_putchar, NL, BS
<1> HIDE DEF s
<1>6. terminal_putchar(s, Prompt[1]) \in Screens
  BY <1>3, <1>4, <1>5, AddLineKeeps
<1>7. print_str(s, Prompt) \in Screens
  BY <1>1, <1>6, PrintKeeps
<1> QED
  BY <1>7 DEF s

\* Moving the window between the newest line and the oldest.
LEMMA ScrollKeeps ==
  ASSUME NEW s \in Screens, NEW o \in 0 .. MaxOffset(s)
  PROVE  [s EXCEPT !.view_offset = o] \in Screens
<1> DEFINE u == [s EXCEPT !.view_offset = o]
<1>1. s \in [len : [Lines -> 0 .. VGA_WIDTH], head : Lines, count : 0 .. SCROLLBACK_LINES,
             view_offset : Nat]
      /\ TermOK(s) /\ OldestEmpty(s) /\ s.count > 0
  BY DEF Screens
<1>2. s.count \in Nat
  BY <1>1, TerminalAssumption
<1>3. MaxOffset(s) \in Nat
  BY <1>2, OffsetIs
<1>4. o \in Nat /\ o <= MaxOffset(s)
  BY <1>3
<1>5. /\ u \in [len : [Lines -> 0 .. VGA_WIDTH], head : Lines, count : 0 .. SCROLLBACK_LINES,
                view_offset : Nat]
      /\ u.len = s.len /\ u.head = s.head /\ u.count = s.count /\ u.view_offset = o
  BY <1>1, <1>4
<1> HIDE DEF u
<1>6. MaxOffset(u) = MaxOffset(s)
  BY <1>5 DEF MaxOffset
<1>7. u \in Screens
  <2>1. TermOK(u)
    BY <1>1, <1>4, <1>5, <1>6 DEF TermOK
  <2>2. OldestEmpty(u)
    BY <1>1, <1>5 DEF OldestEmpty
  <2> QED
    BY <1>1, <1>5, <2>1, <2>2 DEF Screens
<1> QED
  BY <1>7 DEF u

\* The four scroll operations stay in that range.
LEMMA ScrollsKeep ==
  ASSUME NEW s \in Screens
  PROVE  /\ terminal_scroll_up(s, SCROLL_STEP) \in Screens
         /\ terminal_scroll_down(s, SCROLL_STEP) \in Screens
         /\ terminal_scroll_to_top(s) \in Screens
         /\ terminal_scroll_to_bottom(s) \in Screens
<1>1. s.count \in Nat /\ s.view_offset \in Nat /\ s.view_offset <= MaxOffset(s)
  BY TerminalAssumption DEF Screens, TermOK
<1>2. PICK m \in Nat : m = MaxOffset(s)
  BY <1>1, OffsetIs
<1>3. PICK v \in Nat : v = s.view_offset /\ v <= m
  BY <1>1, <1>2
<1>4. SCROLL_STEP \in Nat
  BY ConsoleAssumption, TerminalAssumption
<1>5. Min({v + SCROLL_STEP, m}) \in 0 .. m /\ Max({v - SCROLL_STEP, 0}) \in 0 .. m
  <2>1. v + SCROLL_STEP \in Int /\ v - SCROLL_STEP \in Int /\ m \in Int /\ 0 \in Int
    BY <1>4
  <2>2. /\ Min({v + SCROLL_STEP, m}) = IF v + SCROLL_STEP <= m THEN v + SCROLL_STEP ELSE m
        /\ Max({v - SCROLL_STEP, 0}) = IF v - SCROLL_STEP >= 0 THEN v - SCROLL_STEP ELSE 0
    BY <2>1, MaxMin
  <2> QED
    BY <1>3, <1>4, <2>2
<1>6. m \in 0 .. MaxOffset(s) /\ 0 \in 0 .. MaxOffset(s)
  BY <1>2
<1>7. /\ terminal_scroll_up(s, SCROLL_STEP) = [s EXCEPT !.view_offset = Min({v + SCROLL_STEP, m})]
      /\ terminal_scroll_down(s, SCROLL_STEP) = [s EXCEPT !.view_offset = Max({v - SCROLL_STEP, 0})]
      /\ terminal_scroll_to_top(s) = [s EXCEPT !.view_offset = m]
      /\ terminal_scroll_to_bottom(s) = [s EXCEPT !.view_offset = 0]
  BY <1>2, <1>3 DEF terminal_scroll_up, terminal_scroll_down, terminal_scroll_to_top,
     terminal_scroll_to_bottom
<1>8. \A o \in 0 .. MaxOffset(s) : [s EXCEPT !.view_offset = o] \in Screens
  BY ScrollKeeps
<1>9. PICK a, b : a = Min({v + SCROLL_STEP, m}) /\ b = Max({v - SCROLL_STEP, 0})
  OBVIOUS
<1>a. a \in 0 .. MaxOffset(s) /\ b \in 0 .. MaxOffset(s)
  BY <1>2, <1>5, <1>9
<1> QED
  BY <1>6, <1>7, <1>8, <1>9, <1>a

-----------------------------------------------------------------------------
\* The commands that run with interrupts on, and those of them in the middle of
\* a character.
HandlersOK ==
  /\ running \in [Handlers -> [stage : {"off", "out", "prompt"}, todo : Seq(STRING)]]
  /\ printing \subseteq {h \in Handlers : running[h].todo # <<>>}
  /\ \A h \in Handlers : running[h].stage = "off" => running[h].todo = <<>>

\* The inductive invariant of the console.
ConsoleInv == ShellInv /\ HandlersOK /\ (term = Garbled \/ term \in Screens)

\* A key with interrupts off starts at most one command that turns them on.
LEMMA KeyHandlers ==
  ASSUME HandlersOK, NEW c, shell_handle_key(c)
  PROVE  HandlersOK'
<1> DEFINE s == terminal_scroll_to_bottom(term)
<1>1. CASE UNCHANGED <<running, printing>>
  BY <1>1 DEF HandlersOK
<1>2. CASE Unmask(s) /\ UNCHANGED printing
  <2>1. PICK h \in Handlers, out \in Unmasked :
          /\ running[h].stage = "off"
          /\ running' = [running EXCEPT ![h] = [stage |-> "out", todo |-> out.after]]
    BY <1>2 DEF Unmask
  <2>2. out.after \in Seq(STRING)
    BY ShellAssumption
  <2>3. h \notin printing
    BY <2>1 DEF HandlersOK
  <2>4. running[h] \in [stage : {"off", "out", "prompt"}, todo : Seq(STRING)]
    BY DEF HandlersOK
  <2>5. running' \in [Handlers -> [stage : {"off", "out", "prompt"}, todo : Seq(STRING)]]
    BY <2>1, <2>2 DEF HandlersOK
  <2>6. /\ \A k \in Handlers \ {h} : running'[k] = running[k]
        /\ running'[h].stage = "out"
    BY <2>1 DEF HandlersOK
  <2> QED
    BY <1>2, <2>3, <2>5, <2>6 DEF HandlersOK
<1> HIDE DEF s
<1>3. CASE execute_command(s)
  BY <1>1, <1>2, <1>3 DEF execute_command, Clear, Masked
<1>4. CASE EraseKey(s) \/ TypeKey(s, c)
  BY <1>1, <1>4 DEF EraseKey, TypeKey
<1> QED
  BY <1>3, <1>4 DEF shell_handle_key, s

\* The steps of a command with interrupts on.
LEMMA StepHandlers ==
  ASSUME HandlersOK, NEW h \in Handlers, HandlerStep(h)
  PROVE  HandlersOK'
<1> DEFINE R == [stage : {"off", "out", "prompt"}, todo : Seq(STRING)]
<1>1. running \in [Handlers -> R] /\ running[h] \in R
  BY DEF HandlersOK
<1>2. ASSUME NEW r \in R, running' = [running EXCEPT ![h] = r],
             r.stage = "off" => r.todo = <<>>,
             printing' \subseteq printing \ {h}
      PROVE  HandlersOK'
  <2>1. running' \in [Handlers -> R] /\ running'[h] = r
        /\ \A k \in Handlers \ {h} : running'[k] = running[k]
    <3> HIDE DEF R
    <3> QED
      BY <1>1, <1>2
  <2> QED
    BY <1>2, <2>1 DEF HandlersOK
<1>3. CASE PutBegin(h)
  BY <1>3 DEF PutBegin, HandlersOK, shellVars
<1>4. CASE PutEnd(h)
  <2>1. running[h].todo \in Seq(STRING) /\ running[h].todo # <<>> /\ running[h].stage # "off"
    BY <1>1, <1>4 DEF PutEnd, HandlersOK
  <2>2. Tail(running[h].todo) \in Seq(STRING)
    BY <2>1, HeadTailProperties
  <2>3. PICK r \in R : r = [running[h] EXCEPT !.todo = Tail(running[h].todo)]
    BY <1>1, <2>2
  <2>4. r.stage # "off"
    BY <1>1, <2>1, <2>3
  <2>5. running' = [running EXCEPT ![h] = r] /\ printing' = printing \ {h}
    BY <1>4, <2>3 DEF PutEnd
  <2> HIDE DEF R
  <2> QED
    BY <1>2, <2>4, <2>5
<1>5. CASE ResetLine(h)
  <2>1. PICK r \in R : r = [stage |-> "prompt", todo |-> Prompt]
    BY ShellAssumption
  <2>2. r.stage # "off" /\ h \notin printing
    BY <1>5, <2>1 DEF ResetLine, HandlersOK
  <2>3. running' = [running EXCEPT ![h] = r] /\ printing' \subseteq printing \ {h}
    BY <1>5, <2>1, <2>2 DEF ResetLine
  <2> HIDE DEF R
  <2> QED
    BY <1>2, <2>2, <2>3
<1>6. CASE Return(h)
  <2>1. running[h].todo = <<>> /\ h \notin printing
    BY <1>6 DEF Return, HandlersOK
  <2>2. PICK r \in R : r = [running[h] EXCEPT !.stage = "off"]
    BY <1>1
  <2>3. r.todo = <<>>
    BY <1>1, <2>1, <2>2
  <2>4. running' = [running EXCEPT ![h] = r] /\ printing' \subseteq printing \ {h}
    BY <1>6, <2>1, <2>2 DEF Return
  <2> HIDE DEF R
  <2> QED
    BY <1>2, <2>3, <2>4
<1> HIDE DEF R
<1> QED
  BY <1>3, <1>4, <1>5, <1>6 DEF HandlerStep

\* An update leaves the screen it was to draw, or a torn one.
LEMMA DrawKeeps ==
  ASSUME NEW t, NEW others, Draw(t, others), term \in Screens => t \in Screens,
         term = Garbled \/ term \in Screens
  PROVE  term' = Garbled \/ term' \in Screens
  BY DEF Draw

\* Drawing a line over the one that is there.
LEMMA RedrawKeeps ==
  ASSUME ShellInv, term \in Screens, NEW b \in Seq(Chars)
  PROVE  Redraw(b) \in Screens
<1> DEFINE C == Chars \cup {BS}
           e == [i \in 1 .. buf_idx |-> BS]
<1>1. buf_idx \in Nat
  BY LineIs
<1>2. e \in Seq(C)
  BY <1>1, FunctionIsSeq
<1>3. b \in Seq(C)
  <2>1. Chars \subseteq C
    OBVIOUS
  <2> HIDE DEF C
  <2> QED
    BY <2>1, SeqMonotonic
<1> HIDE DEF C, e
<1>4. e \o b \in Seq(C)
  BY <1>2, <1>3, ConcatProperties
<1>5. print_str(term, e \o b) \in Screens
  BY <1>4, PrintKeeps
<1> QED
  BY <1>5 DEF Redraw, e

\* A key that goes to the shell, as far as the terminal is concerned.
LEMMA KeyScreen ==
  ASSUME ConsoleInv, NEW c, shell_handle_key(c)
  PROVE  term' = Garbled \/ term' \in Screens
<1> DEFINE s == terminal_scroll_to_bottom(term)
<1>0. term = Garbled \/ term \in Screens
  BY DEF ConsoleInv
<1>1. term \in Screens => s \in Screens
  BY ScrollsKeep
<1> HIDE DEF s
<1>2. ASSUME NEW str \in Seq(STRING), Draw(print_str(s, str), printing)
      PROVE  term' = Garbled \/ term' \in Screens
  <2>1. term \in Screens => print_str(s, str) \in Screens
    BY <1>1, PrintKeeps
  <2> QED
    BY <1>0, <1>2, <2>1, DrawKeeps
<1>3. CASE execute_command(s)
  <2>1. Prompt \in Seq(STRING)
    BY ShellAssumption
  <2>2. CASE Draw(print_str(s, Prompt), printing)
    BY <1>2, <2>1, <2>2
  <2>3. CASE Clear
    BY <2>3, PromptKeeps DEF Clear, DrawFresh
  <2>4. CASE Masked(s)
    <3>1. PICK out \in Outputs : Draw(print_str(s, out \o Prompt), printing)
      BY <2>4 DEF Masked
    <3>2. out \o Prompt \in Seq(STRING)
      BY <2>1, ShellAssumption, ConcatProperties
    <3> QED
      BY <1>2, <3>1, <3>2
  <2>5. CASE Unmask(s)
    <3>1. PICK out \in Unmasked : Draw(print_str(s, out.before), printing)
      BY <2>5 DEF Unmask
    <3>2. out.before \in Seq(STRING)
      BY ShellAssumption
    <3> QED
      BY <1>2, <3>1, <3>2
  <2> QED
    BY <1>3, <2>2, <2>3, <2>4, <2>5 DEF execute_command
<1>4. ASSUME NEW d, Draw(terminal_putchar(s, d), printing) \/ Draw(s, printing)
      PROVE  term' = Garbled \/ term' \in Screens
  <2>1. term \in Screens => terminal_putchar(s, d) \in Screens
    BY <1>1, PutcharKeeps
  <2> QED
    BY <1>0, <1>1, <1>4, <2>1, DrawKeeps
<1>5. CASE EraseKey(s)
  BY <1>4, <1>5 DEF EraseKey
<1>6. CASE TypeKey(s, c)
  BY <1>4, <1>6 DEF TypeKey
<1> QED
  BY <1>3, <1>5, <1>6 DEF shell_handle_key, s

\* A command with interrupts on ends a character.
LEMMA StepScreen ==
  ASSUME ConsoleInv, NEW h \in Handlers, HandlerStep(h)
  PROVE  term' = Garbled \/ term' \in Screens
<1>0. term = Garbled \/ term \in Screens
  BY DEF ConsoleInv
<1>1. CASE PutEnd(h)
  <2>1. PICK c : c = Head(running[h].todo)
    OBVIOUS
  <2>2. term \in Screens => terminal_putchar(term, c) \in Screens
    BY PutcharKeeps
  <2>3. Draw(terminal_putchar(term, c), printing')
    BY <1>1, <2>1 DEF PutEnd
  <2> QED
    BY <1>0, <2>2, <2>3, DrawKeeps
<1>2. CASE PutBegin(h) \/ ResetLine(h) \/ Return(h)
  BY <1>0, <1>2 DEF PutBegin, ResetLine, Return
<1> QED
  BY <1>1, <1>2 DEF HandlerStep

\* Every scancode, and every step of a command with interrupts on, leaves a
\* screen or a torn one.
LEMMA ScreenNext ==
  ASSUME ConsoleInv, ShellInv', [ConsoleNext]_consoleVars
  PROVE  term' = Garbled \/ term' \in Screens
<1>0. ShellInv /\ (term = Garbled \/ term \in Screens)
  BY DEF ConsoleInv
<1>1. CASE UNCHANGED term
  BY <1>0, <1>1
<1>2. CASE Scroll
  <2>1. PICK t : /\ Draw(t, printing)
                 /\ \/ t = terminal_scroll_up(term, SCROLL_STEP)
                    \/ t = terminal_scroll_down(term, SCROLL_STEP)
                    \/ t = terminal_scroll_to_top(term)
                    \/ t = terminal_scroll_to_bottom(term)
    BY <1>2 DEF Scroll
  <2>2. term \in Screens => t \in Screens
    BY <2>1, ScrollsKeep
  <2> QED
    BY <1>0, <2>1, <2>2, DrawKeeps
<1>3. CASE shell_history_up
  <2>1. buffer' \in Seq(Chars) /\ Draw(Redraw(buffer'), printing)
    BY <1>3 DEF ShellInv, Lined, shell_history_up
  <2>2. PICK b \in Seq(Chars) : b = buffer'
    BY <2>1
  <2>3. term \in Screens => Redraw(b) \in Screens
    BY <1>0, RedrawKeeps
  <2> QED
    BY <1>0, <2>1, <2>2, <2>3, DrawKeeps
<1>4. CASE shell_history_down
  <2>1. /\ Lined(buffer') /\ buf_idx' \in 0 .. Len(buffer')
        /\ Draw(Redraw(SubSeq(buffer', 1, buf_idx')), printing)
    BY <1>4 DEF ShellInv, shell_history_down
  <2>2. PICK b \in Seq(Chars) : b = SubSeq(buffer', 1, buf_idx')
    BY <2>1, LinePrefix DEF Lined
  <2>3. term \in Screens => Redraw(b) \in Screens
    BY <1>0, RedrawKeeps
  <2> QED
    BY <1>0, <2>1, <2>2, <2>3, DrawKeeps
<1>5. ASSUME NEW c, Plain(c) PROVE term' = Garbled \/ term' \in Screens
  BY <1>5, KeyScreen DEF Plain
<1>6. ASSUME NEW h \in Handlers, HandlerStep(h) PROVE term' = Garbled \/ term' \in Screens
  BY <1>6, StepScreen
<1> QED
  BY <1>1, <1>2, <1>3, <1>4, <1>5, <1>6 DEF ConsoleNext, Prefix, Ctrl, Release, Extended, consoleVars

\* No step disturbs the handlers under way but their own.
LEMMA HandlersNext ==
  ASSUME HandlersOK, [ConsoleNext]_consoleVars
  PROVE  HandlersOK'
<1>1. CASE UNCHANGED <<running, printing>>
  BY <1>1 DEF HandlersOK
<1>2. ASSUME NEW c, Plain(c) PROVE HandlersOK'
  BY <1>2, KeyHandlers DEF Plain
<1>3. ASSUME NEW h \in Handlers, HandlerStep(h) PROVE HandlersOK'
  BY <1>3, StepHandlers
<1>4. Prefix \/ Ctrl(TRUE) \/ Ctrl(FALSE) \/ Release \/ Extended \/ UNCHANGED consoleVars
      => UNCHANGED <<running, printing>>
  BY DEF Prefix, Ctrl, Release, Extended, Scroll, shell_history_up, shell_history_down, consoleVars,
     shellVars
<1> QED
  BY <1>1, <1>2, <1>3, <1>4 DEF ConsoleNext

\* Keyboard, shell, terminal and the commands under way keep the invariant.
THEOREM ConsoleInductive == ConsoleSpec => []ConsoleInv
<1>1. ConsoleInit => ConsoleInv
  <2> SUFFICES ASSUME ConsoleInit PROVE ConsoleInv
    OBVIOUS
  <2>1. ShellInv /\ term \in Screens
    BY ShellInitInv, PromptKeeps DEF ConsoleInit, init_shell
  <2>2. running = [h \in Handlers |-> [stage |-> "off", todo |-> <<>>]] /\ printing = {}
    BY DEF ConsoleInit, init_shell
  <2>3. <<>> \in Seq(STRING)
    OBVIOUS
  <2>4. HandlersOK
    BY <2>2, <2>3 DEF HandlersOK
  <2> QED
    BY <2>1, <2>4 DEF ConsoleInv
<1>2. ConsoleInv /\ [ConsoleNext]_consoleVars => ConsoleInv'
  <2> SUFFICES ASSUME ConsoleInv, [ConsoleNext]_consoleVars PROVE ConsoleInv'
    OBVIOUS
  <2>1. ShellInv'
    BY ShellNextInv DEF ConsoleInv
  <2>2. HandlersOK'
    BY HandlersNext DEF ConsoleInv
  <2>3. term' = Garbled \/ term' \in Screens
    BY <2>1, ScreenNext
  <2>4. (term = Garbled \/ term \in Screens)'
    BY <2>3 DEF Screens, TermOK, OldestEmpty, MaxOffset, Lines
  <2> QED
    BY <2>1, <2>2, <2>4 DEF ConsoleInv
<1> QED
  BY <1>1, <1>2, PTL DEF ConsoleSpec

\* No index of the shell leaves its array, whatever is typed while commands run
\* with interrupts on, and none of the terminal's as long as no two of its
\* updates tear one another.
THEOREM ConsoleTypeCorrect == ConsoleSpec => []TypeOK
<1>1. ASSUME ConsoleInv PROVE TypeOK
  <2>1. ASSUME term # Garbled
        PROVE  /\ term.len \in [Lines -> 0 .. VGA_WIDTH] /\ term.len[term.head] < VGA_WIDTH
               /\ term.head \in Lines /\ term.count \in 0 .. SCROLLBACK_LINES
               /\ term.view_offset \in 0 .. MaxOffset(term)
    <3>1. /\ term \in [len : [Lines -> 0 .. VGA_WIDTH], head : Lines, count : 0 .. SCROLLBACK_LINES,
                       view_offset : Nat]
          /\ term.len[term.head] < VGA_WIDTH /\ term.view_offset <= MaxOffset(term)
      BY <1>1, <2>1 DEF ConsoleInv, Screens, TermOK
    <3>2. /\ term.len \in [Lines -> 0 .. VGA_WIDTH] /\ term.head \in Lines
          /\ term.count \in 0 .. SCROLLBACK_LINES /\ term.view_offset \in Nat
      BY <3>1
    <3>3. term.count \in Nat
      BY <3>2, TerminalAssumption
    <3>4. term.view_offset \in 0 .. MaxOffset(term)
      BY <3>1, <3>2, <3>3, OffsetIs
    <3> QED
      BY <3>1, <3>2, <3>4
  <2>2. HandlersOK
    BY <1>1 DEF ConsoleInv
  <2>3. /\ Len(buffer) <= MAX_BUFFER - 1 /\ buf_idx \in 0 .. Len(buffer)
        /\ Len(saved_buffer) <= MAX_BUFFER - 1 /\ saved_buf_idx \in 0 .. Len(saved_buffer)
        /\ Len(command_history) <= HISTORY_SIZE
        /\ history_index \in -1 .. Len(command_history) - 1
        /\ ctrl_pressed \in BOOLEAN /\ extended_mode \in BOOLEAN
    BY <1>1 DEF ConsoleInv, ShellInv, Lined, HistoryOK
  <2> QED
    BY <2>1, <2>2, <2>3 DEF TypeOK, HandlersOK
<1> QED
  BY <1>1, ConsoleInductive, PTL

\* A line j lines before the newest, if it exists, is on the screen for some
\* position of the window.
LEMMA RowExists ==
  ASSUME NEW s \in Screens, NEW j \in 0 .. s.count - 1
  PROVE  \E o \in 0 .. MaxOffset(s), row \in 0 .. VISIBLE_LINES - 1 : VISIBLE_LINES - 1 - row + o = j
<1>1. PICK V \in Nat \ {0} : V = VISIBLE_LINES
  BY TerminalAssumption
<1>2. PICK c \in Nat : c = s.count
  BY TerminalAssumption DEF Screens
<1>3. MaxOffset(s) = IF c >= V THEN c - V ELSE 0
  BY <1>1, <1>2, OffsetIs
<1>4. j \in 0 .. c - 1
  BY <1>2
<1>5. CASE j <= V - 1
  <2>1. 0 \in 0 .. MaxOffset(s) /\ V - 1 - j \in 0 .. V - 1 /\ V - 1 - (V - 1 - j) + 0 = j
    BY <1>3, <1>4, <1>5
  <2> QED
    BY <1>1, <2>1
<1>6. CASE j > V - 1
  <2>1. j - (V - 1) \in 0 .. MaxOffset(s) /\ 0 \in 0 .. V - 1 /\ V - 1 - 0 + (j - (V - 1)) = j
    BY <1>3, <1>4, <1>6
  <2> QED
    BY <1>1, <2>1
<1> QED
  BY <1>1, <1>4, <1>5, <1>6

\* Whatever is printed, by keys and by commands in between, every line of the
\* ring that has text on it can be scrolled to, although
\* scrollback_get_line_index hides the oldest line of a ring that is not full:
\* until two updates of the terminal tear one another.
THEOREM AllTextReachable == ConsoleSpec => []TextReachable
<1>1. ASSUME ConsoleInv PROVE TextReachable
  <2> SUFFICES ASSUME term # Garbled, NEW i \in Lines, term.len[i] > 0
               PROVE  \E o \in 0 .. MaxOffset(term) : i \in Shown([term EXCEPT !.view_offset = o])
    BY DEF TextReachable
  <2>1. PICK N \in Nat \ {0} : N = SCROLLBACK_LINES
    BY TerminalAssumption
  <2>2. /\ term \in [len : [Lines -> 0 .. VGA_WIDTH], head : Lines, count : 0 .. SCROLLBACK_LINES,
                     view_offset : Nat]
        /\ OldestEmpty(term) /\ term.count > 0 /\ term \in Screens
    BY <1>1 DEF ConsoleInv, Screens
  <2>3. PICK h \in 0 .. N - 1 : h = term.head
    BY <2>1, <2>2 DEF Lines
  <2>4. PICK c \in 1 .. N : c = term.count
    BY <2>1, <2>2
  <2>5. i \in 0 .. N - 1
    BY <2>1 DEF Lines
  <2>6. PICK j : j = IF i <= h THEN h - i ELSE h - i + N
    OBVIOUS
  <2>7. j \in 0 .. c - 1
    <3>1. CASE c = N
      BY <2>3, <2>5, <2>6, <3>1
    <3>2. CASE c < N
      <4>1. h = c /\ term.len[0] = 0 /\ \A l \in Lines : l > h => term.len[l] = 0
        BY <2>1, <2>2, <2>3, <2>4, <3>2 DEF OldestEmpty
      <4>2. i # 0 /\ ~ (i > h)
        BY <4>1
      <4> QED
        BY <2>3, <2>4, <2>5, <2>6, <4>1, <4>2
    <3> QED
      BY <2>4, <3>1, <3>2
  <2>8. PICK o \in 0 .. MaxOffset(term), row \in 0 .. VISIBLE_LINES - 1 :
          VISIBLE_LINES - 1 - row + o = j
    BY <2>2, <2>4, <2>7, RowExists
  <2> DEFINE s == [term EXCEPT !.view_offset = o]
  <2>9. s.view_offset = o /\ s.head = h /\ s.count = c
    BY <2>2, <2>3, <2>4
  <2> HIDE DEF s
  <2>a. scrollback_get_line_index(s, row) =
          IF c = 0 \/ j >= c THEN -1 ELSE IF h - j < 0 THEN h - j + SCROLLBACK_LINES ELSE h - j
    BY <2>8, <2>9 DEF scrollback_get_line_index
  <2>b. scrollback_get_line_index(s, row) = i /\ i # -1
    BY <2>1, <2>3, <2>4, <2>5, <2>6, <2>7, <2>a
  <2>c. i \in Shown(s)
    BY <2>b DEF Shown
  <2> QED
    BY <2>c DEF s
<1> QED
  BY <1>1, ConsoleInductive, PTL
=============================================================================
