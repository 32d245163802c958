----------------------------- MODULE SignalProofs -----------------------------
(***************************************************************************)
(* Proofs about Process and Signal, for any number of processes, signals   *)
(* and contexts.                                                           *)
(***************************************************************************)
EXTENDS Signal, ProofBasics

ProcStates == {"UNUSED", "READY", "RUNNING", "SLEEPING", "ZOMBIE"}

\* The slots that a process has or may get back: process_schedule falls back on
\* idle's slot even after it has reaped it.
Owned == Used \cup {idle}

\* Pids are below next_pid, and process_create takes the slots in order: no
\* slot comes into use before its number has been handed out as a pid.
PidInv ==
  /\ pid[idle] = 0
  /\ \A s \in Slots : pid[s] < next_pid
  /\ \A s, u \in Owned : pid[s] = pid[u] => s = u
  /\ \A s \in Used : s < next_pid
  /\ \A s \in Slots : pid[s] = 0 \/ pid[s] >= s

\* No slot has been used twice.
NoReuse == \A s \in Slots : pid[s] \in {0, s}

\* Until then the list runs through the slots used so far, in order.
ListInv ==
  NoReuse =>
    /\ next_pid - 1 \in Slots
    /\ \A s \in Slots : s <= next_pid - 1 =>
         next[s] = IF s = next_pid - 1 THEN idle ELSE s + 1
    /\ ~ hung

\* The inductive invariant of the process manager.
ProcInv == ProcTypeOK /\ PidInv /\ CurrentNotFreed /\ ListInv

-----------------------------------------------------------------------------
(* The list: what Hop computes.                                            *)

\* Following the links k times from s is possible.
LEMMA HopExists ==
  ASSUME next \in [Slots -> Slots], NEW s \in Slots, NEW k \in Nat
  PROVE  \E h \in [0 .. k -> Slots] : h[0] = s /\ \A i \in 1 .. k : h[i] = next[h[i - 1]]
<1> DEFINE P(m) == \E h \in [0 .. m -> Slots] : h[0] = s /\ \A i \in 1 .. m : h[i] = next[h[i - 1]]
           Bad == {m \in Nat : ~ P(m)}
<1>1. P(0)
  <2> DEFINE h == [i \in 0 .. 0 |-> s]
  <2>1. h \in [0 .. 0 -> Slots] /\ h[0] = s /\ \A i \in 1 .. 0 : h[i] = next[h[i - 1]]
    OBVIOUS
  <2> QED
    BY <2>1
<1>2. ASSUME NEW m \in Nat, P(m) PROVE P(m + 1)
  <2>1. PICK h \in [0 .. m -> Slots] : h[0] = s /\ \A i \in 1 .. m : h[i] = next[h[i - 1]]
    BY <1>2
  <2> DEFINE g == [i \in 0 .. m + 1 |-> IF i <= m THEN h[i] ELSE next[h[m]]]
  <2>2. g \in [0 .. m + 1 -> Slots]
    OBVIOUS
  <2>3. g[0] = s
    BY <2>1
  <2>4. \A i \in 1 .. m + 1 : g[i] = next[g[i - 1]]
    <3> TAKE i \in 1 .. m + 1
    <3>1. CASE i <= m
      BY <2>1, <3>1
    <3>2. CASE i = m + 1
      BY <3>2
    <3> QED
      BY <3>1, <3>2
  <2> HIDE DEF g
  <2> QED
    BY <2>2, <2>3, <2>4
<1> HIDE DEF P
<1>3. Bad = {}
  <2> SUFFICES ASSUME Bad # {} PROVE FALSE
    OBVIOUS
  <2>1. PICK m \in Bad : \A j \in Bad : m <= j
    BY LeastNat
  <2>2. m # 0
    BY <1>1
  <2>3. m - 1 \in Nat /\ m - 1 \notin Bad
    BY <2>1, <2>2
  <2>4. P(m - 1 + 1)
    BY <1>2, <2>3
  <2>5. m - 1 + 1 = m
    OBVIOUS
  <2> QED
    BY <2>4, <2>5
<1> QED
  BY <1>3 DEF P

\* A walk along the links is the one Hop takes.
LEMMA HopIs ==
  ASSUME next \in [Slots -> Slots], NEW s \in Slots, NEW k \in Nat,
         NEW g \in [0 .. k -> Slots], g[0] = s, \A i \in 1 .. k : g[i] = next[g[i - 1]]
  PROVE  Hop(s, k) = g[k]
<1> DEFINE R(h) == h = [i \in 0 .. k |-> IF i = 0 THEN s ELSE next[h[i - 1]]]
           hop == CHOOSE h : R(h)
<1>1. R(g)
  <2>1. \A i \in 0 .. k : g[i] = IF i = 0 THEN s ELSE next[g[i - 1]]
    <3> TAKE i \in 0 .. k
    <3>1. CASE i = 0
      BY <3>1
    <3>2. CASE i # 0
      BY <3>2
    <3> QED
      BY <3>1, <3>2
  <2> QED
    BY <2>1
<1>2. R(hop)
  BY <1>1
<1>3. Hop(s, k) = hop[k]
  BY DEF Hop
<1> HIDE DEF hop
<1>4. /\ hop[0] = s
      /\ \A i \in 1 .. k : hop[i] = next[hop[i - 1]]
  BY <1>2
<1> DEFINE Bad == {i \in 0 .. k : hop[i] # g[i]}
<1>5. Bad = {}
  <2> SUFFICES ASSUME Bad # {} PROVE FALSE
    OBVIOUS
  <2>0. Bad \subseteq Nat
    OBVIOUS
  <2>1. PICK m \in Bad : \A j \in Bad : m <= j
    BY <2>0, LeastNat
  <2>2. m # 0
    BY <1>4
  <2>3. m \in 1 .. k /\ m - 1 \in 0 .. k /\ m - 1 \notin Bad
    BY <2>1, <2>2
  <2>4. hop[m] = next[hop[m - 1]] /\ g[m] = next[g[m - 1]] /\ hop[m - 1] = g[m - 1]
    BY <1>4, <2>3
  <2> QED
    BY <2>4
<1> QED
  BY <1>3, <1>5

\* Hop stays in the pool.
LEMMA HopType ==
  ASSUME next \in [Slots -> Slots], NEW s \in Slots, NEW k \in Nat
  PROVE  Hop(s, k) \in Slots
<1>1. PICK h \in [0 .. k -> Slots] : h[0] = s /\ \A i \in 1 .. k : h[i] = next[h[i - 1]]
  BY HopExists
<1>2. Hop(s, k) = h[k]
  BY <1>1, HopIs
<1> QED
  BY <1>2

\* A walk that comes back has a first return.
LEMMA RoundType ==
  ASSUME NEW s, Ends(s)
  PROVE  /\ Round(s) \in 1 .. MAX_PROCESSES
         /\ Hop(s, Round(s)) = s
         /\ \A j \in 1 .. Round(s) - 1 : Hop(s, j) # s
<1> DEFINE T == {k \in 1 .. MAX_PROCESSES : Hop(s, k) = s}
<1>1. T # {} /\ T \subseteq Nat
  BY ProcessAssumption DEF Ends
<1>2. PICK k \in T : \A j \in T : k <= j
  BY <1>1, LeastNat
<1>3. k \in 1 .. MAX_PROCESSES /\ Hop(s, k) = s
  BY <1>2
<1>4. \A j \in 1 .. k - 1 : Hop(s, j) # s
  <2> SUFFICES ASSUME NEW j \in 1 .. k - 1, Hop(s, j) = s PROVE FALSE
    OBVIOUS
  <2>1. j \in 1 .. MAX_PROCESSES /\ ~ (k <= j)
    BY <1>3, ProcessAssumption
  <2> QED
    BY <1>2, <2>1
<1> QED
  BY <1>3, <1>4 DEF Round

-----------------------------------------------------------------------------
(* What process_schedule does to the slots.                                *)

\* The first loop brings no slot into use.
LEMMA ReapedType ==
  ASSUME ProcTypeOK, NEW s \in Slots
  PROVE  Reaped(s) \in ProcStates /\ (Reaped(s) # "UNUSED" => s \in Used)
<1>1. pstate[s] \in ProcStates
  BY DEF ProcTypeOK, ProcStates
<1> DEFINE was == IF s = current_proc /\ pstate[s] = "RUNNING" THEN "READY" ELSE pstate[s]
<1>2. was \in ProcStates /\ (was = "UNUSED" <=> pstate[s] = "UNUSED")
  <2>1. CASE s = current_proc /\ pstate[s] = "RUNNING"
    BY <2>1 DEF ProcStates
  <2>2. CASE ~ (s = current_proc /\ pstate[s] = "RUNNING")
    BY <1>1, <2>2
  <2> QED
    BY <2>1, <2>2
<1>3. Reaped(s) = IF s \notin Visited(idle) THEN was
                  ELSE IF was = "SLEEPING" /\ ticks >= wake_tick[s] THEN "READY"
                  ELSE IF was = "ZOMBIE" THEN "UNUSED"
                  ELSE was
  BY DEF Reaped
<1> HIDE DEF was
<1>4. Reaped(s) \in ProcStates /\ (Reaped(s) # "UNUSED" => was # "UNUSED")
  BY <1>2, <1>3 DEF ProcStates
<1> QED
  BY <1>2, <1>4 DEF Used

\* The second loop takes a slot in use, or idle's.
LEMMA ChosenType ==
  ASSUME ProcTypeOK, Ends(next[current_proc])
  PROVE  Chosen \in Slots /\ Chosen \in Owned
<1> DEFINE first == next[current_proc]
           n == Round(first) - 1
           ready == {k \in 0 .. n : Reaped(Hop(first, k)) = "READY"}
           f == [k \in 0 .. n |-> priority[Hop(first, k)]]
           top == {k \in ready : \A j \in ready : priority[Hop(first, j)] <= priority[Hop(first, k)]}
           c == CHOOSE k \in top : \A j \in top : j <= k
<1>1. first \in Slots /\ next \in [Slots -> Slots] /\ priority \in [Slots -> Nat]
  <2>1. first \in Slots /\ next \in [Slots -> Slots]
    BY DEF ProcTypeOK
  <2>2. ProcPriorities \cup {0} \subseteq Nat /\ priority \in [Slots -> ProcPriorities \cup {0}]
    BY ProcessAssumption DEF ProcTypeOK
  <2>3. priority \in [Slots -> Nat]
    BY <2>2
  <2> QED
    BY <2>1, <2>3
<1>2. n \in Nat
  <2>1. Round(first) \in 1 .. MAX_PROCESSES
    BY RoundType
  <2> QED
    BY <2>1, ProcessAssumption
<1>3. Chosen = IF ready = {} THEN idle ELSE Hop(first, c)
  BY DEF Chosen
<1>4. idle \in Slots
  BY ProcessAssumption DEF idle, Slots
<1> HIDE DEF first, n
<1>5. \A k \in 0 .. n : Hop(first, k) \in Slots
  BY <1>1, <1>2, HopType
<1>6. CASE ready = {}
  BY <1>3, <1>4, <1>6 DEF Owned
<1>7. CASE ready # {}
  <2>1. f \in [0 .. n -> Nat]
    BY <1>1, <1>5
  <2>2. ready \in SUBSET (0 .. n)
    OBVIOUS
  <2>3. \A k \in ready : f[k] = priority[Hop(first, k)]
    OBVIOUS
  <2> HIDE DEF f
  <2>4. PICK k \in ready : \A j \in ready : f[j] <= f[k]
    <3> HIDE DEF ready
    <3> QED
      BY <1>2, <1>7, <2>1, <2>2, Greatest
  <2>5. k \in top
    BY <2>3, <2>4
  <2>6. top \in SUBSET (0 .. n) /\ top # {}
    BY <2>5
  <2>7. \E x \in top : \A j \in top : j <= x
    <3> HIDE DEF top
    <3> QED
      BY <1>2, <2>6, GreatestIndex
  <2>8. c \in top
    <3> HIDE DEF top
    <3> QED
      BY <2>7
  <2>9. c \in 0 .. n /\ Reaped(Hop(first, c)) = "READY"
    <3> HIDE DEF c
    <3> QED
      BY <2>8
  <2>10. Chosen = Hop(first, c) /\ Hop(first, c) \in Slots
    <3> HIDE DEF c, ready
    <3> QED
      BY <1>3, <1>5, <1>7, <2>9
  <2> HIDE DEF c
  <2>11. Hop(first, c) \in Used
    BY <2>9, <2>10, ReapedType
  <2> QED
    BY <2>10, <2>11 DEF Owned
<1> QED
  BY <1>6, <1>7

-----------------------------------------------------------------------------
(* The list while no slot has been used twice.                             *)

\* Where k links lead from s in a ring of slots 0 to n.
Around(s, k, n) == IF s + k <= n THEN s + k ELSE s + k - n - 1

\* Hop goes around the slots used so far.
LEMMA HopAround ==
  ASSUME ProcTypeOK, ListInv, NoReuse, NEW n \in Nat, n = next_pid - 1,
         NEW s \in 0 .. n, NEW k \in 0 .. n + 1
  PROVE  Hop(s, k) = Around(s, k, n)
<1> DEFINE g == [i \in 0 .. k |-> Around(s, i, n)]
<1>1. n \in Slots /\ next \in [Slots -> Slots]
  BY DEF ListInv, ProcTypeOK
<1>2. \A i \in 0 .. n : i \in Slots
  BY <1>1, ProcessAssumption DEF Slots
<1>3. \A i \in 0 .. k : Around(s, i, n) \in 0 .. n
  BY DEF Around
<1>4. g \in [0 .. k -> Slots]
  BY <1>2, <1>3
<1>5. k \in Nat /\ s \in Slots
  BY <1>2
<1>6. g[0] = s
  BY DEF Around
<1>7. \A i \in 0 .. n : next[i] = IF i = n THEN 0 ELSE i + 1
  BY <1>2 DEF ListInv, idle
<1>8. ASSUME NEW i \in 1 .. k PROVE g[i] = next[g[i - 1]]
  <2>1. i - 1 \in 0 .. k /\ i \in 0 .. k
    OBVIOUS
  <2>2. g[i] = Around(s, i, n) /\ g[i - 1] = Around(s, i - 1, n)
    BY <2>1
  <2>3. Around(s, i - 1, n) \in 0 .. n
    BY <1>3, <2>1
  <2>4. next[Around(s, i - 1, n)] = IF Around(s, i - 1, n) = n THEN 0 ELSE Around(s, i - 1, n) + 1
    BY <1>7, <2>3
  <2>5. Around(s, i, n) = IF Around(s, i - 1, n) = n THEN 0 ELSE Around(s, i - 1, n) + 1
    BY DEF Around
  <2> HIDE DEF g
  <2> QED
    BY <2>2, <2>4, <2>5
<1>9. g[k] = Around(s, k, n)
  BY <1>5
<1> HIDE DEF g
<1>10. Hop(s, k) = g[k]
  BY <1>1, <1>4, <1>5, <1>6, <1>8, HopIs
<1> QED
  BY <1>9, <1>10

\* So a walk from any of them ends, after a full turn.
LEMMA RoundAround ==
  ASSUME ProcTypeOK, ListInv, NoReuse, NEW n \in Nat, n = next_pid - 1, NEW s \in 0 .. n
  PROVE  Ends(s) /\ Round(s) = n + 1 /\ \A i \in 0 .. n : i \in Visited(s)
<1>1. n \in Slots /\ n + 1 \in 1 .. MAX_PROCESSES
  BY ProcessAssumption DEF ListInv, Slots
<1>2. \A k \in 0 .. n + 1 : Hop(s, k) = Around(s, k, n)
  BY HopAround
<1>3. Hop(s, n + 1) = s
  <2>1. n + 1 \in 0 .. n + 1 /\ Around(s, n + 1, n) = s
    BY DEF Around
  <2> QED
    BY <1>2, <2>1
<1>4. \A k \in 1 .. n : Hop(s, k) # s
  <2> TAKE k \in 1 .. n
  <2>1. k \in 0 .. n + 1 /\ Around(s, k, n) # s
    BY DEF Around
  <2> QED
    BY <1>2, <2>1
<1>5. Ends(s)
  BY <1>1, <1>3 DEF Ends
<1>6. Round(s) = n + 1
  <2>1. /\ Round(s) \in 1 .. MAX_PROCESSES /\ Hop(s, Round(s)) = s
        /\ \A j \in 1 .. Round(s) - 1 : Hop(s, j) # s
    BY <1>5, RoundType
  <2>2. ~ (Round(s) < n + 1)
    <3> SUFFICES ASSUME Round(s) < n + 1 PROVE FALSE
      OBVIOUS
    <3>1. Round(s) \in 1 .. n
      BY <2>1, ProcessAssumption
    <3> QED
      BY <1>4, <2>1, <3>1
  <2>3. ~ (Round(s) > n + 1)
    <3> SUFFICES ASSUME Round(s) > n + 1 PROVE FALSE
      OBVIOUS
    <3>1. n + 1 \in 1 .. Round(s) - 1
      BY <2>1, ProcessAssumption
    <3> QED
      BY <1>3, <2>1, <3>1
  <2> QED
    BY <2>1, <2>2, <2>3, ProcessAssumption
<1>7. ASSUME NEW i \in 0 .. n PROVE i \in Visited(s)
  <2> DEFINE k == IF i >= s THEN i - s ELSE i + n + 1 - s
  <2>1. k \in 0 .. n /\ k \in 0 .. n + 1 /\ Around(s, k, n) = i
    BY DEF Around
  <2> HIDE DEF k
  <2>2. Hop(s, k) = i
    BY <1>2, <2>1
  <2>3. k \in 0 .. Round(s) - 1
    BY <1>6, <2>1
  <2> QED
    BY <2>2, <2>3 DEF Visited
<1> QED
  BY <1>5, <1>6, <1>7

-----------------------------------------------------------------------------
(* The process manager's steps.                                            *)

\* A step that hands out no pid and brings into use no slot that was not owned.
LEMMA SamePids ==
  ASSUME ProcInv, UNCHANGED <<pid, next_pid>>,
         \A s \in Slots : pstate'[s] # "UNUSED" => s \in Owned
  PROVE  PidInv'
<1>1. Used' \subseteq Owned /\ Owned' \subseteq Owned
  BY DEF Used, Owned
<1>2. \A s \in Owned : s < next_pid
  BY DEF ProcInv, PidInv, ProcTypeOK, Owned, idle
<1> QED
  BY <1>1, <1>2 DEF ProcInv, PidInv

\* process_create takes the first unused slot and the next pid.
LEMMA CreateInv ==
  ASSUME ProcInv, NEW p \in ProcPriorities, process_create(p), ~ hung
  PROVE  /\ ProcInv'
         /\ \E np \in Slots \ Owned :
              /\ pid' = [pid EXCEPT ![np] = next_pid]
              /\ pstate' = [pstate EXCEPT ![np] = "READY"]
              /\ next_pid' = next_pid + 1
<1> DEFINE free == Slots \ (Used \cup {idle})
           np == CHOOSE s \in free : \A u \in free : s <= u
           last == Hop(idle, Round(idle) - 1)
<1>1. /\ free # {} /\ next_pid <= MaxPid
      /\ pid' = [pid EXCEPT ![np] = next_pid]
      /\ next_pid' = next_pid + 1
      /\ priority' = [priority EXCEPT ![np] = p]
      /\ pstate' = [pstate EXCEPT ![np] = "READY"]
      /\ wake_tick' = [wake_tick EXCEPT ![np] = 0]
      /\ next' = [[next EXCEPT ![last] = np] EXCEPT ![np] = idle]
      /\ UNCHANGED <<current_proc, ticks, hung>>
  BY DEF process_create, TakePid, Link
<1>2. np \in free /\ \A u \in free : np <= u
  <2>1. free \subseteq Nat
    BY ProcessAssumption DEF Slots
  <2>2. \E s \in free : \A u \in free : s <= u
    <3> HIDE DEF free
    <3> QED
      BY <1>1, <2>1, LeastNat
  <2> HIDE DEF free
  <2> QED
    BY <2>2
<1> HIDE DEF np, last
<1>3. np \in Slots /\ np \notin Used /\ np # idle /\ np \notin Owned /\ idle \in Slots
  BY <1>2, ProcessAssumption DEF Owned, idle, Slots
<1>4. /\ next_pid \in Nat /\ next_pid >= 1 /\ MaxPid \in Nat /\ np \in Nat
      /\ \A s \in Slots : pid[s] \in Nat /\ pid[s] < next_pid /\ s \in Nat
  <2>1. \A s \in Slots : s \in Nat
    BY ProcessAssumption DEF Slots
  <2>2. MaxPid \in Nat /\ next_pid \in Nat /\ next_pid >= 1
    BY ProcessAssumption DEF ProcInv, ProcTypeOK
  <2>3. \A s \in Slots : pid[s] \in Nat /\ pid[s] < next_pid
    BY <2>2 DEF ProcInv, ProcTypeOK, PidInv
  <2> QED
    BY <1>3, <2>1, <2>2, <2>3
<1>5. ProcTypeOK'
  <2>1. pid' \in [Slots -> 0 .. MaxPid] /\ next_pid' \in 1 .. MaxPid + 1
    <3>1. next_pid \in 0 .. MaxPid /\ next_pid + 1 \in 1 .. MaxPid + 1
      BY <1>1, <1>4
    <3> QED
      BY <1>1, <3>1 DEF ProcInv, ProcTypeOK
  <2>2. pstate' \in [Slots -> {"UNUSED", "READY", "RUNNING", "SLEEPING", "ZOMBIE"}]
    BY <1>1 DEF ProcInv, ProcTypeOK
  <2>3. priority' \in [Slots -> ProcPriorities \cup {0}]
    BY <1>1 DEF ProcInv, ProcTypeOK
  <2>4. wake_tick' \in [Slots -> 0 .. TICK_MOD - 1]
    <3>1. 0 \in 0 .. TICK_MOD - 1
      BY ProcessAssumption
    <3> QED
      BY <1>1, <3>1 DEF ProcInv, ProcTypeOK
  <2>5. next' \in [Slots -> Slots]
    BY <1>1, <1>3 DEF ProcInv, ProcTypeOK
  <2> QED
    BY <1>1, <2>1, <2>2, <2>3, <2>4, <2>5 DEF ProcInv, ProcTypeOK
<1>6. np <= next_pid
  <2>1. CASE next_pid \in Slots
    <3>1. next_pid \notin Used /\ next_pid # idle
      BY <1>4 DEF ProcInv, PidInv, idle
    <3> QED
      BY <1>2, <2>1, <3>1
  <2>2. CASE next_pid \notin Slots
    BY <1>3, <1>4, <2>2, ProcessAssumption DEF Slots
  <2> QED
    BY <2>1, <2>2
<1>7. /\ pid'[np] = next_pid
      /\ \A s \in Slots : s # np => pid'[s] = pid[s]
      /\ \A s \in Slots : pstate'[s] = IF s = np THEN "READY" ELSE pstate[s]
  BY <1>1, <1>3 DEF ProcInv, ProcTypeOK
<1>8. Used' = Used \cup {np} /\ Owned' = Owned \cup {np}
  BY <1>3, <1>7 DEF Used, Owned
<1>9. PidInv'
  <2>1. pid'[idle] = 0
    BY <1>3, <1>7 DEF ProcInv, PidInv
  <2>2. \A s \in Slots : pid'[s] < next_pid'
    BY <1>1, <1>4, <1>7
  <2>3. \A s, u \in Owned' : pid'[s] = pid'[u] => s = u
    <3>1. \A s \in Owned : s \in Slots /\ s # np
      BY <1>3 DEF Owned, Used
    <3>2. \A s \in Owned : pid'[s] = pid[s] /\ pid[s] # next_pid
      BY <1>4, <1>7, <3>1
    <3> QED
      BY <1>7, <1>8, <3>2 DEF ProcInv, PidInv
  <2>4. \A s \in Used' : s < next_pid'
    <3>1. \A s \in Used : s < next_pid /\ s \in Slots
      BY DEF ProcInv, PidInv, Used
    <3>2. \A s \in Used : s < next_pid'
      BY <1>1, <1>4, <3>1
    <3>3. np < next_pid'
      BY <1>1, <1>4, <1>6
    <3> QED
      BY <1>8, <3>2, <3>3
  <2>5. \A s \in Slots : pid'[s] = 0 \/ pid'[s] >= s
    BY <1>6, <1>7 DEF ProcInv, PidInv
  <2> QED
    BY <2>1, <2>2, <2>3, <2>4, <2>5 DEF PidInv
<1>10. CurrentNotFreed'
  BY <1>1, <1>7 DEF ProcInv, CurrentNotFreed, ProcTypeOK
<1>11. ListInv'
  <2> SUFFICES ASSUME NoReuse'
               PROVE  /\ next_pid' - 1 \in Slots
                      /\ \A s \in Slots : s <= next_pid' - 1 =>
                           next'[s] = IF s = next_pid' - 1 THEN idle ELSE s + 1
                      /\ ~ hung'
    BY DEF ListInv
  <2>1. NoReuse
    <3>1. pid[np] \in {0, np}
      BY <1>3, <1>4, <1>6, <1>7 DEF ProcInv, PidInv, NoReuse
    <3> QED
      BY <1>7, <3>1 DEF NoReuse
  <2>2. np = next_pid
    BY <1>3, <1>4, <1>7 DEF NoReuse
  <2> DEFINE n == next_pid - 1
  <2>3. n \in Nat /\ n = next_pid - 1 /\ 0 \in 0 .. n
    BY <1>4
  <2> HIDE DEF n
  <2>4. /\ n \in Slots
        /\ \A s \in Slots : s <= n => next[s] = IF s = n THEN idle ELSE s + 1
    BY <2>1, <2>3 DEF ProcInv, ListInv
  <2>5. last = n
    <3>1. Round(0) = n + 1
      BY <2>1, <2>3, RoundAround DEF ProcInv
    <3>2. n \in 0 .. n + 1
      BY <2>3
    <3>3. Hop(0, n) = Around(0, n, n)
      BY <2>1, <2>3, <3>2, HopAround DEF ProcInv
    <3>4. Round(0) - 1 = n /\ Around(0, n, n) = n
      BY <2>3, <3>1 DEF Around
    <3> QED
      BY <3>3, <3>4 DEF last, idle
  <2>6. np = n + 1 /\ next_pid' - 1 = n + 1
    BY <1>1, <1>4, <2>2, <2>3
  <2>7. next'[np] = idle /\ next'[n] = np /\ \A s \in Slots : s # n /\ s # np => next'[s] = next[s]
    <3>1. n # np
      BY <2>3, <2>6
    <3> QED
      BY <1>1, <1>3, <2>4, <2>5, <3>1 DEF ProcInv, ProcTypeOK
  <2>8. ASSUME NEW s \in Slots, s <= n + 1
        PROVE  next'[s] = IF s = n + 1 THEN idle ELSE s + 1
    <3>1. CASE s = n + 1
      BY <2>6, <2>7, <3>1
    <3>2. CASE s = n
      <4>1. n # n + 1
        BY <2>3
      <4> QED
        BY <2>6, <2>7, <3>2, <4>1
    <3>3. CASE s # n + 1 /\ s # n
      <4>1. s <= n
        BY <1>4, <2>3, <2>8, <3>3
      <4> QED
        BY <2>4, <2>6, <2>7, <3>3, <4>1
    <3> QED
      BY <3>1, <3>2, <3>3
  <2> QED
    BY <1>1, <1>3, <2>6, <2>8
<1>12. ProcInv'
  BY <1>5, <1>9, <1>10, <1>11 DEF ProcInv
<1> QED
  BY <1>1, <1>3, <1>12

\* What the other steps leave alone, and what they keep of the rest.
LEMMA OtherInv ==
  ASSUME ProcInv, UNCHANGED <<pid, next_pid, next>>, ProcTypeOK',
         \A s \in Slots : pstate'[s] # "UNUSED" => s \in Owned,
         pstate'[current_proc'] # "UNUSED", NoReuse => ~ hung'
  PROVE  ProcInv'
<1>1. PidInv'
  BY SamePids
<1>2. CurrentNotFreed'
  BY DEF CurrentNotFreed
<1>3. ListInv'
  BY DEF ProcInv, ListInv, NoReuse
<1> QED
  BY <1>1, <1>2, <1>3 DEF ProcInv

\* process_exit marks a process a zombie; its slot stays in use.
LEMMA ExitInv ==
  ASSUME ProcInv, NEW i, process_exit(i)
  PROVE  ProcInv' /\ UNCHANGED <<pid, next_pid, current_proc>> /\ Used' = Used
<1>1. /\ pstate' = [s \in Slots |-> IF s \in Found(i) THEN "ZOMBIE" ELSE pstate[s]]
      /\ UNCHANGED <<pid, priority, wake_tick, next, current_proc, next_pid, ticks, hung>>
  BY DEF process_exit
<1>2. ProcTypeOK'
  BY <1>1 DEF ProcInv, ProcTypeOK
<1>3. \A s \in Slots : pstate'[s] # "UNUSED" <=> s \in Used
  BY <1>1 DEF Found, Used
<1>4. Used' = Used
  BY <1>3 DEF Used
<1>5. current_proc \in Used
  BY DEF ProcInv, CurrentNotFreed, ProcTypeOK, Used
<1>6. ProcInv'
  <2>1. pstate'[current_proc'] # "UNUSED"
    BY <1>1, <1>3, <1>5 DEF Used
  <2>2. NoReuse => ~ hung'
    BY <1>1 DEF ProcInv, ListInv
  <2>3. \A s \in Slots : pstate'[s] # "UNUSED" => s \in Owned
    BY <1>3 DEF Owned
  <2> QED
    BY <1>1, <1>2, <2>1, <2>2, <2>3, OtherInv
<1> QED
  BY <1>1, <1>4, <1>6

\* process_sleep: the tick it computes is one that get_ticks() can return.
LEMMA SleepInv ==
  ASSUME ProcInv, NEW n \in ProcSleeps, process_sleep(n)
  PROVE  ProcInv' /\ UNCHANGED <<pid, next_pid, current_proc>> /\ Used' = Used
<1>1. /\ wake_tick' = [wake_tick EXCEPT ![current_proc] = (ticks + n) % TICK_MOD]
      /\ pstate' = [pstate EXCEPT ![current_proc] = "SLEEPING"]
      /\ UNCHANGED <<pid, priority, next, current_proc, next_pid, ticks, hung>>
  BY DEF process_sleep
<1>2. (ticks + n) % TICK_MOD \in 0 .. TICK_MOD - 1
  <2>1. ticks \in Nat /\ n \in Nat /\ TICK_MOD \in Nat /\ TICK_MOD > 0
    BY ProcessAssumption DEF ProcInv, ProcTypeOK
  <2> QED
    BY <2>1
<1>3. ProcTypeOK'
  BY <1>1, <1>2 DEF ProcInv, ProcTypeOK
<1>4. current_proc \in Used /\ pstate \in [Slots -> ProcStates]
  BY DEF ProcInv, CurrentNotFreed, ProcTypeOK, Used, ProcStates
<1>5. \A s \in Slots : pstate'[s] # "UNUSED" <=> s \in Used
  BY <1>1, <1>4 DEF Used
<1>6. Used' = Used
  BY <1>5 DEF Used
<1>7. ProcInv'
  <2>1. pstate'[current_proc'] # "UNUSED"
    BY <1>1, <1>4, <1>5 DEF Used
  <2>2. NoReuse => ~ hung'
    BY <1>1 DEF ProcInv, ListInv
  <2>3. \A s \in Slots : pstate'[s] # "UNUSED" => s \in Owned
    BY <1>5 DEF Owned
  <2> QED
    BY <1>1, <1>3, <2>1, <2>2, <2>3, OtherInv
<1> QED
  BY <1>1, <1>6, <1>7

\* process_schedule: what it brings into use was owned, and its loop ends as
\* long as no slot was used twice.
LEMMA ScheduleInv ==
  ASSUME ProcInv, process_schedule, ~ hung
  PROVE  ProcInv' /\ UNCHANGED <<pid, next_pid>> /\ Owned' \subseteq Owned
<1>1. UNCHANGED <<pid, priority, wake_tick, next, next_pid, ticks>>
  BY DEF process_schedule
<1>2. current_proc \in Used /\ current_proc \in Slots /\ pstate \in [Slots -> ProcStates]
  BY DEF ProcInv, CurrentNotFreed, ProcTypeOK, Used, ProcStates
<1>3. CASE Ends(next[current_proc])
  <2>1. /\ current_proc' = Chosen
        /\ pstate' = [s \in Slots |-> IF s = Chosen THEN "RUNNING" ELSE Reaped(s)]
        /\ hung' = hung
    BY <1>3 DEF process_schedule
  <2>2. Chosen \in Slots /\ Chosen \in Owned
    BY <1>3, ChosenType DEF ProcInv
  <2>3. \A s \in Slots : Reaped(s) \in ProcStates /\ (Reaped(s) # "UNUSED" => s \in Used)
    BY ReapedType DEF ProcInv
  <2> HIDE DEF Chosen, Reaped
  <2>4. ProcTypeOK'
    <3>1. pstate' \in [Slots -> ProcStates]
      BY <2>1, <2>3 DEF ProcStates
    <3> QED
      BY <1>1, <2>1, <2>2, <3>1 DEF ProcInv, ProcTypeOK, ProcStates
  <2>5. \A s \in Slots : pstate'[s] # "UNUSED" => s \in Owned
    <3> TAKE s \in Slots
    <3>1. CASE s = Chosen
      BY <2>2, <3>1
    <3>2. CASE s # Chosen
      BY <2>1, <2>3, <3>2 DEF Owned
    <3> QED
      BY <3>1, <3>2
  <2>6. pstate'[current_proc'] # "UNUSED" /\ (NoReuse => ~ hung')
    BY <2>1, <2>2
  <2>7. ProcInv'
    BY <1>1, <2>4, <2>5, <2>6, OtherInv
  <2> QED
    BY <1>1, <2>5, <2>7 DEF Owned, Used
<1>4. CASE ~ Ends(next[current_proc])
  <2>1. hung' = TRUE /\ UNCHANGED <<current_proc, pstate>>
    BY <1>4 DEF process_schedule
  <2>2. ProcTypeOK'
    BY <1>1, <2>1 DEF ProcInv, ProcTypeOK
  <2>3. ~ NoReuse
    <3> SUFFICES ASSUME NoReuse PROVE FALSE
      OBVIOUS
    <3> DEFINE n == next_pid - 1
    <3>1. n \in Nat /\ n = next_pid - 1 /\ next_pid \in Nat
      <4>1. next_pid \in 1 .. MaxPid + 1 /\ MaxPid \in Nat
        BY ProcessAssumption DEF ProcInv, ProcTypeOK
      <4> QED
        BY <4>1
    <3> HIDE DEF n
    <3>2. current_proc <= n /\ current_proc \in Nat
      <4>1. current_proc < next_pid /\ current_proc \in Nat
        BY <1>2, ProcessAssumption DEF ProcInv, PidInv, Slots
      <4> QED
        BY <3>1, <4>1
    <3>3. next[current_proc] = IF current_proc = n THEN idle ELSE current_proc + 1
      BY <1>2, <3>1, <3>2 DEF ProcInv, ListInv
    <3>4. next[current_proc] \in 0 .. n
      BY <3>1, <3>2, <3>3 DEF idle
    <3>5. Ends(next[current_proc])
      BY <3>1, <3>4, RoundAround DEF ProcInv
    <3> QED
      BY <1>4, <3>5
  <2>4. ProcInv'
    BY <1>1, <1>2, <2>1, <2>2, <2>3, OtherInv DEF Owned, Used
  <2> QED
    BY <1>1, <2>1, <2>4 DEF Owned, Used
<1> QED
  BY <1>3, <1>4

\* process_init.
LEMMA ProcInitInv == ProcInit => ProcInv
<1> SUFFICES ASSUME ProcInit PROVE ProcInv
  OBVIOUS
<1>1. /\ pid = [s \in Slots |-> 0] /\ next_pid = 1
      /\ pstate = [s \in Slots |-> IF s = idle THEN "READY" ELSE "UNUSED"]
      /\ next = [s \in Slots |-> idle] /\ current_proc = idle /\ hung = FALSE
      /\ priority = [s \in Slots |-> 0] /\ wake_tick = [s \in Slots |-> 0] /\ ticks = 0
  BY DEF ProcInit, process_init
<1>2. idle \in Slots /\ idle = 0 /\ \A s \in Slots : s \in Nat
  BY ProcessAssumption DEF Slots, idle
<1>3. /\ 0 \in 0 .. MaxPid /\ 0 \in 0 .. TICK_MOD - 1 /\ 1 \in 1 .. MaxPid + 1
  BY ProcessAssumption
<1>4. ProcTypeOK
  BY <1>1, <1>2, <1>3 DEF ProcTypeOK
<1>5. Used = {idle} /\ Owned = {idle}
  BY <1>1, <1>2 DEF Used, Owned
<1>6. PidInv
  BY <1>1, <1>2, <1>5 DEF PidInv
<1>7. CurrentNotFreed
  BY <1>1, <1>2 DEF CurrentNotFreed
<1>8. ListInv
  <2>1. next_pid - 1 = 0
    BY <1>1
  <2>2. \A s \in Slots : s <= 0 => next[s] = IF s = 0 THEN idle ELSE s + 1
    BY <1>1, <1>2
  <2> QED
    BY <1>1, <1>2, <2>1, <2>2 DEF ListInv
<1> QED
  BY <1>4, <1>6, <1>7, <1>8 DEF ProcInv

\* Every call and every tick keeps the invariant, and what process_create does
\* to pids and slots is all that is done to them.
LEMMA ProcNextInv ==
  ASSUME ProcInv, ProcNext
  PROVE  /\ ProcInv'
         /\ \/ UNCHANGED <<pid, next_pid>> /\ Owned' \subseteq Owned
            \/ \E np \in Slots \ Owned : /\ pid' = [pid EXCEPT ![np] = next_pid]
                                        /\ Owned' = Owned \cup {np}
                                        /\ next_pid' = next_pid + 1
<1>1. CASE Create
  <2>1. PICK p \in ProcPriorities : process_create(p) /\ ~ hung
    BY <1>1 DEF Create
  <2>2. ProcInv'
    BY <2>1, CreateInv
  <2>3. PICK np \in Slots \ Owned :
          /\ pid' = [pid EXCEPT ![np] = next_pid]
          /\ pstate' = [pstate EXCEPT ![np] = "READY"]
          /\ next_pid' = next_pid + 1
    BY <2>1, CreateInv
  <2>4. pstate \in [Slots -> ProcStates]
    BY DEF ProcInv, ProcTypeOK, ProcStates
  <2>5. Owned' = Owned \cup {np}
    BY <2>3, <2>4 DEF Owned, Used
  <2> QED
    BY <2>2, <2>3, <2>5
<1>2. CASE Exit
  BY <1>2, ExitInv DEF Exit, Owned
<1>3. CASE Sleep
  BY <1>3, SleepInv DEF Sleep, Owned
<1>4. CASE Schedule
  BY <1>4, ScheduleInv DEF Schedule
<1>5. CASE Tick
  <2>1. /\ ticks' = (ticks + 1) % TICK_MOD
        /\ UNCHANGED <<pid, pstate, priority, wake_tick, next, current_proc, next_pid, hung>>
    BY <1>5 DEF Tick, slotVars
  <2>2. ticks' \in 0 .. TICK_MOD - 1
    <3>1. ticks \in Nat /\ TICK_MOD \in Nat /\ TICK_MOD > 0
      BY ProcessAssumption DEF ProcInv, ProcTypeOK
    <3> QED
      BY <2>1, <3>1
  <2>3. ProcTypeOK'
    BY <2>1, <2>2 DEF ProcInv, ProcTypeOK
  <2>4. ProcInv'
    BY <2>1, <2>3, OtherInv DEF ProcInv, CurrentNotFreed, ListInv, Owned, Used
  <2> QED
    BY <2>1, <2>4 DEF Owned, Used
<1> QED
  BY <1>1, <1>2, <1>3, <1>4, <1>5 DEF ProcNext

\* The same when nothing happens.
LEMMA ProcStutter ==
  ASSUME ProcInv, UNCHANGED procVars
  PROVE  ProcInv' /\ Used' = Used
<1>1. UNCHANGED <<pid, pstate, priority, wake_tick, next, current_proc, next_pid, ticks, hung>>
  BY DEF procVars, slotVars
<1>2. ProcTypeOK'
  BY <1>1 DEF ProcInv, ProcTypeOK
<1>3. ProcInv'
  BY <1>1, <1>2, OtherInv DEF ProcInv, CurrentNotFreed, ListInv, Owned, Used
<1> QED
  BY <1>1, <1>3 DEF Used

\* The process manager keeps its inductive invariant, whoever calls it.
THEOREM ProcInductive == ProcSpec => []ProcInv
<1>1. ProcInv /\ [ProcNext]_procVars => ProcInv'
  BY ProcNextInv, ProcStutter
<1> QED
  BY <1>1, ProcInitInv, PTL DEF ProcSpec

\* Slots, links and pids stay in their ranges (process.c), whatever the order
\* of spawns, exits, sleeps and calls of process_schedule.
THEOREM ProcTypeCorrect == ProcSpec => []ProcTypeOK
BY ProcInductive, PTL DEF ProcInv

\* A pid names one process, although process_create gives slots out again and
\* process_schedule may put idle back into a slot it has reaped.
THEOREM PidsNameOneProcess == ProcSpec => []PidUnique
<1>1. ProcInv => PidUnique
  BY DEF ProcInv, PidInv, PidUnique, Owned
<1> QED
  BY <1>1, ProcInductive, PTL

\* The process on the CPU keeps its slot.
THEOREM CurrentKeepsSlot == ProcSpec => []CurrentNotFreed
BY ProcInductive, PTL DEF ProcInv

\* Until a slot is used a second time the list holds every process and the
\* loops of process_schedule end, for any size of the pool.
THEOREM ListSoundUntilReuse == ProcSpec => []ListHoldsUntilReuse
<1>1. ProcInv => ListHoldsUntilReuse
  <2> SUFFICES ASSUME ProcInv, \A s \in Slots : pid[s] \in {0, s}
               PROVE  (\A s \in Used : Ends(s) /\ Used \subseteq Visited(s)) /\ ~ hung
    BY DEF ListHoldsUntilReuse
  <2>1. NoReuse /\ ~ hung
    BY DEF NoReuse, ProcInv, ListInv
  <2> DEFINE n == next_pid - 1
  <2>2. n \in Nat /\ n = next_pid - 1 /\ next_pid \in Nat
    <3>1. next_pid \in 1 .. MaxPid + 1 /\ MaxPid \in Nat
      BY ProcessAssumption DEF ProcInv, ProcTypeOK
    <3> QED
      BY <3>1
  <2> HIDE DEF n
  <2>3. \A s \in Used : s \in 0 .. n
    <3>1. \A s \in Used : s \in Nat /\ s < next_pid
      BY ProcessAssumption DEF ProcInv, PidInv, Used, Slots
    <3> QED
      BY <2>2, <3>1
  <2>4. \A s \in Used : Ends(s) /\ \A i \in 0 .. n : i \in Visited(s)
    BY <2>1, <2>2, <2>3, RoundAround DEF ProcInv
  <2> QED
    BY <2>1, <2>3, <2>4
<1> QED
  BY <1>1, ProcInductive, PTL

-----------------------------------------------------------------------------
(* Signals.                                                                *)

CtxTypeOK ==
  /\ handlers \in [Contexts -> [Sigs -> {"SIG_DFL", "SIG_IGN", "user"}]]
  /\ pending \in [Contexts -> SUBSET Sigs]
  /\ blocked \in [Contexts -> SUBSET Sigs]
  /\ disp \in [Slots -> Calls]

\* A kill that waits for the lock has found its target: its pid was handed out.
KillInv == \A c \in killing : c[1] \in Contexts /\ c[2] \in Sigs /\ c[1] < next_pid

\* What is left of a snapshot and not stale is pending for the process that
\* took it.  This includes idle, whose slot may come back into use after it
\* was reaped.
LeftInv ==
  \A s \in Owned : \A k \in 1 .. Len(disp[s]) :
    pid[s] \in Contexts /\ disp[s][k].left \ disp[s][k].stale \subseteq pending[pid[s]]

\* The inductive invariant of the signals.
SigInv == ProcInv /\ CtxTypeOK /\ KillInv /\ LeftInv /\ FreshContext

\* The current process: its slot, and its pid, which was handed out.
LEMMA SelfType ==
  ASSUME SigInv
  PROVE  /\ current_proc \in Slots /\ current_proc \in Owned /\ self = pid[current_proc]
         /\ self \in Nat /\ self < next_pid /\ next_pid \in Nat
         /\ self < MAX_CTX => self \in Contexts
<1>1. current_proc \in Slots /\ current_proc \in Owned
  BY DEF SigInv, ProcInv, ProcTypeOK, CurrentNotFreed, Owned, Used
<1>2. self \in 0 .. MaxPid /\ next_pid \in 1 .. MaxPid + 1 /\ MaxPid \in Nat
  BY <1>1, ProcessAssumption DEF SigInv, ProcInv, ProcTypeOK, self
<1>3. self < next_pid
  BY <1>1 DEF SigInv, ProcInv, PidInv, self
<1> QED
  BY <1>1, <1>2, <1>3, SignalAssumption DEF Contexts, self

\* The calls around the innermost of a process, and the innermost.
LEMMA InnerOuter ==
  ASSUME NEW calls \in Calls, calls # << >>
  PROVE  /\ Outer(calls) \in Calls /\ Len(Outer(calls)) = Len(calls) - 1 /\ Len(calls) \in Nat
         /\ \A k \in 1 .. Len(calls) - 1 : Outer(calls)[k] = calls[k]
         /\ Inner(calls) \in [left : SUBSET Sigs, stale : SUBSET Sigs]
         /\ Inner(calls) = calls[Len(calls)] /\ Len(calls) \in 1 .. Len(calls)
<1> DEFINE Rec == [left : SUBSET Sigs, stale : SUBSET Sigs]
<1>0. calls \in Seq(Rec)
  BY DEF Calls
<1> HIDE DEF Rec
<1>1. Len(calls) \in Nat /\ Len(calls) \in 1 .. Len(calls)
  BY <1>0
<1>2. Inner(calls) = calls[Len(calls)] /\ Inner(calls) \in Rec
  BY <1>0, <1>1 DEF Inner
<1>3. 1 \in Int /\ Len(calls) - 1 \in Int /\ \A k \in 1 .. Len(calls) - 1 : calls[k] \in Rec
  BY <1>0, <1>1
<1>4. /\ Outer(calls) \in Seq(Rec)
      /\ Len(Outer(calls)) = IF 1 <= Len(calls) - 1 THEN (Len(calls) - 1) - 1 + 1 ELSE 0
  BY <1>3, SubSeqProperties DEF Outer
<1>5. Len(Outer(calls)) = Len(calls) - 1
  <2>1. PICK n \in Nat : n = Len(calls)
    BY <1>1
  <2>2. Len(Outer(calls)) = IF 1 <= n - 1 THEN (n - 1) - 1 + 1 ELSE 0
    BY <1>4, <2>1
  <2>3. n \in 1 .. n
    BY <1>1, <2>1
  <2>4. Len(Outer(calls)) = n - 1
    <3> HIDE DEF Outer
    <3> QED
      BY <2>2, <2>3
  <2> QED
    BY <2>1, <2>4
<1>6. \A k \in 1 .. Len(calls) - 1 : Outer(calls)[k] = calls[k]
  BY <1>0, <1>1 DEF Outer
<1> QED
  BY <1>1, <1>2, <1>4, <1>5, <1>6 DEF Calls, Rec

\* The calls after a delivery.
LEMMA DeliveredIs ==
  ASSUME NEW outer \in Calls, NEW call \in [left : SUBSET Sigs, stale : SUBSET Sigs], NEW x
  PROVE  /\ Delivered(outer, call, x) \in Calls
         /\ Len(Delivered(outer, call, x)) = Len(outer) + 1 /\ Len(outer) \in Nat
         /\ \A k \in 1 .. Len(outer) :
              /\ Delivered(outer, call, x)[k].left = outer[k].left
              /\ Delivered(outer, call, x)[k].stale = outer[k].stale \cup ({x} \cap outer[k].left)
         /\ Delivered(outer, call, x)[Len(outer) + 1].left = call.left \ {x}
         /\ Delivered(outer, call, x)[Len(outer) + 1].stale = call.stale \ {x}
<1> DEFINE Rec == [left : SUBSET Sigs, stale : SUBSET Sigs]
           o == [k \in 1 .. Len(outer) |-> [left |-> outer[k].left, stale |-> outer[k].stale \cup ({x} \cap outer[k].left)]]
           c == [left |-> call.left \ {x}, stale |-> call.stale \ {x}]
<1>0. outer \in Seq(Rec)
  BY DEF Calls
<1>1. Len(outer) \in Nat /\ \A k \in 1 .. Len(outer) : outer[k] \in Rec
  <2> HIDE DEF Rec
  <2> QED
    BY <1>0
<1>2. \A k \in 1 .. Len(outer) : o[k] \in Rec
  BY <1>1
<1>3. c \in Rec
  OBVIOUS
<1>4. \A k \in 1 .. Len(outer) : /\ o[k].left = outer[k].left
                                 /\ o[k].stale = outer[k].stale \cup ({x} \cap outer[k].left)
  OBVIOUS
<1>5. c.left = call.left \ {x} /\ c.stale = call.stale \ {x}
  OBVIOUS
<1>6. Delivered(outer, call, x) = Append(o, c)
  BY DEF Delivered
<1>7. o \in Seq(Rec) /\ Len(o) = Len(outer)
  <2> HIDE DEF Rec
  <2>1. o \in [1 .. Len(outer) -> Rec]
    BY <1>2
  <2> HIDE DEF o
  <2> QED
    BY <1>1, <2>1
<1> HIDE DEF o, c
<1>8. Append(o, c) \in Seq(Rec) /\ Len(Append(o, c)) = Len(outer) + 1
  <2> HIDE DEF Rec
  <2> QED
    BY <1>3, <1>7
<1>9. Append(o, c)[Len(outer) + 1] = c /\ \A k \in 1 .. Len(outer) : Append(o, c)[k] = o[k]
  <2> HIDE DEF Rec
  <2> QED
    BY <1>1, <1>3, <1>7
<1> QED
  BY <1>1, <1>4, <1>5, <1>6, <1>8, <1>9 DEF Calls

\* A step that changes one context i whose pid was handed out, takes nothing
\* from what is pending, adds no kill without a target, and leaves the
\* processes alone.
LEMMA ContextStep ==
  ASSUME SigInv, CtxTypeOK', KillInv', UNCHANGED <<procVars, disp>>, NEW i, i < next_pid,
         \A j \in Contexts : pending[j] \subseteq pending'[j],
         \A j \in Contexts : j # i =>
           pending'[j] = pending[j] /\ blocked'[j] = blocked[j] /\ handlers'[j] = handlers[j]
  PROVE  SigInv'
<1>1. ProcInv' /\ Used' = Used
  BY ProcStutter DEF SigInv
<1>2. UNCHANGED <<pid, next_pid, disp>>
  BY DEF procVars, slotVars
<1>3. LeftInv'
  BY <1>1, <1>2 DEF SigInv, LeftInv, Owned
<1>4. FreshContext'
  <2> SUFFICES ASSUME NEW j \in Contexts, j >= next_pid
               PROVE  /\ pending'[j] = {} /\ blocked'[j] = {}
                      /\ \A s \in Sigs : handlers'[j][s] = "SIG_DFL"
    BY <1>2 DEF FreshContext
  <2>1. j # i
    <3>1. next_pid \in Nat /\ j \in Int
      BY SelfType, SignalAssumption DEF Contexts
    <3> QED
      BY <3>1
  <2> QED
    BY <2>1 DEF SigInv, FreshContext
<1> QED
  BY <1>1, <1>3, <1>4 DEF SigInv

\* One delivery by the call `call' inside the calls `outer': the signal leaves
\* the snapshot and the pending set together, becomes stale for the calls
\* around, and no other process has that context.
LEMMA DeliverInv ==
  ASSUME SigInv, self \in Contexts, NEW outer \in Calls,
         NEW call \in [left : SUBSET Sigs, stale : SUBSET Sigs],
         call.left \ call.stale \subseteq pending[self],
         \A k \in 1 .. Len(outer) : outer[k].left \ outer[k].stale \subseteq pending[self],
         Deliver(outer, call)
  PROVE  SigInv'
<1> DEFINE x == CHOOSE x \in call.left : \A y \in call.left : x <= y
           d == Delivered(outer, call, x)
<1>1. /\ pending' = [pending EXCEPT ![self] = @ \ {x}]
      /\ disp' = [disp EXCEPT ![current_proc] = d]
      /\ \/ process_exit(self)
         \/ UNCHANGED procVars
      /\ UNCHANGED <<handlers, blocked, killing>>
  BY DEF Deliver
<1> HIDE DEF x
<1>2. ProcInv' /\ UNCHANGED <<pid, next_pid, current_proc>> /\ Used' = Used
  <2>1. CASE process_exit(self)
    BY <2>1, ExitInv DEF SigInv
  <2>2. CASE UNCHANGED procVars
    BY <2>2, ProcStutter DEF SigInv, procVars, slotVars
  <2> QED
    BY <1>1, <2>1, <2>2
<1>3. current_proc \in Slots /\ current_proc \in Owned /\ self = pid[current_proc]
  BY SelfType
<1>4. /\ d \in Calls /\ Len(d) = Len(outer) + 1 /\ Len(outer) \in Nat
      /\ \A k \in 1 .. Len(outer) : /\ d[k].left = outer[k].left
                                    /\ d[k].stale = outer[k].stale \cup ({x} \cap outer[k].left)
      /\ d[Len(outer) + 1].left = call.left \ {x}
      /\ d[Len(outer) + 1].stale = call.stale \ {x}
  BY DeliveredIs
<1> HIDE DEF d
<1>5. CtxTypeOK'
  BY <1>1, <1>4 DEF SigInv, CtxTypeOK
<1>6. /\ pending'[self] = pending[self] \ {x}
      /\ \A j \in Contexts : j # self => pending'[j] = pending[j]
      /\ disp'[current_proc] = d
      /\ \A s \in Slots : s # current_proc => disp'[s] = disp[s]
  BY <1>1, <1>3 DEF SigInv, CtxTypeOK
<1>7. LeftInv'
  <2> SUFFICES ASSUME NEW s \in Owned, NEW k \in 1 .. Len(disp'[s])
               PROVE  pid[s] \in Contexts /\ disp'[s][k].left \ disp'[s][k].stale \subseteq pending'[pid[s]]
    BY <1>2 DEF LeftInv, Owned
  <2>1. CASE s = current_proc
    <3>1. k \in 1 .. Len(outer) \/ k = Len(outer) + 1
      BY <1>4, <1>6, <2>1
    <3>2. CASE k \in 1 .. Len(outer)
      <4>1. d[k].left = outer[k].left /\ d[k].stale = outer[k].stale \cup ({x} \cap outer[k].left)
        BY <1>4, <3>2
      <4>2. outer[k].left \ outer[k].stale \subseteq pending[self]
        BY <3>2
      <4>3. d[k].left \ d[k].stale \subseteq pending[self] \ {x}
        BY <4>1, <4>2
      <4> QED
        BY <1>3, <1>6, <2>1, <4>3
    <3>3. CASE k = Len(outer) + 1
      <4>1. d[k].left = call.left \ {x} /\ d[k].stale = call.stale \ {x}
        BY <1>4, <3>3
      <4>2. d[k].left \ d[k].stale \subseteq pending[self] \ {x}
        BY <4>1
      <4> QED
        BY <1>3, <1>6, <2>1, <4>2
    <3> QED
      BY <3>1, <3>2, <3>3
  <2>2. CASE s # current_proc
    <3>1. s \in Slots
      BY ProcessAssumption DEF Owned, Used, idle, Slots
    <3>2. disp'[s] = disp[s]
      BY <1>6, <2>2, <3>1
    <3>3. pid[s] \in Contexts /\ disp[s][k].left \ disp[s][k].stale \subseteq pending[pid[s]]
      BY <3>2 DEF SigInv, LeftInv
    <3>4. pid[s] # self
      BY <1>3, <2>2 DEF SigInv, ProcInv, PidInv
    <3> QED
      BY <1>6, <3>2, <3>3, <3>4
  <2> QED
    BY <2>1, <2>2
<1>8. FreshContext'
  <2> SUFFICES ASSUME NEW j \in Contexts, j >= next_pid
               PROVE  /\ pending'[j] = {} /\ blocked'[j] = {}
                      /\ \A s \in Sigs : handlers'[j][s] = "SIG_DFL"
    BY <1>2 DEF FreshContext
  <2>1. pending[j] = {} /\ blocked[j] = {} /\ \A s \in Sigs : handlers[j][s] = "SIG_DFL"
    BY DEF SigInv, FreshContext
  <2>2. pending'[j] = {}
    BY <1>6, <2>1
  <2> QED
    BY <1>1, <2>1, <2>2
<1>9. KillInv'
  BY <1>1, <1>2 DEF SigInv, KillInv
<1> QED
  BY <1>2, <1>5, <1>7, <1>8, <1>9 DEF SigInv

\* The process manager changes no context, and a new process starts outside
\* signal_dispatch.
LEMMA ManageInv ==
  ASSUME SigInv, Manage
  PROVE  SigInv'
<1>1. /\ ProcNext /\ UNCHANGED <<handlers, pending, blocked, killing>>
      /\ disp' = [s \in Slots |-> IF pid'[s] # pid[s] THEN << >> ELSE disp[s]]
  BY DEF Manage, ctxVars
<1>2. /\ ProcInv'
      /\ \/ UNCHANGED <<pid, next_pid>> /\ Owned' \subseteq Owned
         \/ \E np \in Slots \ Owned : /\ pid' = [pid EXCEPT ![np] = next_pid]
                                     /\ Owned' = Owned \cup {np}
                                     /\ next_pid' = next_pid + 1
  BY <1>1, ProcNextInv DEF SigInv
<1>3. CtxTypeOK'
  <2>1. << >> \in Calls
    BY DEF Calls
  <2> QED
    BY <1>1, <2>1 DEF SigInv, CtxTypeOK
<1>4. \A s \in Owned : s \in Slots
  BY ProcessAssumption DEF Owned, Used, idle, Slots
<1>5. CASE UNCHANGED <<pid, next_pid>> /\ Owned' \subseteq Owned
  <2>1. \A s \in Slots : disp'[s] = disp[s]
    BY <1>1, <1>5
  <2>2. LeftInv'
    BY <1>1, <1>4, <1>5, <2>1 DEF SigInv, LeftInv
  <2>3. FreshContext' /\ KillInv'
    BY <1>1, <1>5 DEF SigInv, FreshContext, KillInv
  <2> QED
    BY <1>2, <1>3, <2>2, <2>3 DEF SigInv
<1>6. ASSUME NEW np \in Slots \ Owned, pid' = [pid EXCEPT ![np] = next_pid],
             Owned' = Owned \cup {np}, next_pid' = next_pid + 1
      PROVE  SigInv'
  <2>1. /\ pid'[np] = next_pid /\ \A s \in Slots : s # np => pid'[s] = pid[s]
        /\ \A s \in Owned : s # np
    BY <1>6 DEF SigInv, ProcInv, ProcTypeOK
  <2>2. pid[np] # next_pid
    <3>1. pid[np] \in Nat /\ next_pid \in Nat /\ pid[np] < next_pid
      BY ProcessAssumption DEF SigInv, ProcInv, ProcTypeOK, PidInv
    <3> QED
      BY <3>1
  <2>3. disp'[np] = << >> /\ \A s \in Owned : disp'[s] = disp[s]
    BY <1>1, <1>4, <2>1, <2>2
  <2>4. LeftInv'
    <3>1. \A s \in Owned : \A k \in 1 .. Len(disp'[s]) :
            pid'[s] \in Contexts /\ disp'[s][k].left \ disp'[s][k].stale \subseteq pending'[pid'[s]]
      BY <1>1, <1>4, <2>1, <2>3 DEF SigInv, LeftInv
    <3>2. 1 .. Len(disp'[np]) = {}
      BY <2>3
    <3> QED
      BY <1>6, <3>1, <3>2 DEF LeftInv
  <2>5. FreshContext'
    <3>1. \A j \in Contexts : j >= next_pid' => j >= next_pid
      BY <1>6, SelfType, SignalAssumption DEF Contexts
    <3> QED
      BY <1>1, <3>1 DEF SigInv, FreshContext
  <2>6. KillInv'
    <3>1. \A j \in Contexts : j < next_pid => j < next_pid'
      BY <1>6, SelfType, SignalAssumption DEF Contexts
    <3> QED
      BY <1>1, <3>1 DEF SigInv, KillInv
  <2> QED
    BY <1>2, <1>3, <2>4, <2>5, <2>6 DEF SigInv
<1> QED
  BY <1>2, <1>5, <1>6

\* Every call of signal.c keeps the invariant.
LEMMA SigNextInv == SigInv /\ [Next]_vars => SigInv'
<1> SUFFICES ASSUME SigInv, [Next]_vars PROVE SigInv'
  OBVIOUS
<1>0. CtxTypeOK /\ KillInv /\ self < next_pid
  BY SelfType DEF SigInv
<1>1. CASE Manage
  BY <1>1, ManageInv
<1>2. ASSUME NEW s \in Sigs, NEW h \in SetHandlers, signal(s, h) PROVE SigInv'
  <2>1. /\ handlers' = [handlers EXCEPT ![self][s] = h]
        /\ UNCHANGED <<procVars, pending, blocked, killing, disp>>
    BY <1>2 DEF signal
  <2>2. CtxTypeOK'
    BY <1>0, <1>2, <2>1, SignalAssumption DEF CtxTypeOK
  <2>3. \A j \in Contexts : j # self => handlers'[j] = handlers[j]
    BY <1>0, <2>1 DEF CtxTypeOK
  <2>4. KillInv'
    BY <1>0, <2>1 DEF KillInv, procVars
  <2> QED
    BY <1>0, <2>1, <2>2, <2>3, <2>4, ContextStep
<1>3. ASSUME NEW i \in Contexts, NEW s \in Sigs, kill(i, s) PROVE SigInv'
  <2>1. /\ killing' = killing \cup {<<i, s>>} /\ Found(i) # {}
        /\ UNCHANGED <<procVars, handlers, pending, blocked, disp>>
    BY <1>3 DEF kill, ctxVars
  <2>2. CtxTypeOK'
    BY <1>0, <2>1 DEF CtxTypeOK
  <2>3. i < next_pid
    BY <2>1 DEF Found, Used, SigInv, ProcInv, PidInv
  <2>4. KillInv'
    BY <1>0, <2>1, <2>3 DEF KillInv, procVars
  <2> QED
    BY <2>1, <2>2, <2>3, <2>4, ContextStep
<1>4. ASSUME NEW i \in Contexts, NEW s \in Sigs, kill_mark(i, s) PROVE SigInv'
  <2>1. /\ pending' = [pending EXCEPT ![i] = @ \cup {s}] /\ <<i, s>> \in killing
        /\ killing' = killing \ {<<i, s>>}
        /\ UNCHANGED <<procVars, handlers, blocked, disp>>
    BY <1>4 DEF kill_mark
  <2>2. CtxTypeOK'
    BY <1>0, <2>1 DEF CtxTypeOK
  <2>3. i < next_pid
    BY <1>0, <2>1 DEF KillInv
  <2>4. \A j \in Contexts : /\ pending[j] \subseteq pending'[j]
                            /\ j # i => pending'[j] = pending[j]
    BY <1>0, <2>1 DEF CtxTypeOK
  <2>5. KillInv'
    BY <1>0, <2>1 DEF KillInv, procVars
  <2> QED
    BY <2>1, <2>2, <2>3, <2>4, <2>5, ContextStep
<1>5. ASSUME NEW mask \in Masks, sigblock(mask) \/ sigunblock(mask) PROVE SigInv'
  <2>1. /\ \/ blocked' = [blocked EXCEPT ![self] = @ \cup mask]
           \/ blocked' = [blocked EXCEPT ![self] = @ \ mask]
        /\ UNCHANGED <<procVars, handlers, pending, killing, disp>>
    BY <1>5 DEF sigblock, sigunblock
  <2>2. CtxTypeOK'
    BY <1>0, <2>1, SignalAssumption DEF CtxTypeOK
  <2>3. \A j \in Contexts : j # self => blocked'[j] = blocked[j]
    BY <1>0, <2>1 DEF CtxTypeOK
  <2>4. KillInv'
    BY <1>0, <2>1 DEF KillInv, procVars
  <2> QED
    BY <1>0, <2>1, <2>2, <2>3, <2>4, ContextStep
<1>6. current_proc \in Slots /\ current_proc \in Owned /\ self = pid[current_proc] /\ disp[current_proc] \in Calls
  BY <1>0, SelfType DEF CtxTypeOK
<1>7. CASE Dispatch
  <2> DEFINE call == [left |-> pending[self] \ blocked[self], stale |-> {}]
  <2>1. self \in Contexts /\ Deliver(disp[current_proc], call)
    BY <1>7, SelfType DEF Dispatch
  <2>2. call \in [left : SUBSET Sigs, stale : SUBSET Sigs] /\ call.left \ call.stale \subseteq pending[self]
    BY <1>0, <2>1 DEF CtxTypeOK
  <2> HIDE DEF call
  <2>3. \A k \in 1 .. Len(disp[current_proc]) :
          disp[current_proc][k].left \ disp[current_proc][k].stale \subseteq pending[self]
    BY <1>6 DEF SigInv, LeftInv
  <2> QED
    BY <1>6, <2>1, <2>2, <2>3, DeliverInv
<1>8. CASE DispatchMore
  <2> DEFINE calls == disp[current_proc]
  <2>1. calls # << >> /\ Deliver(Outer(calls), Inner(calls))
    BY <1>8 DEF DispatchMore
  <2>2. \A k \in 1 .. Len(calls) : self \in Contexts /\ calls[k].left \ calls[k].stale \subseteq pending[self]
    BY <1>6 DEF SigInv, LeftInv
  <2>3. calls \in Calls
    BY <1>6
  <2> HIDE DEF calls
  <2>4. /\ Outer(calls) \in Calls /\ Len(Outer(calls)) = Len(calls) - 1 /\ Len(calls) \in Nat
        /\ \A k \in 1 .. Len(calls) - 1 : Outer(calls)[k] = calls[k]
        /\ Inner(calls) \in [left : SUBSET Sigs, stale : SUBSET Sigs]
        /\ Inner(calls) = calls[Len(calls)] /\ Len(calls) \in 1 .. Len(calls)
    BY <2>1, <2>3, InnerOuter
  <2>5. self \in Contexts /\ Inner(calls).left \ Inner(calls).stale \subseteq pending[self]
    BY <2>2, <2>4
  <2>6. ASSUME NEW k \in 1 .. Len(Outer(calls))
        PROVE  Outer(calls)[k].left \ Outer(calls)[k].stale \subseteq pending[self]
    <3>1. k \in 1 .. Len(calls) - 1 /\ k \in 1 .. Len(calls)
      BY <2>4
    <3> QED
      BY <2>2, <2>4, <3>1
  <2> QED
    BY <2>1, <2>4, <2>5, <2>6, DeliverInv
<1>9. CASE DispatchEnd
  <2> DEFINE calls == disp[current_proc]
  <2>1. calls # << >> /\ disp' = [disp EXCEPT ![current_proc] = Outer(calls)]
        /\ UNCHANGED <<procVars, handlers, pending, blocked, killing>>
    BY <1>9 DEF DispatchEnd, ctxVars
  <2>2. ProcInv' /\ Used' = Used /\ UNCHANGED <<pid, next_pid>>
    BY <2>1, ProcStutter DEF SigInv, procVars, slotVars
  <2>3. /\ Outer(calls) \in Calls /\ Len(Outer(calls)) = Len(calls) - 1 /\ Len(calls) \in Nat
        /\ \A k \in 1 .. Len(calls) - 1 : Outer(calls)[k] = calls[k]
    BY <1>6, <2>1, InnerOuter
  <2>4. CtxTypeOK'
    BY <1>0, <2>1, <2>3 DEF CtxTypeOK
  <2>5. disp'[current_proc] = Outer(calls) /\ \A s \in Slots : s # current_proc => disp'[s] = disp[s]
    BY <1>0, <1>6, <2>1 DEF CtxTypeOK
  <2>6. \A s \in Owned : s \in Slots
    BY ProcessAssumption DEF Owned, Used, idle, Slots
  <2>7. ASSUME NEW s \in Owned, NEW k \in 1 .. Len(disp'[s])
        PROVE  k \in 1 .. Len(disp[s]) /\ disp'[s][k] = disp[s][k]
    <3>1. CASE s # current_proc
      BY <2>5, <2>6, <3>1
    <3>2. CASE s = current_proc
      <4>1. k \in 1 .. Len(calls) - 1 /\ k \in 1 .. Len(calls)
        BY <2>3, <2>5, <3>2
      <4> QED
        BY <2>3, <2>5, <3>2, <4>1
    <3> QED
      BY <3>1, <3>2
  <2>8. LeftInv'
    <3> SUFFICES ASSUME NEW s \in Owned, NEW k \in 1 .. Len(disp'[s])
                 PROVE  pid[s] \in Contexts /\ disp'[s][k].left \ disp'[s][k].stale \subseteq pending[pid[s]]
      BY <2>1, <2>2 DEF LeftInv, Owned
    <3> QED
      BY <2>7 DEF SigInv, LeftInv
  <2>9. FreshContext' /\ KillInv'
    BY <2>1, <2>2 DEF SigInv, FreshContext, KillInv
  <2> QED
    BY <2>2, <2>4, <2>8, <2>9 DEF SigInv
<1>10. CASE UNCHANGED vars
  <2>1. UNCHANGED <<procVars, handlers, pending, blocked, killing, disp>>
    BY <1>10 DEF vars, ctxVars
  <2>2. CtxTypeOK' /\ KillInv'
    BY <1>0, <2>1 DEF CtxTypeOK, KillInv, procVars
  <2> QED
    BY <1>0, <2>1, <2>2, ContextStep
<1> QED
  BY <1>1, <1>2, <1>3, <1>4, <1>5, <1>7, <1>8, <1>9, <1>10 DEF Next

\* The contexts are blank at the start.
LEMMA SigInitInv == Init => SigInv
<1> SUFFICES ASSUME Init PROVE SigInv
  OBVIOUS
<1>1. /\ ProcInit
      /\ handlers = [i \in Contexts |-> [s \in Sigs |-> "SIG_DFL"]]
      /\ pending = [i \in Contexts |-> {}] /\ blocked = [i \in Contexts |-> {}]
      /\ killing = {} /\ disp = [s \in Slots |-> << >>]
  BY DEF Init
<1>2. << >> \in Calls /\ 1 .. Len(<< >>) = {}
  BY DEF Calls
<1>3. CtxTypeOK /\ KillInv
  BY <1>1, <1>2 DEF CtxTypeOK, KillInv
<1>4. \A s \in Owned : s \in Slots
  BY ProcessAssumption DEF Owned, Used, idle, Slots
<1>5. LeftInv
  BY <1>1, <1>2, <1>4 DEF LeftInv
<1>6. FreshContext
  BY <1>1 DEF FreshContext
<1> QED
  BY <1>1, <1>3, <1>5, <1>6, ProcInitInv DEF SigInv

\* The inductive invariant of the process manager and the signals together.
THEOREM SigInductive == Spec => []SigInv
BY SigInitInv, SigNextInv, PTL DEF Spec

\* No process finds signals, masks or handlers that another left behind: kill
\* and signal reach only contexts of pids that were handed out (signal.c),
\* also when the target of kill has gone before kill has the lock.
THEOREM NewProcessContextFresh == Spec => []FreshContext
BY SigInductive, PTL DEF SigInv

\* What signal_dispatch delivers from its snapshot is still pending, or was
\* delivered by a call of signal_dispatch inside it: for any calls, by
\* handlers, interrupts or other processes, while the lock is given up, and
\* for calls nested to any depth.
THEOREM StaleOnlyByNesting == Spec => []SnapshotPending
<1>1. SigInv => SnapshotPending
  BY DEF SigInv, LeftInv, SnapshotPending, Owned
<1> QED
  BY <1>1, SigInductive, PTL
=============================================================================
