-------------------------- MODULE KeyboardIrqProofs ---------------------------
(***************************************************************************)
(* Proofs about KeyboardIrq, for any number of tasks, blocks and handlers  *)
(* under way, nested on one stack or spread over several.                  *)
(***************************************************************************)
EXTENDS KeyboardIrq, FiniteSetTheorems, ProofBasics

Places == {"sleep", "int", "turn", "heap", "unlock", "assign", "finish"}
Frame == [cmd : Words, pc : Places, ptr : Nat]

\* The handlers on the stacks, never more than the bound on one.
FramesOK ==
  /\ frames \in [Tasks -> Seq(Frame)]
  /\ \A t \in Tasks : Len(frames[t]) <= MaxFrames
  /\ test_alloc_ptr \in Nat
  /\ line \in Words \cup {"", "text"}

\* The i-th handler on the stack of t is between mutex_lock and mutex_unlock.
In(t, i) == frames[t][i].pc \in {"heap", "unlock"}

\* Such a handler is on the stack of the mutex's owner, there is one at most
\* there, and there is one if the mutex is locked.
MutexInv ==
  /\ \A t \in Tasks : \A i \in 1 .. Len(frames[t]) : In(t, i) =>
       /\ heap_mutex = t
       /\ \A j \in 1 .. Len(frames[t]) : In(t, j) => j = i
  /\ heap_mutex # NULL =>
       /\ heap_mutex \in Tasks
       /\ \E i \in 1 .. Len(frames[heap_mutex]) : In(heap_mutex, i)

\* Where a patient user's only command is, and what it has done so far.
Tracked(f) ==
  CASE f.pc \in {"sleep", "int", "turn", "heap"} ->
         /\ live = {test_alloc_ptr} \ {0}
         /\ test_alloc_ptr = IF f.cmd \in Allocs THEN 0 ELSE f.ptr
    [] f.pc \in {"unlock", "assign"} ->
         live = IF f.cmd \in Allocs THEN {f.ptr} \ {0} ELSE {}
    [] OTHER -> live = {test_alloc_ptr} \ {0}

\* A patient user has one command under way at most.
PatientInv ==
  user = "patient" =>
    /\ \A t, u \in Tasks : frames[t] # <<>> /\ frames[u] # <<>> => t = u
    /\ \A t \in Tasks : frames[t] # <<>> => Len(frames[t]) = 1 /\ Tracked(frames[t][1])
    /\ AllocTracked

\* The inductive invariant.
IInv == FramesOK /\ MutexInv /\ PatientInv

-----------------------------------------------------------------------------
\* A stack of handlers is a sequence with a last element, if it is not empty.
LEMMA StackType ==
  ASSUME FramesOK, NEW t \in Tasks
  PROVE  /\ frames[t] \in Seq(Frame) /\ Len(frames[t]) \in Nat
         /\ DOMAIN frames[t] = 1 .. Len(frames[t])
         /\ frames[t] # <<>> <=> Len(frames[t]) # 0
         /\ frames[t] # <<>> => Len(frames[t]) \in 1 .. Len(frames[t])
<1>1. frames[t] \in Seq(Frame)
  BY DEF FramesOK
<1>2. Len(frames[t]) \in Nat /\ DOMAIN frames[t] = 1 .. Len(frames[t])
  BY <1>1, LenProperties
<1>3. frames[t] # <<>> <=> Len(frames[t]) # 0
  BY <1>1, EmptySeq
<1>4. frames[t] # <<>> => Len(frames[t]) \in 1 .. Len(frames[t])
  BY <1>2, <1>3
<1> QED
  BY <1>1, <1>2, <1>3, <1>4

\* The innermost handler of t becomes g; every other one stays as it is.
LEMMA TopStep ==
  ASSUME FramesOK, NEW t \in Tasks, frames[t] # <<>>, NEW g \in Frame,
         frames' = [frames EXCEPT ![t] = [frames[t] EXCEPT ![Len(frames[t])] = g]]
  PROVE  /\ frames' \in [Tasks -> Seq(Frame)]
         /\ \A u \in Tasks : Len(frames'[u]) = Len(frames[u])
         /\ \A u \in Tasks : u # t => frames'[u] = frames[u]
         /\ \A i \in 1 .. Len(frames[t]) :
              frames'[t][i] = IF i = Len(frames[t]) THEN g ELSE frames[t][i]
         /\ Len(frames[t]) \in 1 .. Len(frames[t])
<1>1. frames[t] \in Seq(Frame) /\ Len(frames[t]) \in 1 .. Len(frames[t])
  BY StackType
<1> DEFINE s == [frames[t] EXCEPT ![Len(frames[t])] = g]
<1>2. /\ s \in Seq(Frame) /\ Len(s) = Len(frames[t])
      /\ \A i \in 1 .. Len(frames[t]) : s[i] = IF i = Len(frames[t]) THEN g ELSE frames[t][i]
  BY <1>1, ExceptSeq
<1>3. /\ frames' = [frames EXCEPT ![t] = s] /\ frames \in [Tasks -> Seq(Frame)]
  BY DEF FramesOK
<1> HIDE DEF s
<1> QED
  BY <1>1, <1>2, <1>3

\* Goto moves the innermost handler to another place.
LEMMA GotoStep ==
  ASSUME FramesOK, NEW t \in Tasks, frames[t] # <<>>, NEW l \in Places, Goto(t, l)
  PROVE  \E g \in Frame :
           /\ g.pc = l /\ g.cmd = Last(frames[t]).cmd /\ g.ptr = Last(frames[t]).ptr
           /\ frames' = [frames EXCEPT ![t] = [frames[t] EXCEPT ![Len(frames[t])] = g]]
<1>1. frames[t] \in Seq(Frame) /\ Len(frames[t]) \in 1 .. Len(frames[t])
  BY StackType
<1>2. frames[t][Len(frames[t])] \in Frame
  BY <1>1, ElementOfSeq
<1> DEFINE g == [frames[t][Len(frames[t])] EXCEPT !.pc = l]
<1>3. /\ g \in Frame /\ g.pc = l
      /\ g.cmd = frames[t][Len(frames[t])].cmd /\ g.ptr = frames[t][Len(frames[t])].ptr
  BY <1>2 DEF Frame
<1>4. frames' = [frames EXCEPT ![t] = [frames[t] EXCEPT ![Len(frames[t])] = g]]
  BY <1>1 DEF Goto, FramesOK
<1> QED
  BY <1>3, <1>4 DEF Last

\* A handler g is pushed on the stack of t.
LEMMA PushStep ==
  ASSUME FramesOK, NEW t \in Tasks, NEW g \in Frame,
         frames' = [frames EXCEPT ![t] = Append(frames[t], g)]
  PROVE  /\ frames' \in [Tasks -> Seq(Frame)]
         /\ \A u \in Tasks : u # t => frames'[u] = frames[u]
         /\ Len(frames'[t]) = Len(frames[t]) + 1
         /\ \A i \in 1 .. Len(frames[t]) :
              i \in 1 .. Len(frames'[t]) /\ frames'[t][i] = frames[t][i]
         /\ \A i \in 1 .. Len(frames'[t]) : i = Len(frames'[t]) \/ i \in 1 .. Len(frames[t])
         /\ Len(frames'[t]) \in 1 .. Len(frames'[t]) /\ frames'[t][Len(frames'[t])] = g
<1> DEFINE s == Append(frames[t], g)
<1>1. frames[t] \in Seq(Frame) /\ Len(frames[t]) \in Nat
  BY StackType
<1>2. /\ s \in Seq(Frame) /\ Len(s) = Len(frames[t]) + 1
      /\ \A i \in 1 .. Len(frames[t]) : s[i] = frames[t][i]
      /\ s[Len(frames[t]) + 1] = g
  BY <1>1, AppendProperties
<1>3. frames' = [frames EXCEPT ![t] = s] /\ frames \in [Tasks -> Seq(Frame)]
  BY DEF FramesOK
<1> HIDE DEF s
<1>4. frames' \in [Tasks -> Seq(Frame)] /\ frames'[t] = s
  BY <1>2, <1>3
<1>5. \A u \in Tasks : u # t => frames'[u] = frames[u]
  BY <1>3
<1>6. \A i \in 1 .. Len(frames[t]) : i \in 1 .. Len(s)
  BY <1>1, <1>2
<1>7. \A i \in 1 .. Len(s) : i = Len(s) \/ i \in 1 .. Len(frames[t])
  BY <1>1, <1>2
<1>8. Len(s) \in 1 .. Len(s)
  BY <1>1, <1>2
<1> QED
  BY <1>2, <1>4, <1>5, <1>6, <1>7, <1>8

\* The innermost handler of t is popped.
LEMMA PopStep ==
  ASSUME FramesOK, NEW t \in Tasks, frames[t] # <<>>,
         frames' = [frames EXCEPT ![t] = Front(frames[t])]
  PROVE  /\ frames' \in [Tasks -> Seq(Frame)]
         /\ \A u \in Tasks : u # t => frames'[u] = frames[u]
         /\ Len(frames'[t]) = Len(frames[t]) - 1
         /\ \A i \in 1 .. Len(frames'[t]) :
              i \in 1 .. Len(frames[t]) /\ frames'[t][i] = frames[t][i]
         /\ \A i \in 1 .. Len(frames[t]) : i = Len(frames[t]) \/ i \in 1 .. Len(frames'[t])
<1> DEFINE n == Len(frames[t])
           s == SubSeq(frames[t], 1, n - 1)
<1>1. frames[t] \in Seq(Frame) /\ n \in Nat /\ n # 0
  BY StackType
<1>2. 1 \in 1 .. n + 1 /\ n - 1 \in (1 - 1) .. n /\ n - 1 \in Nat
  BY <1>1
<1>3. /\ s \in Seq(Frame) /\ Len(s) = n - 1
      /\ \A i \in 1 .. n - 1 : s[i] = frames[t][i]
  BY <1>1, <1>2, SubSeqProperties
<1>4. frames' = [frames EXCEPT ![t] = s] /\ frames \in [Tasks -> Seq(Frame)]
  BY DEF FramesOK, Front
<1> HIDE DEF s
<1>5. frames' \in [Tasks -> Seq(Frame)] /\ frames'[t] = s
  BY <1>3, <1>4
<1>6. \A u \in Tasks : u # t => frames'[u] = frames[u]
  BY <1>4
<1>7. /\ \A i \in 1 .. n - 1 : i \in 1 .. n
      /\ \A i \in 1 .. n : i = n \/ i \in 1 .. n - 1
  BY <1>1
<1> QED
  BY <1>3, <1>5, <1>6, <1>7

\* A stack that the bound still lets grow is shorter than the bound.
LEMMA RoomForFrame ==
  ASSUME FramesOK, NEW t \in Tasks,
         Cardinality({p \in Tasks \X (1 .. MaxFrames) : p[2] \in DOMAIN frames[p[1]]}) < MaxFrames
  PROVE  Len(frames[t]) < MaxFrames
<1> SUFFICES ASSUME Len(frames[t]) >= MaxFrames PROVE FALSE
  BY KeyboardIrqAssumption, StackType
<1> DEFINE S == {p \in Tasks \X (1 .. MaxFrames) : p[2] \in DOMAIN frames[p[1]]}
           f == [i \in 1 .. MaxFrames |-> <<t, i>>]
<1>1. MaxFrames \in Nat /\ IsFiniteSet(1 .. MaxFrames) /\ Cardinality(1 .. MaxFrames) = MaxFrames
  BY KeyboardIrqAssumption, FS_Interval
<1>2. IsFiniteSet(S)
  <2>1. IsFiniteSet(Tasks)
    BY TaskAssumption, FS_Interval DEF Tasks
  <2>2. IsFiniteSet(Tasks \X (1 .. MaxFrames))
    BY <1>1, <2>1, FS_Product
  <2> QED
    BY <2>2, FS_Subset
<1>3. f \in Injection(1 .. MaxFrames, S)
  <2>1. \A i \in 1 .. MaxFrames : i \in DOMAIN frames[t]
    <3>1. frames[t] \in Seq(Frame) /\ DOMAIN frames[t] = 1 .. Len(frames[t]) /\ Len(frames[t]) \in Nat
      BY StackType
    <3> QED
      BY <1>1, <3>1
  <2>2. \A i \in 1 .. MaxFrames : f[i] \in S
    BY <2>1
  <2> QED
    BY <2>2 DEF Injection, IsInjective
<1>4. MaxFrames <= Cardinality(S)
  BY <1>1, <1>2, <1>3, FS_Injection
<1>5. Cardinality(S) \in Nat
  BY <1>2, FS_CardinalityType
<1> QED
  BY <1>1, <1>4, <1>5

-----------------------------------------------------------------------------
\* A step of the innermost handler of t, which stays on the stack: the mutex
\* as it was, or taken, or released with the section left.
LEMMA TopInv ==
  ASSUME IInv, NEW t \in Tasks, frames[t] # <<>>, NEW g \in Frame,
         frames' = [frames EXCEPT ![t] = [frames[t] EXCEPT ![Len(frames[t])] = g]],
         user' = user, line' = line, test_alloc_ptr' \in Nat,
         \/ heap_mutex' = heap_mutex /\ (g.pc \in {"heap", "unlock"} <=> In(t, Len(frames[t])))
         \/ heap_mutex = NULL /\ heap_mutex' = t /\ g.pc = "heap"
         \/ heap_mutex' = NULL /\ g.pc \notin {"heap", "unlock"} /\ In(t, Len(frames[t])),
         user = "patient" /\ Tracked(Last(frames[t])) => Tracked(g)'
  PROVE  IInv'
<1> DEFINE n == Len(frames[t])
<1>1. /\ frames' \in [Tasks -> Seq(Frame)]
      /\ \A u \in Tasks : Len(frames'[u]) = Len(frames[u])
      /\ \A u \in Tasks : u # t => frames'[u] = frames[u]
      /\ \A i \in 1 .. n : frames'[t][i] = IF i = n THEN g ELSE frames[t][i]
      /\ n \in 1 .. n
  BY TopStep DEF IInv
<1>2. FramesOK'
  BY <1>1 DEF IInv, FramesOK
<1>3. MutexInv'
  <2>1. \A u \in Tasks : \A i \in 1 .. Len(frames[u]) :
          In(u, i)' <=> IF u = t /\ i = n THEN g.pc \in {"heap", "unlock"} ELSE In(u, i)
    BY <1>1 DEF In
  <2>2. /\ \A u \in Tasks : \A i \in 1 .. Len(frames[u]) : In(u, i) =>
             /\ heap_mutex = u
             /\ \A j \in 1 .. Len(frames[u]) : In(u, j) => j = i
        /\ heap_mutex # NULL =>
             /\ heap_mutex \in Tasks
             /\ \E i \in 1 .. Len(frames[heap_mutex]) : In(heap_mutex, i)
    BY DEF IInv, MutexInv
  <2>3. NULL \notin Tasks
    BY TaskAssumption DEF NULL, Tasks
  <2> HIDE DEF n
  <2>4. n = Len(frames[t])
    BY DEF n
  <2>5. \A u \in Tasks : \A i \in 1 .. Len(frames'[u]) : In(u, i)' =>
          heap_mutex' = u /\ \A j \in 1 .. Len(frames'[u]) : In(u, j)' => j = i
    <3> SUFFICES ASSUME NEW u \in Tasks, NEW i \in 1 .. Len(frames[u]), In(u, i)'
                 PROVE  heap_mutex' = u /\ \A j \in 1 .. Len(frames[u]) : In(u, j)' => j = i
      BY <1>1
    <3>1. CASE heap_mutex' = heap_mutex /\ (g.pc \in {"heap", "unlock"} <=> In(t, n))
      BY <1>1, <2>1, <2>2, <3>1
    <3>2. CASE heap_mutex = NULL /\ heap_mutex' = t /\ g.pc = "heap"
      BY <1>1, <2>1, <2>2, <2>3, <3>2
    <3>3. CASE heap_mutex' = NULL /\ g.pc \notin {"heap", "unlock"} /\ In(t, n)
      BY <1>1, <2>1, <2>2, <2>4, <3>3
    <3> QED
      BY <2>4, <3>1, <3>2, <3>3
  <2>6. heap_mutex' # NULL =>
          heap_mutex' \in Tasks /\ \E i \in 1 .. Len(frames'[heap_mutex']) : In(heap_mutex, i)'
    BY <1>1, <2>1, <2>2, <2>4
  <2> QED
    BY <2>5, <2>6 DEF MutexInv
<1>4. PatientInv'
  <2> SUFFICES ASSUME user = "patient"
               PROVE  /\ \A v, u \in Tasks : frames'[v] # <<>> /\ frames'[u] # <<>> => v = u
                      /\ \A v \in Tasks : frames'[v] # <<>> =>
                           Len(frames'[v]) = 1 /\ Tracked(frames[v][1])'
                      /\ AllocTracked'
    BY DEF PatientInv
  <2>1. /\ \A u \in Tasks : frames[u] # <<>> => u = t
        /\ n = 1 /\ Tracked(frames[t][1])
    BY DEF IInv, PatientInv
  <2>2. \A u \in Tasks : u # t => frames'[u] = <<>>
    BY <1>1, <2>1
  <2>3. frames'[t][1] = g /\ Len(frames'[t]) = 1 /\ frames[t][1] = Last(frames[t])
    BY <1>1, <2>1 DEF Last
  <2>4. frames'[t] # <<>>
    BY <2>3
  <2>5. Tracked(frames[t][1])'
    BY <2>1, <2>3 DEF Tracked
  <2>6. AllocTracked'
    BY <2>4 DEF AllocTracked
  <2> QED
    BY <2>2, <2>3, <2>5, <2>6
<1> QED
  BY <1>2, <1>3, <1>4 DEF IInv

\* A step that touches no handler and not the heap: a key, a worker, the timer.
LEMMA QuietInv ==
  ASSUME IInv, UNCHANGED <<frames, heap_mutex, live, test_alloc_ptr, user>>,
         line' \in Words \cup {"", "text"}
  PROVE  IInv'
<1>1. FramesOK' /\ MutexInv'
  BY DEF IInv, FramesOK, MutexInv, In
<1>2. PatientInv'
  BY DEF IInv, PatientInv, Tracked, AllocTracked
<1> QED
  BY <1>1, <1>2 DEF IInv

\* Enter starts a handler on top of whatever the stack of t holds.
LEMMA EnterInv ==
  ASSUME IInv, NEW t \in Tasks, EnterHeap(t)
  PROVE  IInv'
<1> DEFINE n == Len(frames[t])
           m == Len(frames'[t])
           g == [cmd |-> line, pc |-> Turn(t).pc, ptr |-> IF line = "free" THEN test_alloc_ptr ELSE 0]
<1>1. n \in Nat /\ n < MaxFrames /\ MaxFrames \in Nat /\ test_alloc_ptr \in Nat
  BY StackType, RoomForFrame, KeyboardIrqAssumption DEF IInv, FramesOK, EnterHeap
<1>2. /\ frames' = [frames EXCEPT ![t] = Append(frames[t], g)]
      /\ UNCHANGED <<user, line, test_alloc_ptr, live>> /\ MayPress
      /\ heap_mutex' = IF heap_mutex = NULL THEN t ELSE heap_mutex
  BY DEF EnterHeap, shellVars, Turn
<1>3. (line \in Allocs /\ test_alloc_ptr = 0) \/ (line = "free" /\ test_alloc_ptr # 0)
  <2>1. NeedsHeap
    BY DEF EnterHeap
  <2> QED
    BY <2>1 DEF NeedsHeap
<1>4. /\ g \in Frame /\ g.pc = (IF heap_mutex = NULL THEN "heap" ELSE "sleep")
      /\ g.cmd = line /\ g.ptr = (IF line = "free" THEN test_alloc_ptr ELSE 0)
  <2>1. line \in Words
    BY <1>3 DEF Words
  <2>2. Turn(t).pc = (IF heap_mutex = NULL THEN "heap" ELSE "sleep") /\ Turn(t).pc \in Places
    BY DEF Turn, Places
  <2>3. (IF line = "free" THEN test_alloc_ptr ELSE 0) \in Nat
    BY <1>1
  <2> QED
    BY <2>1, <2>2, <2>3 DEF Frame
<1> HIDE DEF g
<1>5. /\ frames' \in [Tasks -> Seq(Frame)]
      /\ \A u \in Tasks : u # t => frames'[u] = frames[u]
      /\ m = n + 1
      /\ \A i \in 1 .. n : i \in 1 .. m /\ frames'[t][i] = frames[t][i]
      /\ \A i \in 1 .. m : i = m \/ i \in 1 .. n
      /\ m \in 1 .. m /\ frames'[t][m] = g
  BY <1>2, <1>4, PushStep DEF IInv
<1>6. FramesOK'
  <2>1. \A u \in Tasks : u # t => Len(frames'[u]) <= MaxFrames
    BY <1>5 DEF IInv, FramesOK
  <2>2. m <= MaxFrames
    BY <1>1, <1>5
  <2>3. test_alloc_ptr' \in Nat /\ line' \in Words \cup {"", "text"}
    BY <1>2 DEF IInv, FramesOK
  <2> QED
    BY <1>5, <2>1, <2>2, <2>3 DEF FramesOK
<1>n. n = Len(frames[t]) /\ m = Len(frames'[t])
  OBVIOUS
<1> HIDE DEF n, m
<1>7. MutexInv'
  <2>1. /\ \A u \in Tasks : \A i \in 1 .. Len(frames[u]) : In(u, i) =>
             /\ heap_mutex = u
             /\ \A j \in 1 .. Len(frames[u]) : In(u, j) => j = i
        /\ heap_mutex # NULL =>
             /\ heap_mutex \in Tasks
             /\ \E i \in 1 .. Len(frames[heap_mutex]) : In(heap_mutex, i)
        /\ NULL \notin Tasks
    BY TaskAssumption DEF IInv, MutexInv, NULL, Tasks
  <2>2. /\ \A u \in Tasks : u # t => \A i \in 1 .. Len(frames[u]) : In(u, i)' <=> In(u, i)
        /\ \A i \in 1 .. n : In(t, i)' <=> In(t, i)
    BY <1>5 DEF In
  <2>4. CASE heap_mutex = NULL
    <3>1. \A u \in Tasks : \A i \in 1 .. Len(frames[u]) : ~ In(u, i)
      BY <2>1, <2>4
    <3>2. heap_mutex' = t
      BY <1>2, <2>4
    <3>3. \A u \in Tasks : \A i \in 1 .. Len(frames'[u]) : In(u, i)' => u = t /\ i = m
      BY <1>5, <1>n, <2>2, <3>1
    <3>4. \E i \in 1 .. Len(frames'[t]) : frames'[t][i].pc \in {"heap", "unlock"}
      BY <1>4, <1>5, <1>n, <2>4
    <3> QED
      BY <3>2, <3>3, <3>4 DEF MutexInv, In
  <2>5. CASE heap_mutex # NULL
    <3>1. heap_mutex' = heap_mutex
      BY <1>2, <2>5
    <3>2. \A u \in Tasks : \A i \in 1 .. Len(frames'[u]) :
            In(u, i)' => i \in 1 .. Len(frames[u]) /\ In(u, i)
      <4> SUFFICES ASSUME NEW u \in Tasks, NEW i \in 1 .. Len(frames'[u]), In(u, i)'
                   PROVE  i \in 1 .. Len(frames[u]) /\ In(u, i)
        OBVIOUS
      <4>1. CASE u # t
        BY <1>5, <2>2, <4>1
      <4>2. CASE u = t
        BY <1>4, <1>5, <1>n, <2>2, <2>5, <4>2 DEF In
      <4> QED
        BY <4>1, <4>2
    <3>3. PICK i \in 1 .. Len(frames[heap_mutex]) : In(heap_mutex, i)
      BY <2>1, <2>5
    <3>4. i \in 1 .. Len(frames'[heap_mutex]) /\ frames'[heap_mutex][i] = frames[heap_mutex][i]
      BY <1>5, <1>n, <2>1, <2>5, <3>3
    <3>5. \E j \in 1 .. Len(frames'[heap_mutex']) : In(heap_mutex, j)'
      BY <3>1, <3>3, <3>4 DEF In
    <3>6. \A u \in Tasks : \A k \in 1 .. Len(frames'[u]) : In(u, k)' =>
             /\ heap_mutex' = u
             /\ \A j \in 1 .. Len(frames'[u]) : In(u, j)' => j = k
      BY <2>1, <3>1, <3>2
    <3> QED
      BY <2>1, <2>5, <3>1, <3>5, <3>6 DEF MutexInv
  <2> QED
    BY <2>4, <2>5
<1>8. PatientInv'
  <2> SUFFICES ASSUME user = "patient"
               PROVE  /\ \A v, u \in Tasks : frames'[v] # <<>> /\ frames'[u] # <<>> => v = u
                      /\ \A v \in Tasks : frames'[v] # <<>> =>
                           Len(frames'[v]) = 1 /\ Tracked(frames[v][1])'
                      /\ AllocTracked'
    BY <1>2 DEF PatientInv
  <2>1. \A u \in Tasks : frames[u] = <<>>
    BY <1>2 DEF MayPress
  <2>2. n = 0 /\ live = {test_alloc_ptr} \ {0}
    BY <1>n, <2>1 DEF IInv, PatientInv, AllocTracked
  <2>3. Len(frames'[t]) = 1 /\ frames'[t][1] = g /\ frames'[t] # <<>>
    <3>1. m = 1
      BY <1>5, <2>2
    <3>2. Len(frames'[t]) = 1 /\ frames'[t][1] = g
      BY <1>5, <1>n, <3>1
    <3>3. frames'[t] # <<>>
      BY <3>2
    <3> QED
      BY <3>2, <3>3
  <2>4. Tracked(frames[t][1])'
    <3>1. g.pc \in {"sleep", "heap"} /\ test_alloc_ptr = IF g.cmd \in Allocs THEN 0 ELSE g.ptr
      BY <1>3, <1>4 DEF Allocs
    <3> QED
      BY <1>2, <2>2, <2>3, <3>1 DEF Tracked
  <2>5. AllocTracked'
    BY <2>3 DEF AllocTracked
  <2> QED
    BY <1>5, <2>1, <2>3, <2>4, <2>5
<1> QED
  BY <1>6, <1>7, <1>8 DEF IInv

\* The handler returns: its frame leaves the stack.
LEMMA FinishInv ==
  ASSUME IInv, NEW t \in Tasks, Finish(t)
  PROVE  IInv'
<1> DEFINE n == Len(frames[t])
<1>1. /\ frames[t] # <<>> /\ frames[t][n].pc = "finish" /\ line' = ""
      /\ frames' = [frames EXCEPT ![t] = Front(frames[t])]
      /\ UNCHANGED <<user, test_alloc_ptr, live, heap_mutex>>
  BY DEF Finish, At, Last, heapVars
<1>2. /\ frames' \in [Tasks -> Seq(Frame)]
      /\ \A u \in Tasks : u # t => frames'[u] = frames[u]
      /\ Len(frames'[t]) = n - 1
      /\ \A i \in 1 .. Len(frames'[t]) : i \in 1 .. n /\ frames'[t][i] = frames[t][i]
      /\ \A i \in 1 .. n : i = n \/ i \in 1 .. Len(frames'[t])
  BY <1>1, PopStep DEF IInv
<1>3. n \in Nat /\ n <= MaxFrames /\ MaxFrames \in Nat
  BY StackType, KeyboardIrqAssumption DEF IInv, FramesOK
<1>4. FramesOK'
  <2>1. Len(frames'[t]) <= MaxFrames
    BY <1>2, <1>3
  <2>2. \A u \in Tasks : u # t => Len(frames'[u]) <= MaxFrames
    BY <1>2 DEF IInv, FramesOK
  <2>3. test_alloc_ptr' \in Nat /\ line' \in Words \cup {"", "text"}
    BY <1>1 DEF IInv, FramesOK
  <2> QED
    BY <1>2, <2>1, <2>2, <2>3 DEF FramesOK
<1>5. MutexInv'
  <2>1. ~ In(t, n)
    BY <1>1 DEF In
  <2>2. \A u \in Tasks : \A i \in 1 .. Len(frames'[u]) :
          i \in 1 .. Len(frames[u]) /\ (In(u, i)' <=> In(u, i))
    BY <1>2 DEF In
  <2>3. \A u \in Tasks : \A i \in 1 .. Len(frames[u]) :
          In(u, i) => i \in 1 .. Len(frames'[u]) /\ In(u, i)'
    BY <1>2, <2>1, <2>2
  <2>4. /\ \A u \in Tasks : \A i \in 1 .. Len(frames[u]) : In(u, i) =>
             /\ heap_mutex = u
             /\ \A j \in 1 .. Len(frames[u]) : In(u, j) => j = i
        /\ heap_mutex # NULL =>
             /\ heap_mutex \in Tasks
             /\ \E i \in 1 .. Len(frames[heap_mutex]) : In(heap_mutex, i)
    BY DEF IInv, MutexInv
  <2>5. \A u \in Tasks : \A i \in 1 .. Len(frames'[u]) : In(u, i)' =>
             /\ heap_mutex' = u
             /\ \A j \in 1 .. Len(frames'[u]) : In(u, j)' => j = i
    BY <1>1, <2>2, <2>4
  <2>6. heap_mutex' # NULL =>
             /\ heap_mutex' \in Tasks
             /\ \E i \in 1 .. Len(frames'[heap_mutex']) : In(heap_mutex, i)'
    <3> SUFFICES ASSUME heap_mutex # NULL
                 PROVE  heap_mutex \in Tasks /\ \E i \in 1 .. Len(frames'[heap_mutex]) : In(heap_mutex, i)'
      BY <1>1
    <3>1. PICK i \in 1 .. Len(frames[heap_mutex]) : In(heap_mutex, i)
      BY <2>4
    <3>2. i \in 1 .. Len(frames'[heap_mutex]) /\ frames'[heap_mutex][i].pc \in {"heap", "unlock"}
      BY <2>3, <2>4, <3>1 DEF In
    <3>3. In(heap_mutex, i)'
      BY <1>1, <3>2 DEF In
    <3> QED
      BY <2>4, <3>2, <3>3
  <2> QED
    BY <2>5, <2>6 DEF MutexInv
<1>6. PatientInv'
  <2> SUFFICES ASSUME user = "patient" PROVE (\A u \in Tasks : frames'[u] = <<>>) /\ AllocTracked'
    BY <1>1 DEF PatientInv
  <2>1. (\A u \in Tasks : u # t => frames[u] = <<>>) /\ n = 1 /\ Tracked(frames[t][1])
    BY <1>1 DEF IInv, PatientInv
  <2>2. Len(frames'[t]) = 0 /\ frames'[t] \in Seq(Frame)
    BY <1>2, <2>1
  <2>3. frames'[t] = <<>>
    BY <2>2, EmptySeq
  <2>4. live = {test_alloc_ptr} \ {0}
    BY <1>1, <2>1 DEF Tracked
  <2> QED
    BY <1>1, <1>2, <2>1, <2>3, <2>4 DEF AllocTracked
<1> QED
  BY <1>4, <1>5, <1>6 DEF IInv

\* The innermost handler of t, if the CPU is in it, and its fields.
LEMMA TopType ==
  ASSUME IInv, NEW t \in Tasks, NEW l, At(t, l)
  PROVE  /\ frames[t] # <<>> /\ Last(frames[t]) \in Frame /\ Last(frames[t]).pc = l
         /\ Last(frames[t]).cmd \in Words /\ Last(frames[t]).ptr \in Nat
         /\ In(t, Len(frames[t])) <=> l \in {"heap", "unlock"}
<1>1. frames[t] # <<>> /\ Last(frames[t]).pc = l
  BY DEF At
<1>2. frames[t] \in Seq(Frame) /\ Len(frames[t]) \in 1 .. Len(frames[t])
  BY <1>1, StackType DEF IInv
<1>3. Last(frames[t]) \in Frame
  BY <1>2, ElementOfSeq DEF Last
<1>4. Last(frames[t]).cmd \in Words /\ Last(frames[t]).ptr \in Nat
  BY <1>3 DEF Frame
<1>5. In(t, Len(frames[t])) <=> l \in {"heap", "unlock"}
  BY <1>1 DEF In, Last
<1> QED
  BY <1>1, <1>3, <1>4, <1>5

\* The waiting places of mutex_lock: neither moves the mutex.
LEMMA WaitInv ==
  ASSUME IInv, NEW t \in Tasks, WaitMark(t) \/ WaitInt(t)
  PROVE  IInv'
<1>1. PICK l \in {"sleep", "int"} : At(t, l) /\ Goto(t, IF l = "sleep" THEN "int" ELSE "turn")
  BY DEF WaitMark, WaitInt
<1>2. UNCHANGED <<user, line, test_alloc_ptr, live, heap_mutex>>
  BY DEF WaitMark, WaitInt, shellVars, heapVars
<1> DEFINE k == IF l = "sleep" THEN "int" ELSE "turn"
<1>3. k \in {"int", "turn"} /\ k \in Places
  BY DEF Places
<1> HIDE DEF k
<1>4. /\ frames[t] # <<>> /\ Last(frames[t]).pc = l /\ ~ In(t, Len(frames[t]))
  BY <1>1, TopType
<1>5. PICK g \in Frame :
        /\ g.pc = k /\ g.cmd = Last(frames[t]).cmd /\ g.ptr = Last(frames[t]).ptr
        /\ frames' = [frames EXCEPT ![t] = [frames[t] EXCEPT ![Len(frames[t])] = g]]
  BY <1>1, <1>3, <1>4, GotoStep DEF IInv, k
<1>6. g.pc \in {"heap", "unlock"} <=> In(t, Len(frames[t]))
  BY <1>3, <1>4, <1>5
<1>7. Tracked(Last(frames[t])) => Tracked(g)'
  BY <1>2, <1>3, <1>4, <1>5 DEF Tracked
<1>8. test_alloc_ptr' \in Nat
  BY <1>2 DEF IInv, FramesOK
<1> QED
  BY <1>2, <1>4, <1>5, <1>6, <1>7, <1>8, TopInv

\* A turn of mutex_lock takes the mutex or leaves it.
LEMMA LockTurnInv ==
  ASSUME IInv, NEW t \in Tasks, LockTurn(t)
  PROVE  IInv'
<1> DEFINE k == IF heap_mutex = NULL THEN "heap" ELSE "sleep"
<1>1. /\ At(t, "turn") /\ Goto(t, k)
      /\ heap_mutex' = IF heap_mutex = NULL THEN t ELSE heap_mutex
      /\ UNCHANGED <<user, line, test_alloc_ptr, live>>
  BY DEF LockTurn, Turn, shellVars
<1>2. k \in Places
  BY DEF Places
<1>3. /\ frames[t] # <<>> /\ Last(frames[t]).pc = "turn" /\ ~ In(t, Len(frames[t]))
  BY <1>1, TopType
<1>4. PICK g \in Frame :
        /\ g.pc = k /\ g.cmd = Last(frames[t]).cmd /\ g.ptr = Last(frames[t]).ptr
        /\ frames' = [frames EXCEPT ![t] = [frames[t] EXCEPT ![Len(frames[t])] = g]]
  BY <1>1, <1>2, <1>3, GotoStep DEF IInv
<1>5. Tracked(Last(frames[t])) => Tracked(g)'
  BY <1>1, <1>3, <1>4 DEF Tracked
<1>6. test_alloc_ptr' \in Nat
  BY <1>1 DEF IInv, FramesOK
<1>7. CASE heap_mutex = NULL
  BY <1>1, <1>3, <1>4, <1>5, <1>6, <1>7, TopInv
<1>8. CASE heap_mutex # NULL
  <2>1. heap_mutex' = heap_mutex /\ (g.pc \in {"heap", "unlock"} <=> In(t, Len(frames[t])))
    BY <1>1, <1>3, <1>4, <1>8
  <2> QED
    BY <1>1, <1>3, <1>4, <1>5, <1>6, <2>1, TopInv
<1> QED
  BY <1>7, <1>8

\* kmalloc's block is one of the heap, or 0.
LEMMA BlockType ==
  ASSUME NEW f \in Frame
  PROVE  (IF Fits(f.cmd) = {} THEN 0 ELSE Min(Fits(f.cmd))) \in Nat
<1> SUFFICES ASSUME Fits(f.cmd) # {} PROVE Min(Fits(f.cmd)) \in Nat
  OBVIOUS
<1> DEFINE S == Fits(f.cmd)
<1>1. S \subseteq Nat
  BY KeyboardIrqAssumption DEF Fits
<1>2. \E x \in S : \A y \in S : x <= y
  BY <1>1, LeastNat
<1>3. Min(S) \in S
  BY <1>2 DEF Min
<1> QED
  BY <1>1, <1>3

\* kmalloc leaves its innermost handler before mutex_unlock, with the block.
LEMMA MallocStep ==
  ASSUME IInv, NEW t \in Tasks, kmalloc(t)
  PROVE  \E g \in Frame :
           /\ g.pc = "unlock" /\ g.cmd = Last(frames[t]).cmd
           /\ live' = (live \cup {g.ptr}) \ {0}
           /\ frames' = [frames EXCEPT ![t] = [frames[t] EXCEPT ![Len(frames[t])] = g]]
<1> DEFINE f == Last(frames[t])
           b == IF Fits(f.cmd) = {} THEN 0 ELSE Min(Fits(f.cmd))
           h == [f EXCEPT !.ptr = b, !.pc = "unlock"]
<1>1. /\ At(t, "heap") /\ live' = (live \cup {b}) \ {0}
      /\ frames' = [frames EXCEPT ![t][Len(frames[t])] = [@ EXCEPT !.ptr = b, !.pc = "unlock"]]
  BY DEF kmalloc
<1>2. /\ frames[t] # <<>> /\ f \in Frame
  BY <1>1, TopType
<1>3. b \in Nat
  BY <1>2, BlockType
<1>4. Len(frames[t]) \in 1 .. Len(frames[t]) /\ frames[t] \in Seq(Frame)
  BY <1>2, StackType DEF IInv
<1>5. frames' = [frames EXCEPT ![t] = [frames[t] EXCEPT ![Len(frames[t])] = h]]
  <2> HIDE DEF b
  <2> QED
    BY <1>1, <1>4 DEF IInv, FramesOK, Last
<1> HIDE DEF b
<1>6. h \in Frame /\ h.pc = "unlock" /\ h.cmd = f.cmd /\ h.ptr = b
  <2> HIDE DEF f
  <2>1. "unlock" \in Places
    BY DEF Places
  <2> QED
    BY <1>2, <1>3, <2>1 DEF Frame
<1> HIDE DEF h
<1> QED
  BY <1>1, <1>5, <1>6

\* kmalloc takes the block that its handler will report.
LEMMA MallocInv ==
  ASSUME IInv, NEW t \in Tasks, kmalloc(t)
  PROVE  IInv'
<1> DEFINE f == Last(frames[t])
<1>1. /\ At(t, "heap") /\ f.cmd \in Allocs
      /\ UNCHANGED <<user, line, test_alloc_ptr, heap_mutex>>
  BY DEF kmalloc, shellVars
<1>2. /\ frames[t] # <<>> /\ f.pc = "heap" /\ In(t, Len(frames[t])) /\ f \in Frame
  BY <1>1, TopType
<1>3. PICK g \in Frame :
        /\ g.pc = "unlock" /\ g.cmd = f.cmd /\ live' = (live \cup {g.ptr}) \ {0}
        /\ frames' = [frames EXCEPT ![t] = [frames[t] EXCEPT ![Len(frames[t])] = g]]
  BY MallocStep
<1>4. Tracked(f) => Tracked(g)'
  <2> HIDE DEF f
  <2> SUFFICES ASSUME Tracked(f) PROVE Tracked(g)'
    OBVIOUS
  <2>1. live = {}
    BY <1>1, <1>2 DEF Tracked
  <2> QED
    BY <1>1, <1>3, <2>1 DEF Tracked
<1>5. test_alloc_ptr' \in Nat
  BY <1>1 DEF IInv, FramesOK
<1> QED
  BY <1>1, <1>2, <1>3, <1>4, <1>5, TopInv

\* kfree gives back the block its handler was called with.
LEMMA FreeInv ==
  ASSUME IInv, NEW t \in Tasks, kfree(t)
  PROVE  IInv'
<1>1. /\ At(t, "heap") /\ Last(frames[t]).cmd = "free"
      /\ live' = live \ {Last(frames[t]).ptr} /\ Goto(t, "unlock")
      /\ UNCHANGED <<user, line, test_alloc_ptr, heap_mutex>>
  BY DEF kfree, shellVars
<1>2. /\ frames[t] # <<>> /\ Last(frames[t]).pc = "heap" /\ In(t, Len(frames[t]))
  BY <1>1, TopType
<1>3. "unlock" \in Places
  BY DEF Places
<1>4. PICK g \in Frame :
        /\ g.pc = "unlock" /\ g.cmd = Last(frames[t]).cmd /\ g.ptr = Last(frames[t]).ptr
        /\ frames' = [frames EXCEPT ![t] = [frames[t] EXCEPT ![Len(frames[t])] = g]]
  BY <1>1, <1>2, <1>3, GotoStep DEF IInv
<1>5. Tracked(Last(frames[t])) => Tracked(g)'
  BY <1>1, <1>2, <1>4 DEF Tracked, Allocs
<1>6. test_alloc_ptr' \in Nat
  BY <1>1 DEF IInv, FramesOK
<1> QED
  BY <1>1, <1>2, <1>4, <1>5, <1>6, TopInv

\* mutex_unlock: the handler inside is on the owner's stack, so it does unlock.
LEMMA UnlockInv ==
  ASSUME IInv, NEW t \in Tasks, Unlock(t)
  PROVE  IInv'
<1>1. /\ At(t, "unlock") /\ Goto(t, "assign")
      /\ heap_mutex' = IF heap_mutex = t THEN NULL ELSE heap_mutex
      /\ UNCHANGED <<user, line, test_alloc_ptr, live>>
  BY DEF Unlock, shellVars
<1>2. /\ frames[t] # <<>> /\ Last(frames[t]).pc = "unlock" /\ In(t, Len(frames[t]))
  BY <1>1, TopType
<1>3. heap_mutex = t
  BY <1>2, StackType DEF IInv, MutexInv
<1>4. "assign" \in Places
  BY DEF Places
<1>5. PICK g \in Frame :
        /\ g.pc = "assign" /\ g.cmd = Last(frames[t]).cmd /\ g.ptr = Last(frames[t]).ptr
        /\ frames' = [frames EXCEPT ![t] = [frames[t] EXCEPT ![Len(frames[t])] = g]]
  BY <1>1, <1>2, <1>4, GotoStep DEF IInv
<1>6. Tracked(Last(frames[t])) => Tracked(g)'
  BY <1>1, <1>2, <1>5 DEF Tracked
<1>7. test_alloc_ptr' \in Nat
  BY <1>1 DEF IInv, FramesOK
<1> QED
  BY <1>1, <1>2, <1>3, <1>5, <1>6, <1>7, TopInv

\* The command reports its block in test_alloc_ptr.
LEMMA AssignInv ==
  ASSUME IInv, NEW t \in Tasks, Assign(t)
  PROVE  IInv'
<1>1. /\ At(t, "assign") /\ Goto(t, "finish")
      /\ test_alloc_ptr' = IF Last(frames[t]).cmd \in Allocs THEN Last(frames[t]).ptr ELSE 0
      /\ UNCHANGED <<user, line, live, heap_mutex>>
  BY DEF Assign, heapVars
<1>2. /\ frames[t] # <<>> /\ Last(frames[t]).pc = "assign" /\ ~ In(t, Len(frames[t]))
      /\ Last(frames[t]).ptr \in Nat
  BY <1>1, TopType
<1>3. "finish" \in Places
  BY DEF Places
<1>4. PICK g \in Frame :
        /\ g.pc = "finish" /\ g.cmd = Last(frames[t]).cmd /\ g.ptr = Last(frames[t]).ptr
        /\ frames' = [frames EXCEPT ![t] = [frames[t] EXCEPT ![Len(frames[t])] = g]]
  BY <1>1, <1>2, <1>3, GotoStep DEF IInv
<1>5. Tracked(Last(frames[t])) => Tracked(g)'
  BY <1>1, <1>2, <1>4 DEF Tracked
<1>6. test_alloc_ptr' \in Nat
  BY <1>1, <1>2
<1> QED
  BY <1>1, <1>2, <1>4, <1>5, <1>6, TopInv

-----------------------------------------------------------------------------
\* No handler is under way when kernel_main sets IF.
LEMMA InitIInv == Init => IInv
<1> SUFFICES ASSUME Init PROVE IInv
  OBVIOUS
<1>1. /\ frames = [t \in Tasks |-> <<>>] /\ heap_mutex = NULL /\ live = {}
      /\ test_alloc_ptr = 0 /\ line = ""
  BY DEF Init
<1>2. \A t \in Tasks : frames[t] = <<>> /\ Len(frames[t]) = 0
  BY <1>1
<1>3. FramesOK
  <2>1. <<>> \in Seq(Frame)
    OBVIOUS
  <2>2. frames \in [Tasks -> Seq(Frame)]
    BY <1>1, <2>1
  <2>3. \A t \in Tasks : Len(frames[t]) <= MaxFrames
    BY <1>2, KeyboardIrqAssumption
  <2> QED
    BY <1>1, <2>2, <2>3 DEF FramesOK
<1>4. MutexInv
  <2>1. \A t \in Tasks : \A i \in 1 .. Len(frames[t]) : FALSE
    BY <1>2
  <2> QED
    BY <1>1, <2>1 DEF MutexInv
<1>5. PatientInv
  BY <1>1, <1>2 DEF PatientInv, AllocTracked
<1> QED
  BY <1>3, <1>4, <1>5 DEF IInv

\* Every step keeps the invariant.
LEMMA NextIInv == IInv /\ [Next]_vars => IInv'
<1> SUFFICES ASSUME IInv, [Next]_vars PROVE IInv'
  OBVIOUS
<1>0. line \in Words \cup {"", "text"}
  BY DEF IInv, FramesOK
<1>1. CASE UNCHANGED vars
  BY <1>0, <1>1, QuietInv DEF vars, shellVars, heapVars
<1>2. CASE TimerIrq
  BY <1>0, <1>2, QuietInv DEF TimerIrq, shellVars, heapVars
<1>3. ASSUME NEW w \in Words, TypeWord(w) PROVE IInv'
  BY <1>3, QuietInv DEF TypeWord, heapVars
<1>4. CASE EnterShort
  BY <1>4, QuietInv DEF EnterShort, heapVars
<1>5. ASSUME NEW t \in Tasks, EnterHeap(t) PROVE IInv'
  BY <1>5, EnterInv
<1>6. ASSUME NEW t \in Tasks, Handler(t) PROVE IInv'
  BY <1>6, WaitInv, LockTurnInv, MallocInv, FreeInv, UnlockInv, AssignInv, FinishInv DEF Handler
<1>7. ASSUME NEW t \in Workers, SleepMark(t) \/ SleepInt(t) PROVE IInv'
  BY <1>0, <1>7, QuietInv DEF SleepMark, SleepInt, shellVars, heapVars
<1> QED
  BY <1>1, <1>2, <1>3, <1>4, <1>5, <1>6, <1>7 DEF Next

\* The inductive invariant holds in every state.
THEOREM Inductive == Spec => []IInv
BY InitIInv, NextIInv, PTL DEF Spec

\* The handlers inside the section, from the invariant's point of view.
LEMMA InsideOwner ==
  ASSUME IInv
  PROVE  HeapExclusive
<1>1. \A p \in Inside : /\ p[1] \in Tasks /\ p[2] \in 1 .. Len(frames[p[1]])
                        /\ p = <<p[1], p[2]>> /\ In(p[1], p[2])
  <2> SUFFICES ASSUME NEW p \in Inside
               PROVE  /\ p[1] \in Tasks /\ p[2] \in 1 .. Len(frames[p[1]])
                      /\ p = <<p[1], p[2]>> /\ In(p[1], p[2])
    OBVIOUS
  <2>1. /\ p \in Tasks \X (1 .. MaxFrames) /\ p[2] \in DOMAIN frames[p[1]]
        /\ frames[p[1]][p[2]].pc \in {"heap", "unlock"}
    BY DEF Inside
  <2>2. p[1] \in Tasks /\ p = <<p[1], p[2]>>
    BY <2>1
  <2>3. DOMAIN frames[p[1]] = 1 .. Len(frames[p[1]])
    BY <2>2, StackType DEF IInv
  <2> QED
    BY <2>1, <2>2, <2>3 DEF In
<1>2. \A t \in Tasks : \A i \in 1 .. Len(frames[t]) : In(t, i) => <<t, i>> \in Inside
  <2> SUFFICES ASSUME NEW t \in Tasks, NEW i \in 1 .. Len(frames[t]), In(t, i)
               PROVE  <<t, i>> \in Inside
    OBVIOUS
  <2>1. Len(frames[t]) \in Nat /\ DOMAIN frames[t] = 1 .. Len(frames[t]) /\ Len(frames[t]) <= MaxFrames
    BY StackType DEF IInv, FramesOK
  <2>2. i \in 1 .. MaxFrames
    BY <2>1, KeyboardIrqAssumption
  <2> QED
    BY <2>1, <2>2 DEF Inside, In
<1>3. /\ \A t \in Tasks : \A i \in 1 .. Len(frames[t]) : In(t, i) =>
           /\ heap_mutex = t
           /\ \A j \in 1 .. Len(frames[t]) : In(t, j) => j = i
      /\ heap_mutex # NULL =>
           /\ heap_mutex \in Tasks
           /\ \E i \in 1 .. Len(frames[heap_mutex]) : In(heap_mutex, i)
  BY DEF IInv, MutexInv
<1>4. NULL \notin Tasks
  BY TaskAssumption DEF NULL, Tasks
<1>5. \A p, q \in Inside : p[1] = heap_mutex /\ p = q
  BY <1>1, <1>3
<1>6. Cardinality(Inside) <= 1
  <2>1. CASE Inside = {}
    BY <2>1, FS_EmptySet
  <2>2. CASE Inside # {}
    <3>1. PICK p \in Inside : TRUE
      BY <2>2
    <3>2. Inside = {p}
      BY <1>5, <3>1
    <3> QED
      BY <3>2, FS_Singleton
  <2> QED
    BY <2>1, <2>2
<1>7. {p[1] : p \in Inside} = {heap_mutex} \ {NULL}
  <2>1. CASE heap_mutex = NULL
    <3>1. Inside = {}
      BY <1>1, <1>3, <1>4, <2>1
    <3> QED
      BY <2>1, <3>1
  <2>2. CASE heap_mutex # NULL
    <3>1. PICK i \in 1 .. Len(frames[heap_mutex]) : In(heap_mutex, i)
      BY <1>3, <2>2
    <3>2. <<heap_mutex, i>> \in Inside
      BY <1>2, <1>3, <2>2, <3>1
    <3> QED
      BY <1>5, <2>2, <3>2
  <2> QED
    BY <2>1, <2>2
<1> QED
  BY <1>6, <1>7 DEF HeapExclusive

\* heap_mutex keeps any number of command handlers out of each other's kmalloc
\* and kfree, nested on one task's stack or not, and the one inside is on the
\* stack of the task that owns the mutex (mutex.c, heap.c).
THEOREM HeapSectionExclusive == Spec => []HeapExclusive
BY Inductive, InsideOwner, PTL

\* For a user who waits for the prompt, whatever the timer does in between,
\* the block in test_alloc_ptr is the only one taken (cmd_alloc, cmd_free).
THEOREM PatientUserLosesNothing == Spec => []PatientTracked
<1>1. IInv => PatientTracked
  BY DEF IInv, PatientInv, PatientTracked
<1> QED
  BY <1>1, Inductive, PTL

-----------------------------------------------------------------------------
(* What CommandEnds leaves to the scheduler.                               *)

Waiting == {"sleep", "int", "turn"}

\* No command of a user who waits for the prompt is in the waiting loop of
\* mutex_lock: kmalloc and kfree get heap_mutex at the first attempt, so such a
\* command never calls task_sleep inside the interrupt.
PatientNeverWaits ==
  user = "patient" =>
    \A t \in Tasks : \A i \in 1 .. Len(frames[t]) : frames[t][i].pc \notin Waiting

\* A step of the innermost handler of t that does not lead to the loop.
LEMMA TopNeverWaits ==
  ASSUME FramesOK, PatientNeverWaits, user' = user,
         NEW t \in Tasks, frames[t] # <<>>, NEW g \in Frame, g.pc \notin Waiting,
         frames' = [frames EXCEPT ![t] = [frames[t] EXCEPT ![Len(frames[t])] = g]]
  PROVE  PatientNeverWaits'
<1>1. /\ \A u \in Tasks : Len(frames'[u]) = Len(frames[u])
      /\ \A u \in Tasks : u # t => frames'[u] = frames[u]
      /\ \A i \in 1 .. Len(frames[t]) :
           frames'[t][i] = IF i = Len(frames[t]) THEN g ELSE frames[t][i]
  BY TopStep
<1> QED
  BY <1>1 DEF PatientNeverWaits

\* The same for the steps that are a Goto.
LEMMA GotoNeverWaits ==
  ASSUME IInv, PatientNeverWaits, user' = user,
         NEW t \in Tasks, frames[t] # <<>>, NEW l \in Places \ Waiting, Goto(t, l)
  PROVE  PatientNeverWaits'
<1>1. PICK g \in Frame :
        /\ g.pc = l
        /\ frames' = [frames EXCEPT ![t] = [frames[t] EXCEPT ![Len(frames[t])] = g]]
  BY GotoStep DEF IInv
<1>2. g.pc \notin Waiting
  BY <1>1
<1> QED
  BY <1>1, <1>2, TopNeverWaits DEF IInv

\* A handler of a patient user is not at a waiting place.
LEMMA PatientElsewhere ==
  ASSUME IInv, PatientNeverWaits, user = "patient",
         NEW t \in Tasks, NEW l \in Waiting, At(t, l)
  PROVE  FALSE
<1>1. frames[t] # <<>> /\ Last(frames[t]).pc = l
  BY DEF At
<1>2. Len(frames[t]) \in 1 .. Len(frames[t])
  BY <1>1, StackType DEF IInv
<1> QED
  BY <1>1, <1>2 DEF PatientNeverWaits, Last

\* A patient user's Enter finds no handler under way, so the mutex is free.
LEMMA EnterNeverWaits ==
  ASSUME IInv, PatientNeverWaits, NEW t \in Tasks, EnterHeap(t)
  PROVE  PatientNeverWaits'
<1> SUFFICES ASSUME user = "patient", user' = user PROVE PatientNeverWaits'
  BY DEF EnterHeap, PatientNeverWaits
<1>1. \A u \in Tasks : frames[u] = <<>> /\ Len(frames[u]) = 0
  <2>1. \A u \in Tasks : frames[u] = <<>>
    BY DEF EnterHeap, MayPress
  <2> QED
    BY <2>1
<1>2. heap_mutex = NULL
  BY <1>1 DEF IInv, MutexInv
<1> DEFINE g == [cmd |-> line, pc |-> "heap",
                 ptr |-> IF line = "free" THEN test_alloc_ptr ELSE 0]
<1>3. frames' = [frames EXCEPT ![t] = Append(frames[t], g)]
  BY <1>2 DEF EnterHeap, Turn
<1>4. g \in Frame /\ g.pc \notin Waiting
  BY DEF EnterHeap, NeedsHeap, Words, IInv, FramesOK, Frame, Places, Waiting
<1> HIDE DEF g
<1>5. /\ \A u \in Tasks : u # t => frames'[u] = frames[u]
      /\ \A i \in 1 .. Len(frames'[t]) : i = Len(frames'[t]) \/ i \in 1 .. Len(frames[t])
      /\ frames'[t][Len(frames'[t])] = g
  BY <1>3, <1>4, PushStep DEF IInv
<1>6. \A i \in 1 .. Len(frames'[t]) : frames'[t][i].pc \notin Waiting
  BY <1>1, <1>4, <1>5
<1> QED
  BY <1>1, <1>5, <1>6 DEF PatientNeverWaits

\* kmalloc leaves its handler before mutex_unlock.
LEMMA MallocNeverWaits ==
  ASSUME IInv, PatientNeverWaits, NEW t \in Tasks, kmalloc(t)
  PROVE  PatientNeverWaits'
<1>1. PICK g \in Frame :
        /\ g.pc = "unlock"
        /\ frames' = [frames EXCEPT ![t] = [frames[t] EXCEPT ![Len(frames[t])] = g]]
  BY MallocStep
<1>2. g.pc \notin Waiting
  BY <1>1 DEF Waiting
<1>3. frames[t] # <<>> /\ user' = user
  BY DEF kmalloc, At
<1> QED
  BY <1>1, <1>2, <1>3, TopNeverWaits DEF IInv

\* The innermost handler leaves.
LEMMA FinishNeverWaits ==
  ASSUME IInv, PatientNeverWaits, NEW t \in Tasks, Finish(t)
  PROVE  PatientNeverWaits'
<1>1. /\ frames[t] # <<>> /\ user' = user
      /\ frames' = [frames EXCEPT ![t] = Front(frames[t])]
  BY DEF Finish, At
<1>2. /\ \A u \in Tasks : u # t => frames'[u] = frames[u]
      /\ \A i \in 1 .. Len(frames'[t]) :
           i \in 1 .. Len(frames[t]) /\ frames'[t][i] = frames[t][i]
  BY <1>1, PopStep DEF IInv
<1> QED
  BY <1>1, <1>2 DEF PatientNeverWaits

\* Every step of a handler keeps it: for a patient user the three steps of the
\* waiting loop do not happen.
LEMMA HandlerNeverWaits ==
  ASSUME IInv, PatientNeverWaits, NEW t \in Tasks, Handler(t)
  PROVE  PatientNeverWaits'
<1>1. ASSUME NEW l \in Waiting, At(t, l), user' = user PROVE PatientNeverWaits'
  <2>1. user # "patient"
    BY <1>1, PatientElsewhere
  <2> QED
    BY <1>1, <2>1 DEF PatientNeverWaits
<1>2. CASE WaitMark(t) \/ WaitInt(t) \/ LockTurn(t)
  BY <1>1, <1>2 DEF WaitMark, WaitInt, LockTurn, Waiting
<1>3. CASE kmalloc(t)
  BY <1>3, MallocNeverWaits
<1>4. ASSUME NEW l \in {"unlock", "assign", "finish"}, frames[t] # <<>>, Goto(t, l), user' = user
      PROVE  PatientNeverWaits'
  <2>1. l \in Places \ Waiting
    BY DEF Places, Waiting
  <2> QED
    BY <1>4, <2>1, GotoNeverWaits
<1>5. CASE kfree(t) \/ Unlock(t) \/ Assign(t)
  BY <1>4, <1>5 DEF kfree, Unlock, Assign, At
<1>6. CASE Finish(t)
  BY <1>6, FinishNeverWaits
<1> QED
  BY <1>2, <1>3, <1>5, <1>6 DEF Handler

\* A command of a user who waits for the prompt never waits for heap_mutex,
\* whatever task the interrupt struck and however the timer switches: the
\* safety half of CommandEnds, which leaves only the scheduler to delay it.
THEOREM PatientCommandNeverWaits == Spec => []PatientNeverWaits
<1>1. Init => PatientNeverWaits
  <2> SUFFICES ASSUME Init PROVE PatientNeverWaits
    OBVIOUS
  <2>1. \A t \in Tasks : Len(frames[t]) = 0
    BY DEF Init
  <2> QED
    BY <2>1 DEF PatientNeverWaits
<1>2. IInv /\ PatientNeverWaits /\ [Next]_vars => PatientNeverWaits'
  <2> SUFFICES ASSUME IInv, PatientNeverWaits, [Next]_vars PROVE PatientNeverWaits'
    OBVIOUS
  <2>1. ASSUME UNCHANGED <<frames, user>> PROVE PatientNeverWaits'
    BY <2>1 DEF PatientNeverWaits
  <2>2. CASE UNCHANGED vars \/ TimerIrq \/ EnterShort
    BY <2>1, <2>2 DEF vars, TimerIrq, EnterShort
  <2>3. ASSUME NEW w \in Words, TypeWord(w) PROVE PatientNeverWaits'
    BY <2>1, <2>3 DEF TypeWord
  <2>4. ASSUME NEW t \in Tasks, EnterHeap(t) PROVE PatientNeverWaits'
    BY <2>4, EnterNeverWaits
  <2>5. ASSUME NEW t \in Tasks, Handler(t) PROVE PatientNeverWaits'
    BY <2>5, HandlerNeverWaits
  <2>6. ASSUME NEW t \in Workers, SleepMark(t) \/ SleepInt(t) PROVE PatientNeverWaits'
    BY <2>1, <2>6 DEF SleepMark, SleepInt
  <2> QED
    BY <2>2, <2>3, <2>4, <2>5, <2>6 DEF Next
<1> QED
  BY <1>1, <1>2, Inductive, PTL DEF Spec
=============================================================================
