----------------------------- MODULE RingWindow ------------------------------
(***************************************************************************)
(* A ring buffer of N slots as the sequence of the entries it holds: what  *)
(* queue.c and pipe.c store, and what their indices select.                *)
(***************************************************************************)
EXTENDS ProofBasics

CONSTANTS N, V   \* the slots of the buffer, and what one may hold

\* The slots of a ring buffer of size N.
Ring == 0 .. N - 1

\* The n entries of the ring buffer d of size N, from slot f on: what queue.c
\* and pipe.c hold.
Window(d, f, n) == [i \in 1 .. n |-> d[(f + i - 1) % N]]

\* Window as a sequence.
LEMMA WindowSeq ==
  ASSUME N \in Nat \ {0}, NEW d \in [Ring -> V], NEW f \in Nat, NEW n \in Nat
  PROVE  /\ Window(d, f, n) \in Seq(V)
         /\ Len(Window(d, f, n)) = n
<1>1. \A i \in 1 .. n : (f + i - 1) % N \in Ring
  BY DEF Ring
<1>2. \A i \in 1 .. n : d[(f + i - 1) % N] \in V
  BY <1>1
<1>3. Window(d, f, n) \in [1 .. n -> V]
  BY <1>2 DEF Window
<1> QED
  BY <1>3, FunctionIsSeq

\* A store outside the window does not change it.
LEMMA WindowStore ==
  ASSUME N \in Nat \ {0}, NEW d \in [Ring -> V], NEW f \in Ring, NEW n \in Nat,
         n < N, NEW v
  PROVE  Window([d EXCEPT ![(f + n) % N] = v], f, n) = Window(d, f, n)
<1> DEFINE e == [d EXCEPT ![(f + n) % N] = v]
<1>1. ASSUME NEW i \in 1 .. n
      PROVE  e[(f + i - 1) % N] = d[(f + i - 1) % N]
  <2>1. /\ N \in Nat \ {0} /\ f \in 0 .. N - 1
        /\ i - 1 \in 0 .. N - 1 /\ n \in 0 .. N - 1 /\ i - 1 < n
        /\ f + i - 1 = f + (i - 1)
    BY DEF Ring
  <2>2. (f + (i - 1)) % N # (f + n) % N
    BY <2>1, ModDistinct
  <2>3. (f + i - 1) % N \in Ring
    BY <2>1 DEF Ring
  <2> QED
    BY <2>1, <2>2, <2>3
<1> HIDE DEF e
<1>2. Window(e, f, n) = Window(d, f, n)
  BY <1>1 DEF Window
<1> QED
  BY <1>2 DEF e

\* One message more at the end.
LEMMA WindowAppend ==
  ASSUME N \in Nat \ {0}, NEW d \in [Ring -> V], NEW f \in Nat, NEW n \in Nat
  PROVE  Window(d, f, n + 1) = Append(Window(d, f, n), d[(f + n) % N])
<1> DEFINE w == Window(d, f, n)
           x == Window(d, f, n + 1)
           a == Append(w, d[(f + n) % N])
<1>0. /\ \A i \in 1 .. n : w[i] = d[(f + i - 1) % N]
      /\ \A i \in 1 .. n + 1 : x[i] = d[(f + i - 1) % N]
  BY DEF Window
<1>1. w \in Seq(V) /\ Len(w) = n
  BY WindowSeq
<1>2. x \in Seq(V) /\ Len(x) = n + 1
  <2>1. n + 1 \in Nat
    OBVIOUS
  <2> QED
    BY <2>1, WindowSeq
<1>3. d[(f + n) % N] \in V
  BY DEF Ring
<1> HIDE DEF w, x
<1>4. /\ a \in Seq(V) /\ Len(a) = n + 1
      /\ \A i \in 1 .. n : a[i] = w[i]
      /\ a[n + 1] = d[(f + n) % N]
  BY <1>1, <1>3
<1>5. \A i \in 1 .. n + 1 : a[i] = x[i]
  <2>1. f + (n + 1) - 1 = f + n
    OBVIOUS
  <2> QED
    BY <1>0, <1>4, <2>1
<1> HIDE DEF a
<1>6. a = x
  BY <1>2, <1>4, <1>5
<1> QED
  BY <1>6 DEF a, x, w

\* One message less at the front.
LEMMA WindowTail ==
  ASSUME N \in Nat \ {0}, NEW d \in [Ring -> V],
         NEW f \in Ring, NEW n \in Nat \ {0}
  PROVE  /\ Window(d, f, n) # <<>>
         /\ Head(Window(d, f, n)) = d[f]
         /\ Tail(Window(d, f, n)) = Window(d, f + 1, n - 1)
<1> DEFINE w == Window(d, f, n)
           x == Window(d, f + 1, n - 1)
<1>0. f \in Nat /\ f + 1 \in Nat /\ n \in Nat /\ n - 1 \in Nat
  BY DEF Ring
<1>a. /\ \A i \in 1 .. n : w[i] = d[(f + i - 1) % N]
      /\ \A i \in 1 .. n - 1 : x[i] = d[(f + 1 + i - 1) % N]
  BY DEF Window
<1>1. w \in Seq(V) /\ Len(w) = n
  BY <1>0, WindowSeq
<1>2. x \in Seq(V) /\ Len(x) = n - 1
  BY <1>0, WindowSeq
<1>3. (f + 1 - 1) % N = f
  <2>1. f \in 0 .. N - 1 /\ f + 1 - 1 = f
    BY DEF Ring
  <2> QED
    BY <2>1, ModSmall
<1> HIDE DEF w, x
<1>4. w # <<>> /\ Head(w) = d[f]
  BY <1>1, <1>3, <1>a
<1>5. /\ Tail(w) \in Seq(V) /\ Len(Tail(w)) = n - 1
      /\ \A i \in 1 .. n - 1 : Tail(w)[i] = w[i + 1]
  BY <1>1, <1>4
<1>6. \A i \in 1 .. n - 1 : Tail(w)[i] = x[i]
  <2> TAKE i \in 1 .. n - 1
  <2>1. i + 1 \in 1 .. n /\ f + (i + 1) - 1 = f + 1 + i - 1
    BY <1>0
  <2> QED
    BY <1>5, <1>a, <2>1
<1>7. Tail(w) = x
  BY <1>2, <1>5, <1>6
<1> QED
  BY <1>4, <1>7 DEF w, x
=============================================================================
