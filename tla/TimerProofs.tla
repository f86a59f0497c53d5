----------------------------- MODULE TimerProofs -----------------------------
(***************************************************************************)
(* Proofs about Timer and its heap.  A loop of the heap is a number of     *)
(* rounds, which RoundsEnd shows to be enough: a round that changes        *)
(* anything moves the entry by a level.  Each round leaves all but one     *)
(* entry in order (Near), the loop in parents ends with that entry not     *)
(* before its parent (Above), the loop in childs with it not after a child *)
(* (Below).  All this is about keys; TicksCompare shows that comparing two *)
(* ticks compares the true deadlines as long as all of them are between    *)
(* Lateness ago and the longest time a caller asks for.  That they are is  *)
(* the inductive invariant, which bounds in each phase of the main loop    *)
(* how late a timer can be (Floor).                                        *)
(***************************************************************************)
EXTENDS Timer, FiniteSetTheorems, FunctionTheorems, WellFoundedInduction, TLAPS

-----------------------------------------------------------------------------
(* The loops of the heap *)

LEMMA Least ==
  ASSUME NEW S \in SUBSET Nat, S # {}
  PROVE  \E x \in S : \A y \in S : x <= y
<1>. DEFINE R == OpToRel(<, Nat)
<1>1. \A x, y \in Nat : <<x, y>> \in R <=> x < y
  BY Zenon DEF OpToRel
<1>2. IsWellFoundedOn(R, Nat)
  BY NatLessThanWellFounded
<1>. HIDE DEF R
<1>3. PICK x \in S : \A y \in S : ~(<<y, x>> \in R)
  BY <1>2, WFMin
<1>4. ASSUME NEW y \in S PROVE x <= y
  <2>1. x \in Nat /\ y \in Nat /\ ~(y < x)
    BY <1>1, <1>3
  <2>. QED BY <2>1
<1>. QED BY <1>4

Runs(X, f, s, m) == {run \in [0 .. m -> X] : run[0] = s /\ \A k \in 1 .. m : run[k] = f[run[k - 1]]}

LEMMA RunsExist ==
  ASSUME NEW X, NEW f, NEW s \in X, \A x \in X : f[x] \in X, NEW n \in Nat
  PROVE  Runs(X, f, s, n) # {}
<1>. DEFINE S == {m \in Nat : Runs(X, f, s, m) = {}}
<1>1. SUFFICES ASSUME S # {} PROVE FALSE
  OBVIOUS
<1>2. PICK m \in S : \A y \in S : m <= y
  BY <1>1, Least
<1>3. CASE m = 0
  <2>. DEFINE run == [k \in 0 .. 0 |-> s]
  <2>1. run \in Runs(X, f, s, 0)
    BY DEF Runs
  <2>. QED BY <1>2, <1>3, <2>1
<1>4. CASE m # 0
  <2>1. m - 1 \in Nat /\ m - 1 \notin S
    BY <1>2, <1>4
  <2>2. PICK g \in Runs(X, f, s, m - 1) : TRUE
    BY <2>1
  <2>. DEFINE run == [k \in 0 .. m |-> IF k = m THEN f[g[m - 1]] ELSE g[k]]
  <2>3. g \in [0 .. m - 1 -> X] /\ g[0] = s /\ \A k \in 1 .. m - 1 : g[k] = f[g[k - 1]]
    BY <2>2 DEF Runs
  <2>4. m \in Nat /\ m >= 1 /\ m - 1 \in 0 .. m - 1 /\ g[m - 1] \in X
    BY <1>2, <1>4, <2>3
  <2>5. run \in [0 .. m -> X]
    BY <2>3, <2>4
  <2>6. run[0] = s
    BY <2>3, <2>4
  <2>7. \A k \in 1 .. m : run[k] = f[run[k - 1]]
    <3>1. ASSUME NEW k \in 1 .. m, k # m PROVE run[k] = f[run[k - 1]]
      <4>1. k \in 1 .. m - 1 /\ k - 1 \in 0 .. m /\ k - 1 # m /\ k \in 0 .. m
        BY <2>4, <3>1
      <4>. QED BY <2>3, <3>1, <4>1
    <3>2. run[m] = f[run[m - 1]]
      <4>1. m - 1 \in 0 .. m /\ m - 1 # m /\ m \in 0 .. m
        BY <2>4
      <4>. QED BY <4>1
    <3>. QED BY <3>1, <3>2
  <2>8. run \in Runs(X, f, s, m)
    BY <2>5, <2>6, <2>7 DEF Runs
  <2>. QED BY <1>2, <2>8
<1>. QED BY <1>3, <1>4

LEMMA RoundsRun ==
  ASSUME NEW X, NEW f, NEW s \in X, \A x \in X : f[x] \in X, Len(s.heap) \div 2 \in Nat
  PROVE  \E run \in Runs(X, f, s, Len(s.heap) \div 2) : Rounds(f, s) = run[Len(s.heap) \div 2]
<1>1. PICK n \in Nat : n = Len(s.heap) \div 2
  OBVIOUS
<1>. DEFINE Loop(run) == run = [k \in 0 .. n |-> IF k = 0 THEN s ELSE f[run[k - 1]]]
            after == CHOOSE run : Loop(run)
<1>2. PICK g \in Runs(X, f, s, n) : TRUE
  BY RunsExist
<1>3. g \in [0 .. n -> X] /\ g[0] = s /\ \A k \in 1 .. n : g[k] = f[g[k - 1]]
  BY <1>2 DEF Runs
<1>4. Loop(g)
  BY <1>3
<1>5. Loop(after)
  BY <1>4
<1>6. Rounds(f, s) = after[n]
  BY <1>1 DEF Rounds
<1>. HIDE DEF after
<1>7. \A k \in 0 .. n : after[k] = g[k]
  <2>. DEFINE S == {k \in 0 .. n : after[k] # g[k]}
  <2>1. SUFFICES ASSUME S # {} PROVE FALSE
    OBVIOUS
  <2>2. S \in SUBSET Nat
    OBVIOUS
  <2>3. PICK k \in S : \A y \in S : k <= y
    BY <2>1, <2>2, Least
  <2>4. CASE k = 0
    BY <1>3, <1>5, <2>3, <2>4
  <2>5. CASE k # 0
    <3>1. k - 1 \in 0 .. n /\ k - 1 \notin S /\ k \in 1 .. n
      BY <2>3, <2>5
    <3>2. after[k - 1] = g[k - 1] /\ after[k] = f[after[k - 1]] /\ g[k] = f[g[k - 1]]
      BY <1>3, <1>5, <3>1
    <3>. QED BY <2>3, <3>2
  <2>. QED BY <2>4, <2>5
<1>8. n \in 0 .. n
  OBVIOUS
<1>. QED BY <1>1, <1>2, <1>6, <1>7, <1>8

\* A loop whose rounds keep to X and lower m, if they change anything, ends in
\* X where nothing changes any more.
LEMMA RoundsEnd ==
  ASSUME NEW X, NEW f, NEW s \in X, NEW m,
         \A x \in X : f[x] \in X /\ m[x] \in Nat /\ (f[x] = x \/ m[f[x]] < m[x]),
         Len(s.heap) \div 2 \in Nat, m[s] <= Len(s.heap) \div 2
  PROVE  Rounds(f, s) \in X /\ f[Rounds(f, s)] = Rounds(f, s)
<1>1. PICK n \in Nat : n = Len(s.heap) \div 2
  OBVIOUS
<1>2. PICK g \in Runs(X, f, s, n) : Rounds(f, s) = g[n]
  BY <1>1, RoundsRun
<1>3. g \in [0 .. n -> X] /\ g[0] = s /\ \A k \in 1 .. n : g[k] = f[g[k - 1]]
  BY <1>2 DEF Runs
<1>. DEFINE Ends(k) == f[g[k]] = g[k] \/ m[g[k]] <= n - k
            S == {k \in 0 .. n : ~Ends(k)}
<1>4. S = {}
  <2>1. SUFFICES ASSUME S # {} PROVE FALSE
    OBVIOUS
  <2>2. S \in SUBSET Nat
    OBVIOUS
  <2>3. PICK k \in S : \A y \in S : k <= y
    BY <2>1, <2>2, Least
  <2>4. CASE k = 0
    <3>1. g[k] = s /\ m[s] <= n /\ m[s] \in Nat
      BY <1>1, <1>3, <2>4
    <3>2. m[g[k]] <= n - k
      BY <2>4, <3>1
    <3>. QED BY <2>3, <3>2
  <2>5. CASE k # 0
    <3>1. k - 1 \in 0 .. n /\ k - 1 \notin S /\ k \in 1 .. n
      BY <2>3, <2>5
    <3>2. Ends(k - 1) /\ g[k] = f[g[k - 1]] /\ g[k - 1] \in X /\ g[k] \in X
      BY <1>3, <3>1
    <3>3. PICK a \in X : a = g[k - 1]
      BY <3>2
    <3>4. PICK b \in X : b = g[k]
      BY <3>2
    <3>5. (f[a] = a \/ m[a] <= n - (k - 1)) /\ b = f[a] /\ m[a] \in Nat /\ m[b] \in Nat
      BY <3>2, <3>3, <3>4
    <3>6. f[a] = a \/ m[b] < m[a]
      BY <3>5
    <3>7. f[b] = b \/ m[b] <= n - k
      BY <3>1, <3>5, <3>6
    <3>. QED BY <2>3, <3>4, <3>7
  <2>. QED BY <2>4, <2>5
<1>5. n \in 0 .. n /\ g[n] \in X
  BY <1>3
<1>6. f[g[n]] = g[n] \/ m[g[n]] <= 0
  BY <1>4, <1>5
<1>7. f[g[n]] = g[n]
  BY <1>5, <1>6
<1>. QED BY <1>2, <1>5, <1>7

-----------------------------------------------------------------------------
(* What a round does to a heap *)

EntriesOf(h) == {h[i] : i \in 1 .. Len(h)}
OnceEach(h) == \A i, j \in 1 .. Len(h) : h[i] = h[j] => i = j

\* cmp compares the entries V by their keys.
Compares(cmp, key, V) ==
  \A a, b \in V : /\ key[a] \in Int /\ cmp[a, b] \in Int
                  /\ cmp[a, b] < 0 <=> key[a] < key[b]
                  /\ cmp[a, b] > 0 <=> key[a] > key[b]

\* A heap of n entries V, of which the one at x.at is moved.
Heaps(n, V) == {x \in Moving : /\ Len(x.heap) = n /\ x.at \in 1 .. n
                               /\ OnceEach(x.heap) /\ EntriesOf(x.heap) = V}

\* All is in order but for the entry at p.
Near(h, p, key) ==
  \A j \in 2 .. Len(h) :
    /\ j # p /\ j \div 2 # p => key[h[j \div 2]] <= key[h[j]]
    /\ j \div 2 = p /\ p > 1 => key[h[p \div 2]] <= key[h[j]]
Above(h, p, key) == p > 1 => key[h[p \div 2]] <= key[h[p]]
Below(h, p, key) == \A j \in 2 .. Len(h) : j \div 2 = p => key[h[p]] <= key[h[j]]
Ordered(h, key) == \A j \in 2 .. Len(h) : key[h[j \div 2]] <= key[h[j]]

LEMMA Halves ==
  /\ \A i \in Nat : i \div 2 \in Nat /\ i \div 2 <= i
  /\ \A i \in Nat : i > 0 => i \div 2 < i
  /\ \A i \in Nat : i > 1 => i \div 2 >= 1
  /\ \A i, j \in Nat : i \div 2 = j <=> i = 2 * j \/ i = 2 * j + 1
  /\ \A i, j \in Nat : i <= j => i \div 2 <= j \div 2
OBVIOUS

LEMMA NearIsOrdered ==
  ASSUME NEW h, NEW p, NEW key, Near(h, p, key), Above(h, p, key), Below(h, p, key)
  PROVE  Ordered(h, key)
BY DEF Near, Above, Below, Ordered

LEMMA OrderedIsNear ==
  ASSUME NEW V, NEW n \in Nat, NEW x \in Heaps(n, V), NEW key, \A v \in V : key[v] \in Int,
         Ordered(x.heap, key)
  PROVE  Near(x.heap, x.at, key) /\ Above(x.heap, x.at, key) /\ Below(x.heap, x.at, key)
<1>. DEFINE h == x.heap
            p == x.at
<1>1. Len(h) = n /\ p \in 1 .. n /\ \A i \in 1 .. n : h[i] \in V
  BY DEF Heaps, EntriesOf
<1>2. \A j \in 2 .. n : key[h[j \div 2]] <= key[h[j]]
  BY <1>1 DEF Ordered
<1>. HIDE DEF h, p
<1>3. Above(h, p, key) /\ Below(h, p, key)
  BY <1>1, <1>2 DEF Above, Below
<1>4. ASSUME NEW j \in 2 .. n, j \div 2 = p, p > 1
      PROVE  key[h[p \div 2]] <= key[h[j]]
  <2>0. p \in 2 .. n
    BY <1>1, <1>4
  <2>1. key[h[p \div 2]] <= key[h[p]] /\ key[h[p]] <= key[h[j]]
    BY <1>2, <1>4, <2>0
  <2>2. p \div 2 \in 1 .. n /\ j \in 1 .. n
    BY <1>1, <1>4, Halves
  <2>3. key[h[p \div 2]] \in Int /\ key[h[p]] \in Int /\ key[h[j]] \in Int
    BY <1>1, <2>2
  <2>. QED BY <2>1, <2>3
<1>5. Near(h, p, key)
  BY <1>1, <1>2, <1>4 DEF Near
<1>. QED BY <1>3, <1>5 DEF h, p

LEMMA SwapHeaps ==
  ASSUME NEW V, NEW n \in Nat, NEW x \in Heaps(n, V), NEW q \in 1 .. n
  PROVE  /\ [heap |-> Swap(x.heap, x.at, q), at |-> q] \in Heaps(n, V)
         /\ Swap(x.heap, x.at, q)[q] = x.heap[x.at]
         /\ Swap(x.heap, x.at, q)[x.at] = x.heap[q]
         /\ \A i \in 1 .. n : i # q /\ i # x.at => Swap(x.heap, x.at, q)[i] = x.heap[i]
<1>. DEFINE h == x.heap
            p == x.at
            g == Swap(h, p, q)
<1>1. /\ h \in Seq(Nat) /\ Len(h) = n /\ p \in 1 .. n /\ q \in Nat
      /\ OnceEach(h) /\ EntriesOf(h) = V
  BY DEF Heaps, Moving
<1>. HIDE DEF h, p
<1>2. h \in [1 .. n -> Nat] /\ DOMAIN h = 1 .. n
  BY <1>1
<1>3. /\ g \in [1 .. n -> Nat]
      /\ g[q] = h[p] /\ g[p] = h[q] /\ \A i \in 1 .. n : i # q /\ i # p => g[i] = h[i]
  BY <1>1, <1>2 DEF Swap
<1>. HIDE DEF g
<1>4. g \in Seq(Nat) /\ Len(g) = n
  BY <1>3
<1>5. OnceEach(g)
  <2>1. \A i, j \in 1 .. n : h[i] = h[j] => i = j
    BY <1>1 DEF OnceEach
  <2>2. ASSUME NEW i \in 1 .. n, NEW j \in 1 .. n, g[i] = g[j] PROVE i = j
    <3>. DEFINE From(k) == IF k = q THEN p ELSE IF k = p THEN q ELSE k
    <3>1. \A k \in 1 .. n : From(k) \in 1 .. n /\ g[k] = h[From(k)]
      BY <1>1, <1>3
    <3>2. From(i) = From(j)
      BY <2>1, <2>2, <3>1
    <3>. QED BY <3>2
  <2>. QED BY <1>4, <2>2 DEF OnceEach
<1>6. EntriesOf(g) = V
  <2>1. ASSUME NEW i \in 1 .. n PROVE \E j \in 1 .. n : g[i] = h[j]
    BY <1>1, <1>3
  <2>2. ASSUME NEW i \in 1 .. n PROVE \E j \in 1 .. n : h[i] = g[j]
    BY <1>1, <1>3
  <2>3. \A v : v \in EntriesOf(g) <=> v \in EntriesOf(h)
    BY <1>1, <1>4, <2>1, <2>2 DEF EntriesOf
  <2>. QED BY <1>1, <2>3
<1>7. [heap |-> g, at |-> q] \in Heaps(n, V)
  BY <1>1, <1>4, <1>5, <1>6 DEF Heaps, Moving
<1>. QED BY <1>3, <1>7 DEF g, h, p

\* The keys along the branch that a round looks at.
LEMMA KeysOf ==
  ASSUME NEW V, NEW n \in Nat, NEW x \in Heaps(n, V), NEW cmp, NEW key, Compares(cmp, key, V)
  PROVE  /\ x \in Moving /\ x.heap \in Seq(Nat) /\ Len(x.heap) = n /\ x.at \in 1 .. n
         /\ x = [heap |-> x.heap, at |-> x.at]
         /\ \A i \in 1 .. n : x.heap[i] \in V /\ key[x.heap[i]] \in Int
         /\ \A i, j \in 1 .. n :
              /\ cmp[x.heap[i], x.heap[j]] \in Int
              /\ cmp[x.heap[i], x.heap[j]] < 0 <=> key[x.heap[i]] < key[x.heap[j]]
              /\ cmp[x.heap[i], x.heap[j]] > 0 <=> key[x.heap[i]] > key[x.heap[j]]
<1>1. x \in Moving /\ Len(x.heap) = n /\ x.at \in 1 .. n /\ EntriesOf(x.heap) = V
  BY DEF Heaps
<1>2. x.heap \in Seq(Nat) /\ x = [heap |-> x.heap, at |-> x.at]
  BY <1>1 DEF Moving
<1>3. \A i \in 1 .. n : x.heap[i] \in V
  BY <1>1 DEF EntriesOf
<1>. QED BY <1>1, <1>2, <1>3 DEF Compares

LEMMA HalfOf ==
  ASSUME NEW n \in Nat, NEW p \in 1 .. n, NEW q, q = p \div 2, p # 1
  PROVE  /\ q \in 1 .. n /\ q # p /\ p \in 2 .. n /\ p > 1 /\ q \in Nat
         /\ q \div 2 # q /\ q \div 2 # p /\ q \div 2 < q
         /\ q > 1 => q \div 2 \in 1 .. n /\ q \in 2 .. n
<1>1. p \in Nat /\ p > 1 /\ p <= n
  OBVIOUS
<1>2. q \in Nat /\ q >= 1 /\ q < p
  BY <1>1, Halves
<1>3. q \div 2 \in Nat /\ q \div 2 < q
  BY <1>2, Halves
<1>4. q > 1 => q \div 2 >= 1
  BY <1>2, Halves
<1>. QED BY <1>1, <1>2, <1>3, <1>4

LEMMA Parents ==
  ASSUME NEW n \in Nat, NEW j \in 2 .. n
  PROVE  j \in Nat /\ j \in 1 .. n /\ j \div 2 \in 1 .. n /\ j \div 2 \in Nat /\ j \div 2 # j
<1>1. j \in Nat /\ j > 1 /\ j <= n
  OBVIOUS
<1>2. j \div 2 \in Nat /\ j \div 2 >= 1 /\ j \div 2 < j
  BY <1>1, Halves
<1>. QED BY <1>1, <1>2

\* h becomes g: an entry is exchanged with its parent, which is not before it.
Exchanges(n, h, g, key, p, q) ==
  /\ Len(h) = n /\ Len(g) = n /\ p \in 1 .. n /\ q = p \div 2 /\ p # 1
  /\ \A i \in 1 .. n : key[h[i]] \in Int
  /\ key[h[p]] <= key[h[q]]
  /\ g[q] = h[p] /\ g[p] = h[q] /\ \A i \in 1 .. n : i # q /\ i # p => g[i] = h[i]

LEMMA Exchanged ==
  ASSUME NEW n \in Nat, NEW h, NEW g, NEW key, NEW p, NEW q, Exchanges(n, h, g, key, p, q),
         Near(h, p, key)
  PROVE  /\ Near(g, q, key)
         /\ Below(h, p, key) => Below(g, q, key)
<1>. DEFINE K(i) == key[h[i]]
<1>. USE DEF Exchanges
<1>1. /\ q \in 1 .. n /\ q # p /\ p \in 2 .. n /\ p > 1
      /\ q \div 2 # q /\ q \div 2 # p
      /\ q > 1 => q \div 2 \in 1 .. n /\ q \in 2 .. n
  BY HalfOf
<1>2. /\ \A i \in 1 .. n : K(i) \in Int
      /\ K(p) <= K(q)
      /\ key[g[q]] = K(p) /\ key[g[p]] = K(q)
      /\ \A i \in 1 .. n : i # q /\ i # p => key[g[i]] = K(i)
  OBVIOUS
<1>3. \A j \in 2 .. n : j # p /\ j \div 2 # p => K(j \div 2) <= K(j)
  BY DEF Near
<1>4. \A j \in 2 .. n : j \div 2 = p => K(q) <= K(j)
  BY <1>1 DEF Near
<1>. HIDE DEF K
<1>5. ASSUME NEW j \in 2 .. n, j # q, j \div 2 # q PROVE key[g[j \div 2]] <= key[g[j]]
  <2>1. j # p /\ j \in 1 .. n /\ j \div 2 \in 1 .. n /\ j \div 2 # j
    BY <1>5, Parents
  <2>2. CASE j \div 2 = p
    BY <1>2, <1>4, <1>5, <2>1, <2>2
  <2>3. CASE j \div 2 # p
    BY <1>2, <1>3, <1>5, <2>1, <2>3
  <2>. QED BY <2>2, <2>3
<1>6. ASSUME NEW j \in 2 .. n, j \div 2 = q
      PROVE  /\ K(q) <= key[g[j]] /\ key[g[j]] \in Int
             /\ K(q) \in Int /\ K(p) \in Int /\ K(p) <= K(q)
  <2>1. j # q /\ j \in 1 .. n
    BY <1>6, Parents
  <2>2. CASE j = p
    BY <1>1, <1>2, <2>2
  <2>3. CASE j # p
    <3>1. K(j \div 2) <= K(j)
      BY <1>1, <1>3, <1>6, <2>3
    <3>2. key[g[j]] = K(j) /\ K(j) \in Int /\ K(q) \in Int /\ K(p) \in Int
      BY <1>1, <1>2, <2>1, <2>3
    <3>. QED BY <1>2, <1>6, <3>1, <3>2
  <2>. QED BY <2>2, <2>3
<1>7. Below(g, q, key)
  <2>1. ASSUME NEW j \in 2 .. n, j \div 2 = q PROVE key[g[q]] <= key[g[j]]
    <3>1. K(q) <= key[g[j]] /\ key[g[j]] \in Int /\ K(q) \in Int /\ K(p) \in Int /\ K(p) <= K(q)
      BY <1>6, <2>1
    <3>. QED BY <1>2, <3>1
  <2>. QED BY <2>1 DEF Below
<1>8. ASSUME NEW j \in 2 .. n, j \div 2 = q, q > 1 PROVE key[g[q \div 2]] <= key[g[j]]
  <2>1. K(q) <= key[g[j]] /\ key[g[j]] \in Int /\ K(q) \in Int
    BY <1>6, <1>8
  <2>2. q \in 2 .. n /\ q # p /\ q \div 2 # p /\ q \div 2 # q /\ q \div 2 \in 1 .. n
    BY <1>1, <1>8
  <2>3. K(q \div 2) <= K(q)
    BY <1>3, <2>2
  <2>4. key[g[q \div 2]] = K(q \div 2) /\ K(q \div 2) \in Int
    BY <1>2, <2>2
  <2>. QED BY <2>1, <2>3, <2>4
<1>9. Near(g, q, key)
  BY <1>5, <1>8 DEF Near
<1>. QED BY <1>7, <1>9

LEMMA RaiseRound ==
  ASSUME NEW V, NEW n \in Nat, NEW x \in Heaps(n, V), NEW cmp, NEW key, Compares(cmp, key, V)
  PROVE  /\ Raise(cmp)[x] \in Heaps(n, V)
         /\ Raise(cmp)[x] = x \/ Raise(cmp)[x].at \div 2 < x.at \div 2
         /\ Raise(cmp)[x] = x => Above(x.heap, x.at, key)
         /\ Near(x.heap, x.at, key) => Near(Raise(cmp)[x].heap, Raise(cmp)[x].at, key)
         /\ Near(x.heap, x.at, key) /\ Below(x.heap, x.at, key) =>
              Below(Raise(cmp)[x].heap, Raise(cmp)[x].at, key)
<1>1. PICK h : h = x.heap
  OBVIOUS
<1>2. PICK p : p = x.at
  OBVIOUS
<1>3. PICK q : q = p \div 2
  OBVIOUS
<1>4. PICK g : g = Swap(h, p, q)
  OBVIOUS
<1>5. PICK y : y = [heap |-> g, at |-> q]
  OBVIOUS
<1>6. /\ x \in Moving /\ Len(h) = n /\ p \in 1 .. n
      /\ \A i \in 1 .. n : h[i] \in V /\ key[h[i]] \in Int
      /\ \A i, j \in 1 .. n : /\ cmp[h[i], h[j]] \in Int
                              /\ cmp[h[i], h[j]] < 0 <=> key[h[i]] < key[h[j]]
  BY <1>1, <1>2, KeysOf
<1>a. p \in 1 .. n /\ p \in Int /\ (p > 1 <=> p # 1)
  <2>1. p \in 1 .. n
    BY <1>6
  <2>. QED BY <2>1
<1>b. \A i, j \in 1 .. n : cmp[h[i], h[j]] < 0 <=> key[h[i]] < key[h[j]]
  BY <1>6
<1>c. \A i \in 1 .. n : key[h[i]] \in Int
  BY <1>6
<1>7. Raise(cmp)[x] = IF p = 1 \/ cmp[h[q], h[p]] < 0 THEN x ELSE y
  BY <1>1, <1>2, <1>3, <1>4, <1>5, <1>6 DEF Raise
<1>8. CASE p = 1 \/ cmp[h[q], h[p]] < 0
  <2>1. Raise(cmp)[x] = x
    BY <1>7, <1>8
  <2>2. ASSUME p > 1 PROVE key[h[q]] <= key[h[p]]
    <3>1. p \in 1 .. n /\ p # 1
      BY <1>a, <2>2
    <3>2. q \in 1 .. n
      BY <1>3, <3>1, HalfOf
    <3>3. /\ cmp[h[q], h[p]] < 0 <=> key[h[q]] < key[h[p]]
          /\ key[h[q]] \in Int /\ key[h[p]] \in Int
      BY <1>b, <1>c, <3>1, <3>2
    <3>4. key[h[q]] < key[h[p]]
      BY <1>8, <3>1, <3>3
    <3>5. PICK a \in Int, b \in Int : a = key[h[q]] /\ b = key[h[p]]
      BY <3>3
    <3>. QED BY <3>4, <3>5
  <2>3. Above(h, p, key)
    BY <1>3, <2>2 DEF Above
  <2>. QED BY <1>1, <1>2, <2>1, <2>3
<1>9. CASE ~(p = 1 \/ cmp[h[q], h[p]] < 0)
  <2>1. Raise(cmp)[x] = y
    BY <1>7, <1>9
  <2>2. q \in 1 .. n /\ q # p /\ q \div 2 < q
    BY <1>3, <1>6, <1>9, HalfOf
  <2>3. /\ y \in Heaps(n, V) /\ g[q] = h[p] /\ g[p] = h[q]
        /\ \A i \in 1 .. n : i # q /\ i # p => g[i] = h[i]
    BY <1>1, <1>2, <1>4, <1>5, <2>2, SwapHeaps
  <2>4. y # x /\ y.at = q /\ y.heap = g
    BY <1>2, <1>5, <2>2
  <2>5. Len(g) = n
    BY <2>3, <2>4 DEF Heaps
  <2>6. key[h[p]] <= key[h[q]]
    <3>1. /\ cmp[h[q], h[p]] < 0 <=> key[h[q]] < key[h[p]]
          /\ key[h[q]] \in Int /\ key[h[p]] \in Int
      BY <1>a, <1>b, <1>c, <2>2
    <3>2. ~(key[h[q]] < key[h[p]])
      BY <1>9, <3>1
    <3>3. PICK a \in Int, b \in Int : a = key[h[q]] /\ b = key[h[p]]
      BY <3>1
    <3>. QED BY <3>2, <3>3
  <2>7. ASSUME Near(h, p, key) PROVE Near(g, q, key) /\ (Below(h, p, key) => Below(g, q, key))
    <3>1. /\ Len(h) = n /\ p \in 1 .. n /\ p # 1 /\ q = p \div 2
          /\ \A i \in 1 .. n : key[h[i]] \in Int
      BY <1>3, <1>6, <1>9
    <3>2. \A i \in 1 .. n : i # q /\ i # p => g[i] = h[i]
      BY <2>3
    <3>3. Exchanges(n, h, g, key, p, q)
      BY <2>3, <2>5, <2>6, <3>1, <3>2 DEF Exchanges
    <3>. QED BY <2>7, <3>3, Exchanged
  <2>8. y.at \div 2 < x.at \div 2
    BY <1>2, <1>3, <2>2, <2>4
  <2>. QED BY <1>1, <1>2, <2>1, <2>3, <2>4, <2>7, <2>8
<1>. QED BY <1>8, <1>9

\* h becomes g: an entry is exchanged with the child that none of its children
\* is before.
Sinks(n, h, g, key, p, c) ==
  /\ Len(h) = n /\ Len(g) = n /\ p \in 1 .. n /\ c \in 1 .. n /\ p = c \div 2
  /\ \A i \in 1 .. n : key[h[i]] \in Int
  /\ key[h[c]] <= key[h[p]] /\ \A j \in 2 .. n : j \div 2 = p => key[h[c]] <= key[h[j]]
  /\ g[c] = h[p] /\ g[p] = h[c] /\ \A i \in 1 .. n : i # c /\ i # p => g[i] = h[i]

LEMMA Sunk ==
  ASSUME NEW n \in Nat, NEW h, NEW g, NEW key, NEW p, NEW c, Sinks(n, h, g, key, p, c),
         Near(h, p, key), Above(h, p, key)
  PROVE  Near(g, c, key) /\ Above(g, c, key)
<1>. DEFINE K(i) == key[h[i]]
<1>0. p \in 1 .. n /\ c \in 1 .. n /\ p = c \div 2 /\ Len(h) = n /\ Len(g) = n
  BY DEF Sinks
<1>1. c \in 2 .. n /\ p # c /\ p < c
  <2>1. c \in Nat /\ c >= 1 /\ c <= n /\ p >= 1 /\ p \in Nat
    BY <1>0
  <2>2. p < c
    BY <1>0, <2>1, Halves
  <2>. QED BY <2>1, <2>2
<1>2. p \in 2 .. n => p \div 2 \in 1 .. n /\ p \div 2 # p /\ p \div 2 # c
  <2>1. ASSUME p \in 2 .. n PROVE p \div 2 \in 1 .. n /\ p \div 2 < p
    BY <2>1, Halves, Parents
  <2>. QED BY <1>1, <2>1
<1>3. /\ \A i \in 1 .. n : K(i) \in Int
      /\ K(c) <= K(p)
      /\ \A j \in 2 .. n : j \div 2 = p => K(c) <= K(j)
      /\ key[g[c]] = K(p) /\ key[g[p]] = K(c)
      /\ \A i \in 1 .. n : i # c /\ i # p => key[g[i]] = K(i)
  BY DEF Sinks
<1>4. \A j \in 2 .. n : j # p /\ j \div 2 # p => K(j \div 2) <= K(j)
  BY <1>0 DEF Near
<1>5. p \in 2 .. n => K(p \div 2) <= K(c)
  BY <1>0, <1>1 DEF Near
<1>. HIDE DEF K
<1>6. ASSUME NEW j \in 2 .. n, j # c, j \div 2 # c PROVE key[g[j \div 2]] <= key[g[j]]
  <2>1. j \in 1 .. n /\ j \div 2 \in 1 .. n /\ j \div 2 # j
    BY Parents
  <2>2. CASE j \div 2 = p
    BY <1>3, <1>6, <2>1, <2>2
  <2>3. CASE j = p
    <3>1. key[g[j \div 2]] = K(j \div 2) /\ key[g[j]] = K(c)
      BY <1>2, <1>3, <2>1, <2>3
    <3>. QED BY <1>5, <2>3, <3>1
  <2>4. CASE j # p /\ j \div 2 # p
    <3>1. key[g[j \div 2]] = K(j \div 2) /\ key[g[j]] = K(j)
      BY <1>3, <1>6, <2>1, <2>4
    <3>. QED BY <1>4, <2>4, <3>1
  <2>. QED BY <2>2, <2>3, <2>4
<1>7. ASSUME NEW j \in 2 .. n, j \div 2 = c PROVE key[g[c \div 2]] <= key[g[j]]
  <2>1. j \in 1 .. n /\ j # c /\ j # p
    <3>1. j \in 1 .. n /\ j \div 2 < j
      BY Halves, Parents
    <3>. QED BY <1>1, <1>7, <3>1
  <2>2. K(c) <= K(j)
    BY <1>1, <1>4, <1>7, <2>1
  <2>. QED BY <1>0, <1>3, <2>1, <2>2
<1>8. key[g[c \div 2]] <= key[g[c]]
  BY <1>0, <1>3
<1>. QED BY <1>0, <1>6, <1>7, <1>8 DEF Near, Above

\* How many levels an entry can sink.
Depth(x) == IF 2 * x.at > Len(x.heap) THEN 0 ELSE (Len(x.heap) \div 2) - x.at + 1

LEMMA LowerRound ==
  ASSUME NEW V, NEW n \in Nat, NEW x \in Heaps(n, V), NEW cmp, NEW key, Compares(cmp, key, V)
  PROVE  /\ Lower(cmp)[x] \in Heaps(n, V)
         /\ Depth(x) \in Nat
         /\ Lower(cmp)[x] = x \/ Depth(Lower(cmp)[x]) < Depth(x)
         /\ Lower(cmp)[x] = x => Below(x.heap, x.at, key)
         /\ Near(x.heap, x.at, key) /\ Above(x.heap, x.at, key) =>
              /\ Near(Lower(cmp)[x].heap, Lower(cmp)[x].at, key)
              /\ Above(Lower(cmp)[x].heap, Lower(cmp)[x].at, key)
<1>1. PICK h : h = x.heap
  OBVIOUS
<1>2. PICK p \in 1 .. n : p = x.at
  BY KeysOf
<1>3. PICK l \in Nat, r \in Nat : l = 2 * p /\ r = 2 * p + 1
  OBVIOUS
<1>4. PICK c : c = IF r > n \/ cmp[h[l], h[r]] <= 0 THEN l ELSE r
  OBVIOUS
<1>5. PICK g : g = Swap(h, p, c)
  OBVIOUS
<1>6. PICK y : y = [heap |-> g, at |-> c]
  OBVIOUS
<1>. DEFINE Before(j) == j <= n /\ cmp[h[p], h[j]] > 0
<1>7. /\ x \in Moving /\ Len(h) = n
      /\ \A i \in 1 .. n : h[i] \in V /\ key[h[i]] \in Int
      /\ \A i, j \in 1 .. n : /\ cmp[h[i], h[j]] \in Int
                              /\ cmp[h[i], h[j]] < 0 <=> key[h[i]] < key[h[j]]
                              /\ cmp[h[i], h[j]] > 0 <=> key[h[i]] > key[h[j]]
  BY <1>1, <1>2, KeysOf
<1>8. p \in 1 .. n
  OBVIOUS
<1>9. \A i \in 1 .. n : key[h[i]] \in Int
  BY <1>7
<1>10. Lower(cmp)[x] = IF ~Before(l) /\ ~Before(r) THEN x ELSE y
  BY <1>1, <1>2, <1>3, <1>4, <1>5, <1>6, <1>7 DEF Lower
<1>11. /\ p \in Nat /\ p >= 1 /\ p <= n /\ l \in Nat /\ r \in Nat /\ l > p /\ r > l /\ l >= 2
       /\ \A j \in Nat : j \div 2 = p <=> j = l \/ j = r
  <2>1. p \in Nat /\ p >= 1 /\ p <= n
    BY <1>8
  <2>2. \A j \in Nat : j \div 2 = p <=> j = l \/ j = r
    BY <1>3, <2>1, Halves
  <2>. QED BY <1>3, <2>1, <2>2
<1>12. Depth(x) \in Nat /\ (l <= n => Depth(x) = (n \div 2) - p + 1 /\ p <= n \div 2)
  <2>1. Depth(x) = IF l > n THEN 0 ELSE (n \div 2) - p + 1
    BY <1>1, <1>2, <1>3, <1>7 DEF Depth
  <2>2. l <= n => p <= n \div 2 /\ n \div 2 \in Nat
    BY <1>3, <1>11
  <2>. QED BY <1>11, <2>1, <2>2
<1>. HIDE DEF Before
<1>13. CASE ~Before(l) /\ ~Before(r)
  <2>1. Lower(cmp)[x] = x
    BY <1>10, <1>13
  <2>2. ASSUME NEW j \in 2 .. n, j \div 2 = p PROVE key[h[p]] <= key[h[j]]
    <3>1. j \in 1 .. n /\ j \in Nat
      OBVIOUS
    <3>0. j = l \/ j = r
      BY <1>11, <2>2, <3>1
    <3>a. ~Before(j) /\ j <= n
      BY <1>13, <3>0
    <3>2. ~(cmp[h[p], h[j]] > 0)
      BY <3>a DEF Before
    <3>3. cmp[h[p], h[j]] > 0 <=> key[h[p]] > key[h[j]]
      BY <1>7, <1>8, <3>1
    <3>4. PICK a \in Int, b \in Int : a = key[h[p]] /\ b = key[h[j]]
      BY <1>8, <1>9, <3>1
    <3>5. ~(key[h[p]] > key[h[j]])
      BY <3>2, <3>3
    <3>6. a <= b
      BY <3>4, <3>5
    <3>. QED BY <3>4, <3>6
  <2>3. Below(h, p, key)
    BY <1>7, <2>2 DEF Below
  <2>. QED BY <1>1, <1>2, <1>12, <2>1, <2>3
<1>14. CASE ~(~Before(l) /\ ~Before(r))
  <2>1. Lower(cmp)[x] = y
    BY <1>10, <1>14
  <2>2. l <= n /\ l \in 1 .. n
    <3>1. l <= n \/ r <= n
      BY <1>14 DEF Before
    <3>. QED BY <1>11, <3>1
  <2>3. c \in 1 .. n /\ c \div 2 = p /\ c > p /\ c \in Nat
    <3>1. c = l \/ (c = r /\ ~(r > n))
      BY <1>4
    <3>2. c \in 1 .. n /\ c > p /\ c \in Nat
      BY <1>11, <2>2, <3>1
    <3>. QED BY <1>11, <3>1, <3>2
  <2>4. /\ y \in Heaps(n, V) /\ g[c] = h[p] /\ g[p] = h[c]
        /\ \A i \in 1 .. n : i # c /\ i # p => g[i] = h[i]
    BY <1>1, <1>2, <1>5, <1>6, <2>3, SwapHeaps
  <2>5. y # x /\ y.at = c /\ y.heap = g
    BY <1>2, <1>6, <1>11, <2>3
  <2>6. Len(g) = n
    BY <2>4, <2>5 DEF Heaps
  <2>7. ASSUME NEW j \in 2 .. n, j \div 2 = p PROVE key[h[c]] <= key[h[j]]
    <3>1. j \in Nat /\ (j = l \/ j = r) /\ j \in 1 .. n
      BY <1>11, <2>7
    <3>2. PICK a \in Int, b \in Int : a = key[h[c]] /\ b = key[h[j]]
      BY <1>9, <2>3, <3>1
    <3>3. CASE j = c
      BY <3>2, <3>3
    <3>4. CASE j # c /\ c = l
      <4>1. j = r /\ r \in 1 .. n
        BY <3>1, <3>4
      <4>0. ~(r > n) /\ l # r
        BY <1>11, <4>1
      <4>2. cmp[h[l], h[r]] <= 0
        BY <1>4, <3>4, <4>0
      <4>3. cmp[h[l], h[r]] \in Int /\ (cmp[h[l], h[r]] > 0 <=> key[h[l]] > key[h[r]])
        BY <1>7, <2>2, <4>1
      <4>a. PICK e \in Int : e = cmp[h[l], h[r]]
        BY <4>3
      <4>b. e <= 0
        BY ONLY <4>2, <4>a, Zenon
      <4>c. ~(e > 0)
        BY <4>b
      <4>4. ~(cmp[h[l], h[r]] > 0)
        BY ONLY <4>a, <4>c, Zenon
      <4>5. ~(key[h[c]] > key[h[j]])
        BY <3>4, <4>1, <4>3, <4>4
      <4>6. a <= b
        BY <3>2, <4>5
      <4>. QED BY <3>2, <4>6
    <3>5. CASE j # c /\ c # l
      <4>0. c = r /\ ~(cmp[h[l], h[r]] <= 0)
        BY <1>4, <3>5
      <4>1. j = l /\ c = r /\ r \in 1 .. n /\ ~(cmp[h[l], h[r]] <= 0)
        BY <2>3, <3>1, <3>5, <4>0
      <4>2. cmp[h[l], h[r]] \in Int /\ (cmp[h[l], h[r]] > 0 <=> key[h[l]] > key[h[r]])
        BY <1>7, <2>2, <4>1
      <4>a. PICK e \in Int : e = cmp[h[l], h[r]]
        BY <4>2
      <4>b. ~(e <= 0)
        BY ONLY <4>1, <4>a, Zenon
      <4>c. e > 0
        BY <4>b
      <4>3. cmp[h[l], h[r]] > 0
        BY ONLY <4>a, <4>c, Zenon
      <4>4. key[h[j]] > key[h[c]]
        BY <4>1, <4>2, <4>3
      <4>5. a <= b
        BY <3>2, <4>4
      <4>. QED BY <3>2, <4>5
    <3>. QED BY <3>3, <3>4, <3>5
  <2>8. key[h[c]] <= key[h[p]]
    <3>1. PICK j \in {l, r} : Before(j)
      BY <1>14
    <3>a. j <= n /\ cmp[h[p], h[j]] > 0
      BY <3>1 DEF Before
    <3>b. j \in Nat /\ j >= 2 /\ j \div 2 = p
      BY <1>11, <3>1
    <3>c. j <= n
      BY <3>a
    <3>d. j \in 2 .. n
      BY <3>b, <3>c
    <3>2. j \in 1 .. n
      BY <3>d
    <3>e. cmp[h[p], h[j]] > 0 <=> key[h[p]] > key[h[j]]
      BY <1>7, <1>8, <3>2
    <3>f. cmp[h[p], h[j]] > 0
      BY <3>a, Zenon
    <3>3. key[h[p]] > key[h[j]]
      BY ONLY <3>e, <3>f, Zenon
    <3>4. PICK a \in Int, b \in Int, d \in Int : a = key[h[c]] /\ b = key[h[p]] /\ d = key[h[j]]
      BY <1>8, <1>9, <2>3, <3>2
    <3>5. a <= d
      BY <2>7, <3>b, <3>d, <3>4
    <3>. QED BY <3>3, <3>4, <3>5
  <2>9. Sinks(n, h, g, key, p, c)
    BY <1>7, <1>8, <1>9, <2>3, <2>4, <2>6, <2>7, <2>8 DEF Sinks
  <2>10. Near(h, p, key) /\ Above(h, p, key) => Near(g, c, key) /\ Above(g, c, key)
    BY <2>9, Sunk
  <2>11. Depth(y) < Depth(x)
    <3>1. Depth(y) = IF 2 * c > n THEN 0 ELSE (n \div 2) - c + 1
      BY <2>5, <2>6 DEF Depth
    <3>2. n \div 2 \in Nat /\ Depth(x) = (n \div 2) - p + 1 /\ p <= n \div 2
      BY <1>12, <2>2
    <3>. QED BY <1>11, <2>3, <3>1, <3>2
  <2>. QED BY <1>1, <1>2, <1>12, <2>1, <2>4, <2>5, <2>10, <2>11
<1>. QED BY <1>13, <1>14

\* The loop in parents leaves the entry below one that is not after it.
LEMMA RaiseLoop ==
  ASSUME NEW V, NEW n \in Nat, NEW s \in Heaps(n, V), NEW cmp, NEW key, Compares(cmp, key, V),
         Near(s.heap, s.at, key)
  PROVE  /\ Rounds(Raise(cmp), s) \in Heaps(n, V)
         /\ Near(Rounds(Raise(cmp), s).heap, Rounds(Raise(cmp), s).at, key)
         /\ Above(Rounds(Raise(cmp), s).heap, Rounds(Raise(cmp), s).at, key)
         /\ Below(s.heap, s.at, key) =>
              Below(Rounds(Raise(cmp), s).heap, Rounds(Raise(cmp), s).at, key)
<1>1. PICK f : f = Raise(cmp)
  OBVIOUS
<1>. DEFINE Good(x) == Near(x.heap, x.at, key) /\ (Below(s.heap, s.at, key) => Below(x.heap, x.at, key))
            X == {x \in Heaps(n, V) : Good(x)}
            m == [x \in Heaps(n, V) |-> x.at \div 2]
<1>2. s \in X
  OBVIOUS
<1>3. \A x \in Heaps(n, V) : m[x] = x.at \div 2 /\ m[x] \in Nat
  <2>1. ASSUME NEW x \in Heaps(n, V) PROVE x.at \div 2 \in Nat
    <3>1. x.at \in Nat
      BY DEF Heaps
    <3>. QED BY <3>1, Halves
  <2>. QED BY <2>1
<1>. HIDE DEF m
<1>4. ASSUME NEW x \in X PROVE f[x] \in X /\ m[x] \in Nat /\ (f[x] = x \/ m[f[x]] < m[x])
  <2>1. x \in Heaps(n, V) /\ Good(x)
    OBVIOUS
  <2>2. /\ f[x] \in Heaps(n, V) /\ (f[x] = x \/ f[x].at \div 2 < x.at \div 2)
        /\ Near(x.heap, x.at, key) => Near(f[x].heap, f[x].at, key)
        /\ Near(x.heap, x.at, key) /\ Below(x.heap, x.at, key) => Below(f[x].heap, f[x].at, key)
    BY <1>1, <2>1, RaiseRound
  <2>3. f[x] \in X
    BY <2>1, <2>2
  <2>4. m[f[x]] = f[x].at \div 2 /\ m[x] = x.at \div 2 /\ m[x] \in Nat
    BY <1>3, <2>1, <2>2
  <2>. QED BY <2>2, <2>3, <2>4, Zenon
<1>5. /\ Len(s.heap) \div 2 \in Nat /\ m[s] <= Len(s.heap) \div 2
  <2>1. Len(s.heap) = n /\ s.at \in Nat /\ s.at <= n
    BY DEF Heaps
  <2>2. s.at \div 2 <= n \div 2 /\ n \div 2 \in Nat
    BY <2>1, Halves
  <2>. QED BY <1>3, <2>1, <2>2
<1>. HIDE DEF X
<1>6. Rounds(f, s) \in X /\ f[Rounds(f, s)] = Rounds(f, s)
  BY <1>2, <1>4, <1>5, RoundsEnd
<1>7. PICK y : y = Rounds(f, s)
  OBVIOUS
<1>8. y \in Heaps(n, V) /\ Good(y) /\ f[y] = y
  BY <1>6, <1>7 DEF X
<1>9. Above(y.heap, y.at, key)
  BY <1>1, <1>8, RaiseRound
<1>. QED BY <1>1, <1>7, <1>8, <1>9

\* The loop in childs leaves all in order.
LEMMA LowerLoop ==
  ASSUME NEW V, NEW n \in Nat, NEW s \in Heaps(n, V), NEW cmp, NEW key, Compares(cmp, key, V),
         Near(s.heap, s.at, key), Above(s.heap, s.at, key)
  PROVE  /\ Rounds(Lower(cmp), s) \in Heaps(n, V)
         /\ Ordered(Rounds(Lower(cmp), s).heap, key)
<1>1. PICK f : f = Lower(cmp)
  OBVIOUS
<1>. DEFINE Good(x) == Near(x.heap, x.at, key) /\ Above(x.heap, x.at, key)
            X == {x \in Heaps(n, V) : Good(x)}
            m == [x \in Heaps(n, V) |-> Depth(x)]
<1>2. s \in X
  OBVIOUS
<1>3. \A x \in Heaps(n, V) : m[x] = Depth(x)
  OBVIOUS
<1>. HIDE DEF m
<1>4. ASSUME NEW x \in X PROVE f[x] \in X /\ m[x] \in Nat /\ (f[x] = x \/ m[f[x]] < m[x])
  <2>1. x \in Heaps(n, V) /\ Good(x)
    OBVIOUS
  <2>2. /\ f[x] \in Heaps(n, V) /\ Depth(x) \in Nat /\ (f[x] = x \/ Depth(f[x]) < Depth(x))
        /\ Near(x.heap, x.at, key) /\ Above(x.heap, x.at, key) =>
             Near(f[x].heap, f[x].at, key) /\ Above(f[x].heap, f[x].at, key)
    BY <1>1, <2>1, LowerRound
  <2>3. f[x] \in X
    BY <2>1, <2>2
  <2>4. m[f[x]] = Depth(f[x]) /\ m[x] = Depth(x)
    BY <1>3, <2>1, <2>2
  <2>. QED BY <2>2, <2>3, <2>4, Zenon
<1>5. /\ Len(s.heap) \div 2 \in Nat /\ m[s] <= Len(s.heap) \div 2
  <2>1. Len(s.heap) = n /\ s.at \in Nat /\ 1 <= s.at
    BY DEF Heaps
  <2>2. n \div 2 \in Nat
    BY Halves
  <2>3. Depth(s) <= n \div 2
    BY <2>1, <2>2 DEF Depth
  <2>. QED BY <1>3, <2>1, <2>2, <2>3
<1>. HIDE DEF X
<1>6. Rounds(f, s) \in X /\ f[Rounds(f, s)] = Rounds(f, s)
  BY <1>2, <1>4, <1>5, RoundsEnd
<1>7. PICK y : y = Rounds(f, s)
  OBVIOUS
<1>8. y \in Heaps(n, V) /\ Good(y) /\ f[y] = y
  BY <1>6, <1>7 DEF X
<1>9. Below(y.heap, y.at, key)
  BY <1>1, <1>8, LowerRound
<1>10. Ordered(y.heap, key)
  BY <1>8, <1>9, NearIsOrdered
<1>. QED BY <1>1, <1>7, <1>8, <1>10

Lists(h, n, V) == h \in Seq(Nat) /\ Len(h) = n /\ OnceEach(h) /\ EntriesOf(h) = V

\* What an entry more or less makes of a list.
LEMMA Appended ==
  ASSUME NEW h, NEW n \in Nat, NEW V, Lists(h, n, V), NEW v \in Nat, v \notin V
  PROVE  /\ Lists(Append(h, v), n + 1, V \union {v})
         /\ Append(h, v)[n + 1] = v /\ \A i \in 1 .. n : Append(h, v)[i] = h[i]
<1>1. h \in Seq(Nat) /\ Len(h) = n /\ OnceEach(h) /\ EntriesOf(h) = V
  BY DEF Lists
<1>2. PICK g : g = Append(h, v)
  OBVIOUS
<1>3. g \in Seq(Nat) /\ Len(g) = n + 1 /\ g[n + 1] = v /\ \A i \in 1 .. n : g[i] = h[i]
  BY <1>1, <1>2
<1>4. \A i \in 1 .. n : g[i] \in V
  BY <1>1, <1>3 DEF EntriesOf
<1>5. \A i \in 1 .. n + 1 : i = n + 1 \/ i \in 1 .. n
  OBVIOUS
<1>6. OnceEach(g)
  <2>1. \A i, j \in 1 .. n : h[i] = h[j] => i = j
    BY <1>1 DEF OnceEach
  <2>2. ASSUME NEW i \in 1 .. n + 1, NEW j \in 1 .. n + 1, g[i] = g[j] PROVE i = j
    BY <1>3, <1>4, <1>5, <2>1, <2>2
  <2>. QED BY <1>3, <2>2 DEF OnceEach
<1>7. EntriesOf(g) = V \union {v}
  <2>1. \A i \in 1 .. n + 1 : g[i] \in V \union {v}
    BY <1>3, <1>4, <1>5
  <2>2. ASSUME NEW w \in V PROVE \E i \in 1 .. n + 1 : g[i] = w
    <3>1. PICK i \in 1 .. n : h[i] = w
      BY <1>1 DEF EntriesOf
    <3>. QED BY <1>3, <3>1
  <2>3. n + 1 \in 1 .. n + 1
    OBVIOUS
  <2>. QED BY <1>3, <2>1, <2>2, <2>3 DEF EntriesOf
<1>8. Lists(g, n + 1, V \union {v})
  BY <1>3, <1>6, <1>7 DEF Lists
<1>. QED BY <1>2, <1>3, <1>8

LEMMA Shortened ==
  ASSUME NEW h, NEW n \in Nat, n > 0, NEW V, Lists(h, n, V)
  PROVE  /\ Lists(SubSeq(h, 1, n - 1), n - 1, V \ {h[n]})
         /\ \A i \in 1 .. n - 1 : SubSeq(h, 1, n - 1)[i] = h[i]
<1>1. h \in Seq(Nat) /\ Len(h) = n /\ OnceEach(h) /\ EntriesOf(h) = V
  BY DEF Lists
<1>2. PICK m \in Nat : m = n - 1
  OBVIOUS
<1>3. PICK short : short = SubSeq(h, 1, m)
  OBVIOUS
<1>4. short \in Seq(Nat) /\ Len(short) = m /\ \A j \in 1 .. m : short[j] = h[j]
  <2>1. short = [j \in 1 .. m |-> h[j]]
    BY <1>1, <1>2, <1>3
  <2>2. \A j \in 1 .. m : h[j] \in Nat
    BY <1>1, <1>2
  <2>. QED BY <2>1, <2>2
<1>5. \A j, k \in 1 .. n : h[j] = h[k] => j = k
  BY <1>1 DEF OnceEach
<1>6. /\ \A j \in 1 .. n : h[j] \in V
      /\ \A w \in V : \E j \in 1 .. n : h[j] = w
  BY <1>1 DEF EntriesOf
<1>7. /\ \A j \in 1 .. n : j = n \/ j \in 1 .. m
      /\ \A j \in 1 .. m : j \in 1 .. n /\ j # n
      /\ n \in 1 .. n
  BY <1>2
<1>8. OnceEach(short)
  BY <1>4, <1>5, <1>7 DEF OnceEach
<1>9. EntriesOf(short) = V \ {h[n]}
  <2>1. \A j \in 1 .. m : short[j] \in V \ {h[n]}
    BY <1>4, <1>5, <1>6, <1>7
  <2>2. \A w \in V \ {h[n]} : \E j \in 1 .. m : short[j] = w
    BY <1>4, <1>6, <1>7
  <2>. QED BY <1>4, <2>1, <2>2 DEF EntriesOf
<1>10. Lists(short, m, V \ {h[n]})
  BY <1>4, <1>8, <1>9 DEF Lists
<1>. QED BY <1>2, <1>3, <1>4, <1>10

LEMMA HeapPushed ==
  ASSUME NEW h, NEW n \in Nat, NEW V, Lists(h, n, V), NEW v \in Nat, v \notin V,
         NEW cmp, NEW key, Compares(cmp, key, V \union {v}), Ordered(h, key)
  PROVE  /\ Lists(HeapPush(h, v, cmp), n + 1, V \union {v})
         /\ Ordered(HeapPush(h, v, cmp), key)
<1>1. Len(h) = n
  BY DEF Lists
<1>2. PICK g : g = Append(h, v)
  OBVIOUS
<1>3. Lists(g, n + 1, V \union {v}) /\ \A i \in 1 .. n : g[i] = h[i]
  BY <1>2, Appended
<1>4. Len(g) = n + 1
  BY <1>3 DEF Lists
<1>8. PICK s : s = [heap |-> g, at |-> n + 1]
  OBVIOUS
<1>9. s.heap = g /\ s.at = n + 1 /\ s \in Heaps(n + 1, V \union {v})
  BY <1>3, <1>8 DEF Heaps, Moving, Lists
<1>10. Near(g, n + 1, key)
  <2>1. ASSUME NEW j \in 2 .. n + 1, j # n + 1, j \div 2 # n + 1
        PROVE  key[g[j \div 2]] <= key[g[j]]
    <3>1. j \in 2 .. n
      BY <2>1
    <3>2. j \in 1 .. n /\ j \div 2 \in 1 .. n
      BY <3>1, Parents
    <3>3. key[h[j \div 2]] <= key[h[j]]
      BY <1>1, <3>1 DEF Ordered
    <3>. QED BY <1>3, <3>2, <3>3
  <2>2. ASSUME NEW j \in 2 .. n + 1 PROVE j \div 2 # n + 1
    <3>1. j \in Nat /\ j > 0 /\ j <= n + 1
      OBVIOUS
    <3>2. j \div 2 < j /\ j \div 2 \in Nat
      BY <3>1, Halves
    <3>. QED BY <3>1, <3>2
  <2>. QED BY <1>4, <2>1, <2>2 DEF Near
<1>11. Below(g, n + 1, key)
  <2>2. ASSUME NEW j \in 2 .. n + 1 PROVE j \div 2 # n + 1
    <3>1. j \in Nat /\ j > 0 /\ j <= n + 1
      OBVIOUS
    <3>2. j \div 2 < j /\ j \div 2 \in Nat
      BY <3>1, Halves
    <3>. QED BY <3>1, <3>2
  <2>. QED BY <1>4, <2>2 DEF Below
<1>12. PICK y : y = Rounds(Raise(cmp), s)
  OBVIOUS
<1>13. n + 1 \in Nat
  OBVIOUS
<1>14. /\ y \in Heaps(n + 1, V \union {v})
       /\ Near(y.heap, y.at, key) /\ Above(y.heap, y.at, key) /\ Below(y.heap, y.at, key)
  BY <1>9, <1>10, <1>11, <1>12, <1>13, RaiseLoop
<1>15. Ordered(y.heap, key)
  BY <1>14, NearIsOrdered
<1>16. HeapPush(h, v, cmp) = y.heap
  BY <1>1, <1>2, <1>8, <1>12 DEF HeapPush
<1>17. Lists(y.heap, n + 1, V \union {v})
  BY <1>14 DEF Lists, Heaps, Moving
<1>. QED BY <1>15, <1>16, <1>17

LEMMA HeapPopped ==
  ASSUME NEW h, NEW n \in Nat, NEW V, Lists(h, n, V), NEW i \in 1 .. n,
         NEW cmp, NEW key, Compares(cmp, key, V), Ordered(h, key)
  PROVE  /\ Lists(HeapPopIndex(h, i, cmp), n - 1, V \ {h[i]})
         /\ Ordered(HeapPopIndex(h, i, cmp), key)
<1>1. h \in Seq(Nat) /\ Len(h) = n /\ OnceEach(h) /\ EntriesOf(h) = V
  BY DEF Lists
<1>2. PICK m \in Nat : m = n - 1
  OBVIOUS
<1>3. PICK short : short = SubSeq(h, 1, m)
  OBVIOUS
<1>4. /\ short \in Seq(Nat) /\ Len(short) = m /\ \A j \in 1 .. m : short[j] = h[j]
      /\ short \in [1 .. m -> Nat]
  <2>1. short = [j \in 1 .. m |-> h[j]]
    BY <1>1, <1>2, <1>3
  <2>2. \A j \in 1 .. m : h[j] \in Nat
    BY <1>1, <1>2
  <2>3. short \in [1 .. m -> Nat]
    BY <2>1, <2>2
  <2>. QED BY <2>1, <2>3
<1>5. \A j, k \in 1 .. n : h[j] = h[k] => j = k
  BY <1>1 DEF OnceEach
<1>6. /\ \A j \in 1 .. n : h[j] \in V /\ h[j] \in Nat
      /\ \A w \in V : \E j \in 1 .. n : h[j] = w
  BY <1>1 DEF EntriesOf
<1>7. \A j \in 1 .. n : j = n \/ j \in 1 .. m
  BY <1>2
<1>8. \A j \in 1 .. m : j \in 1 .. n /\ j # n
  BY <1>2
<1>9. \A j \in 2 .. n : key[h[j \div 2]] <= key[h[j]]
  BY <1>1 DEF Ordered
<1>10. \A j \in 2 .. m : j \in 2 .. n /\ j \in 1 .. m /\ j \div 2 \in 1 .. m
  BY <1>2, Parents
<1>11. n \in 1 .. n
  OBVIOUS
<1>12. CASE i = n
  <2>1. HeapPopIndex(h, i, cmp) = short
    BY <1>1, <1>2, <1>3, <1>12 DEF HeapPopIndex
  <2>2. Ordered(short, key)
    BY <1>4, <1>9, <1>10 DEF Ordered
  <2>3. n > 0
    OBVIOUS
  <2>4. Lists(short, m, V \ {h[i]})
    BY <1>2, <1>3, <1>12, <2>3, Shortened
  <2>. QED BY <1>2, <2>1, <2>2, <2>4
<1>13. CASE i # n
  <2>1. i \in 1 .. m /\ m > 0
    BY <1>2, <1>7, <1>13
  <2>2. PICK g : g = [short EXCEPT ![i] = h[n]]
    OBVIOUS
  <2>3. /\ g \in [1 .. m -> Nat] /\ g[i] = h[n]
        /\ \A j \in 1 .. m : j # i => g[j] = h[j]
    BY <1>4, <1>6, <1>11, <2>1, <2>2
  <2>4. g \in Seq(Nat) /\ Len(g) = m
    BY <2>3
  <2>5. OnceEach(g)
    <3>1. ASSUME NEW j \in 1 .. m, NEW k \in 1 .. m, g[j] = g[k] PROVE j = k
      BY <1>5, <1>8, <1>11, <2>3, <3>1
    <3>. QED BY <2>4, <3>1 DEF OnceEach
  <2>6. EntriesOf(g) = V \ {h[i]}
    <3>1. ASSUME NEW j \in 1 .. m PROVE g[j] \in V \ {h[i]}
      BY <1>5, <1>6, <1>8, <1>11, <1>13, <2>3
    <3>2. ASSUME NEW w \in V \ {h[i]} PROVE \E j \in 1 .. m : g[j] = w
      <4>1. PICK j \in 1 .. n : h[j] = w
        BY <1>6
      <4>2. j # i
        BY <4>1
      <4>. QED BY <1>7, <2>1, <2>3, <4>1, <4>2
    <3>. QED BY <2>4, <3>1, <3>2 DEF EntriesOf
  <2>7. PICK W : W = V \ {h[i]}
    OBVIOUS
  <2>8. PICK s : s = [heap |-> g, at |-> i]
    OBVIOUS
  <2>9. s.heap = g /\ s.at = i /\ s \in Heaps(m, W)
    BY <2>1, <2>4, <2>5, <2>6, <2>7, <2>8 DEF Heaps, Moving
  <2>10. Compares(cmp, key, W) /\ \A v \in V : key[v] \in Int
    BY <2>7 DEF Compares
  <2>11. Near(g, i, key)
    <3>1. ASSUME NEW j \in 2 .. m, j # i, j \div 2 # i PROVE key[g[j \div 2]] <= key[g[j]]
      BY <1>9, <1>10, <2>3, <3>1
    <3>2. ASSUME NEW j \in 2 .. m, j \div 2 = i, i > 1 PROVE key[g[i \div 2]] <= key[g[j]]
      <4>1. i \in 2 .. m /\ i \in 2 .. n /\ i \in 1 .. n
        BY <1>2, <2>1, <3>2
      <4>2. i \div 2 \in 1 .. m /\ i \div 2 # i /\ i \div 2 \in 1 .. n /\ j # i /\ j \in 1 .. m /\ j \in 1 .. n
        BY <1>8, <1>10, <3>2, <4>1, Parents
      <4>3. key[h[i \div 2]] <= key[h[i]] /\ key[h[i]] <= key[h[j]]
        BY <1>9, <1>10, <3>2, <4>1
      <4>4. PICK a \in Int, b \in Int, c \in Int : a = key[h[i \div 2]] /\ b = key[h[i]] /\ c = key[h[j]]
        BY <1>6, <2>10, <4>1, <4>2
      <4>5. a <= c
        BY <4>3, <4>4
      <4>. QED BY <2>3, <4>2, <4>4, <4>5
    <3>. QED BY <2>4, <3>1, <3>2 DEF Near
  <2>12. PICK y : y = Rounds(Raise(cmp), s)
    OBVIOUS
  <2>13. y \in Heaps(m, W) /\ Near(y.heap, y.at, key) /\ Above(y.heap, y.at, key)
    BY <2>9, <2>10, <2>11, <2>12, RaiseLoop
  <2>14. PICK z : z = Rounds(Lower(cmp), y)
    OBVIOUS
  <2>15. z \in Heaps(m, W) /\ Ordered(z.heap, key)
    BY <2>10, <2>13, <2>14, LowerLoop
  <2>16. HeapPopIndex(h, i, cmp) = z.heap
    BY <1>1, <1>2, <1>3, <1>13, <2>2, <2>8, <2>12, <2>14 DEF HeapPopIndex
  <2>17. Lists(z.heap, m, W)
    BY <2>15 DEF Lists, Heaps, Moving
  <2>. QED BY <1>2, <2>7, <2>15, <2>16, <2>17
<1>. QED BY <1>12, <1>13

\* The top of a heap in order is not after any other.
LEMMA TopIsLeast ==
  ASSUME NEW h, NEW n \in Nat, NEW V, Lists(h, n, V), NEW key, \A v \in V : key[v] \in Int,
         Ordered(h, key), NEW i \in 1 .. n
  PROVE  key[h[1]] <= key[h[i]]
<1>1. Len(h) = n /\ \A j \in 1 .. n : key[h[j]] \in Int
  BY DEF Lists, EntriesOf
<1>. DEFINE S == {j \in 1 .. n : ~(key[h[1]] <= key[h[j]])}
<1>2. SUFFICES ASSUME S # {} PROVE FALSE
  OBVIOUS
<1>3. S \in SUBSET Nat
  OBVIOUS
<1>4. PICK j \in S : \A k \in S : j <= k
  BY <1>2, <1>3, Least
<1>5. j \in 1 .. n /\ ~(key[h[1]] <= key[h[j]])
  OBVIOUS
<1>6. 1 \in 1 .. n
  BY <1>5
<1>7. j # 1
  BY <1>1, <1>5, <1>6
<1>8. j \in 2 .. n
  BY <1>5, <1>7
<1>9. j \div 2 \in 1 .. n /\ j \div 2 < j /\ j \in Nat /\ j \div 2 \in Nat
  BY <1>8, Parents, Halves
<1>10. j \div 2 \notin S
  BY <1>4, <1>9
<1>11. key[h[1]] <= key[h[j \div 2]]
  BY <1>9, <1>10
<1>12. key[h[j \div 2]] <= key[h[j]]
  BY <1>1, <1>8 DEF Ordered
<1>13. PICK a \in Int, b \in Int, c \in Int : a = key[h[1]] /\ b = key[h[j \div 2]] /\ c = key[h[j]]
  BY <1>1, <1>5, <1>6, <1>9
<1>14. a <= c
  BY <1>11, <1>12, <1>13
<1>. QED BY <1>5, <1>13, <1>14

LEMMA DivMod ==
  ASSUME NEW M \in Nat, M > 0, NEW x \in Int
  PROVE  /\ x % M \in Int /\ 0 <= x % M /\ x % M < M /\ x \div M \in Int
         /\ x = M * (x \div M) + (x % M)
OBVIOUS

LEMMA NoMultiple ==
  ASSUME NEW M \in Nat, M > 0, NEW k \in Int, -M < M * k, M * k < M
  PROVE  k = 0
<1>1. CASE k >= 1
  <2>1. M * k >= M
    BY <1>1
  <2>. QED BY <2>1
<1>2. CASE k <= -1
  <2>1. M * k <= -M
    BY <1>2
  <2>. QED BY <2>1
<1>. QED BY <1>1, <1>2

LEMMA ModUnique ==
  ASSUME NEW M \in Nat, M > 0, NEW x \in Int, NEW k \in Int, NEW r \in Int, 0 <= r, r < M,
         x = M * k + r
  PROVE  x % M = r
<1>1. PICK q \in Int, s \in Int : q = x \div M /\ s = x % M
  BY DivMod
<1>2. x = M * q + s /\ 0 <= s /\ s < M
  BY <1>1, DivMod
<1>3. M * (k - q) = s - r
  BY <1>2
<1>4. k - q = 0
  <2>1. k - q \in Int /\ -M < M * (k - q) /\ M * (k - q) < M
    BY <1>2, <1>3
  <2>. QED BY <2>1, NoMultiple
<1>. QED BY <1>1, <1>2, <1>4

\* As ticks count, a is x ahead of b.
Ahead(a, b, x) == \E k \in Int : a - b = TickMod * k + x

LEMMA AheadAdds ==
  ASSUME NEW a \in Int, NEW b \in Int, NEW c \in Int, NEW x \in Int, NEW y \in Int
  PROVE  /\ Ahead(a, b, x) /\ Ahead(b, c, y) => Ahead(a, c, x + y)
         /\ Ahead(a, c, x) /\ Ahead(b, c, y) => Ahead(a, b, x - y)
<1>. TickMod \in Int
  BY TimerAssumption
<1>1. ASSUME Ahead(a, b, x), Ahead(b, c, y) PROVE Ahead(a, c, x + y)
  <2>1. PICK k \in Int, j \in Int : a - b = TickMod * k + x /\ b - c = TickMod * j + y
    BY <1>1 DEF Ahead
  <2>2. a - c = TickMod * (k + j) + (x + y) /\ k + j \in Int
    BY <2>1
  <2>. QED BY <2>2 DEF Ahead
<1>2. ASSUME Ahead(a, c, x), Ahead(b, c, y) PROVE Ahead(a, b, x - y)
  <2>1. PICK k \in Int, j \in Int : a - c = TickMod * k + x /\ b - c = TickMod * j + y
    BY <1>2 DEF Ahead
  <2>2. a - b = TickMod * (k - j) + (x - y) /\ k - j \in Int
    BY <2>1
  <2>. QED BY <2>2 DEF Ahead
<1>. QED BY <1>1, <1>2

LEMMA AheadOfItself ==
  ASSUME NEW a \in Int
  PROVE  Ahead(a, a, 0)
<1>1. a - a = TickMod * 0 + 0
  BY TimerAssumption
<1>. QED BY <1>1 DEF Ahead

\* Adding to a tick, wrapped around, moves it ahead.
LEMMA WrappedAhead ==
  ASSUME NEW b \in Int, NEW x \in Int
  PROVE  (b + x) % TickMod \in 0 .. TickMod - 1 /\ Ahead((b + x) % TickMod, b, x)
<1>1. TickMod \in Nat /\ TickMod > 0 /\ TickMod \in Int
  BY TimerAssumption
<1>2. PICK q \in Int, s \in Int : q = (b + x) \div TickMod /\ s = (b + x) % TickMod
  BY <1>1, DivMod
<1>3. b + x = TickMod * q + s /\ 0 <= s /\ s < TickMod
  BY <1>1, <1>2, DivMod
<1>4. s - b = TickMod * (-q) + x /\ -q \in Int
  BY <1>1, <1>3
<1>5. Ahead(s, b, x)
  BY <1>4 DEF Ahead
<1>. QED BY <1>1, <1>2, <1>3, <1>5

\* The error value of settick_timer is one away from 0.
LEMMA ErrorAhead ==
  ASSUME NEW b \in Int, NEW x \in Int, Ahead(TickMod - 1, b, x)
  PROVE  Ahead(0, b, x + 1)
<1>1. TickMod \in Int
  BY TimerAssumption
<1>2. PICK k \in Int : TickMod - 1 - b = TickMod * k + x
  BY DEF Ahead
<1>3. 0 - b = TickMod * (k - 1) + (x + 1) /\ k - 1 \in Int
  BY <1>1, <1>2
<1>. QED BY <1>3 DEF Ahead

\* DIFF_TICK tells how far ahead, up to half the range.
LEMMA DiffTick ==
  ASSUME NEW a \in Int, NEW b \in Int, NEW x \in Int, Ahead(a, b, x),
         -(TickMod \div 2) <= x, x < TickMod \div 2
  PROVE  DIFF_TICK(a, b) = x
<1>1. PICK M \in Nat, h \in Nat : M = TickMod /\ h = TickMod \div 2 /\ M > 0 /\ M = 2 * h
  <2>1. TickMod \in Nat /\ TickMod > 0 /\ TickMod % 2 = 0
    BY TimerAssumption
  <2>. QED BY <2>1
<1>2. PICK k \in Int : a - b = M * k + x
  BY <1>1 DEF Ahead
<1>3. PICK z \in Int : z = a - b
  OBVIOUS
<1>4. CASE x >= 0
  <2>1. z % M = x
    BY <1>1, <1>2, <1>3, <1>4, ModUnique
  <2>. QED BY <1>1, <1>3, <2>1 DEF DIFF_TICK
<1>5. CASE x < 0
  <2>1. z = M * (k - 1) + (M + x) /\ 0 <= M + x /\ M + x < M /\ M + x >= h
    BY <1>1, <1>2, <1>3, <1>5
  <2>2. k - 1 \in Int /\ M + x \in Int
    BY <1>1
  <2>3. z % M = M + x
    BY <1>1, <2>1, <2>2, ModUnique
  <2>. QED BY <1>1, <1>3, <2>1, <2>3 DEF DIFF_TICK
<1>. QED BY <1>4, <1>5

-----------------------------------------------------------------------------
(* Comparing ticks compares deadlines *)

\* The longest time a caller asks for.
Longest == CHOOSE d \in Delays \union Intervals : \A e \in Delays \union Intervals : e <= d

LEMMA LongestIs ==
  /\ Longest \in Nat /\ Longest >= 1 /\ Longest + Lateness < TickMod \div 2
  /\ \A d \in Delays \union Intervals : d \in Nat /\ 1 <= d /\ d <= Longest
  /\ Lateness \in Nat /\ TickMod \div 2 \in Nat
<1>. DEFINE D == Delays \union Intervals
            U == {u \in Nat : \A d \in D : d <= u}
<1>1. /\ D # {} /\ D \subseteq Nat \ {0}
      /\ {LateAfter, MinInterval, MaxInterval, Work, PacketWork} \subseteq Nat
      /\ TickMod \in Nat
  BY TimerAssumption, TickAssumption
<1>2. Lateness \in Nat /\ TickMod \div 2 \in Nat
  BY <1>1 DEF Lateness
<1>3. \A d \in D : d + Lateness < TickMod \div 2
  BY TickAssumption
<1>. HIDE DEF D
<1>4. TickMod \div 2 \in U
  <2>1. ASSUME NEW d \in D PROVE d <= TickMod \div 2
    <3>1. d \in Nat /\ d + Lateness < TickMod \div 2
      BY <1>1, <1>3
    <3>. QED BY <1>2, <3>1
  <2>. QED BY <1>2, <2>1
<1>5. PICK u \in U : \A y \in U : u <= y
  <2>1. U \in SUBSET Nat /\ U # {}
    BY <1>4
  <2>. QED BY <2>1, Least
<1>6. u \in Nat /\ \A d \in D : d <= u
  OBVIOUS
<1>7. u \in D
  <2>1. SUFFICES ASSUME u \notin D PROVE FALSE
    OBVIOUS
  <2>2. PICK d \in D : TRUE
    BY <1>1
  <2>3. d \in Nat /\ d > 0 /\ d <= u
    BY <1>1, <1>6
  <2>4. u - 1 \in Nat
    BY <1>6, <2>3
  <2>5. ASSUME NEW e \in D PROVE e <= u - 1
    <3>1. e \in Nat /\ e <= u /\ e # u
      BY <1>1, <1>6, <2>1
    <3>. QED BY <1>6, <3>1
  <2>6. u - 1 \in U
    BY <2>4, <2>5
  <2>7. u <= u - 1
    BY <1>5, <2>6
  <2>. QED BY <1>6, <2>7
<1>8. Longest \in D /\ \A e \in D : e <= Longest
  <2>1. \E d \in D : \A e \in D : e <= d
    BY <1>6, <1>7
  <2>2. Longest = CHOOSE d \in D : \A e \in D : e <= d
    BY DEF Longest, D
  <2>. QED BY <2>1, <2>2
<1>9. \A d \in D : d \in Nat /\ 1 <= d
  <2>1. ASSUME NEW d \in D PROVE d \in Nat /\ 1 <= d
    BY <1>1
  <2>. QED BY <2>1
<1>10. Longest \in Nat /\ Longest >= 1 /\ Longest + Lateness < TickMod \div 2
  BY <1>3, <1>8, <1>9
<1>. QED BY <1>2, <1>8, <1>9, <1>10 DEF D

\* The ticks of the timers V tell their deadlines.
InTime(data, lft, now, V) ==
  /\ V \subseteq Tid /\ now \in 0 .. TickMod - 1
  /\ \A t \in V : /\ data[t].tick \in 0 .. TickMod - 1 /\ lft[t] \in Int
                  /\ Ahead(data[t].tick, now, lft[t])
                  /\ -Lateness < lft[t] /\ lft[t] <= Longest + 1

LEMMA TicksCompare ==
  ASSUME NEW data, NEW lft, NEW now, NEW V, InTime(data, lft, now, V)
  PROVE  Compares(ByTick(data), lft, V)
<1>1. ASSUME NEW a \in V, NEW b \in V
      PROVE  /\ lft[a] \in Int /\ ByTick(data)[a, b] \in Int
             /\ ByTick(data)[a, b] < 0 <=> lft[a] < lft[b]
             /\ ByTick(data)[a, b] > 0 <=> lft[a] > lft[b]
  <2>1. PICK x \in Int, y \in Int, c \in Int, s \in Int, u \in Int :
          x = lft[a] /\ y = lft[b] /\ s = data[a].tick /\ u = data[b].tick /\ c = now
    BY DEF InTime
  <2>2. Ahead(s, c, x) /\ Ahead(u, c, y)
    BY <2>1 DEF InTime
  <2>3. -Lateness < x /\ x <= Longest + 1 /\ -Lateness < y /\ y <= Longest + 1
    BY <2>1 DEF InTime
  <2>4. Ahead(s, u, x - y)
    BY <2>2, AheadAdds
  <2>5. PICK L \in Nat, K \in Nat, H \in Nat : L = Lateness /\ K = Longest /\ H = TickMod \div 2 /\ K + L < H
    BY LongestIs
  <2>6. -H <= x - y /\ x - y < H /\ x - y \in Int
    BY <2>3, <2>5
  <2>7. DIFF_TICK(s, u) = x - y
    BY <2>4, <2>5, <2>6, DiffTick
  <2>8. a \in Tid /\ b \in Tid
    BY DEF InTime
  <2>9. ByTick(data)[a, b] = x - y
    BY <2>1, <2>7, <2>8 DEF ByTick, MinTop
  <2>10. PICK e \in Int : e = x - y
    OBVIOUS
  <2>11. (e < 0 <=> x < y) /\ (e > 0 <=> x > y)
    BY <2>10
  <2>12. e = ByTick(data)[a, b]
    BY ONLY <2>9, <2>10, Zenon
  <2>. QED BY ONLY <2>1, <2>11, <2>12, e \in Int, x \in Int, Zenon
<1>. QED BY <1>1 DEF Compares

LEMMA PushKeeps ==
  ASSUME NEW h, NEW n \in Nat, NEW V, NEW t, NEW data, NEW lft, NEW now,
         Lists(h, n, V), t \notin V, InTime(data, lft, now, V \union {t}), Ordered(h, lft)
  PROVE  /\ Lists(PushTimer(h, t, data), n + 1, V \union {t})
         /\ Ordered(PushTimer(h, t, data), lft)
<1>1. Compares(ByTick(data), lft, V \union {t})
  BY TicksCompare
<1>2. t \in Nat
  BY DEF InTime, Tid
<1>. QED BY <1>1, <1>2, HeapPushed DEF PushTimer

LEMMA PopKeeps ==
  ASSUME NEW h, NEW n \in Nat, NEW V, NEW i \in 1 .. n, NEW data, NEW lft, NEW now,
         Lists(h, n, V), InTime(data, lft, now, V), Ordered(h, lft)
  PROVE  /\ Lists(PopTimer(h, i, data), n - 1, V \ {h[i]})
         /\ Ordered(PopTimer(h, i, data), lft)
<1>1. Compares(ByTick(data), lft, V)
  BY TicksCompare
<1>. QED BY <1>1, HeapPopped DEF PopTimer

\* The order is one of the listed entries alone, and the same after a while.
LEMMA OrderedStill ==
  ASSUME NEW h, NEW n \in Nat, NEW V, Lists(h, n, V), NEW key, NEW new, Ordered(h, key),
         \/ \A v \in V : new[v] = key[v]
         \/ \A v \in V : key[v] \in Int /\ new[v] = key[v] - 1
  PROVE  Ordered(h, new)
<1>1. Len(h) = n /\ \A i \in 1 .. n : h[i] \in V
  BY DEF Lists, EntriesOf
<1>2. ASSUME NEW j \in 2 .. n PROVE new[h[j \div 2]] <= new[h[j]]
  <2>1. h[j \div 2] \in V /\ h[j] \in V
    BY <1>1, Parents
  <2>2. key[h[j \div 2]] <= key[h[j]]
    BY <1>1 DEF Ordered
  <2>3. CASE \A v \in V : new[v] = key[v]
    BY <2>1, <2>2, <2>3
  <2>4. CASE \A v \in V : key[v] \in Int /\ new[v] = key[v] - 1
    <3>1. PICK a \in Int, b \in Int : a = key[h[j \div 2]] /\ b = key[h[j]]
      BY <2>1, <2>4
    <3>2. new[h[j \div 2]] = a - 1 /\ new[h[j]] = b - 1 /\ a <= b
      BY <2>1, <2>2, <2>4, <3>1
    <3>. QED BY <3>2
  <2>. QED BY <2>3, <2>4
<1>. QED BY <1>1, <1>2 DEF Ordered

\* Every id is in one place at most, and those that were used in one.
Apart(H, F, L, R, num) ==
  /\ H \intersect F = {} /\ H \intersect L = {} /\ H \intersect R = {}
  /\ F \intersect L = {} /\ F \intersect R = {} /\ L \intersect R = {}
  /\ H \union F \union L \union R = 0 .. num - 1

LEMMA ApartMoves ==
  ASSUME NEW H, NEW F, NEW L, NEW R, NEW num \in Nat, NEW t, Apart(H, F, L, R, num)
  PROVE  /\ t \in F => Apart(H \union {t}, F \ {t}, L, R, num)
         /\ t = num => Apart(H \union {t}, F, L, R, num + 1)
         /\ t \in H => Apart(H \ {t}, F \union {t}, L, R, num)
         /\ t \in H /\ R = {} => Apart(H \ {t}, F, L, {t}, num)
         /\ R = {t} => /\ Apart(H \union {t}, F, L, {}, num)
                       /\ Apart(H, F \union {t}, L, {}, num)
                       /\ Apart(H, F, L \union {t}, {}, num)
<1>1. H \union F \union L \union R = 0 .. num - 1
  BY DEF Apart
<1>2. t = num => 0 .. num = (0 .. num - 1) \union {t} /\ t \notin 0 .. num - 1 /\ (num + 1) - 1 = num
  OBVIOUS
<1>3. t \in F => Apart(H \union {t}, F \ {t}, L, R, num)
  BY DEF Apart
<1>4. ASSUME t = num PROVE Apart(H \union {t}, F, L, R, num + 1)
  <2>1. t \notin H /\ t \notin F /\ t \notin L /\ t \notin R
    BY <1>1, <1>2, <1>4
  <2>2. (H \union {t}) \union F \union L \union R = 0 .. (num + 1) - 1
    BY <1>1, <1>2, <1>4
  <2>. QED BY <2>1, <2>2 DEF Apart
<1>5. t \in H => Apart(H \ {t}, F \union {t}, L, R, num)
  BY DEF Apart
<1>6. t \in H /\ R = {} => Apart(H \ {t}, F, L, {t}, num)
  BY DEF Apart
<1>7. R = {t} => /\ Apart(H \union {t}, F, L, {}, num)
                 /\ Apart(H, F \union {t}, L, {}, num)
                 /\ Apart(H, F, L \union {t}, {}, num)
  BY DEF Apart
<1>. QED BY <1>3, <1>4, <1>5, <1>6, <1>7

-----------------------------------------------------------------------------
(* The inductive invariant *)

Running == {running} \ {INVALID_TIMER}
Timed == HeapIds \union Running

\* How far past its deadline a timer can be, in each phase of the main loop.
Floor ==
  CASE next = "callbacks" -> 1 - Work - MinInterval - PacketWork - pass
    [] next = "select" -> budget - Work - MinInterval + 1
    [] next = "packets" -> 1 - Work - MinInterval - (PacketWork - budget)

IdsOnce ==
  /\ Lists(timer_heap, Len(timer_heap), HeapIds)
  /\ Lists(free_timer_list, Len(free_timer_list), FreeIds)
  /\ Apart(HeapIds, FreeIds, lost, Running, timer_data_num)

\* Types of all but the two lists.
Fields ==
  /\ timer_data \in [Tid -> TimerData]
  /\ \A t \in Tid : timer_data[t].type = INTERVAL => timer_data[t].interval \in Intervals
  /\ timer_data_num \in 0 .. MaxTimers
  /\ running \in Tid \union {INVALID_TIMER}
  /\ left \in [Tid -> Int] /\ lost \subseteq Tid

Clock ==
  /\ tick \in 0 .. TickMod - 1 /\ pass \in 0 .. Work
  /\ next \in {"callbacks", "select", "packets"}
  /\ budget \in 0 .. MaxInterval + Work + PacketWork
  /\ next = "callbacks" => budget + pass = Work
  /\ next = "packets" => budget <= PacketWork
  /\ running # INVALID_TIMER => next = "callbacks" /\ left[running] <= -pass

Deadlines == InTime(timer_data, left, tick, Timed) /\ \A t \in Timed : Floor <= left[t]

TimerInv == IdsOnce /\ Fields /\ Clock /\ Deadlines /\ Ordered(timer_heap, left)

\* The numbers of the model are integers, for arithmetic.
LEMMA Numbers ==
  /\ Work \in Nat /\ PacketWork \in Nat /\ MinInterval \in Nat /\ MinInterval >= 1
  /\ MaxInterval \in Nat /\ MinInterval <= MaxInterval /\ LateAfter \in Nat
  /\ Lateness = MinInterval + 2 * Work + PacketWork
  /\ TickMod \in Nat /\ TickMod > 0
BY TimerAssumption DEF Lateness

LEMMA FloorIs ==
  ASSUME Clock
  PROVE  /\ Floor \in Int /\ -Lateness < Floor
         /\ next = "callbacks" => Floor = 1 - Work - MinInterval - PacketWork - pass
         /\ next = "select" => Floor = budget - Work - MinInterval + 1
         /\ next = "packets" => Floor = 1 - Work - MinInterval - (PacketWork - budget)
         /\ next # "select" => Floor <= 0
<1>1. /\ pass \in Int /\ 0 <= pass /\ pass <= Work /\ budget \in Int /\ 0 <= budget
      /\ next \in {"callbacks", "select", "packets"}
      /\ next = "packets" => budget <= PacketWork
  BY Numbers DEF Clock
<1>2. /\ next = "callbacks" => Floor = 1 - Work - MinInterval - PacketWork - pass
      /\ next = "select" => Floor = budget - Work - MinInterval + 1
      /\ next = "packets" => Floor = 1 - Work - MinInterval - (PacketWork - budget)
  BY DEF Floor
<1>3. CASE next = "callbacks"
  BY <1>1, <1>2, <1>3, Numbers
<1>4. CASE next = "select"
  BY <1>1, <1>2, <1>4, Numbers
<1>5. CASE next = "packets"
  BY <1>1, <1>2, <1>5, Numbers
<1>. QED BY <1>1, <1>2, <1>3, <1>4, <1>5

\* The timer t of W is set anew, the others are those of V.
SetAnew(data, lft, now, V, newdata, newleft, t, W) ==
  /\ t \in Tid /\ W \subseteq V \union {t}
  /\ \A u \in V \ {t} : newdata[u].tick = data[u].tick /\ newleft[u] = lft[u]
  /\ newdata[t].tick \in 0 .. TickMod - 1 /\ newleft[t] \in Int
  /\ Ahead(newdata[t].tick, now, newleft[t])
  /\ -Lateness < newleft[t] /\ newleft[t] <= Longest + 1

LEMMA SetInTime ==
  ASSUME NEW data, NEW lft, NEW now, NEW V, InTime(data, lft, now, V),
         NEW newdata, NEW newleft, NEW t, NEW W,
         SetAnew(data, lft, now, V, newdata, newleft, t, W)
  PROVE  InTime(newdata, newleft, now, W)
<1>1. ASSUME NEW u \in W
      PROVE  /\ newdata[u].tick \in 0 .. TickMod - 1 /\ newleft[u] \in Int
             /\ Ahead(newdata[u].tick, now, newleft[u])
             /\ -Lateness < newleft[u] /\ newleft[u] <= Longest + 1
  <2>1. CASE u = t
    BY <2>1 DEF SetAnew
  <2>2. CASE u # t
    BY <2>2 DEF InTime, SetAnew
  <2>. QED BY <2>1, <2>2
<1>2. W \subseteq Tid /\ now \in 0 .. TickMod - 1
  BY DEF InTime, SetAnew
<1>. QED BY <1>1, <1>2 DEF InTime

LEMMA IdsOf ==
  ASSUME NEW h, NEW n, NEW V, Lists(h, n, V)
  PROVE  /\ {h[i] : i \in DOMAIN h} = V /\ Len(h) = n /\ n \in Nat
         /\ \A i \in 1 .. n : h[i] \in V
         /\ h = <<>> <=> n = 0
         /\ h = <<>> => V = {}
<1>1. h \in Seq(Nat) /\ Len(h) = n /\ EntriesOf(h) = V
  BY DEF Lists
<1>2. DOMAIN h = 1 .. n /\ n \in Nat
  BY <1>1
<1>3. h = <<>> => V = {}
  BY <1>1, <1>2 DEF EntriesOf
<1>. QED BY <1>1, <1>2, <1>3 DEF EntriesOf

LEMMA InTimeWithin ==
  ASSUME NEW data, NEW lft, NEW now, NEW V, InTime(data, lft, now, V), NEW W \in SUBSET V
  PROVE  InTime(data, lft, now, W)
BY DEF InTime

\* What the invariant says, by variable.
LEMMA InvSays ==
  ASSUME TimerInv
  PROVE  /\ timer_data \in [Tid -> TimerData] /\ left \in [Tid -> Int]
         /\ timer_data_num \in Nat /\ timer_data_num <= MaxTimers
         /\ tick \in 0 .. TickMod - 1 /\ tick \in Int
         /\ running \in Tid \union {INVALID_TIMER} /\ INVALID_TIMER \notin Tid
         /\ lost \subseteq Tid
         /\ HeapIds \subseteq Tid /\ FreeIds \subseteq Tid /\ Timed \subseteq Tid
         /\ Len(timer_heap) \in Nat /\ Len(free_timer_list) \in Nat
<1>1. /\ timer_data \in [Tid -> TimerData] /\ left \in [Tid -> Int]
      /\ timer_data_num \in 0 .. MaxTimers /\ MaxTimers \in Nat
      /\ running \in Tid \union {INVALID_TIMER} /\ lost \subseteq Tid
  BY TimerAssumption DEF TimerInv, Fields
<1>2. tick \in 0 .. TickMod - 1
  BY DEF TimerInv, Clock
<1>3. Apart(HeapIds, FreeIds, lost, Running, timer_data_num)
  BY DEF TimerInv, IdsOnce
<1>4. 0 .. timer_data_num - 1 \subseteq Tid
  BY <1>1 DEF Tid
<1>5. HeapIds \subseteq Tid /\ FreeIds \subseteq Tid /\ Running \subseteq Tid
  BY <1>3, <1>4 DEF Apart
<1>6. INVALID_TIMER \notin Tid
  BY DEF INVALID_TIMER, Tid
<1>7. Len(timer_heap) \in Nat /\ Len(free_timer_list) \in Nat
  BY IdsOf DEF TimerInv, IdsOnce
<1>. QED BY <1>1, <1>2, <1>5, <1>6, <1>7 DEF Timed

\* The id a new timer gets is in use nowhere.
LEMMA Acquired ==
  ASSUME TimerInv, NEW t \in Tid, t = acquire_timer
  PROVE  /\ t \notin HeapIds /\ t \notin Timed
         /\ t \in FreeIds \/ (free_timer_list = <<>> /\ t = timer_data_num)
         /\ t = timer_data_num <=> free_timer_list = <<>>
         /\ free_timer_list # <<>> => /\ Len(free_timer_list) > 0
                                      /\ t = free_timer_list[Len(free_timer_list)]
<1>1. /\ Apart(HeapIds, FreeIds, lost, Running, timer_data_num) /\ timer_data_num \in Nat
      /\ Lists(free_timer_list, Len(free_timer_list), FreeIds)
  BY InvSays DEF TimerInv, IdsOnce
<1>2. timer_data_num \notin 0 .. timer_data_num - 1
  BY <1>1
<1>3. CASE free_timer_list = <<>>
  <2>1. t = timer_data_num
    BY <1>3 DEF acquire_timer
  <2>. QED BY <1>1, <1>2, <1>3, <2>1 DEF Apart, Timed
<1>4. CASE free_timer_list # <<>>
  <2>1. t = free_timer_list[Len(free_timer_list)]
    BY <1>4 DEF acquire_timer
  <2>2. Len(free_timer_list) \in Nat /\ Len(free_timer_list) > 0
    BY <1>1, <1>4, IdsOf
  <2>3. t \in FreeIds
    BY <1>1, <2>1, <2>2, IdsOf
  <2>. QED BY <1>1, <1>2, <1>4, <2>1, <2>2, <2>3 DEF Apart, Timed
<1>. QED BY <1>3, <1>4

LEMMA StartedKeeps ==
  ASSUME TimerInv, Caller, NEW t \in Tid, t = acquire_timer, NEW delay \in Delays,
         NEW type \in {ONCE, INTERVAL}, NEW func \in Func, NEW interval \in Intervals \union {0},
         type = INTERVAL => interval \in Intervals, Started(t, delay, type, func, interval)
  PROVE  TimerInv' /\ HeapIds' = HeapIds \union {t}
<1>1. /\ timer_data \in [Tid -> TimerData] /\ left \in [Tid -> Int] /\ timer_data_num \in Nat
      /\ tick \in 0 .. TickMod - 1 /\ tick \in Int /\ HeapIds \subseteq Tid /\ Timed \subseteq Tid
      /\ Len(timer_heap) \in Nat /\ Len(free_timer_list) \in Nat
  BY InvSays
<1>2. /\ t \notin HeapIds /\ t \notin Timed
      /\ t \in FreeIds \/ (free_timer_list = <<>> /\ t = timer_data_num)
      /\ t = timer_data_num <=> free_timer_list = <<>>
      /\ free_timer_list # <<>> => /\ Len(free_timer_list) > 0
                                   /\ t = free_timer_list[Len(free_timer_list)]
  BY Acquired
<1>3. /\ timer_heap' = PushTimer(timer_heap, t, timer_data')
      /\ timer_data' = [timer_data EXCEPT ![t] =
           [tick |-> (tick + delay) % TickMod, func |-> func, type |-> type,
            removed |-> FALSE, interval |-> interval]]
      /\ left' = [left EXCEPT ![t] = delay]
      /\ free_timer_list' = IF free_timer_list = <<>> THEN <<>>
                            ELSE SubSeq(free_timer_list, 1, Len(free_timer_list) - 1)
      /\ timer_data_num' = IF t = timer_data_num THEN t + 1 ELSE timer_data_num
      /\ UNCHANGED <<running, tick, next, budget, pass, lost>>
  BY DEF Started
<1>4. delay \in Nat /\ 1 <= delay /\ delay <= Longest
  BY LongestIs
<1>5. /\ timer_data'[t] = [tick |-> (tick + delay) % TickMod, func |-> func, type |-> type,
                           removed |-> FALSE, interval |-> interval]
      /\ left'[t] = delay
      /\ \A u \in Tid : u # t => timer_data'[u] = timer_data[u] /\ left'[u] = left[u]
  BY <1>1, <1>3
<1>6. InTime(timer_data, left, tick, Timed)
  BY DEF TimerInv, Deadlines
<1>7. InTime(timer_data', left', tick, Timed \union {t})
  <2>1. (tick + delay) % TickMod \in 0 .. TickMod - 1 /\ Ahead((tick + delay) % TickMod, tick, delay)
    BY <1>1, <1>4, WrappedAhead
  <2>2. -Lateness < delay /\ delay <= Longest + 1 /\ delay \in Int
    BY <1>4, LongestIs
  <2>3. timer_data'[t].tick = (tick + delay) % TickMod
    BY <1>5
  <2>4. \A u \in Timed \ {t} : timer_data'[u].tick = timer_data[u].tick /\ left'[u] = left[u]
    BY <1>1, <1>5
  <2>5. SetAnew(timer_data, left, tick, Timed, timer_data', left', t, Timed \union {t})
    BY <1>5, <2>1, <2>2, <2>3, <2>4 DEF SetAnew
  <2>. QED BY <1>6, <2>5, SetInTime
<1>8. Lists(timer_heap, Len(timer_heap), HeapIds) /\ Ordered(timer_heap, left)
  BY DEF TimerInv, IdsOnce
<1>9. Ordered(timer_heap, left')
  <2>1. \A v \in HeapIds : left'[v] = left[v]
    BY <1>1, <1>2, <1>5
  <2>. QED BY <1>1, <1>8, <2>1, OrderedStill
<1>10. InTime(timer_data', left', tick, HeapIds \union {t})
  BY <1>7, InTimeWithin DEF Timed
<1>11. /\ Lists(timer_heap', Len(timer_heap) + 1, HeapIds \union {t})
       /\ Ordered(timer_heap', left')
  BY <1>1, <1>2, <1>3, <1>8, <1>9, <1>10, PushKeeps
<1>12. HeapIds' = HeapIds \union {t} /\ Len(timer_heap') = Len(timer_heap) + 1
  BY <1>11, IdsOf DEF HeapIds
<1>13. Lists(timer_heap', Len(timer_heap'), HeapIds')
  BY <1>11, <1>12
<1>14. Running' = Running /\ Timed' = Timed \union {t}
  BY <1>3, <1>12 DEF Running, Timed
<1>15. /\ Lists(free_timer_list', Len(free_timer_list'), FreeIds')
       /\ Apart(HeapIds', FreeIds', lost', Running', timer_data_num')
  <2>1. Lists(free_timer_list, Len(free_timer_list), FreeIds)
    BY DEF TimerInv, IdsOnce
  <2>2. Apart(HeapIds, FreeIds, lost, Running, timer_data_num)
    BY DEF TimerInv, IdsOnce
  <2>3. CASE free_timer_list = <<>>
    <3>1. free_timer_list' = free_timer_list /\ t = timer_data_num /\ timer_data_num' = timer_data_num + 1
      BY <1>2, <1>3, <2>3
    <3>2. FreeIds' = FreeIds
      BY <3>1 DEF FreeIds
    <3>3. Apart(HeapIds \union {t}, FreeIds, lost, Running, timer_data_num + 1)
      BY <1>1, <2>2, <3>1, ApartMoves
    <3>. QED BY <1>3, <1>12, <1>14, <2>1, <3>1, <3>2, <3>3
  <2>4. CASE free_timer_list # <<>>
    <3>1. /\ free_timer_list' = SubSeq(free_timer_list, 1, Len(free_timer_list) - 1)
          /\ timer_data_num' = timer_data_num /\ t \in FreeIds
      BY <1>2, <1>3, <2>4
    <3>2. Lists(free_timer_list', Len(free_timer_list) - 1, FreeIds \ {t})
      BY <1>1, <1>2, <2>1, <2>4, <3>1, Shortened
    <3>3. FreeIds' = FreeIds \ {t} /\ Len(free_timer_list') = Len(free_timer_list) - 1
      BY <3>2, IdsOf DEF FreeIds
    <3>4. Apart(HeapIds \union {t}, FreeIds \ {t}, lost, Running, timer_data_num)
      BY <1>1, <2>2, <3>1, ApartMoves
    <3>. QED BY <1>3, <1>12, <1>14, <3>1, <3>2, <3>3, <3>4
  <2>. QED BY <2>3, <2>4
<1>16. Fields'
  <2>1. Fields
    BY DEF TimerInv
  <2>2. timer_data'[t] \in TimerData
    <3>1. (tick + delay) % TickMod \in 0 .. TickMod - 1
      BY <1>1, <1>4, WrappedAhead
    <3>. QED BY <1>5, <3>1 DEF TimerData
  <2>3. timer_data' \in [Tid -> TimerData]
    BY <1>1, <1>3, <1>5, <2>2
  <2>4. ASSUME NEW u \in Tid, timer_data'[u].type = INTERVAL PROVE timer_data'[u].interval \in Intervals
    BY <1>5, <2>1, <2>4 DEF Fields
  <2>5. timer_data_num' \in 0 .. MaxTimers
    <3>1. t \in Nat /\ t <= MaxTimers - 1 /\ MaxTimers \in Nat
      BY TimerAssumption DEF Tid
    <3>. QED BY <1>3, <2>1, <3>1 DEF Fields
  <2>6. left' \in [Tid -> Int]
    BY <1>1, <1>3, <1>4
  <2>. QED BY <1>3, <2>1, <2>3, <2>4, <2>5, <2>6 DEF Fields
<1>17. Clock /\ next # "select" /\ Clock'
  <2>1. Clock
    BY DEF TimerInv
  <2>2. next # "select"
    BY <2>1 DEF Caller, Clock
  <2>3. running # INVALID_TIMER => left'[running] = left[running]
    <3>1. running # INVALID_TIMER => running \in Timed
      BY DEF Timed, Running
    <3>. QED BY <1>1, <1>2, <1>5, <3>1
  <2>. QED BY <1>3, <2>1, <2>2, <2>3 DEF Clock
<1>18. Deadlines'
  <2>1. Floor' = Floor
    BY <1>3 DEF Floor
  <2>2. \A u \in Timed : Floor <= left[u]
    BY DEF TimerInv, Deadlines
  <2>3. Floor <= 0 /\ Floor \in Int
    BY <1>17, FloorIs
  <2>4. Floor <= delay
    BY <1>4, <2>3
  <2>5. \A u \in Timed \union {t} : Floor <= left'[u]
    BY <1>1, <1>2, <1>5, <2>2, <2>4
  <2>6. tick' = tick
    BY <1>3
  <2>. QED BY <1>7, <1>14, <2>1, <2>5, <2>6 DEF Deadlines
<1>. QED BY <1>11, <1>12, <1>13, <1>15, <1>16, <1>17, <1>18 DEF TimerInv, IdsOnce

LEMMA SettickKeeps ==
  ASSUME TimerInv, NEW t \in Tid, NEW to \in 0 .. TickMod - 1, NEW remain \in Delays,
         Ahead(to, tick, remain), settick_timer(t, to, remain)
  PROVE  TimerInv' /\ HeapIds' = HeapIds
<1>1. /\ timer_data \in [Tid -> TimerData] /\ left \in [Tid -> Int]
      /\ tick \in 0 .. TickMod - 1 /\ tick \in Int /\ HeapIds \subseteq Tid /\ Timed \subseteq Tid
      /\ Len(timer_heap) \in Nat
  BY InvSays
<1>. DEFINE place == CHOOSE i \in DOMAIN timer_heap : timer_heap[i] = t
            popped == PopTimer(timer_heap, place, timer_data)
            moved == IF to = TickMod - 1 THEN 0 ELSE to
            away == IF to = TickMod - 1 THEN remain + 1 ELSE remain
<1>2. /\ Caller /\ t \in HeapIds
      /\ timer_data' = [timer_data EXCEPT ![t].tick = moved]
      /\ timer_heap' = PushTimer(popped, t, timer_data')
      /\ left' = [left EXCEPT ![t] = away]
      /\ UNCHANGED <<timer_data_num, free_timer_list, running, tick, next, budget, pass, lost>>
  BY DEF settick_timer
<1>3. Lists(timer_heap, Len(timer_heap), HeapIds) /\ Ordered(timer_heap, left)
  BY DEF TimerInv, IdsOnce
<1>4. place \in 1 .. Len(timer_heap) /\ timer_heap[place] = t
  <2>1. DOMAIN timer_heap = 1 .. Len(timer_heap)
    BY <1>3 DEF Lists
  <2>2. \E i \in DOMAIN timer_heap : timer_heap[i] = t
    BY <1>2 DEF HeapIds
  <2>. QED BY <2>1, <2>2
<1>. HIDE DEF place
<1>5. remain \in Nat /\ 1 <= remain /\ remain <= Longest /\ Longest \in Nat
  BY LongestIs
<1>6. /\ moved \in 0 .. TickMod - 1 /\ away \in Int /\ 1 <= away /\ away <= Longest + 1
      /\ Ahead(moved, tick, away)
  <2>1. CASE to = TickMod - 1
    <3>1. Ahead(0, tick, remain + 1)
      BY <1>1, <1>5, <2>1, ErrorAhead
    <3>2. moved = 0 /\ away = remain + 1 /\ 0 \in 0 .. TickMod - 1
      BY <2>1, Numbers
    <3>3. away \in Int /\ 1 <= away /\ away <= Longest + 1
      BY <1>5, <3>2
    <3>. QED BY <3>1, <3>2, <3>3
  <2>2. CASE to # TickMod - 1
    BY <1>5, <2>2
  <2>. QED BY <2>1, <2>2
<1>. HIDE DEF moved, away
<1>7. /\ timer_data'[t] = [timer_data[t] EXCEPT !.tick = moved] /\ timer_data'[t].tick = moved
      /\ timer_data'[t].type = timer_data[t].type /\ timer_data'[t].interval = timer_data[t].interval
      /\ timer_data'[t] \in TimerData
      /\ left'[t] = away
      /\ \A u \in Tid : u # t => timer_data'[u] = timer_data[u] /\ left'[u] = left[u]
  <2>1. timer_data[t] \in TimerData
    BY <1>1
  <2>. QED BY <1>1, <1>2, <1>6, <2>1 DEF TimerData
<1>8. InTime(timer_data, left, tick, Timed) /\ InTime(timer_data, left, tick, HeapIds)
  BY InTimeWithin DEF TimerInv, Deadlines, Timed
<1>9. InTime(timer_data', left', tick, Timed)
  <2>1. -Lateness < away
    BY <1>6, LongestIs
  <2>2. \A u \in Timed \ {t} : timer_data'[u].tick = timer_data[u].tick /\ left'[u] = left[u]
    BY <1>1, <1>7
  <2>3. SetAnew(timer_data, left, tick, Timed, timer_data', left', t, Timed)
    BY <1>6, <1>7, <2>1, <2>2 DEF SetAnew
  <2>. QED BY <1>8, <2>3, SetInTime
<1>10. InTime(timer_data', left', tick, HeapIds)
  BY <1>9, InTimeWithin DEF Timed
<1>11. /\ Lists(popped, Len(timer_heap) - 1, HeapIds \ {t})
       /\ Ordered(popped, left)
  BY <1>1, <1>3, <1>4, <1>8, PopKeeps
<1>12. Len(timer_heap) - 1 \in Nat
  BY <1>1, <1>4
<1>. HIDE DEF popped
<1>13. Ordered(popped, left')
  <2>1. \A v \in HeapIds \ {t} : left'[v] = left[v]
    BY <1>1, <1>7
  <2>. QED BY <1>11, <1>12, <2>1, OrderedStill
<1>14. /\ Lists(timer_heap', Len(timer_heap), HeapIds)
       /\ Ordered(timer_heap', left')
  <2>1. (HeapIds \ {t}) \union {t} = HeapIds /\ t \notin HeapIds \ {t}
    BY <1>2
  <2>2. PICK m \in Nat : m = Len(timer_heap) - 1
    BY <1>12
  <2>a. PICK V : V = HeapIds \ {t}
    OBVIOUS
  <2>3. m + 1 = Len(timer_heap) /\ V \union {t} = HeapIds /\ t \notin V
    BY <1>1, <2>1, <2>2, <2>a
  <2>b. Lists(popped, m, V) /\ InTime(timer_data', left', tick, V \union {t})
    BY <1>10, <1>11, <2>2, <2>3, <2>a
  <2>c. /\ Lists(PushTimer(popped, t, timer_data'), m + 1, V \union {t})
        /\ Ordered(PushTimer(popped, t, timer_data'), left')
    BY <1>13, <2>3, <2>b, PushKeeps
  <2>4. Lists(timer_heap', m + 1, V \union {t}) /\ Ordered(timer_heap', left')
    BY <1>2, <2>c
  <2>. QED BY <2>3, <2>4
<1>15. HeapIds' = HeapIds /\ Len(timer_heap') = Len(timer_heap)
  BY <1>14, IdsOf DEF HeapIds
<1>16. FreeIds' = FreeIds /\ Running' = Running /\ Timed' = Timed
  BY <1>2, <1>15 DEF FreeIds, Running, Timed
<1>17. IdsOnce'
  BY <1>2, <1>14, <1>15, <1>16 DEF TimerInv, IdsOnce
<1>18. Fields'
  <2>1. Fields
    BY DEF TimerInv
  <2>2. timer_data' \in [Tid -> TimerData]
    BY <1>1, <1>2, <1>7
  <2>3. ASSUME NEW u \in Tid, timer_data'[u].type = INTERVAL PROVE timer_data'[u].interval \in Intervals
    BY <1>7, <2>1, <2>3 DEF Fields
  <2>4. left' \in [Tid -> Int]
    BY <1>1, <1>2, <1>6
  <2>. QED BY <1>2, <2>1, <2>2, <2>3, <2>4 DEF Fields
<1>19. Clock /\ next # "select" /\ Clock'
  <2>1. Clock /\ Apart(HeapIds, FreeIds, lost, Running, timer_data_num)
    BY DEF TimerInv, IdsOnce
  <2>2. next # "select"
    BY <1>2, <2>1 DEF Caller, Clock
  <2>3. running # INVALID_TIMER => left'[running] = left[running]
    <3>1. running # INVALID_TIMER => running \in Timed /\ running # t
      BY <1>2, <2>1 DEF Timed, Running, Apart
    <3>. QED BY <1>1, <1>7, <3>1
  <2>. QED BY <1>2, <2>1, <2>2, <2>3 DEF Clock
<1>20. Deadlines'
  <2>1. Floor' = Floor /\ tick' = tick
    BY <1>2 DEF Floor
  <2>2. \A u \in Timed : Floor <= left[u]
    BY DEF TimerInv, Deadlines
  <2>3. Floor <= 0 /\ Floor \in Int
    BY <1>19, FloorIs
  <2>4. Floor <= away
    BY <1>6, <2>3
  <2>5. \A u \in Timed : Floor <= left'[u]
    BY <1>1, <1>7, <2>2, <2>4
  <2>. QED BY <1>9, <1>16, <2>1, <2>5 DEF Deadlines
<1>. QED BY <1>14, <1>15, <1>17, <1>18, <1>19, <1>20 DEF TimerInv

LEMMA SetTickKeeps ==
  ASSUME TimerInv, SetTick \/ AddTick
  PROVE  TimerInv' /\ HeapIds' = HeapIds
<1>1. timer_data \in [Tid -> TimerData] /\ left \in [Tid -> Int] /\ tick \in Int
  BY InvSays
<1>2. \A d \in Delays : d \in Int
  BY LongestIs
<1>3. CASE SetTick
  <2>1. PICK t \in Tid, d \in Delays : settick_timer(t, (tick + d) % TickMod, d)
    BY <1>3 DEF SetTick
  <2>2. PICK to : to = (tick + d) % TickMod
    OBVIOUS
  <2>3. to \in 0 .. TickMod - 1 /\ Ahead(to, tick, d)
    BY <1>1, <1>2, <2>2, WrappedAhead
  <2>. QED BY <2>1, <2>2, <2>3, SettickKeeps
<1>4. CASE AddTick
  <2>1. PICK t \in Tid, d \in Delays :
          left[t] + d \in Delays /\ settick_timer(t, (timer_data[t].tick + d) % TickMod, left[t] + d)
    BY <1>4 DEF AddTick
  <2>2. PICK to, remain : to = (timer_data[t].tick + d) % TickMod /\ remain = left[t] + d
    OBVIOUS
  <2>3. PICK s \in Int, x \in Int : s = timer_data[t].tick /\ x = left[t] /\ Ahead(s, tick, x)
    <3>1. t \in Timed
      BY <2>1 DEF settick_timer, Timed
    <3>. QED BY <3>1 DEF TimerInv, Deadlines, InTime
  <2>4. to \in 0 .. TickMod - 1 /\ Ahead(to, s, d)
    BY <1>2, <2>2, <2>3, WrappedAhead
  <2>5. to \in Int
    BY <2>4
  <2>6. Ahead(to, tick, d + x)
    BY <1>1, <1>2, <2>3, <2>4, <2>5, AheadAdds
  <2>7. remain = d + x
    BY <1>2, <2>2, <2>3
  <2>. QED BY <2>1, <2>2, <2>4, <2>6, <2>7, SettickKeeps
<1>. QED BY <1>3, <1>4

LEMMA DeleteKeeps ==
  ASSUME TimerInv, NEW t \in Tid, delete_timer(t)
  PROVE  TimerInv'
<1>1. timer_data \in [Tid -> TimerData] /\ HeapIds \subseteq Tid /\ Timed \subseteq Tid
  BY InvSays
<1>2. /\ timer_data' = [timer_data EXCEPT ![t] =
           [tick |-> timer_data[t].tick, func |-> NULL, type |-> ONCE, removed |-> FALSE, interval |-> 0]]
      /\ UNCHANGED <<timer_heap, timer_data_num, free_timer_list, running, tick, next,
                     budget, pass, left, lost>>
  BY DEF delete_timer
<1>4. /\ \A u \in Tid : timer_data'[u].tick = timer_data[u].tick
      /\ \A u \in Tid : u # t => timer_data'[u] = timer_data[u]
      /\ timer_data'[t] \in TimerData /\ timer_data'[t].type = ONCE
  <2>1. timer_data[t] \in TimerData
    BY <1>1
  <2>. QED BY <1>1, <1>2, <2>1 DEF TimerData, ONCE
<1>5. HeapIds' = HeapIds /\ FreeIds' = FreeIds /\ Running' = Running /\ Timed' = Timed /\ Floor' = Floor
  BY <1>2 DEF HeapIds, FreeIds, Running, Timed, Floor
<1>6. Fields'
  <2>1. timer_data' \in [Tid -> TimerData]
    BY <1>1, <1>2, <1>4
  <2>2. ASSUME NEW u \in Tid, timer_data'[u].type = INTERVAL PROVE timer_data'[u].interval \in Intervals
    BY <1>4, <2>2 DEF TimerInv, Fields, ONCE, INTERVAL
  <2>. QED BY <1>2, <2>1, <2>2 DEF TimerInv, Fields
<1>7. Deadlines'
  <2>1. InTime(timer_data, left, tick, Timed) /\ \A u \in Timed : Floor <= left[u]
    BY DEF TimerInv, Deadlines
  <2>2. InTime(timer_data', left, tick, Timed)
    BY <1>1, <1>4, <2>1 DEF InTime
  <2>. QED BY <1>2, <1>5, <2>1, <2>2 DEF Deadlines
<1>8. IdsOnce' /\ Clock' /\ Ordered(timer_heap', left')
  BY <1>2, <1>5 DEF TimerInv, IdsOnce, Clock
<1>. QED BY <1>6, <1>7, <1>8 DEF TimerInv

\* do_timer sees how far a timer is from its deadline since the pass began.
LEMMA DiffToPass ==
  ASSUME TimerInv, NEW t \in Timed
  PROVE  /\ DIFF_TICK(timer_data[t].tick, PassTick) = left[t] + pass
         /\ left[t] \in Int /\ pass \in Nat /\ pass <= Work
         /\ PassTick \in 0 .. TickMod - 1 /\ Ahead(PassTick, tick, -pass)
<1>1. InTime(timer_data, left, tick, Timed)
  BY DEF TimerInv, Deadlines
<1>2. PICK s \in Int, x \in Int, c \in Int : s = timer_data[t].tick /\ x = left[t] /\ c = tick
  BY <1>1 DEF InTime
<1>3. Ahead(s, c, x) /\ -Lateness < x /\ x <= Longest + 1
  BY <1>1, <1>2 DEF InTime
<1>4. PICK p \in Nat : p = pass /\ p <= Work
  BY Numbers DEF TimerInv, Clock
<1>5. PICK q : q = (c + (-p)) % TickMod
  OBVIOUS
<1>6. q \in 0 .. TickMod - 1 /\ Ahead(q, c, -p)
  BY <1>5, WrappedAhead
<1>7. q \in Int /\ PassTick = q
  <2>1. c - p = c + (-p)
    OBVIOUS
  <2>2. PassTick = (c - p) % TickMod
    BY <1>2, <1>4 DEF PassTick
  <2>. QED BY <1>5, <1>6, <2>1, <2>2
<1>8. Ahead(s, q, x - (-p))
  BY <1>3, <1>6, <1>7, AheadAdds
<1>9. PICK y \in Int : y = x + p /\ y = x - (-p)
  OBVIOUS
<1>10. -(TickMod \div 2) <= y /\ y < TickMod \div 2
  <2>1. PICK L \in Nat, K \in Nat, H \in Nat, w \in Nat :
          L = Lateness /\ K = Longest /\ H = TickMod \div 2 /\ K + L < H /\ w = Work
    BY LongestIs, Numbers
  <2>2. L >= 1 + 2 * w
    BY <2>1, Numbers
  <2>3. -L < x /\ x <= K + 1 /\ p <= w
    BY <1>3, <1>4, <2>1
  <2>4. -H <= y /\ y < H
    BY <1>9, <2>1, <2>2, <2>3
  <2>. QED BY <2>1, <2>4
<1>11. DIFF_TICK(s, q) = y
  BY <1>7, <1>8, <1>9, <1>10, DiffTick
<1>. QED BY <1>2, <1>4, <1>6, <1>7, <1>9, <1>11

\* The timer that leaves the top of the heap.
LEMMA TopLeaves ==
  ASSUME TimerInv, NEW t \in Tid, Top(t)
  PROVE  /\ t \in HeapIds /\ Running = {} /\ next = "callbacks" /\ running = INVALID_TIMER
         /\ left[t] \in Int /\ left[t] <= -pass
         /\ \A u \in HeapIds : left[t] <= left[u]
         /\ Lists(timer_heap', Len(timer_heap'), HeapIds') /\ HeapIds' = HeapIds \ {t}
         /\ Ordered(timer_heap', left)
<1>1. /\ next = "callbacks" /\ running = INVALID_TIMER /\ Due /\ t = timer_heap[1]
      /\ timer_heap' = PopTimer(timer_heap, 1, timer_data)
  BY DEF Top
<1>2. /\ Lists(timer_heap, Len(timer_heap), HeapIds) /\ Ordered(timer_heap, left)
      /\ InTime(timer_data, left, tick, Timed) /\ InTime(timer_data, left, tick, HeapIds)
  BY InTimeWithin DEF TimerInv, IdsOnce, Deadlines, Timed
<1>3. Len(timer_heap) \in Nat /\ 1 \in 1 .. Len(timer_heap)
  BY <1>1, <1>2, IdsOf DEF Due
<1>4. t \in HeapIds
  BY <1>1, <1>2, <1>3, IdsOf
<1>5. left[t] \in Int /\ left[t] <= -pass
  <2>1. t \in Timed
    BY <1>4 DEF Timed
  <2>2. DIFF_TICK(timer_data[t].tick, PassTick) = left[t] + pass /\ left[t] \in Int /\ pass \in Nat
    BY <2>1, DiffToPass
  <2>3. DIFF_TICK(timer_data[t].tick, PassTick) <= 0
    BY <1>1 DEF Due
  <2>4. left[t] + pass <= 0
    BY <2>2, <2>3
  <2>. QED BY <2>2, <2>4
<1>6. ASSUME NEW u \in HeapIds PROVE left[t] <= left[u]
  <2>1. PICK i \in 1 .. Len(timer_heap) : timer_heap[i] = u
    <3>1. DOMAIN timer_heap = 1 .. Len(timer_heap)
      BY <1>2 DEF Lists
    <3>. QED BY <3>1 DEF HeapIds
  <2>2. \A v \in HeapIds : left[v] \in Int
    BY <1>2 DEF InTime
  <2>3. left[timer_heap[1]] <= left[timer_heap[i]]
    BY <1>2, <1>3, <2>2, TopIsLeast
  <2>. QED BY <1>1, <2>1, <2>3
<1>7. /\ Lists(timer_heap', Len(timer_heap) - 1, HeapIds \ {t})
      /\ Ordered(timer_heap', left)
  BY <1>1, <1>2, <1>3, PopKeeps
<1>8. HeapIds' = HeapIds \ {t} /\ Len(timer_heap') = Len(timer_heap) - 1
  BY <1>7, IdsOf DEF HeapIds
<1>9. Running = {}
  BY <1>1 DEF Running
<1>. QED BY <1>1, <1>4, <1>5, <1>6, <1>7, <1>8, <1>9

LEMMA PopKeepsInv ==
  ASSUME TimerInv, NEW t \in Tid, Pop(t)
  PROVE  TimerInv'
<1>1. /\ timer_data \in [Tid -> TimerData] /\ Timed \subseteq Tid /\ timer_data_num \in Nat
      /\ INVALID_TIMER \notin Tid
  BY InvSays
<1>2. /\ Top(t) /\ timer_data' = [timer_data EXCEPT ![t].removed = TRUE] /\ running' = t
      /\ UNCHANGED <<timer_data_num, free_timer_list, tick, next, budget, pass, left, lost>>
  BY DEF Pop
<1>3. /\ t \in HeapIds /\ Running = {} /\ next = "callbacks" /\ left[t] \in Int /\ left[t] <= -pass
      /\ Lists(timer_heap', Len(timer_heap'), HeapIds') /\ HeapIds' = HeapIds \ {t}
      /\ Ordered(timer_heap', left)
  BY <1>2, TopLeaves
<1>4. /\ \A u \in Tid : u # t => timer_data'[u] = timer_data[u]
      /\ timer_data'[t].tick = timer_data[t].tick /\ timer_data'[t] \in TimerData
      /\ timer_data'[t].type = timer_data[t].type /\ timer_data'[t].interval = timer_data[t].interval
  <2>1. timer_data[t] \in TimerData
    BY <1>1
  <2>. QED BY <1>1, <1>2, <2>1 DEF TimerData
<1>5. Running' = {t} /\ FreeIds' = FreeIds /\ Timed' = Timed /\ Floor' = Floor
  BY <1>1, <1>2, <1>3 DEF Running, FreeIds, Timed, Floor
<1>6. IdsOnce'
  <2>1. Apart(HeapIds, FreeIds, lost, Running, timer_data_num) /\ Lists(free_timer_list, Len(free_timer_list), FreeIds)
    BY DEF TimerInv, IdsOnce
  <2>2. Apart(HeapIds \ {t}, FreeIds, lost, {t}, timer_data_num)
    BY <1>1, <1>3, <2>1, ApartMoves
  <2>. QED BY <1>2, <1>3, <1>5, <2>1, <2>2 DEF IdsOnce
<1>7. Fields'
  <2>1. timer_data' \in [Tid -> TimerData]
    BY <1>1, <1>2, <1>4
  <2>2. ASSUME NEW u \in Tid, timer_data'[u].type = INTERVAL PROVE timer_data'[u].interval \in Intervals
    BY <1>4, <2>2 DEF TimerInv, Fields
  <2>. QED BY <1>2, <2>1, <2>2 DEF TimerInv, Fields
<1>8. Clock'
  BY <1>2, <1>3 DEF TimerInv, Clock
<1>9. Deadlines'
  <2>1. InTime(timer_data, left, tick, Timed) /\ \A u \in Timed : Floor <= left[u]
    BY DEF TimerInv, Deadlines
  <2>2. InTime(timer_data', left, tick, Timed)
    BY <1>1, <1>4, <2>1 DEF InTime
  <2>. QED BY <1>2, <1>5, <2>1, <2>2 DEF Deadlines
<1>. QED BY <1>2, <1>3, <1>6, <1>7, <1>8, <1>9 DEF TimerInv

LEMMA FreedSays ==
  ASSUME TimerInv, NEW t \in Tid, NEW data, data = Freed(t)
  PROVE  /\ data \in [Tid -> TimerData] /\ \A u \in Tid : u # t => data[u] = timer_data[u]
         /\ data[t].type = FREE
<1>1. timer_data \in [Tid -> TimerData]
  BY InvSays
<1>2. NoTimer \in TimerData /\ NoTimer.type = FREE
  BY Numbers DEF NoTimer, TimerData
<1>. QED BY <1>1, <1>2 DEF Freed

\* What changes when an id is given back or lost.
LEMMA IdleKeeps ==
  ASSUME TimerInv, NEW t \in Tid, IdsOnce', Running' = {}, HeapIds' \subseteq Timed \ {t},
         running' = INVALID_TIMER, Ordered(timer_heap', left),
         timer_data' = Freed(t), left' = [left EXCEPT ![t] = 0], lost' \subseteq Tid,
         UNCHANGED <<timer_data_num, tick, next, budget, pass>>
  PROVE  TimerInv'
<1>1. /\ left \in [Tid -> Int] /\ Timed \subseteq Tid
  BY InvSays
<1>2. /\ timer_data' \in [Tid -> TimerData] /\ \A u \in Tid : u # t => timer_data'[u] = timer_data[u]
      /\ timer_data'[t].type = FREE
  BY FreedSays
<1>3. \A u \in Tid : u # t => left'[u] = left[u]
  BY <1>1
<1>4. Fields'
  <2>1. left' \in [Tid -> Int]
    BY <1>1
  <2>2. ASSUME NEW u \in Tid, timer_data'[u].type = INTERVAL PROVE timer_data'[u].interval \in Intervals
    BY <1>2, <2>2 DEF TimerInv, Fields, FREE, INTERVAL
  <2>. QED BY <1>2, <2>1, <2>2 DEF TimerInv, Fields
<1>5. Clock'
  BY DEF TimerInv, Clock
<1>6. Timed' \subseteq Timed \ {t} /\ Floor' = Floor
  BY DEF Timed, Floor
<1>7. Deadlines'
  <2>1. InTime(timer_data, left, tick, Timed) /\ \A u \in Timed : Floor <= left[u]
    BY DEF TimerInv, Deadlines
  <2>2. InTime(timer_data', left', tick, Timed')
    BY <1>1, <1>2, <1>3, <1>6, <2>1 DEF InTime
  <2>3. \A u \in Timed' : Floor <= left'[u]
    BY <1>1, <1>3, <1>6, <2>1
  <2>. QED BY <1>6, <2>2, <2>3 DEF Deadlines
<1>8. Ordered(timer_heap', left')
  <2>1. Lists(timer_heap', Len(timer_heap'), HeapIds')
    BY DEF IdsOnce
  <2>2. \A u \in HeapIds' : left'[u] = left[u]
    BY <1>1, <1>3
  <2>3. Len(timer_heap') \in Nat
    BY <2>1, IdsOf
  <2>4. PICK h, V, new : h = timer_heap' /\ V = HeapIds' /\ new = left'
    OBVIOUS
  <2>5. PICK n \in Nat : n = Len(h)
    BY <2>3, <2>4
  <2>6. Lists(h, n, V) /\ Ordered(h, left) /\ \A u \in V : new[u] = left[u]
    BY <2>1, <2>2, <2>4, <2>5
  <2>7. Ordered(h, new)
    BY <2>6, OrderedStill
  <2>. QED BY <2>4, <2>7
<1>. QED BY <1>4, <1>5, <1>7, <1>8 DEF TimerInv

LEMMA DiscardKeeps ==
  ASSUME TimerInv, NEW t \in Tid, Discard(t)
  PROVE  TimerInv'
<1>1. /\ Timed \subseteq Tid /\ timer_data_num \in Nat /\ Len(free_timer_list) \in Nat
      /\ INVALID_TIMER \notin Tid /\ t \in Nat /\ lost \subseteq Tid
  BY InvSays DEF Tid
<1>2. /\ Top(t) /\ timer_data' = Freed(t) /\ free_timer_list' = Append(free_timer_list, t)
      /\ left' = [left EXCEPT ![t] = 0]
      /\ UNCHANGED <<timer_data_num, running, tick, next, budget, pass, lost>>
  BY DEF Discard
<1>3. /\ t \in HeapIds /\ Running = {} /\ running = INVALID_TIMER
      /\ Lists(timer_heap', Len(timer_heap'), HeapIds') /\ HeapIds' = HeapIds \ {t}
      /\ Ordered(timer_heap', left)
  BY <1>2, TopLeaves
<1>4. /\ Apart(HeapIds, FreeIds, lost, Running, timer_data_num)
      /\ Lists(free_timer_list, Len(free_timer_list), FreeIds)
  BY DEF TimerInv, IdsOnce
<1>5. t \notin FreeIds
  BY <1>3, <1>4 DEF Apart
<1>6. Lists(free_timer_list', Len(free_timer_list) + 1, FreeIds \union {t})
  BY <1>1, <1>2, <1>4, <1>5, Appended
<1>7. FreeIds' = FreeIds \union {t} /\ Len(free_timer_list') = Len(free_timer_list) + 1
  BY <1>6, IdsOf DEF FreeIds
<1>8. Running' = Running
  BY <1>2 DEF Running
<1>9. IdsOnce'
  <2>1. Apart(HeapIds \ {t}, FreeIds \union {t}, lost, Running, timer_data_num)
    BY <1>1, <1>3, <1>4, ApartMoves
  <2>. QED BY <1>2, <1>3, <1>6, <1>7, <1>8, <2>1 DEF IdsOnce
<1>10. HeapIds' \subseteq Timed \ {t} /\ Running' = {} /\ running' = INVALID_TIMER /\ lost' \subseteq Tid
  BY <1>1, <1>2, <1>3, <1>8 DEF Timed
<1>. QED BY <1>2, <1>3, <1>9, <1>10, IdleKeeps

\* The timer whose function has run.
LEMMA RunningSays ==
  ASSUME TimerInv, running # INVALID_TIMER
  PROVE  /\ running \in Tid /\ running \in Nat /\ Running = {running} /\ next = "callbacks"
         /\ running \in Timed /\ running \notin HeapIds /\ running \notin FreeIds
         /\ left[running] \in Int /\ left[running] <= -pass
<1>1. running \in Tid /\ Running = {running} /\ Clock
  BY InvSays DEF Running, TimerInv
<1>2. running \in Timed /\ Apart(HeapIds, FreeIds, lost, Running, timer_data_num)
  BY <1>1 DEF Timed, TimerInv, IdsOnce
<1>3. left[running] \in Int
  BY <1>1, InvSays
<1>. QED BY <1>1, <1>2, <1>3 DEF Clock, Apart, Tid

LEMMA ReleaseKeeps ==
  ASSUME TimerInv, Return, Release
  PROVE  TimerInv'
<1>1. /\ Timed \subseteq Tid /\ timer_data_num \in Nat /\ Len(free_timer_list) \in Nat
      /\ lost \subseteq Tid
  BY InvSays
<1>2. /\ running # INVALID_TIMER /\ running' = INVALID_TIMER
      /\ UNCHANGED <<timer_data_num, tick, next, budget, pass, lost>>
  BY DEF Return
<1>3. PICK t : t = running
  OBVIOUS
<1>4. /\ t \in Tid /\ t \in Nat /\ Running = {t} /\ t \notin FreeIds /\ t \notin HeapIds
  BY <1>2, <1>3, RunningSays
<1>5. /\ timer_data' = Freed(t) /\ free_timer_list' = Append(free_timer_list, t)
      /\ left' = [left EXCEPT ![t] = 0] /\ UNCHANGED timer_heap
  BY <1>3 DEF Release
<1>6. /\ Lists(timer_heap, Len(timer_heap), HeapIds)
      /\ Lists(free_timer_list, Len(free_timer_list), FreeIds)
      /\ Apart(HeapIds, FreeIds, lost, Running, timer_data_num)
  BY DEF TimerInv, IdsOnce
<1>7. Lists(free_timer_list', Len(free_timer_list) + 1, FreeIds \union {t})
  BY <1>1, <1>4, <1>5, <1>6, Appended
<1>8. FreeIds' = FreeIds \union {t} /\ Len(free_timer_list') = Len(free_timer_list) + 1
  BY <1>7, IdsOf DEF FreeIds
<1>9. Running' = {} /\ HeapIds' = HeapIds
  BY <1>2, <1>5 DEF Running, HeapIds
<1>10. IdsOnce'
  <2>1. Apart(HeapIds, FreeIds \union {t}, lost, {}, timer_data_num)
    BY <1>1, <1>4, <1>6, ApartMoves
  <2>. QED BY <1>2, <1>5, <1>6, <1>7, <1>8, <1>9, <2>1 DEF IdsOnce
<1>11. HeapIds' \subseteq Timed \ {t} /\ lost' \subseteq Tid /\ Ordered(timer_heap', left)
  BY <1>1, <1>2, <1>4, <1>5, <1>9 DEF Timed, TimerInv
<1>. QED BY <1>2, <1>4, <1>5, <1>9, <1>10, <1>11, IdleKeeps

LEMMA ReturnDeletedKeeps ==
  ASSUME TimerInv, ReturnDeleted
  PROVE  TimerInv'
<1>1. /\ Timed \subseteq Tid /\ timer_data_num \in Nat /\ lost \subseteq Tid
  BY InvSays
<1>2. PICK t : t = running
  OBVIOUS
<1>3. /\ running # INVALID_TIMER /\ running' = INVALID_TIMER /\ lost' = lost \union {t}
      /\ left' = [left EXCEPT ![t] = 0] /\ timer_data' = Freed(t)
      /\ UNCHANGED <<timer_heap, timer_data_num, free_timer_list, tick, next, budget, pass>>
  BY <1>2 DEF ReturnDeleted
<1>4. /\ t \in Tid /\ Running = {t} /\ t \notin FreeIds /\ t \notin HeapIds
  BY <1>2, <1>3, RunningSays
<1>5. Running' = {} /\ HeapIds' = HeapIds /\ FreeIds' = FreeIds
  BY <1>3 DEF Running, HeapIds, FreeIds
<1>6. IdsOnce'
  <2>1. /\ Lists(timer_heap, Len(timer_heap), HeapIds)
        /\ Lists(free_timer_list, Len(free_timer_list), FreeIds)
        /\ Apart(HeapIds, FreeIds, lost, Running, timer_data_num)
    BY DEF TimerInv, IdsOnce
  <2>2. Apart(HeapIds, FreeIds, lost \union {t}, {}, timer_data_num)
    BY <1>1, <1>4, <2>1, ApartMoves
  <2>. QED BY <1>3, <1>5, <2>1, <2>2 DEF IdsOnce
<1>7. HeapIds' \subseteq Timed \ {t} /\ lost' \subseteq Tid /\ Ordered(timer_heap', left)
  BY <1>1, <1>3, <1>4, <1>5 DEF Timed, TimerInv
<1>. QED BY <1>3, <1>4, <1>5, <1>6, <1>7, IdleKeeps

LEMMA RepeatKeeps ==
  ASSUME TimerInv, Return, Repeat
  PROVE  TimerInv' /\ HeapIds' = HeapIds \union {running}
<1>1. /\ timer_data \in [Tid -> TimerData] /\ left \in [Tid -> Int] /\ Timed \subseteq Tid
      /\ timer_data_num \in Nat /\ Len(timer_heap) \in Nat /\ tick \in Int
      /\ HeapIds \subseteq Tid
  BY InvSays
<1>2. /\ running # INVALID_TIMER /\ running' = INVALID_TIMER
      /\ UNCHANGED <<timer_data_num, tick, next, budget, pass, lost>>
  BY DEF Return
<1>3. PICK t : t = running
  OBVIOUS
<1>4. /\ t \in Tid /\ Running = {t} /\ t \notin FreeIds /\ t \notin HeapIds /\ t \in Timed
      /\ left[t] \in Int /\ left[t] <= -pass /\ next = "callbacks"
  BY <1>2, <1>3, RunningSays
<1>. DEFINE interval == timer_data[t].interval
            from == IF Late(t) THEN PassTick ELSE timer_data[t].tick
            ago == IF Late(t) THEN -pass ELSE left[t]
            to == (from + interval) % TickMod
            remain == interval + ago
<1>5. /\ timer_data[t].type = INTERVAL
      /\ timer_data' = [timer_data EXCEPT ![t].tick = to, ![t].removed = FALSE]
      /\ timer_heap' = PushTimer(timer_heap, t, timer_data')
      /\ left' = [left EXCEPT ![t] = remain]
      /\ UNCHANGED free_timer_list
  BY <1>3 DEF Repeat
<1>6. interval \in Int /\ 1 <= interval /\ interval <= Longest /\ Longest \in Nat
  <2>1. timer_data[t].interval \in Intervals
    BY <1>4, <1>5 DEF TimerInv, Fields
  <2>. QED BY <2>1, LongestIs
<1>7. InTime(timer_data, left, tick, Timed) /\ Floor <= left[t]
  BY <1>4 DEF TimerInv, Deadlines
<1>8. pass \in Nat /\ pass <= Work /\ PassTick \in 0 .. TickMod - 1 /\ Ahead(PassTick, tick, -pass)
  BY <1>4, DiffToPass
<1>9. from \in Int /\ ago \in Int /\ ago <= 0 /\ Ahead(from, tick, ago) /\ Floor <= ago
  <2>0. Floor <= -pass
    <3>1. Clock
      BY DEF TimerInv
    <3>. QED BY <1>4, <1>8, <3>1, FloorIs, Numbers
  <2>1. CASE Late(t)
    <3>1. from = PassTick /\ ago = -pass
      BY <2>1
    <3>2. from \in Int /\ ago \in Int /\ ago <= 0
      BY <1>8, <3>1
    <3>. QED BY <1>8, <2>0, <3>1, <3>2
  <2>2. CASE ~Late(t)
    <3>1. from = timer_data[t].tick /\ ago = left[t]
      BY <2>2
    <3>2. timer_data[t].tick \in 0 .. TickMod - 1 /\ Ahead(timer_data[t].tick, tick, left[t])
      BY <1>4, <1>7 DEF InTime
    <3>. QED BY <1>4, <1>7, <1>8, <3>1, <3>2
  <2>. QED BY <2>1, <2>2
<1>. HIDE DEF from, ago, interval
<1>10. to \in 0 .. TickMod - 1 /\ Ahead(to, from, interval)
  BY <1>6, <1>9, WrappedAhead
<1>. HIDE DEF to
<1>11. /\ remain \in Int /\ remain <= Longest + 1 /\ Floor <= remain /\ -Lateness < remain
       /\ Ahead(to, tick, remain)
  <2>1. Floor \in Int /\ -Lateness < Floor /\ Lateness \in Nat
    BY FloorIs, LongestIs DEF TimerInv
  <2>2. Ahead(to, tick, interval + ago)
    BY <1>1, <1>6, <1>9, <1>10, AheadAdds
  <2>3. remain \in Int /\ remain <= Longest + 1 /\ Floor <= remain
    BY <1>6, <1>9, <2>1
  <2>4. -Lateness < remain
    BY <2>1, <2>3
  <2>. QED BY <2>2, <2>3, <2>4
<1>. HIDE DEF remain
<1>12. /\ timer_data'[t].tick = to /\ timer_data'[t] \in TimerData
       /\ timer_data'[t].type = timer_data[t].type /\ timer_data'[t].interval = timer_data[t].interval
       /\ left'[t] = remain
       /\ \A u \in Tid : u # t => timer_data'[u] = timer_data[u] /\ left'[u] = left[u]
  <2>1. timer_data[t] \in TimerData
    BY <1>1, <1>4
  <2>. QED BY <1>1, <1>4, <1>5, <1>10, <2>1 DEF TimerData
<1>13. InTime(timer_data', left', tick, Timed)
  <2>2. \A u \in Timed \ {t} : timer_data'[u].tick = timer_data[u].tick /\ left'[u] = left[u]
    BY <1>1, <1>12
  <2>3. SetAnew(timer_data, left, tick, Timed, timer_data', left', t, Timed)
    BY <1>4, <1>10, <1>11, <1>12, <2>2 DEF SetAnew
  <2>. QED BY <1>7, <2>3, SetInTime
<1>14. Lists(timer_heap, Len(timer_heap), HeapIds) /\ Ordered(timer_heap, left)
  BY DEF TimerInv, IdsOnce
<1>15. Ordered(timer_heap, left')
  <2>1. \A v \in HeapIds : left'[v] = left[v]
    BY <1>1, <1>4, <1>12
  <2>. QED BY <1>1, <1>14, <2>1, OrderedStill
<1>16. Timed = HeapIds \union {t}
  BY <1>4 DEF Timed
<1>17. /\ Lists(timer_heap', Len(timer_heap) + 1, HeapIds \union {t})
       /\ Ordered(timer_heap', left')
  BY <1>1, <1>4, <1>5, <1>13, <1>14, <1>15, <1>16, PushKeeps
<1>18. HeapIds' = HeapIds \union {t} /\ Len(timer_heap') = Len(timer_heap) + 1
  BY <1>17, IdsOf DEF HeapIds
<1>19. Running' = {} /\ FreeIds' = FreeIds /\ Timed' = Timed /\ Floor' = Floor
  BY <1>2, <1>5, <1>16, <1>18 DEF Running, FreeIds, Timed, Floor
<1>20. IdsOnce'
  <2>1. /\ Lists(free_timer_list, Len(free_timer_list), FreeIds)
        /\ Apart(HeapIds, FreeIds, lost, Running, timer_data_num)
    BY DEF TimerInv, IdsOnce
  <2>2. Apart(HeapIds \union {t}, FreeIds, lost, {}, timer_data_num)
    BY <1>1, <1>4, <2>1, ApartMoves
  <2>. QED BY <1>2, <1>5, <1>17, <1>18, <1>19, <2>1, <2>2 DEF IdsOnce
<1>21. Fields'
  <2>1. timer_data' \in [Tid -> TimerData]
    BY <1>1, <1>5, <1>12
  <2>2. ASSUME NEW u \in Tid, timer_data'[u].type = INTERVAL PROVE timer_data'[u].interval \in Intervals
    BY <1>12, <2>2 DEF TimerInv, Fields
  <2>3. left' \in [Tid -> Int]
    BY <1>1, <1>5, <1>11
  <2>. QED BY <1>2, <2>1, <2>2, <2>3 DEF TimerInv, Fields
<1>22. Clock'
  BY <1>2 DEF TimerInv, Clock
<1>23. Deadlines'
  <2>1. \A u \in Timed : Floor <= left[u]
    BY DEF TimerInv, Deadlines
  <2>2. \A u \in Timed : Floor <= left'[u]
    BY <1>1, <1>11, <1>12, <2>1
  <2>. QED BY <1>2, <1>13, <1>19, <2>2 DEF Deadlines
<1>. QED BY <1>3, <1>17, <1>18, <1>20, <1>21, <1>22, <1>23 DEF TimerInv

LEMMA DoTimerKeeps ==
  ASSUME TimerInv, DoTimer
  PROVE  TimerInv'
<1>1. /\ next = "packets" /\ next' = "callbacks" /\ budget' = Work /\ pass' = 0
      /\ UNCHANGED <<timer_data, timer_heap, timer_data_num, free_timer_list, running, tick, left, lost>>
  BY DEF DoTimer
<1>2. Clock
  BY DEF TimerInv
<1>3. running = INVALID_TIMER /\ budget \in Nat /\ budget <= PacketWork
  BY <1>1, <1>2, Numbers DEF Clock
<1>4. Clock'
  BY <1>1, <1>2, <1>3, Numbers DEF Clock
<1>5. HeapIds' = HeapIds /\ FreeIds' = FreeIds /\ Running' = Running /\ Timed' = Timed
  BY <1>1 DEF HeapIds, FreeIds, Running, Timed
<1>6. Floor' \in Int /\ Floor \in Int /\ Floor' <= Floor
  <2>1. Floor = 1 - Work - MinInterval - (PacketWork - budget)
    BY <1>1, <1>2, FloorIs
  <2>2. Floor' = 1 - Work - MinInterval - PacketWork
    BY <1>1, Numbers DEF Floor
  <2>. QED BY <1>3, <2>1, <2>2, Numbers
<1>7. Deadlines'
  <2>1. InTime(timer_data, left, tick, Timed) /\ \A u \in Timed : Floor <= left[u]
    BY DEF TimerInv, Deadlines
  <2>2. ASSUME NEW u \in Timed PROVE Floor' <= left[u]
    <3>1. Floor <= left[u] /\ left[u] \in Int
      BY <2>1 DEF InTime
    <3>. QED BY <1>6, <3>1
  <2>. QED BY <1>1, <1>5, <2>1, <2>2 DEF Deadlines
<1>8. IdsOnce' /\ Fields' /\ Ordered(timer_heap', left')
  BY <1>1, <1>5 DEF TimerInv, IdsOnce, Fields
<1>. QED BY <1>4, <1>7, <1>8 DEF TimerInv

LEMMA WakeKeeps ==
  ASSUME TimerInv, Wake
  PROVE  TimerInv'
<1>1. /\ next = "select" /\ next' = "packets" /\ budget' = PacketWork
      /\ UNCHANGED <<timer_data, timer_heap, timer_data_num, free_timer_list, running, tick,
                     pass, left, lost>>
  BY DEF Wake
<1>2. Clock
  BY DEF TimerInv
<1>3. running = INVALID_TIMER /\ budget \in Nat
  BY <1>1, <1>2, Numbers DEF Clock
<1>4. Clock'
  BY <1>1, <1>2, <1>3, Numbers DEF Clock
<1>5. HeapIds' = HeapIds /\ FreeIds' = FreeIds /\ Running' = Running /\ Timed' = Timed
  BY <1>1 DEF HeapIds, FreeIds, Running, Timed
<1>6. Floor' \in Int /\ Floor \in Int /\ Floor' <= Floor
  <2>1. Floor = budget - Work - MinInterval + 1
    BY <1>1, <1>2, FloorIs
  <2>2. Floor' = 1 - Work - MinInterval - (PacketWork - PacketWork)
    BY <1>1, Numbers DEF Floor
  <2>. QED BY <1>3, <2>1, <2>2, Numbers
<1>7. Deadlines'
  <2>1. InTime(timer_data, left, tick, Timed) /\ \A u \in Timed : Floor <= left[u]
    BY DEF TimerInv, Deadlines
  <2>2. ASSUME NEW u \in Timed PROVE Floor' <= left[u]
    <3>1. Floor <= left[u] /\ left[u] \in Int
      BY <2>1 DEF InTime
    <3>. QED BY <1>6, <3>1
  <2>. QED BY <1>1, <1>5, <2>1, <2>2 DEF Deadlines
<1>8. IdsOnce' /\ Fields' /\ Ordered(timer_heap', left')
  BY <1>1, <1>5 DEF TimerInv, IdsOnce, Fields
<1>. QED BY <1>4, <1>7, <1>8 DEF TimerInv

\* The loop sleeps no longer than until the first deadline.
LEMMA SleepKeeps ==
  ASSUME TimerInv, Sleep
  PROVE  TimerInv'
<1>1. /\ next = "callbacks" /\ running = INVALID_TIMER /\ ~Due /\ next' = "select" /\ pass' = 0
      /\ UNCHANGED <<timer_data, timer_heap, timer_data_num, free_timer_list, running, tick,
                     left, lost>>
  BY DEF Sleep
<1>2. budget' \in (IF timer_heap # <<>>
                   THEN {Capped(DIFF_TICK(timer_data[timer_heap[1]].tick, PassTick))}
                   ELSE {MinInterval, MaxInterval})
  BY DEF Sleep
<1>3. Clock /\ pass \in Nat /\ pass <= Work
  BY Numbers DEF TimerInv, Clock
<1>4. HeapIds' = HeapIds /\ FreeIds' = FreeIds /\ Running' = Running /\ Timed' = Timed
      /\ Timed = HeapIds
  BY <1>1 DEF HeapIds, FreeIds, Running, Timed
<1>5. /\ Lists(timer_heap, Len(timer_heap), HeapIds) /\ Ordered(timer_heap, left)
      /\ InTime(timer_data, left, tick, HeapIds) /\ Len(timer_heap) \in Nat
  BY <1>4, InvSays DEF TimerInv, IdsOnce, Deadlines
<1>6. /\ budget' \in Nat /\ budget' <= MaxInterval
      /\ \A u \in HeapIds : budget' - Work - MinInterval + 1 <= left[u]
  <2>1. CASE timer_heap = <<>>
    <3>1. HeapIds = {}
      BY <1>5, <2>1, IdsOf
    <3>2. budget' \in {MinInterval, MaxInterval}
      BY <1>2, <2>1
    <3>. QED BY <3>1, <3>2, Numbers
  <2>2. CASE timer_heap # <<>>
    <3>1. 1 \in 1 .. Len(timer_heap)
      BY <1>5, <2>2, IdsOf
    <3>2. PICK t \in HeapIds : t = timer_heap[1]
      BY <1>5, <3>1, IdsOf
    <3>3. PICK x \in Int : x = left[t]
      BY <1>5 DEF InTime
    <3>4. PICK d \in Int : d = x + pass /\ DIFF_TICK(timer_data[t].tick, PassTick) = d
      BY <1>3, <1>4, <3>2, <3>3, DiffToPass
    <3>5. d > 0
      <4>1. ~(DIFF_TICK(timer_data[t].tick, PassTick) <= 0)
        BY <1>1, <2>2, <3>2 DEF Due
      <4>. QED BY <3>4, <4>1
    <3>6. budget' = Capped(d)
      BY <1>2, <2>2, <3>2, <3>4
    <3>7. Capped(d) \in Nat /\ Capped(d) <= MaxInterval /\ (Capped(d) <= d \/ Capped(d) = MinInterval)
      BY <3>5, Numbers DEF Capped
    <3>8. ASSUME NEW u \in HeapIds PROVE budget' - Work - MinInterval + 1 <= left[u]
      <4>1. PICK y \in Int : y = left[u]
        BY <1>5 DEF InTime
      <4>2. x <= y
        <5>1. PICK i \in 1 .. Len(timer_heap) : timer_heap[i] = u
          <6>1. DOMAIN timer_heap = 1 .. Len(timer_heap)
            BY <1>5 DEF Lists
          <6>. QED BY <6>1 DEF HeapIds
        <5>2. \A v \in HeapIds : left[v] \in Int
          BY <1>5 DEF InTime
        <5>3. left[timer_heap[1]] <= left[timer_heap[i]]
          BY <1>5, <5>2, TopIsLeast
        <5>. QED BY <3>2, <3>3, <4>1, <5>1, <5>3
      <4>3. PICK b \in Int : b = budget' /\ (b <= d \/ b = MinInterval)
        BY <3>6, <3>7
      <4>4. b - Work - MinInterval + 1 <= y
        <5>1. PICK p \in Nat, w \in Nat, m \in Nat :
                p = pass /\ w = Work /\ m = MinInterval /\ p <= w /\ m >= 1
          BY <1>3, Numbers
        <5>2. d = x + p
          BY <3>4, <5>1
        <5>3. CASE b <= d
          <6>1. b - w - m + 1 <= y
            BY ONLY <5>1, <5>2, <5>3, <4>2, x \in Int, y \in Int, b \in Int, d \in Int, p \in Nat, w \in Nat, m \in Nat
          <6>. QED BY <5>1, <6>1
        <5>4. CASE b = m
          <6>1. b - w - m + 1 <= y
            BY ONLY <3>5, <5>1, <5>2, <5>4, <4>2, x \in Int, y \in Int, b \in Int, d \in Int, p \in Nat, w \in Nat, m \in Nat
          <6>. QED BY <5>1, <6>1
        <5>. QED BY <4>3, <5>1, <5>3, <5>4
      <4>. QED BY <4>1, <4>3, <4>4
    <3>. QED BY <3>6, <3>7, <3>8
  <2>. QED BY <2>1, <2>2
<1>7. Clock'
  BY <1>1, <1>3, <1>6, Numbers DEF Clock
<1>8. Floor' = budget' - Work - MinInterval + 1
  BY <1>1 DEF Floor
<1>9. Deadlines'
  BY <1>1, <1>4, <1>5, <1>6, <1>8 DEF Deadlines
<1>10. IdsOnce' /\ Fields' /\ Ordered(timer_heap', left')
  BY <1>1, <1>4 DEF TimerInv, IdsOnce, Fields
<1>. QED BY <1>7, <1>9, <1>10 DEF TimerInv

LEMMA ElapseKeeps ==
  ASSUME TimerInv, Elapse
  PROVE  TimerInv'
<1>1. /\ budget > 0 /\ budget' = budget - 1 /\ tick' = (tick + 1) % TickMod
      /\ pass' = IF next = "callbacks" THEN pass + 1 ELSE pass
      /\ left' = [t \in Tid |-> IF t \in HeapIds \union {running} THEN left[t] - 1 ELSE left[t]]
      /\ UNCHANGED <<timer_data, timer_heap, timer_data_num, free_timer_list, running, next, lost>>
  BY DEF Elapse
<1>2. /\ left \in [Tid -> Int] /\ tick \in Int /\ Timed \subseteq Tid /\ HeapIds \subseteq Tid
      /\ INVALID_TIMER \notin Tid
  BY InvSays
<1>3. Clock
  BY DEF TimerInv
<1>4. HeapIds' = HeapIds /\ FreeIds' = FreeIds /\ Running' = Running /\ Timed' = Timed
  BY <1>1 DEF HeapIds, FreeIds, Running, Timed
<1>5. \A t \in Timed : left[t] \in Int /\ left'[t] = left[t] - 1
  <2>1. ASSUME NEW t \in Timed PROVE left[t] \in Int /\ left'[t] = left[t] - 1
    <3>1. t \in HeapIds \union {running} /\ t \in Tid
      BY <1>2 DEF Timed, Running
    <3>. QED BY <1>1, <1>2, <3>1
  <2>. QED BY <2>1
<1>6. /\ budget \in Nat /\ budget <= MaxInterval + Work + PacketWork /\ pass \in Nat /\ pass <= Work
      /\ next \in {"callbacks", "select", "packets"}
      /\ next = "callbacks" => budget + pass = Work
      /\ next = "packets" => budget <= PacketWork
  BY <1>3, Numbers DEF Clock
<1>7. /\ Floor \in Int /\ Floor' = Floor - 1 /\ -Lateness < Floor'
  <2>1. CASE next = "callbacks"
    <3>1. Floor = 1 - Work - MinInterval - PacketWork - pass
      BY <1>3, <2>1, FloorIs
    <3>2. Floor' = 1 - Work - MinInterval - PacketWork - (pass + 1) /\ pass + 1 <= Work
      BY <1>1, <1>6, <2>1 DEF Floor
    <3>. QED BY <1>6, <3>1, <3>2, Numbers
  <2>2. CASE next = "select"
    <3>1. Floor = budget - Work - MinInterval + 1
      BY <1>3, <2>2, FloorIs
    <3>2. Floor' = (budget - 1) - Work - MinInterval + 1 /\ budget >= 1
      BY <1>1, <1>6, <2>2 DEF Floor
    <3>. QED BY <1>6, <3>1, <3>2, Numbers
  <2>3. CASE next = "packets"
    <3>1. Floor = 1 - Work - MinInterval - (PacketWork - budget)
      BY <1>3, <2>3, FloorIs
    <3>2. Floor' = 1 - Work - MinInterval - (PacketWork - (budget - 1)) /\ budget >= 1
      BY <1>1, <1>6, <2>3 DEF Floor
    <3>. QED BY <1>6, <3>1, <3>2, Numbers
  <2>. QED BY <1>6, <2>1, <2>2, <2>3
<1>8. Clock'
  <2>1. tick' \in 0 .. TickMod - 1
    BY <1>1, <1>2, WrappedAhead
  <2>2. /\ pass' \in 0 .. Work /\ budget' \in 0 .. MaxInterval + Work + PacketWork
        /\ next' = "callbacks" => budget' + pass' = Work
        /\ next' = "packets" => budget' <= PacketWork
    BY <1>1, <1>6, Numbers
  <2>3. ASSUME running # INVALID_TIMER PROVE next' = "callbacks" /\ left'[running'] <= -pass'
    <3>1. running \in Timed /\ next = "callbacks" /\ left[running] <= -pass
      BY <1>3, <2>3 DEF Clock, Timed, Running
    <3>2. left'[running] = left[running] - 1 /\ left[running] \in Int /\ pass' = pass + 1
      BY <1>1, <1>5, <3>1
    <3>3. left'[running] <= -pass'
      BY <1>6, <3>1, <3>2
    <3>. QED BY <1>1, <3>1, <3>3
  <2>. QED BY <1>1, <1>6, <2>1, <2>2, <2>3 DEF Clock
<1>9. Deadlines'
  <2>1. InTime(timer_data, left, tick, Timed) /\ \A u \in Timed : Floor <= left[u]
    BY DEF TimerInv, Deadlines
  <2>2. tick' \in 0 .. TickMod - 1 /\ Ahead(tick', tick, 1)
    BY <1>1, <1>2, WrappedAhead
  <2>3. ASSUME NEW u \in Timed
        PROVE  /\ timer_data[u].tick \in 0 .. TickMod - 1 /\ left'[u] \in Int
               /\ Ahead(timer_data[u].tick, tick', left'[u])
               /\ -Lateness < left'[u] /\ left'[u] <= Longest + 1 /\ Floor' <= left'[u]
    <3>1. PICK s \in Int, x \in Int : s = timer_data[u].tick /\ x = left[u]
      BY <2>1 DEF InTime
    <3>2. /\ Ahead(s, tick, x) /\ x <= Longest + 1 /\ Floor <= x /\ timer_data[u].tick \in 0 .. TickMod - 1
      BY <2>1, <3>1 DEF InTime
    <3>3. PICK now \in Int : now = tick'
      BY <2>2
    <3>4. Ahead(s, now, x - 1)
      <4>1. PICK c \in Int : c = tick
        BY <1>2
      <4>2. Ahead(s, c, x) /\ Ahead(now, c, 1)
        BY <2>2, <3>2, <3>3, <4>1
      <4>. QED BY <4>2, AheadAdds
    <3>5. left'[u] = x - 1
      BY <1>5, <3>1
    <3>6. -Lateness < x - 1 /\ x - 1 <= Longest + 1 /\ Floor' <= x - 1
      BY <1>7, <3>2, LongestIs
    <3>7. Ahead(timer_data[u].tick, tick', left'[u])
      BY <3>1, <3>3, <3>4, <3>5
    <3>. QED BY <3>2, <3>5, <3>6, <3>7
  <2>4. InTime(timer_data, left', tick', Timed)
    BY <1>2, <2>2, <2>3 DEF InTime
  <2>. QED BY <1>1, <1>4, <2>3, <2>4 DEF Deadlines
<1>10. Ordered(timer_heap', left')
  <2>1. Lists(timer_heap, Len(timer_heap), HeapIds) /\ Ordered(timer_heap, left) /\ Len(timer_heap) \in Nat
    BY InvSays DEF TimerInv, IdsOnce
  <2>2. \A v \in HeapIds : left[v] \in Int /\ left'[v] = left[v] - 1
    BY <1>5 DEF Timed
  <2>. QED BY <1>1, <2>1, <2>2, OrderedStill
<1>11. Fields'
  <2>1. left' \in [Tid -> Int]
    BY <1>1, <1>2
  <2>. QED BY <1>1, <2>1 DEF TimerInv, Fields
<1>12. IdsOnce'
  BY <1>1, <1>4 DEF TimerInv, IdsOnce
<1>. QED BY <1>8, <1>9, <1>10, <1>11, <1>12 DEF TimerInv

LEMMA InitInv ==
  ASSUME TimerInit
  PROVE  TimerInv
<1>1. /\ timer_data = [t \in Tid |-> NoTimer]
      /\ timer_heap = <<>> /\ timer_data_num = 0 /\ free_timer_list = <<>>
      /\ running = INVALID_TIMER /\ tick \in 0 .. TickMod - 1
      /\ next = "packets" /\ budget = PacketWork /\ pass = 0
      /\ left = [t \in Tid |-> 0] /\ lost = {}
  BY DEF TimerInit
<1>2. HeapIds = {} /\ FreeIds = {} /\ Running = {} /\ Timed = {}
  BY <1>1 DEF HeapIds, FreeIds, Running, Timed
<1>3. Lists(<<>>, 0, {}) /\ Len(timer_heap) = 0 /\ Len(free_timer_list) = 0
  BY <1>1 DEF Lists, OnceEach, EntriesOf
<1>4. Apart({}, {}, {}, {}, 0)
  BY DEF Apart
<1>5. IdsOnce
  BY <1>1, <1>2, <1>3, <1>4 DEF IdsOnce
<1>6. Fields
  <2>1. NoTimer \in TimerData /\ NoTimer.type # INTERVAL
    BY Numbers DEF NoTimer, TimerData, FREE, INTERVAL
  <2>2. MaxTimers \in Nat
    BY TimerAssumption
  <2>. QED BY <1>1, <2>1, <2>2 DEF Fields
<1>7. Clock
  BY <1>1, Numbers DEF Clock
<1>8. Deadlines
  BY <1>1, <1>2 DEF Deadlines, InTime
<1>9. Ordered(timer_heap, left)
  BY <1>1 DEF Ordered
<1>. QED BY <1>5, <1>6, <1>7, <1>8, <1>9 DEF TimerInv

LEMMA StutterKeeps ==
  ASSUME TimerInv, UNCHANGED timerVars
  PROVE  TimerInv'
<1>1. UNCHANGED <<timer_data, timer_heap, timer_data_num, free_timer_list, running,
                  tick, next, budget, pass, left, lost>>
  BY DEF timerVars
<1>2. HeapIds' = HeapIds /\ FreeIds' = FreeIds /\ Running' = Running /\ Timed' = Timed /\ Floor' = Floor
  BY <1>1 DEF HeapIds, FreeIds, Running, Timed, Floor
<1>. QED BY <1>1, <1>2 DEF TimerInv, IdsOnce, Fields, Clock, Deadlines

\* The ways in which a new timer is set.
LEMMA AddStarts ==
  ASSUME add_timer \/ add_timer_interval
  PROVE  /\ Caller /\ acquire_timer \in Tid
         /\ \E func \in Func, delay \in Delays, type \in {ONCE, INTERVAL},
               interval \in Intervals \union {0} :
              /\ type = INTERVAL => interval \in Intervals
              /\ Started(acquire_timer, delay, type, func, interval)
<1>1. ONCE # INTERVAL
  BY DEF ONCE, INTERVAL
<1>2. CASE add_timer
  BY <1>1, <1>2 DEF add_timer
<1>3. CASE add_timer_interval
  BY <1>3 DEF add_timer_interval
<1>. QED BY <1>2, <1>3

LEMMA NextKeeps ==
  ASSUME TimerInv, [TimerNext]_timerVars
  PROVE  TimerInv'
<1>1. CASE add_timer \/ add_timer_interval
  <2>1. PICK t \in Tid : t = acquire_timer
    BY <1>1, AddStarts
  <2>2. PICK func \in Func, delay \in Delays, type \in {ONCE, INTERVAL},
             interval \in Intervals \union {0} :
          (type = INTERVAL => interval \in Intervals) /\ Started(t, delay, type, func, interval)
    BY <1>1, <2>1, AddStarts
  <2>3. Caller
    BY <1>1, AddStarts
  <2>. QED BY <2>1, <2>2, <2>3, StartedKeeps
<1>2. ASSUME NEW t \in Tid, delete_timer(t) PROVE TimerInv'
  BY <1>2, DeleteKeeps
<1>3. CASE SetTick \/ AddTick
  BY <1>3, SetTickKeeps
<1>4. CASE DoTimer
  BY <1>4, DoTimerKeeps
<1>5. ASSUME NEW t \in Tid, Pop(t) PROVE TimerInv'
  BY <1>5, PopKeepsInv
<1>6. ASSUME NEW t \in Tid, Discard(t) PROVE TimerInv'
  BY <1>6, DiscardKeeps
<1>7. CASE Return
  <2>1. Release \/ Repeat
    BY <1>7 DEF Return
  <2>. QED BY <1>7, <2>1, ReleaseKeeps, RepeatKeeps
<1>8. CASE ReturnDeleted
  BY <1>8, ReturnDeletedKeeps
<1>9. CASE Sleep
  BY <1>9, SleepKeeps
<1>10. CASE Wake
  BY <1>10, WakeKeeps
<1>11. CASE Elapse
  BY <1>11, ElapseKeeps
<1>12. CASE UNCHANGED timerVars
  BY <1>12, StutterKeeps
<1>. QED BY <1>1, <1>2, <1>3, <1>4, <1>5, <1>6, <1>7, <1>8, <1>9, <1>10, <1>11, <1>12
     DEF TimerNext, Use, DoTimerStep

LEMMA TimerInvariant == TimerSpec => []TimerInv
<1>1. TimerInit => TimerInv
  BY InitInv
<1>2. TimerInv /\ [TimerNext]_timerVars => TimerInv'
  BY NextKeeps
<1>. QED BY <1>1, <1>2, PTL DEF TimerSpec

LEMMA ListCounts ==
  ASSUME NEW h, NEW n \in Nat, NEW V, Lists(h, n, V)
  PROVE  IsFiniteSet(V) /\ Cardinality(V) = n
<1>1. h \in Seq(Nat) /\ Len(h) = n /\ OnceEach(h) /\ EntriesOf(h) = V
  BY DEF Lists
<1>. DEFINE f == [i \in 1 .. n |-> h[i]]
<1>2. f \in Bijection(1 .. n, V)
  <2>1. f \in [1 .. n -> V]
    BY <1>1 DEF EntriesOf
  <2>2. \A i, j \in 1 .. n : f[i] = f[j] => i = j
    BY <1>1 DEF OnceEach
  <2>3. \A v \in V : \E i \in 1 .. n : f[i] = v
    BY <1>1 DEF EntriesOf
  <2>. QED BY <2>1, <2>2, <2>3, Fun_IsBij
<1>3. ExistsBijection(1 .. n, V)
  BY <1>2 DEF ExistsBijection
<1>4. IsFiniteSet(1 .. n) /\ Cardinality(1 .. n) = n
  <2>1. 1 \in Int /\ n \in Int /\ (IF 1 > n THEN 0 ELSE n - 1 + 1) = n
    OBVIOUS
  <2>. QED BY <2>1, FS_Interval
<1>. QED BY <1>3, <1>4, FS_Bijection

LEMMA DisjointCounts ==
  ASSUME NEW S, NEW T, IsFiniteSet(S), IsFiniteSet(T), S \intersect T = {}
  PROVE  IsFiniteSet(S \union T) /\ Cardinality(S \union T) = Cardinality(S) + Cardinality(T)
<1>1. Cardinality(S \intersect T) = 0
  BY FS_EmptySet
<1>2. Cardinality(S) \in Nat /\ Cardinality(T) \in Nat
  BY FS_CardinalityType
<1>3. /\ IsFiniteSet(S \cup T)
      /\ Cardinality(S \cup T) = Cardinality(S) + Cardinality(T) - Cardinality(S \cap T)
  BY FS_Union
<1>. QED BY <1>1, <1>2, <1>3

LEMMA InvCounts ==
  ASSUME TimerInv
  PROVE  IdInOnePlace
<1>1. /\ Lists(timer_heap, Len(timer_heap), HeapIds)
      /\ Lists(free_timer_list, Len(free_timer_list), FreeIds)
      /\ Apart(HeapIds, FreeIds, lost, Running, timer_data_num)
      /\ Len(timer_heap) \in Nat /\ Len(free_timer_list) \in Nat
      /\ HeapIds \subseteq Tid /\ FreeIds \subseteq Tid /\ timer_data_num \in Nat
      /\ running \in Tid \union {INVALID_TIMER}
  BY InvSays DEF TimerInv, IdsOnce
<1>2. TimerTypeOK
  <2>1. timer_heap \in Seq(Tid) /\ free_timer_list \in Seq(Tid)
    <3>1. ASSUME NEW h, NEW V, Lists(h, Len(h), V), V \subseteq Tid PROVE h \in Seq(Tid)
      <4>1. h \in Seq(Nat) /\ \A i \in 1 .. Len(h) : h[i] \in Tid
        BY <3>1 DEF Lists, EntriesOf
      <4>. QED BY <4>1
    <3>. QED BY <1>1, <3>1
  <2>2. Fields /\ Clock
    BY DEF TimerInv
  <2>. QED BY <2>1, <2>2 DEF TimerTypeOK, Fields, Clock
<1>3. /\ IsFiniteSet(HeapIds) /\ Cardinality(HeapIds) = Len(timer_heap)
      /\ IsFiniteSet(FreeIds) /\ Cardinality(FreeIds) = Len(free_timer_list)
  BY <1>1, ListCounts
<1>4. /\ IsFiniteSet(Running)
      /\ Cardinality(Running) = IF running = INVALID_TIMER THEN 0 ELSE 1
  <2>1. CASE running = INVALID_TIMER
    <3>1. Running = {}
      BY <2>1 DEF Running
    <3>. QED BY <2>1, <3>1, FS_EmptySet
  <2>2. CASE running # INVALID_TIMER
    <3>1. Running = {running}
      BY <2>2 DEF Running
    <3>. QED BY <2>2, <3>1, FS_Singleton
  <2>. QED BY <2>1, <2>2
<1>5. HeapIds \union FreeIds \union lost \union Running = 0 .. timer_data_num - 1
  BY <1>1 DEF Apart
<1>6. IsFiniteSet(0 .. timer_data_num - 1) /\ Cardinality(0 .. timer_data_num - 1) = timer_data_num
  <2>1. 0 \in Int /\ timer_data_num - 1 \in Int
        /\ (IF 0 > timer_data_num - 1 THEN 0 ELSE (timer_data_num - 1) - 0 + 1) = timer_data_num
    BY <1>1
  <2>. QED BY <2>1, FS_Interval
<1>7. IsFiniteSet(lost)
  <2>1. lost \in SUBSET (0 .. timer_data_num - 1)
    BY <1>5
  <2>. QED BY <1>6, <2>1, FS_Subset
<1>8. Cardinality(HeapIds) + Cardinality(FreeIds) + Cardinality(lost) + Cardinality(Running)
        = timer_data_num
  <2>1. /\ IsFiniteSet(HeapIds \union FreeIds)
        /\ Cardinality(HeapIds \union FreeIds) = Cardinality(HeapIds) + Cardinality(FreeIds)
    BY <1>1, <1>3, DisjointCounts DEF Apart
  <2>2. (HeapIds \union FreeIds) \intersect lost = {}
    BY <1>1 DEF Apart
  <2>3. /\ IsFiniteSet(HeapIds \union FreeIds \union lost)
        /\ Cardinality(HeapIds \union FreeIds \union lost)
             = Cardinality(HeapIds \union FreeIds) + Cardinality(lost)
    BY <1>7, <2>1, <2>2, DisjointCounts
  <2>4. (HeapIds \union FreeIds \union lost) \intersect Running = {}
    BY <1>1 DEF Apart
  <2>5. Cardinality(HeapIds \union FreeIds \union lost \union Running)
          = Cardinality(HeapIds \union FreeIds \union lost) + Cardinality(Running)
    BY <1>4, <2>3, <2>4, DisjointCounts
  <2>. QED BY <1>5, <1>6, <2>1, <2>3, <2>5
<1>9. Cardinality(lost) \in Nat
  BY <1>7, FS_CardinalityType
<1>10. HeapIds \union FreeIds \union lost \union ({running} \ {INVALID_TIMER}) = 0 .. timer_data_num - 1
  BY <1>5 DEF Running
<1>11. Len(timer_heap) + Len(free_timer_list) + Cardinality(lost)
         + (IF running = INVALID_TIMER THEN 0 ELSE 1) = timer_data_num
  BY <1>1, <1>3, <1>4, <1>8, <1>9
<1>. QED BY <1>2, <1>3, <1>10, <1>11 DEF IdInOnePlace

(***************************************************************************)
(* No id is given to two callers or run twice: an id is handed out,        *)
(* returned and lost as timer.c moves it between the heap, the free list   *)
(* and the timer that runs.                                                *)
(***************************************************************************)
THEOREM IdsInOnePlace == TimerSpec => []IdInOnePlace
<1>1. TimerInv => IdInOnePlace
  BY InvCounts
<1>. QED BY <1>1, TimerInvariant, PTL

(***************************************************************************)
(* The heap stays in the order of the true deadlines, for every width of   *)
(* the tick and every clock, although BHEAP_PUSH and BHEAP_POPINDEX        *)
(* compare ticks that wrap around.                                         *)
(***************************************************************************)
THEOREM HeapStaysInOrder == TimerSpec => []HeapInTrueOrder
<1>1. TimerInv => HeapInTrueOrder
  BY DEF TimerInv, Ordered, HeapInTrueOrder
<1>. QED BY <1>1, TimerInvariant, PTL

-----------------------------------------------------------------------------
(* The timers implement alarms *)

Pending == {t \in HeapIds : timer_data[t].func # NULL}
AlarmLeft == [t \in Tid |-> IF t \in HeapIds /\ timer_data[t].func # NULL THEN left[t] ELSE 0]

\* What a step does to one timer, the others staying pending or not.
LEMMA OneAlarm ==
  ASSUME NEW t \in Tid, HeapIds \subseteq Tid, HeapIds' \subseteq Tid,
         \A u \in Tid : u # t => (u \in Pending' <=> u \in Pending) /\ (u \in Pending => left'[u] = left[u])
  PROVE  /\ t \in Pending' => /\ Pending' = Pending \union {t}
                              /\ AlarmLeft' = [AlarmLeft EXCEPT ![t] = left'[t]]
         /\ t \notin Pending' => /\ Pending' = Pending \ {t}
                                 /\ AlarmLeft' = [AlarmLeft EXCEPT ![t] = 0]
<1>1. Pending \subseteq Tid /\ Pending' \subseteq Tid
  BY DEF Pending
<1>2. /\ AlarmLeft = [u \in Tid |-> IF u \in Pending THEN left[u] ELSE 0]
      /\ AlarmLeft' = [u \in Tid |-> IF u \in Pending' THEN left'[u] ELSE 0]
  BY DEF AlarmLeft, Pending
<1>3. t \in Pending' => Pending' = Pending \union {t}
  BY <1>1
<1>4. t \notin Pending' => Pending' = Pending \ {t}
  BY <1>1
<1>5. PICK x : x = IF t \in Pending' THEN left'[t] ELSE 0
  OBVIOUS
<1>6. AlarmLeft' = [AlarmLeft EXCEPT ![t] = x]
  <2>1. \A u \in Tid : AlarmLeft'[u] = [AlarmLeft EXCEPT ![t] = x][u]
    BY <1>2, <1>5
  <2>. QED BY <1>2, <2>1
<1>. QED BY <1>3, <1>4, <1>5, <1>6

\* A timer that is not pending before and after is no alarm.
LEMMA NoAlarm ==
  ASSUME NEW t \in Tid, HeapIds \subseteq Tid, HeapIds' \subseteq Tid,
         \A u \in Tid : u # t => (u \in Pending' <=> u \in Pending) /\ (u \in Pending => left'[u] = left[u]),
         t \notin Pending, t \notin Pending'
  PROVE  Pending' = Pending /\ AlarmLeft' = AlarmLeft
<1>1. Pending \subseteq Tid /\ Pending' \subseteq Tid
  BY DEF Pending
<1>2. /\ AlarmLeft = [u \in Tid |-> IF u \in Pending THEN left[u] ELSE 0]
      /\ AlarmLeft' = [u \in Tid |-> IF u \in Pending' THEN left'[u] ELSE 0]
  BY DEF AlarmLeft, Pending
<1>3. Pending' = Pending
  BY <1>1
<1>4. \A u \in Tid : AlarmLeft'[u] = AlarmLeft[u]
  BY <1>2, <1>3
<1>. QED BY <1>2, <1>3, <1>4

\* The deadlines an alarm is given.
LEMMA AlarmRange ==
  ASSUME TimerInv
  PROVE  /\ HeapIds \subseteq Tid
         /\ \A t \in HeapIds : /\ left[t] \in (1 - Lateness) .. (Longest + 1)
                               /\ t \in Pending => AlarmLeft[t] = left[t]
<1>1. InTime(timer_data, left, tick, Timed) /\ HeapIds \subseteq Tid
  BY InvSays DEF TimerInv, Deadlines
<1>2. ASSUME NEW t \in HeapIds PROVE left[t] \in (1 - Lateness) .. (Longest + 1)
  <2>1. PICK x \in Int : x = left[t] /\ -Lateness < x /\ x <= Longest + 1
    BY <1>1 DEF InTime, Timed
  <2>. QED BY <2>1, LongestIs
<1>. QED BY <1>1, <1>2 DEF AlarmLeft, Pending

LEMMA AlarmInits == TimerInit => Alarms!AlarmInit
<1>. SUFFICES ASSUME TimerInit PROVE Alarms!AlarmInit
  OBVIOUS
<1>1. HeapIds = {}
  BY DEF TimerInit, HeapIds
<1>2. Pending = {} /\ AlarmLeft = [t \in Tid |-> 0]
  BY <1>1 DEF Pending, AlarmLeft
<1>. QED BY <1>2 DEF Alarms!AlarmInit, Pending, AlarmLeft

LEMMA InRange ==
  ASSUME NEW data, NEW lft, NEW now, NEW V, InTime(data, lft, now, V), NEW t \in V
  PROVE  lft[t] \in (1 - Lateness) .. (Longest + 1) /\ t \in Tid
<1>1. PICK x \in Int : x = lft[t] /\ -Lateness < x /\ x <= Longest + 1
  BY DEF InTime
<1>2. t \in Tid
  BY DEF InTime
<1>. QED BY <1>1, <1>2, LongestIs

\* Both ends of a step.
LEMMA InvEnds ==
  ASSUME TimerInv, TimerInv'
  PROVE  /\ HeapIds \subseteq Tid /\ HeapIds' \subseteq Tid
         /\ \A t \in HeapIds' : left'[t] \in (1 - Lateness) .. (Longest + 1)
         /\ \A t \in HeapIds : left[t] \in (1 - Lateness) .. (Longest + 1)
<1>1. InTime(timer_data, left, tick, Timed) /\ InTime(timer_data', left', tick', Timed')
  BY DEF TimerInv, Deadlines
<1>2. HeapIds \subseteq Timed /\ HeapIds' \subseteq Timed'
  BY DEF Timed
<1>3. \A t \in Timed : left[t] \in (1 - Lateness) .. (Longest + 1) /\ t \in Tid
  BY <1>1, InRange
<1>4. \A t \in Timed' : left'[t] \in (1 - Lateness) .. (Longest + 1) /\ t \in Tid
  <2>1. PICK data, lft, now, V : data = timer_data' /\ lft = left' /\ now = tick' /\ V = Timed'
    OBVIOUS
  <2>2. InTime(data, lft, now, V)
    BY <1>1, <2>1
  <2>3. \A t \in V : lft[t] \in (1 - Lateness) .. (Longest + 1) /\ t \in Tid
    BY <2>2, InRange
  <2>. QED BY <2>1, <2>3
<1>. QED BY <1>2, <1>3, <1>4

Sets(t) ==
  /\ t \notin Pending /\ Pending' = Pending \union {t}
  /\ AlarmLeft' = [AlarmLeft EXCEPT ![t] = left'[t]]
Moves(t) ==
  /\ t \in Pending /\ Pending' = Pending
  /\ AlarmLeft' = [AlarmLeft EXCEPT ![t] = left'[t]]

LEMMA StartSets ==
  ASSUME TimerInv, TimerInv', NEW t \in Tid, NEW delay, NEW type, NEW func \in Func, NEW interval,
         t = acquire_timer, Started(t, delay, type, func, interval), HeapIds' = HeapIds \union {t}
  PROVE  Sets(t) /\ left'[t] \in (1 - Lateness) .. (Longest + 1)
<1>1. /\ timer_data \in [Tid -> TimerData] /\ left \in [Tid -> Int]
  BY InvSays
<1>2. t \notin HeapIds
  BY Acquired
<1>3. /\ \A u \in Tid : u # t => timer_data'[u] = timer_data[u] /\ left'[u] = left[u]
      /\ timer_data'[t].func = func
  BY <1>1 DEF Started
<1>4. func # NULL
  BY TimerAssumption
<1>5. HeapIds \subseteq Tid /\ HeapIds' \subseteq Tid /\ left'[t] \in (1 - Lateness) .. (Longest + 1)
  BY InvEnds
<1>6. t \in Pending' /\ t \notin Pending
  BY <1>2, <1>3, <1>4 DEF Pending
<1>7. \A u \in Tid : u # t => (u \in Pending' <=> u \in Pending) /\ (u \in Pending => left'[u] = left[u])
  BY <1>3 DEF Pending
<1>8. Pending' = Pending \union {t} /\ AlarmLeft' = [AlarmLeft EXCEPT ![t] = left'[t]]
  BY <1>5, <1>6, <1>7, OneAlarm
<1>9. Sets(t)
  BY <1>6, <1>8 DEF Sets
<1>. QED BY <1>5, <1>9

LEMMA RepeatSets ==
  ASSUME TimerInv, TimerInv', Return, Repeat, HeapIds' = HeapIds \union {running}
  PROVE  \/ \E t \in Tid : Sets(t) /\ left'[t] \in (1 - Lateness) .. (Longest + 1)
         \/ Pending' = Pending /\ AlarmLeft' = AlarmLeft
<1>1. /\ timer_data \in [Tid -> TimerData] /\ left \in [Tid -> Int]
  BY InvSays
<1>2. PICK t : t = running
  OBVIOUS
<1>3. t \in Tid /\ t \notin HeapIds
  BY <1>2, RunningSays DEF Return
<1>4. PICK to, remain :
        /\ timer_data' = [timer_data EXCEPT ![t].tick = to, ![t].removed = FALSE]
        /\ left' = [left EXCEPT ![t] = remain]
  BY <1>2 DEF Repeat
<1>5. /\ \A u \in Tid : u # t => timer_data'[u] = timer_data[u] /\ left'[u] = left[u]
      /\ timer_data'[t].func = timer_data[t].func
  <2>1. timer_data[t] \in TimerData
    BY <1>1, <1>3
  <2>. QED BY <1>1, <1>3, <1>4, <2>1 DEF TimerData
<1>6. HeapIds \subseteq Tid /\ HeapIds' \subseteq Tid /\ left'[t] \in (1 - Lateness) .. (Longest + 1)
  BY <1>2, InvEnds
<1>7. \A u \in Tid : u # t => (u \in Pending' <=> u \in Pending) /\ (u \in Pending => left'[u] = left[u])
  BY <1>2, <1>5 DEF Pending
<1>8. t \notin Pending /\ (t \in Pending' <=> timer_data[t].func # NULL)
  BY <1>2, <1>3, <1>5 DEF Pending
<1>9. CASE timer_data[t].func # NULL
  <2>1. Pending' = Pending \union {t} /\ AlarmLeft' = [AlarmLeft EXCEPT ![t] = left'[t]]
    BY <1>3, <1>6, <1>7, <1>8, <1>9, OneAlarm
  <2>2. Sets(t)
    BY <1>8, <2>1 DEF Sets
  <2>. QED BY <1>3, <1>6, <2>2
<1>10. CASE timer_data[t].func = NULL
  <2>1. t \notin Pending'
    BY <1>8, <1>10
  <2>2. Pending' = Pending /\ AlarmLeft' = AlarmLeft
    BY <1>3, <1>6, <1>7, <1>8, <2>1, NoAlarm
  <2>. QED BY <2>2
<1>. QED BY <1>9, <1>10

LEMMA SettickMoves ==
  ASSUME TimerInv, TimerInv', NEW t \in Tid, NEW to, NEW remain, settick_timer(t, to, remain),
         HeapIds' = HeapIds
  PROVE  Moves(t) /\ left'[t] \in (1 - Lateness) .. (Longest + 1)
<1>1. /\ timer_data \in [Tid -> TimerData] /\ left \in [Tid -> Int]
  BY InvSays
<1>2. PICK moved, away :
        /\ timer_data' = [timer_data EXCEPT ![t].tick = moved]
        /\ left' = [left EXCEPT ![t] = away]
  BY DEF settick_timer
<1>3. t \in HeapIds /\ timer_data[t].func # NULL
  BY DEF settick_timer
<1>4. /\ \A u \in Tid : u # t => timer_data'[u] = timer_data[u] /\ left'[u] = left[u]
      /\ timer_data'[t].func = timer_data[t].func
  <2>1. timer_data[t] \in TimerData
    BY <1>1
  <2>. QED BY <1>1, <1>2, <2>1 DEF TimerData
<1>5. HeapIds \subseteq Tid /\ HeapIds' \subseteq Tid /\ left'[t] \in (1 - Lateness) .. (Longest + 1)
  BY <1>3, InvEnds
<1>6. t \in Pending' /\ t \in Pending
  BY <1>3, <1>4 DEF Pending
<1>7. \A u \in Tid : u # t => (u \in Pending' <=> u \in Pending) /\ (u \in Pending => left'[u] = left[u])
  BY <1>4 DEF Pending
<1>8. Pending' = Pending \union {t} /\ AlarmLeft' = [AlarmLeft EXCEPT ![t] = left'[t]]
  BY <1>5, <1>6, <1>7, OneAlarm
<1>9. Pending' = Pending
  BY <1>6, <1>8
<1>10. Moves(t)
  BY <1>6, <1>8, <1>9 DEF Moves
<1>. QED BY <1>5, <1>10

LEMMA DeleteCancels ==
  ASSUME TimerInv, TimerInv', NEW t \in Tid, delete_timer(t)
  PROVE  Alarms!CancelAlarm(t) \/ (Pending' = Pending /\ AlarmLeft' = AlarmLeft)
<1>1. timer_data \in [Tid -> TimerData]
  BY InvSays
<1>2. /\ timer_data' = [timer_data EXCEPT ![t] =
           [tick |-> timer_data[t].tick, func |-> NULL, type |-> ONCE, removed |-> FALSE, interval |-> 0]]
      /\ timer_heap' = timer_heap /\ left' = left
  BY DEF delete_timer
<1>3. /\ \A u \in Tid : u # t => timer_data'[u] = timer_data[u]
      /\ timer_data'[t].func = NULL
  BY <1>1, <1>2
<1>4. HeapIds \subseteq Tid /\ HeapIds' \subseteq Tid /\ HeapIds' = HeapIds
  BY <1>2, InvEnds DEF HeapIds
<1>5. t \notin Pending'
  BY <1>3 DEF Pending
<1>6. \A u \in Tid : u # t => (u \in Pending' <=> u \in Pending) /\ (u \in Pending => left'[u] = left[u])
  BY <1>2, <1>3, <1>4 DEF Pending
<1>7. CASE t \in Pending
  <2>1. Pending' = Pending \ {t} /\ AlarmLeft' = [AlarmLeft EXCEPT ![t] = 0]
    BY <1>4, <1>5, <1>6, OneAlarm
  <2>2. Alarms!CancelAlarm(t)
    BY <1>7, <2>1 DEF Alarms!CancelAlarm, Pending, AlarmLeft
  <2>. QED BY <2>2
<1>8. CASE t \notin Pending
  <2>1. Pending' = Pending /\ AlarmLeft' = AlarmLeft
    BY <1>4, <1>5, <1>6, <1>8, NoAlarm
  <2>. QED BY <2>1
<1>. QED BY <1>7, <1>8

LEMMA PopRings ==
  ASSUME TimerInv, TimerInv', NEW t \in Tid, Pop(t)
  PROVE  Alarms!RingAlarm(t)
<1>1. timer_data \in [Tid -> TimerData]
  BY InvSays
<1>2. /\ Top(t) /\ timer_data[t].func # NULL /\ left' = left
      /\ timer_data' = [timer_data EXCEPT ![t].removed = TRUE]
  BY DEF Pop
<1>3. /\ t \in HeapIds /\ HeapIds' = HeapIds \ {t} /\ left[t] \in Int /\ left[t] <= -pass
      /\ \A u \in HeapIds : left[t] <= left[u]
  BY <1>2, TopLeaves
<1>4. pass \in Nat
  BY Numbers DEF TimerInv, Clock
<1>5. left[t] <= 0
  BY <1>3, <1>4
<1>6. \A u \in Tid : u # t => timer_data'[u] = timer_data[u]
  BY <1>1, <1>2
<1>7. HeapIds \subseteq Tid /\ HeapIds' \subseteq Tid
  BY InvEnds
<1>8. t \in Pending /\ t \notin Pending'
  BY <1>2, <1>3 DEF Pending
<1>9. \A u \in Tid : u # t => (u \in Pending' <=> u \in Pending) /\ (u \in Pending => left'[u] = left[u])
  BY <1>2, <1>3, <1>6 DEF Pending
<1>10. Pending' = Pending \ {t} /\ AlarmLeft' = [AlarmLeft EXCEPT ![t] = 0]
  BY <1>7, <1>8, <1>9, OneAlarm
<1>11. \A u \in Pending : u \in HeapIds /\ AlarmLeft[u] = left[u]
  BY <1>7 DEF AlarmLeft, Pending
<1>12. AlarmLeft[t] <= 0 /\ \A u \in Pending : AlarmLeft[t] <= AlarmLeft[u]
  BY <1>3, <1>5, <1>8, <1>11
<1>. QED BY <1>8, <1>10, <1>12 DEF Alarms!RingAlarm, Pending, AlarmLeft

\* Timers that are discarded, or whose function has run, are no alarms.
LEMMA IdleIsNoAlarm ==
  ASSUME TimerInv, TimerInv', NEW t \in Tid, t \notin Pending, HeapIds' \subseteq HeapIds,
         HeapIds \ {t} \subseteq HeapIds', t \notin HeapIds', timer_data' = Freed(t),
         left' = [left EXCEPT ![t] = 0]
  PROVE  Pending' = Pending /\ AlarmLeft' = AlarmLeft
<1>1. timer_data \in [Tid -> TimerData] /\ left \in [Tid -> Int]
  BY InvSays
<1>2. \A u \in Tid : u # t => timer_data'[u] = timer_data[u] /\ left'[u] = left[u]
  BY <1>1 DEF Freed
<1>3. HeapIds \subseteq Tid /\ HeapIds' \subseteq Tid /\ t \notin Pending'
  BY InvEnds DEF Pending
<1>4. \A u \in Tid : u # t => (u \in Pending' <=> u \in Pending) /\ (u \in Pending => left'[u] = left[u])
  BY <1>2 DEF Pending
<1>. QED BY <1>3, <1>4, NoAlarm

LEMMA IdleSteps ==
  ASSUME TimerInv, TimerInv',
         (\E t \in Tid : Discard(t)) \/ (Return /\ Release) \/ ReturnDeleted
  PROVE  Pending' = Pending /\ AlarmLeft' = AlarmLeft
<1>1. ASSUME NEW t \in Tid, Discard(t) PROVE Pending' = Pending /\ AlarmLeft' = AlarmLeft
  <2>1. Top(t) /\ timer_data[t].func = NULL /\ timer_data' = Freed(t) /\ left' = [left EXCEPT ![t] = 0]
    BY <1>1 DEF Discard
  <2>2. HeapIds' = HeapIds \ {t}
    BY <2>1, TopLeaves
  <2>3. t \notin Pending
    BY <2>1 DEF Pending
  <2>. QED BY <2>1, <2>2, <2>3, IdleIsNoAlarm
<1>2. ASSUME (Return /\ Release) \/ ReturnDeleted PROVE Pending' = Pending /\ AlarmLeft' = AlarmLeft
  <2>1. PICK t : t = running
    OBVIOUS
  <2>2. /\ running # INVALID_TIMER /\ timer_data' = Freed(t) /\ left' = [left EXCEPT ![t] = 0]
        /\ timer_heap' = timer_heap
    BY <1>2, <2>1 DEF Return, Release, ReturnDeleted
  <2>3. t \in Tid /\ t \notin HeapIds /\ HeapIds' = HeapIds
    BY <2>1, <2>2, RunningSays DEF HeapIds
  <2>4. t \notin Pending
    BY <2>3 DEF Pending
  <2>. QED BY <2>2, <2>3, <2>4, IdleIsNoAlarm
<1>. QED BY <1>1, <1>2

LEMMA ElapseElapses ==
  ASSUME TimerInv, TimerInv', Elapse
  PROVE  Alarms!ElapseAlarm
<1>1. /\ left \in [Tid -> Int]
  BY InvSays
<1>2. /\ left' = [t \in Tid |-> IF t \in HeapIds \union {running} THEN left[t] - 1 ELSE left[t]]
      /\ timer_heap' = timer_heap /\ timer_data' = timer_data
  BY DEF Elapse
<1>3. HeapIds' = HeapIds /\ Pending' = Pending
  BY <1>2 DEF HeapIds, Pending
<1>4. HeapIds \subseteq Tid /\ \A t \in HeapIds : left'[t] \in (1 - Lateness) .. (Longest + 1)
  BY <1>3, InvEnds
<1>5. /\ AlarmLeft = [u \in Tid |-> IF u \in Pending THEN left[u] ELSE 0]
      /\ AlarmLeft' = [u \in Tid |-> IF u \in Pending THEN left'[u] ELSE 0]
  BY <1>3 DEF AlarmLeft, Pending
<1>6. \A u \in Pending : u \in HeapIds /\ u \in Tid
  BY <1>4 DEF Pending
<1>7. ASSUME NEW u \in Pending PROVE AlarmLeft[u] > -Lateness /\ AlarmLeft'[u] = AlarmLeft[u] - 1
  <2>1. PICK x \in Int : x = left[u]
    BY <1>1, <1>6
  <2>2. left'[u] = x - 1
    BY <1>1, <1>2, <1>6, <2>1
  <2>3. x - 1 \in (1 - Lateness) .. (Longest + 1)
    BY <1>4, <1>6, <2>2
  <2>4. x > -Lateness
    BY <2>3, LongestIs
  <2>. QED BY <1>5, <1>6, <2>1, <2>2, <2>4
<1>8. AlarmLeft' = [u \in Tid |-> IF u \in Pending THEN AlarmLeft[u] - 1 ELSE 0]
  <2>1. \A u \in Tid : AlarmLeft'[u] = IF u \in Pending THEN AlarmLeft[u] - 1 ELSE 0
    BY <1>5, <1>7
  <2>. QED BY <1>5, <2>1
<1>. QED BY <1>3, <1>7, <1>8 DEF Alarms!ElapseAlarm, Pending, AlarmLeft

\* A step of the timers is a step of the alarms, or none.
AlarmStep ==
  \/ \E t \in Tid : Sets(t) /\ left'[t] \in (1 - Lateness) .. (Longest + 1)
  \/ \E t \in Tid : Moves(t) /\ left'[t] \in (1 - Lateness) .. (Longest + 1)
  \/ \E t \in Tid : Alarms!CancelAlarm(t) \/ Alarms!RingAlarm(t)
  \/ Alarms!ElapseAlarm
  \/ Pending' = Pending /\ AlarmLeft' = AlarmLeft

LEMMA SameHeap ==
  ASSUME timer_data' = timer_data, timer_heap' = timer_heap, left' = left
  PROVE  Pending' = Pending /\ AlarmLeft' = AlarmLeft
BY DEF Pending, AlarmLeft, HeapIds

LEMMA NextIsAlarm ==
  ASSUME TimerInv, TimerInv', [TimerNext]_timerVars
  PROVE  AlarmStep
<1>1. CASE add_timer \/ add_timer_interval
  <2>1. PICK t \in Tid : t = acquire_timer
    BY <1>1, AddStarts
  <2>2. PICK func \in Func, delay \in Delays, type \in {ONCE, INTERVAL},
             interval \in Intervals \union {0} :
          (type = INTERVAL => interval \in Intervals) /\ Started(t, delay, type, func, interval)
    BY <1>1, <2>1, AddStarts
  <2>3. Caller
    BY <1>1, AddStarts
  <2>4. HeapIds' = HeapIds \union {t}
    BY <2>1, <2>2, <2>3, StartedKeeps
  <2>5. Sets(t) /\ left'[t] \in (1 - Lateness) .. (Longest + 1)
    BY <2>1, <2>2, <2>4, StartSets
  <2>. QED BY <2>5 DEF AlarmStep
<1>2. ASSUME NEW t \in Tid, delete_timer(t) PROVE AlarmStep
  BY <1>2, DeleteCancels DEF AlarmStep
<1>3. CASE SetTick \/ AddTick
  <2>1. HeapIds' = HeapIds
    BY <1>3, SetTickKeeps
  <2>2. PICK t \in Tid : \E to, remain : settick_timer(t, to, remain)
    BY <1>3 DEF SetTick, AddTick
  <2>3. PICK to, remain : settick_timer(t, to, remain)
    BY <2>2
  <2>4. Moves(t) /\ left'[t] \in (1 - Lateness) .. (Longest + 1)
    BY <2>1, <2>3, SettickMoves
  <2>. QED BY <2>4 DEF AlarmStep
<1>4. CASE DoTimer \/ Sleep \/ Wake
  <2>1. timer_data' = timer_data /\ timer_heap' = timer_heap /\ left' = left
    BY <1>4 DEF DoTimer, Sleep, Wake
  <2>. QED BY <2>1, SameHeap DEF AlarmStep
<1>5. ASSUME NEW t \in Tid, Pop(t) PROVE AlarmStep
  BY <1>5, PopRings DEF AlarmStep
<1>6. ASSUME NEW t \in Tid, Discard(t) PROVE AlarmStep
  BY <1>6, IdleSteps DEF AlarmStep
<1>7. CASE Return
  <2>1. CASE Release
    BY <1>7, <2>1, IdleSteps DEF AlarmStep
  <2>2. CASE Repeat
    <3>1. HeapIds' = HeapIds \union {running}
      BY <1>7, <2>2, RepeatKeeps
    <3>. QED BY <1>7, <2>2, <3>1, RepeatSets DEF AlarmStep
  <2>. QED BY <1>7, <2>1, <2>2 DEF Return
<1>8. CASE ReturnDeleted
  BY <1>8, IdleSteps DEF AlarmStep
<1>9. CASE Elapse
  BY <1>9, ElapseElapses DEF AlarmStep
<1>10. CASE UNCHANGED timerVars
  <2>1. timer_data' = timer_data /\ timer_heap' = timer_heap /\ left' = left
    BY <1>10 DEF timerVars
  <2>. QED BY <2>1, SameHeap DEF AlarmStep
<1>. QED BY <1>1, <1>2, <1>3, <1>4, <1>5, <1>6, <1>7, <1>8, <1>9, <1>10
     DEF TimerNext, Use, DoTimerStep

LEMMA AlarmStepIs ==
  ASSUME AlarmStep
  PROVE  [Alarms!AlarmNext]_(Alarms!alarmVars)
<1>1. Alarms!Deadline = (1 - Lateness) .. (Longest + 1)
  BY DEF Alarms!Deadline, Longest
<1>2. ASSUME NEW t \in Tid, NEW d \in (1 - Lateness) .. (Longest + 1),
             Alarms!SetAlarm(t, d) \/ Alarms!MoveAlarm(t, d)
      PROVE  Alarms!AlarmNext
  BY <1>1, <1>2 DEF Alarms!AlarmNext
<1>3. ASSUME NEW t \in Tid, Sets(t) \/ Moves(t), left'[t] \in (1 - Lateness) .. (Longest + 1)
      PROVE  Alarms!AlarmNext
  <2>1. PICK d \in (1 - Lateness) .. (Longest + 1) : d = left'[t]
    BY <1>3
  <2>2. Alarms!SetAlarm(t, d) \/ Alarms!MoveAlarm(t, d)
    BY <1>3, <2>1 DEF Sets, Moves, Alarms!SetAlarm, Alarms!MoveAlarm, Pending, AlarmLeft
  <2>. QED BY <1>2, <2>2
<1>4. ASSUME NEW t \in Tid, Alarms!CancelAlarm(t) \/ Alarms!RingAlarm(t)
      PROVE  Alarms!AlarmNext
  BY <1>4 DEF Alarms!AlarmNext
<1>5. Alarms!ElapseAlarm => Alarms!AlarmNext
  BY DEF Alarms!AlarmNext
<1>6. ASSUME Pending' = Pending, AlarmLeft' = AlarmLeft
      PROVE  UNCHANGED Alarms!alarmVars
  BY <1>6 DEF Alarms!alarmVars, Pending, AlarmLeft
<1>. QED BY <1>3, <1>4, <1>5, <1>6 DEF AlarmStep

(***************************************************************************)
(* The timers implement alarms: do_timer runs a timer only when it is due, *)
(* none that was deleted, the earliest first, and none later than          *)
(* Lateness.                                                               *)
(***************************************************************************)
THEOREM TimersAreAlarms == TimerSpec => RingsInOrder
<1>1. TimerInit => Alarms!AlarmInit
  BY AlarmInits
<1>2. TimerInv /\ TimerInv' /\ [TimerNext]_timerVars => [Alarms!AlarmNext]_(Alarms!alarmVars)
  BY NextIsAlarm, AlarmStepIs
<1>. QED BY <1>1, <1>2, TimerInvariant, PTL DEF TimerSpec, RingsInOrder, Alarms!AlarmSpec

=============================================================================
