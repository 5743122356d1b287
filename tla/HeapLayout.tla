----------------------------- MODULE HeapLayout -----------------------------
(***************************************************************************)
(* The tree of the timeout heap of sched.c: what insertion and deletion do *)
(* to it, for any number of threads and any due times.                     *)
(***************************************************************************)
EXTENDS TimeoutHeap, ClistProofs

(* The tree is an array a[1..n] in which the children of the thread at i   *)
(* are at 2i and 2i + 1.  Spot(a, i) is the place that holds position i.   *)
Layout(n) == {a \in [1..n -> Threads] : \A i, j \in 1..n : a[i] = a[j] => i = j}

On(a, n) == {a[i] : i \in 1..n}

Spot(a, i) == IF i = 1 THEN Root ELSE Child(a[i \div 2], i % 2)

Slot(a, n, i) == IF i <= n THEN a[i] ELSE None

PtrType == [Places -> Threads \cup {None}]

IndexType == [Threads -> Nat]

(* The pointers and the heap_index fields say that the tree is a[1..n]. *)
Laid(ptr, index, a, n) ==
  /\ ptr \in PtrType
  /\ index \in IndexType
  /\ \A i \in 1..(2 * n + 1) : ptr[Spot(a, i)] = Slot(a, n, i)
  /\ \A i \in 1..n : index[a[i]] = i

Ordered(a, d, n) == \A i \in 2..n : d[a[i \div 2]] <= d[a[i]]
-----------------------------------------------------------------------------
(* A place is _ST_SLEEPQ, or the left or right field of one thread. *)
LEMMA PlaceFacts ==
  /\ Root \in Places
  /\ \A t \in Threads :
       /\ Left(t) \in Places /\ Right(t) \in Places
       /\ Left(t) # Root /\ Right(t) # Root
       /\ Child(t, 0) = Left(t) /\ Child(t, 1) = Right(t)
  /\ \A t, u \in Threads :
       /\ Left(t) # Right(u)
       /\ Left(t) = Left(u) => t = u
       /\ Right(t) = Right(u) => t = u
<1>1. None \notin Threads
  BY HeapAssumption
<1> QED BY <1>1 DEF Places, Root, Left, Right, Child

(* Half a position, and what is left over. *)
LEMMA Halves ==
  ASSUME NEW n \in Nat, NEW i \in 2..(2 * n + 1)
  PROVE  /\ i \div 2 \in 1..n
         /\ i \div 2 < i
         /\ i % 2 \in {0, 1}
         /\ i = 2 * (i \div 2) + (i % 2)
OBVIOUS

LEMMA Doubles ==
  ASSUME NEW n \in Nat, NEW k \in 1..n
  PROVE  /\ 2 * k \in 2..(2 * n + 1)
         /\ 2 * k + 1 \in 2..(2 * n + 1)
         /\ (2 * k) \div 2 = k /\ (2 * k) % 2 = 0
         /\ (2 * k + 1) \div 2 = k /\ (2 * k + 1) % 2 = 1
OBVIOUS

(* Different positions are held by different places, and none of them by a *)
(* field of a thread that is not in the tree.                              *)
LEMMA SpotFacts ==
  ASSUME NEW n \in Nat, NEW a \in Layout(n)
  PROVE  /\ \A i \in 1..(2 * n + 1) : Spot(a, i) \in Places
         /\ \A i, j \in 1..(2 * n + 1) : Spot(a, i) = Spot(a, j) => i = j
         /\ \A i \in 1..(2 * n + 1), t \in Threads :
              t \notin On(a, n) => Spot(a, i) # Left(t) /\ Spot(a, i) # Right(t)
         /\ \A k \in 1..n : /\ Spot(a, 2 * k) = Left(a[k])
                            /\ Spot(a, 2 * k + 1) = Right(a[k])
<1>1. ASSUME NEW i \in 2..(2 * n + 1)
      PROVE  /\ a[i \div 2] \in Threads
             /\ i \div 2 \in 1..n
             /\ i % 2 \in {0, 1}
             /\ Spot(a, i) = IF i % 2 = 1 THEN Right(a[i \div 2]) ELSE Left(a[i \div 2])
  <2>1. i \div 2 \in 1..n /\ i % 2 \in {0, 1} /\ i # 1
    BY Halves
  <2>2. a[i \div 2] \in Threads
    BY <2>1 DEF Layout
  <2> QED BY <2>1, <2>2 DEF Spot, Child
<1>2. Spot(a, 1) = Root
  BY DEF Spot
<1>3. \A i \in 1..(2 * n + 1) : i = 1 \/ i \in 2..(2 * n + 1)
  OBVIOUS
<1>4. ASSUME NEW i \in 1..(2 * n + 1)
      PROVE  Spot(a, i) \in Places
  BY <1>1, <1>2, <1>3, PlaceFacts, ZenonT(60)
<1>5. ASSUME NEW i \in 1..(2 * n + 1), NEW j \in 1..(2 * n + 1), Spot(a, i) = Spot(a, j)
      PROVE  i = j
  <2>1. CASE i = 1
    BY <1>1, <1>2, <1>3, <1>5, <2>1, PlaceFacts, ZenonT(60)
  <2>2. CASE j = 1
    BY <1>1, <1>2, <1>3, <1>5, <2>2, PlaceFacts, ZenonT(60)
  <2>3. CASE i # 1 /\ j # 1
    <3>1. i \in 2..(2 * n + 1) /\ j \in 2..(2 * n + 1)
      BY <1>3, <2>3
    <3>2. a[i \div 2] = a[j \div 2] /\ (i % 2 = 1 <=> j % 2 = 1)
      <4> DEFINE t == a[i \div 2]
                 u == a[j \div 2]
      <4>1. /\ t \in Threads /\ u \in Threads
            /\ Spot(a, i) = IF i % 2 = 1 THEN Right(t) ELSE Left(t)
            /\ Spot(a, j) = IF j % 2 = 1 THEN Right(u) ELSE Left(u)
        BY <1>1, <3>1, Zenon
      <4> HIDE DEF t, u
      <4>2. t = u /\ (i % 2 = 1 <=> j % 2 = 1)
        BY <4>1, <1>5, PlaceFacts, ZenonT(60)
      <4> QED BY <4>2 DEF t, u
    <3>3. i \div 2 = j \div 2
      BY <1>1, <3>1, <3>2, Zenon DEF Layout
    <3>4. i % 2 = j % 2
      BY <1>1, <3>1, <3>2
    <3> QED BY <3>1, <3>3, <3>4, Halves
  <2> QED BY <2>1, <2>2, <2>3
<1>6. ASSUME NEW i \in 1..(2 * n + 1), NEW t \in Threads, t \notin On(a, n)
      PROVE  Spot(a, i) # Left(t) /\ Spot(a, i) # Right(t)
  <2>1. CASE i = 1
    BY <1>2, <2>1, PlaceFacts, Zenon
  <2>2. CASE i # 1
    <3>1. i \in 2..(2 * n + 1)
      BY <1>3, <2>2
    <3>2. a[i \div 2] # t
      BY <1>1, <1>6, <3>1, Zenon DEF On
    <3> QED BY <1>1, <3>1, <3>2, PlaceFacts, ZenonT(60)
  <2> QED BY <2>1, <2>2
<1>7. ASSUME NEW k \in 1..n
      PROVE  Spot(a, 2 * k) = Left(a[k]) /\ Spot(a, 2 * k + 1) = Right(a[k])
  <2>1. /\ 2 * k \in 2..(2 * n + 1)
        /\ 2 * k + 1 \in 2..(2 * n + 1)
        /\ (2 * k) \div 2 = k /\ (2 * k) % 2 # 1
        /\ (2 * k + 1) \div 2 = k /\ (2 * k + 1) % 2 = 1
    BY Doubles
  <2>2. Spot(a, 2 * k) = Left(a[(2 * k) \div 2])
    BY <1>1, <2>1, Zenon
  <2>3. Spot(a, 2 * k + 1) = Right(a[(2 * k + 1) \div 2])
    BY <1>1, <2>1, Zenon
  <2> QED BY <2>1, <2>2, <2>3, Zenon
<1> QED BY <1>4, <1>5, <1>6, <1>7

(* The same, one fact at a time. *)
LEMMA SpotPlace ==
  ASSUME NEW n \in Nat, NEW a \in Layout(n), NEW i \in 1..(2 * n + 1)
  PROVE  Spot(a, i) \in Places
BY SpotFacts, Zenon

LEMMA SpotOnce ==
  ASSUME NEW n \in Nat, NEW a \in Layout(n),
         NEW i \in 1..(2 * n + 1), NEW j \in 1..(2 * n + 1), i # j
  PROVE  Spot(a, i) # Spot(a, j)
BY SpotFacts, Zenon

LEMMA SpotOutside ==
  ASSUME NEW n \in Nat, NEW a \in Layout(n), NEW i \in 1..(2 * n + 1),
         NEW t \in Threads, t \notin On(a, n)
  PROVE  Spot(a, i) # Left(t) /\ Spot(a, i) # Right(t)
BY SpotFacts, Zenon

LEMMA SpotBelow ==
  ASSUME NEW n \in Nat, NEW a \in Layout(n), NEW k \in 1..n
  PROVE  Spot(a, 2 * k) = Left(a[k]) /\ Spot(a, 2 * k + 1) = Right(a[k])
BY SpotFacts, Zenon

(* What the pointers of a laid tree lead to. *)
LEMMA Reading ==
  ASSUME NEW n \in Nat, NEW a \in Layout(n), NEW ptr, NEW index,
         Laid(ptr, index, a, n), NEW k \in 1..n
  PROVE  /\ a[k] \in Threads
         /\ a[k] # None
         /\ a[k] \in On(a, n)
         /\ ptr[Spot(a, k)] = a[k]
         /\ ptr[Left(a[k])] = Slot(a, n, 2 * k)
         /\ ptr[Right(a[k])] = Slot(a, n, 2 * k + 1)
         /\ index[a[k]] = k
<1>1. k \in 1..(2 * n + 1) /\ k <= n
  OBVIOUS
<1>2. 2 * k \in 1..(2 * n + 1) /\ 2 * k + 1 \in 1..(2 * n + 1)
  OBVIOUS
<1>3. a[k] \in Threads
  BY DEF Layout
<1>4. a[k] # None
  BY <1>3, HeapAssumption
<1>5. a[k] \in On(a, n) /\ index[a[k]] = k
  BY DEF On, Laid
<1>6. ptr[Spot(a, k)] = a[k]
  BY <1>1, Zenon DEF Laid, Slot
<1>7. Spot(a, 2 * k) = Left(a[k]) /\ Spot(a, 2 * k + 1) = Right(a[k])
  BY SpotBelow
<1>8. /\ ptr[Spot(a, 2 * k)] = Slot(a, n, 2 * k)
      /\ ptr[Spot(a, 2 * k + 1)] = Slot(a, n, 2 * k + 1)
  BY <1>2, Zenon DEF Laid
<1> QED BY <1>3, <1>4, <1>5, <1>6, <1>7, <1>8, Zenon

(* The positions below position k are 2k and 2k + 1. *)
LEMMA Below ==
  ASSUME NEW n \in Nat, NEW k \in 1..n, NEW i \in 1..(2 * n + 1)
  PROVE  /\ i # 1 /\ i # 2 * k /\ i # 2 * k + 1 => i \div 2 # k /\ i \div 2 \in 1..n
         /\ k # 1 => k \div 2 # k /\ k \div 2 \in 1..n
         /\ k # 2 * k /\ k # 2 * k + 1
OBVIOUS

(* The threads of an array. *)
LEMMA OnFacts ==
  ASSUME NEW n \in Nat, NEW a \in Layout(n)
  PROVE  /\ \A u : u \in On(a, n) <=> \E i \in 1..n : u = a[i]
         /\ \A i \in 1..n : a[i] \in On(a, n) /\ a[i] \in Threads
         /\ \A i, j \in 1..n : a[i] = a[j] => i = j
         /\ On(a, n) \subseteq Threads
BY DEF On, Layout

Put(a, k, c) == [a EXCEPT ![k] = c]

Appended(a, n, c) == [i \in 1..(n + 1) |-> IF i <= n THEN a[i] ELSE c]

(* A thread from outside takes a position of the array. *)
LEMMA LayoutPut ==
  ASSUME NEW n \in Nat, NEW a \in Layout(n), NEW k \in 1..n,
         NEW c \in Threads, c \notin On(a, n)
  PROVE  LET b == Put(a, k, c) IN
         /\ b \in Layout(n)
         /\ On(b, n) = (On(a, n) \ {a[k]}) \cup {c}
         /\ a[k] \notin On(b, n)
         /\ b[k] = c
         /\ \A j \in 1..n : j # k => b[j] = a[j]
         /\ \A i \in 1..(2 * n + 1) :
              /\ i # 2 * k /\ i # 2 * k + 1 => Spot(b, i) = Spot(a, i)
              /\ i # k => Slot(b, n, i) = Slot(a, n, i)
         /\ Spot(b, 2 * k) = Left(c) /\ Spot(b, 2 * k + 1) = Right(c)
<1> DEFINE b == Put(a, k, c)
<1>1. /\ a \in [1..n -> Threads]
      /\ \A i, j \in 1..n : a[i] = a[j] => i = j
      /\ \A i \in 1..n : a[i] # c
  BY DEF Layout, On
<1>2. /\ b \in [1..n -> Threads]
      /\ b[k] = c
      /\ \A j \in 1..n : j # k => b[j] = a[j]
  BY <1>1 DEF Put
<1> HIDE DEF b
<1>3. b \in Layout(n)
  <2>1. \A i, j \in 1..n : b[i] = b[j] => i = j
    BY <1>1, <1>2
  <2> QED BY <1>2, <2>1 DEF Layout
<1>4. On(b, n) = (On(a, n) \ {a[k]}) \cup {c} /\ a[k] \notin On(b, n)
  <2>1. \A u : u \in On(b, n) => u = c \/ (u \in On(a, n) /\ u # a[k])
    BY <1>1, <1>2 DEF On
  <2>2. \A u : u \in On(a, n) /\ u # a[k] => u \in On(b, n)
    BY <1>1, <1>2 DEF On
  <2>3. c \in On(b, n) /\ a[k] # c
    BY <1>1, <1>2 DEF On
  <2> QED BY <2>1, <2>2, <2>3, Zenon
<1>5. ASSUME NEW i \in 1..(2 * n + 1), i # 2 * k, i # 2 * k + 1
      PROVE  Spot(b, i) = Spot(a, i)
  <2>1. i # 1 => i \div 2 # k /\ i \div 2 \in 1..n
    BY <1>5, Below
  <2> QED BY <1>2, <2>1, Zenon DEF Spot
<1>6. ASSUME NEW i \in 1..(2 * n + 1), i # k
      PROVE  Slot(b, n, i) = Slot(a, n, i)
  <2>1. i <= n => i \in 1..n
    OBVIOUS
  <2> QED BY <1>2, <1>6, <2>1, Zenon DEF Slot
<1>7. Spot(b, 2 * k) = Left(c) /\ Spot(b, 2 * k + 1) = Right(c)
  BY <1>2, <1>3, SpotBelow, Zenon
<1> QED BY <1>2, <1>3, <1>4, <1>5, <1>6, <1>7, Zenon DEF b

(* A thread from outside takes the next position. *)
LEMMA LayoutAppend ==
  ASSUME NEW n \in Nat, NEW a \in Layout(n), NEW c \in Threads, c \notin On(a, n)
  PROVE  LET b == Appended(a, n, c) IN
         /\ b \in Layout(n + 1)
         /\ On(b, n + 1) = On(a, n) \cup {c}
         /\ b[n + 1] = c
         /\ \A j \in 1..n : b[j] = a[j]
         /\ \A i \in 1..(2 * n + 1) :
              /\ Spot(b, i) = Spot(a, i)
              /\ i # n + 1 => Slot(b, n + 1, i) = Slot(a, n, i)
         /\ Spot(b, 2 * n + 2) = Left(c) /\ Spot(b, 2 * n + 3) = Right(c)
<1> DEFINE b == Appended(a, n, c)
<1>1. /\ a \in [1..n -> Threads]
      /\ \A i, j \in 1..n : a[i] = a[j] => i = j
      /\ \A i \in 1..n : a[i] # c
  BY DEF Layout, On
<1>2. /\ b \in [1..(n + 1) -> Threads]
      /\ b[n + 1] = c
      /\ \A j \in 1..n : b[j] = a[j]
  BY <1>1 DEF Appended
<1> HIDE DEF b
<1>3. b \in Layout(n + 1)
  <2>1. \A i, j \in 1..(n + 1) : b[i] = b[j] => i = j
    <3>1. \A i \in 1..(n + 1) : i = n + 1 \/ i \in 1..n
      OBVIOUS
    <3> QED BY <1>1, <1>2, <3>1, Zenon
  <2> QED BY <1>2, <2>1 DEF Layout
<1>4. On(b, n + 1) = On(a, n) \cup {c}
  <2>0. /\ \A i \in 1..(n + 1) : i = n + 1 \/ i \in 1..n
        /\ \A i \in 1..n : i \in 1..(n + 1)
        /\ n + 1 \in 1..(n + 1)
    OBVIOUS
  <2>1. \A u : u \in On(b, n + 1) => u = c \/ u \in On(a, n)
    BY <1>2, <2>0 DEF On
  <2>2. \A u : u \in On(a, n) => u \in On(b, n + 1)
    BY <1>2, <2>0 DEF On
  <2>3. c \in On(b, n + 1)
    BY <1>2, <2>0 DEF On
  <2> QED BY <2>1, <2>2, <2>3, Zenon
<1>5. ASSUME NEW i \in 1..(2 * n + 1)
      PROVE  Spot(b, i) = Spot(a, i)
  <2>1. i # 1 => i \div 2 \in 1..n
    OBVIOUS
  <2> QED BY <1>2, <2>1, Zenon DEF Spot
<1>6. ASSUME NEW i \in 1..(2 * n + 1), i # n + 1
      PROVE  Slot(b, n + 1, i) = Slot(a, n, i)
  <2>1. (i <= n => i \in 1..n) /\ (i <= n + 1 <=> i <= n)
    BY <1>6
  <2> QED BY <1>2, <2>1, Zenon DEF Slot
<1>7. Spot(b, 2 * n + 2) = Left(c) /\ Spot(b, 2 * n + 3) = Right(c)
  <2>1. /\ n + 1 \in Nat /\ n + 1 \in 1..(n + 1)
        /\ 2 * (n + 1) = 2 * n + 2 /\ 2 * (n + 1) + 1 = 2 * n + 3
    OBVIOUS
  <2>2. Spot(b, 2 * (n + 1)) = Left(b[n + 1]) /\ Spot(b, 2 * (n + 1) + 1) = Right(b[n + 1])
    BY <1>3, <2>1, SpotBelow, Zenon
  <2> QED BY <1>2, <2>1, <2>2, Zenon
<1> QED BY <1>2, <1>3, <1>4, <1>5, <1>6, <1>7, Zenon DEF b

(* What is written when a thread from outside takes over the position of   *)
(* another and its children: the loop of heap_insert, and heap_delete      *)
(* after the insertion.                                                    *)
PutWritten(q, x, ptr, index, a, k, c) ==
  /\ q[Spot(a, k)] = c
  /\ q[Left(c)] = ptr[Left(a[k])] /\ q[Right(c)] = ptr[Right(a[k])]
  /\ \A p \in Places : p \notin {Spot(a, k), Left(c), Right(c)} => q[p] = ptr[p]
  /\ x[c] = k
  /\ \A t \in Threads : t # c => x[t] = index[t]

LEMMA PutOver ==
  ASSUME NEW n \in Nat, NEW a \in Layout(n), NEW ptr, NEW index,
         Laid(ptr, index, a, n), NEW k \in 1..n,
         NEW c \in Threads, c \notin On(a, n),
         NEW q \in PtrType, NEW x \in IndexType, PutWritten(q, x, ptr, index, a, k, c)
  PROVE  Laid(q, x, Put(a, k, c), n)
<1> USE DEF PutWritten
<1> DEFINE b == Put(a, k, c)
<1>1. /\ b \in Layout(n)
      /\ b[k] = c
      /\ \A j \in 1..n : j # k => b[j] = a[j]
      /\ \A i \in 1..(2 * n + 1) :
           /\ i # 2 * k /\ i # 2 * k + 1 => Spot(b, i) = Spot(a, i)
           /\ i # k => Slot(b, n, i) = Slot(a, n, i)
      /\ Spot(b, 2 * k) = Left(c) /\ Spot(b, 2 * k + 1) = Right(c)
  BY LayoutPut
<1> HIDE DEF b
<1>2. ASSUME NEW i \in 1..(2 * n + 1)
      PROVE  q[Spot(b, i)] = Slot(b, n, i)
  <2>1. k \in 1..(2 * n + 1) /\ k <= n /\ k # 2 * k /\ k # 2 * k + 1
    OBVIOUS
  <2>2. CASE i = k
    <3>1. Spot(b, i) = Spot(a, k)
      BY <1>1, <2>1, <2>2, Zenon
    <3>2. Slot(b, n, i) = c
      BY <1>1, <2>1, <2>2, Zenon DEF Slot
    <3> QED BY <3>1, <3>2, Zenon
  <2>3. CASE i = 2 * k
    <3>1. ptr[Left(a[k])] = Slot(a, n, i)
      BY <2>3, Reading
    <3>2. Slot(b, n, i) = Slot(a, n, i)
      BY <1>1, <2>1, <2>3, Zenon
    <3> QED BY <1>1, <2>3, <3>1, <3>2, Zenon
  <2>4. CASE i = 2 * k + 1
    <3>1. ptr[Right(a[k])] = Slot(a, n, i)
      BY <2>4, Reading
    <3>2. Slot(b, n, i) = Slot(a, n, i)
      BY <1>1, <2>1, <2>4, Zenon
    <3> QED BY <1>1, <2>4, <3>1, <3>2, Zenon
  <2>5. CASE i # k /\ i # 2 * k /\ i # 2 * k + 1
    <3>1. Spot(b, i) = Spot(a, i) /\ Slot(b, n, i) = Slot(a, n, i)
      BY <1>1, <2>5, Zenon
    <3>2. Spot(a, i) \in Places /\ Spot(a, i) # Spot(a, k)
      BY <2>1, <2>5, SpotPlace, SpotOnce, Zenon
    <3>3. Spot(a, i) # Left(c) /\ Spot(a, i) # Right(c)
      BY SpotOutside, Zenon
    <3>4. ptr[Spot(a, i)] = Slot(a, n, i)
      BY Zenon DEF Laid
    <3> QED BY <3>1, <3>2, <3>3, <3>4, Zenon
  <2> QED BY <2>2, <2>3, <2>4, <2>5
<1>3. ASSUME NEW i \in 1..n
      PROVE  x[b[i]] = i
  <2>1. CASE i = k
    BY <1>1, <2>1, Zenon
  <2>2. CASE i # k
    <3>1. b[i] = a[i] /\ a[i] \in Threads
      BY <1>1, <2>2, OnFacts, Zenon
    <3>2. a[i] # c
      BY OnFacts, Zenon
    <3>3. index[a[i]] = i
      BY Zenon DEF Laid
    <3> QED BY <3>1, <3>2, <3>3, Zenon
  <2> QED BY <2>1, <2>2
<1> QED BY <1>2, <1>3, Zenon DEF Laid, b

(* A thread from outside is put at the end: heap_insert for                *)
(* _st_add_sleep_q.                                                        *)
LEMMA PutLast ==
  ASSUME NEW n \in Nat, NEW a \in Layout(n), NEW ptr, NEW index,
         Laid(ptr, index, a, n),
         NEW c \in Threads, c \notin On(a, n),
         NEW q \in PtrType, NEW x \in IndexType,
         q[Spot(a, n + 1)] = c, q[Left(c)] = None, q[Right(c)] = None,
         \A p \in Places : p \notin {Spot(a, n + 1), Left(c), Right(c)} => q[p] = ptr[p],
         x[c] = n + 1, \A t \in Threads : t # c => x[t] = index[t]
  PROVE  Laid(q, x, Appended(a, n, c), n + 1)
<1> DEFINE b == Appended(a, n, c)
<1>1. /\ b \in Layout(n + 1)
      /\ b[n + 1] = c
      /\ \A j \in 1..n : b[j] = a[j]
      /\ \A i \in 1..(2 * n + 1) :
           /\ Spot(b, i) = Spot(a, i)
           /\ i # n + 1 => Slot(b, n + 1, i) = Slot(a, n, i)
      /\ Spot(b, 2 * n + 2) = Left(c) /\ Spot(b, 2 * n + 3) = Right(c)
  BY LayoutAppend
<1> HIDE DEF b
<1>2. ASSUME NEW i \in 1..(2 * (n + 1) + 1)
      PROVE  q[Spot(b, i)] = Slot(b, n + 1, i)
  <2>1. n + 1 \in 1..(2 * n + 1) /\ n + 1 <= n + 1
    OBVIOUS
  <2>2. CASE i = n + 1
    <3>1. Spot(b, i) = Spot(a, n + 1)
      BY <1>1, <2>1, <2>2, Zenon
    <3>2. Slot(b, n + 1, i) = c
      BY <1>1, <2>1, <2>2, Zenon DEF Slot
    <3> QED BY <3>1, <3>2, Zenon
  <2>3. CASE i = 2 * n + 2
    <3>1. ~(i <= n + 1)
      BY <2>3
    <3> QED BY <1>1, <2>3, <3>1, Zenon DEF Slot
  <2>4. CASE i = 2 * n + 3
    <3>1. ~(i <= n + 1)
      BY <2>4
    <3> QED BY <1>1, <2>4, <3>1, Zenon DEF Slot
  <2>5. CASE i # n + 1 /\ i \in 1..(2 * n + 1)
    <3>1. Spot(b, i) = Spot(a, i) /\ Slot(b, n + 1, i) = Slot(a, n, i)
      BY <1>1, <2>5, Zenon
    <3>2. Spot(a, i) \in Places /\ Spot(a, i) # Spot(a, n + 1)
      BY <2>1, <2>5, SpotPlace, SpotOnce, ZenonT(60)
    <3>3. Spot(a, i) # Left(c) /\ Spot(a, i) # Right(c)
      BY <2>5, SpotOutside, ZenonT(60)
    <3>4. ptr[Spot(a, i)] = Slot(a, n, i)
      BY <2>5, Zenon DEF Laid
    <3> QED BY <3>1, <3>2, <3>3, <3>4, Zenon
  <2>6. i = n + 1 \/ i = 2 * n + 2 \/ i = 2 * n + 3 \/ (i # n + 1 /\ i \in 1..(2 * n + 1))
    OBVIOUS
  <2> QED BY <2>2, <2>3, <2>4, <2>5, <2>6, Zenon
<1>3. ASSUME NEW i \in 1..(n + 1)
      PROVE  x[b[i]] = i
  <2>1. CASE i = n + 1
    BY <1>1, <2>1, Zenon
  <2>2. CASE i \in 1..n
    <3>1. b[i] = a[i] /\ a[i] \in Threads
      BY <1>1, <2>2, OnFacts, Zenon
    <3>2. a[i] # c
      BY <2>2, OnFacts, Zenon
    <3>3. index[a[i]] = i
      BY <2>2, Zenon DEF Laid
    <3> QED BY <3>1, <3>2, <3>3, Zenon
  <2>3. i = n + 1 \/ i \in 1..n
    OBVIOUS
  <2> QED BY <2>1, <2>2, <2>3, Zenon
<1> QED BY <1>2, <1>3, Zenon DEF Laid, b

Shortened(a, n) == [i \in 1..n |-> a[i]]

Unlinked(q, x, ptr, index, a, n) ==
  /\ q \in PtrType /\ x \in IndexType
  /\ q[Spot(a, n + 1)] = None
  /\ \A p \in Places : p # Spot(a, n + 1) => q[p] = ptr[p]
  /\ \A t \in Threads : t # a[n + 1] => x[t] = index[t]

(* The last element is unlinked: heap_delete. *)
LEMMA TakeLast ==
  ASSUME NEW n \in Nat, NEW a \in Layout(n + 1), NEW ptr, NEW index,
         Laid(ptr, index, a, n + 1),
         NEW q, NEW x, Unlinked(q, x, ptr, index, a, n)
  PROVE  LET b == Shortened(a, n) IN
         /\ b \in Layout(n)
         /\ Laid(q, x, b, n)
         /\ On(b, n) = On(a, n + 1) \ {a[n + 1]}
         /\ \A j \in 1..n : b[j] = a[j]
<1> USE DEF Unlinked
<1> DEFINE b == Shortened(a, n)
<1>0. n + 1 \in Nat /\ n + 1 \in 1..(n + 1) /\ n + 1 \in 1..(2 * (n + 1) + 1)
  OBVIOUS
<1>1. /\ a \in [1..(n + 1) -> Threads]
      /\ \A i, j \in 1..(n + 1) : a[i] = a[j] => i = j
      /\ \A i \in 1..n : i \in 1..(n + 1) /\ i # n + 1
      /\ \A i \in 1..(n + 1) : i = n + 1 \/ i \in 1..n
  BY DEF Layout
<1>2. /\ b \in [1..n -> Threads]
      /\ \A j \in 1..n : b[j] = a[j]
  BY <1>1 DEF Shortened
<1> HIDE DEF b
<1>3. b \in Layout(n)
  <2>1. \A i, j \in 1..n : b[i] = b[j] => i = j
    BY <1>1, <1>2
  <2> QED BY <1>2, <2>1 DEF Layout
<1>4. On(b, n) = On(a, n + 1) \ {a[n + 1]}
  <2>1. \A u : u \in On(b, n) => u \in On(a, n + 1) /\ u # a[n + 1]
    BY <1>0, <1>1, <1>2 DEF On
  <2>2. \A u : u \in On(a, n + 1) /\ u # a[n + 1] => u \in On(b, n)
    BY <1>0, <1>1, <1>2 DEF On
  <2> QED BY <2>1, <2>2, Zenon
<1>5. ASSUME NEW i \in 1..(2 * n + 1)
      PROVE  q[Spot(b, i)] = Slot(b, n, i)
  <2>1. /\ i \in 1..(2 * (n + 1) + 1)
        /\ i # 1 => i \div 2 \in 1..n
        /\ i <= n => i \in 1..n
        /\ i <= n <=> i <= n + 1 /\ i # n + 1
    OBVIOUS
  <2>2. Spot(b, i) = Spot(a, i)
    BY <1>2, <2>1, Zenon DEF Spot
  <2>3. ptr[Spot(a, i)] = Slot(a, n + 1, i)
    BY <2>1, Zenon DEF Laid
  <2>4. CASE i = n + 1
    BY <2>1, <2>2, <2>4, Zenon DEF Slot
  <2>5. CASE i # n + 1
    <3>1. Spot(a, i) \in Places /\ Spot(a, i) # Spot(a, n + 1)
      BY <1>0, <2>1, <2>5, SpotPlace, SpotOnce
    <3>2. Slot(b, n, i) = Slot(a, n + 1, i)
      BY <1>2, <2>1, <2>5, Zenon DEF Slot
    <3> QED BY <2>2, <2>3, <3>1, <3>2, Zenon
  <2> QED BY <2>4, <2>5
<1>6. ASSUME NEW i \in 1..n
      PROVE  x[b[i]] = i
  <2>1. a[i] \in Threads /\ a[i] # a[n + 1] /\ b[i] = a[i]
    BY <1>0, <1>1, <1>2
  <2>2. index[a[i]] = i
    BY <1>1, Zenon DEF Laid
  <2> QED BY <2>1, <2>2, Zenon
<1>7. Laid(q, x, b, n)
  BY <1>5, <1>6, Zenon DEF Laid
<1> QED BY <1>2, <1>3, <1>4, <1>7, Zenon DEF b

Swapped(a, k, j) == [a EXCEPT ![k] = a[j], ![j] = a[k]]

(* A thread and a child of it change positions in the array. *)
LEMMA LayoutSwap ==
  ASSUME NEW n \in Nat, NEW a \in Layout(n), NEW k \in 1..n, NEW j \in 1..n,
         j = 2 * k \/ j = 2 * k + 1
  PROVE  LET b == Swapped(a, k, j) IN
         /\ b \in Layout(n)
         /\ On(b, n) = On(a, n)
         /\ b[k] = a[j] /\ b[j] = a[k]
         /\ \A i \in 1..n : i # k /\ i # j => b[i] = a[i]
         /\ Spot(b, k) = Spot(a, k)
         /\ \A i \in 1..(2 * n + 1) :
              /\ i \notin {2 * k, 2 * k + 1, 2 * j, 2 * j + 1} => Spot(b, i) = Spot(a, i)
              /\ i # k /\ i # j => Slot(b, n, i) = Slot(a, n, i)
<1> DEFINE b == Swapped(a, k, j)
<1>1. /\ a \in [1..n -> Threads]
      /\ \A i, m \in 1..n : a[i] = a[m] => i = m
      /\ k # j
  BY DEF Layout
<1>2. /\ b \in [1..n -> Threads]
      /\ b[k] = a[j] /\ b[j] = a[k]
      /\ \A i \in 1..n : i # k /\ i # j => b[i] = a[i]
  BY <1>1 DEF Swapped
<1> HIDE DEF b
<1>3. b \in Layout(n)
  <2>1. \A i, m \in 1..n : b[i] = b[m] => i = m
    BY <1>1, <1>2
  <2> QED BY <1>2, <2>1 DEF Layout
<1>4. On(b, n) = On(a, n)
  <2>1. \A u : u \in On(b, n) => u \in On(a, n)
    BY <1>2 DEF On
  <2>2. \A u : u \in On(a, n) => u \in On(b, n)
    <3>1. \A i \in 1..n : \E m \in 1..n : a[i] = b[m]
      BY <1>2, Zenon
    <3> QED BY <3>1 DEF On
  <2> QED BY <2>1, <2>2, Zenon
<1>5. ASSUME NEW i \in 1..(2 * n + 1), i \notin {2 * k, 2 * k + 1, 2 * j, 2 * j + 1}
      PROVE  Spot(b, i) = Spot(a, i)
  <2>1. i # 1 => i \div 2 # k /\ i \div 2 # j /\ i \div 2 \in 1..n
    BY <1>5, Below
  <2> QED BY <1>2, <2>1, Zenon DEF Spot
<1>6. ASSUME NEW i \in 1..(2 * n + 1), i # k, i # j
      PROVE  Slot(b, n, i) = Slot(a, n, i)
  <2>1. i <= n => i \in 1..n
    OBVIOUS
  <2> QED BY <1>2, <1>6, <2>1, Zenon DEF Slot
<1>7. Spot(b, k) = Spot(a, k)
  <2>1. k \in 1..(2 * n + 1) /\ k \notin {2 * k, 2 * k + 1, 2 * j, 2 * j + 1}
    OBVIOUS
  <2> QED BY <1>5, <2>1, Zenon
<1> QED BY <1>2, <1>3, <1>4, <1>5, <1>6, <1>7, Zenon DEF b

(* What one turn of the last loop of heap_delete writes. *)
SwapWritten(q, x, ptr, index, a, n, k, j) ==
  /\ q[Spot(a, k)] = a[j]
  /\ q[Left(a[j])] = IF j = 2 * k THEN a[k] ELSE Slot(a, n, 2 * k)
  /\ q[Right(a[j])] = IF j = 2 * k THEN Slot(a, n, 2 * k + 1) ELSE a[k]
  /\ q[Left(a[k])] = ptr[Left(a[j])] /\ q[Right(a[k])] = ptr[Right(a[j])]
  /\ \A p \in Places :
       p \notin {Spot(a, k), Left(a[j]), Right(a[j]), Left(a[k]), Right(a[k])}
         => q[p] = ptr[p]
  /\ x[a[k]] = j /\ x[a[j]] = k
  /\ \A t \in Threads : t # a[k] /\ t # a[j] => x[t] = index[t]

LEMMA SwapLaid ==
  ASSUME NEW n \in Nat, NEW a \in Layout(n), NEW ptr, NEW index,
         Laid(ptr, index, a, n), NEW k \in 1..n, NEW j \in 1..n,
         j = 2 * k \/ j = 2 * k + 1,
         NEW q \in PtrType, NEW x \in IndexType, SwapWritten(q, x, ptr, index, a, n, k, j)
  PROVE  Laid(q, x, Swapped(a, k, j), n)
<1> USE DEF SwapWritten
<1> DEFINE b == Swapped(a, k, j)
<1>1. /\ b \in Layout(n)
      /\ b[k] = a[j] /\ b[j] = a[k]
      /\ \A i \in 1..n : i # k /\ i # j => b[i] = a[i]
      /\ Spot(b, k) = Spot(a, k)
      /\ \A i \in 1..(2 * n + 1) :
           /\ i \notin {2 * k, 2 * k + 1, 2 * j, 2 * j + 1} => Spot(b, i) = Spot(a, i)
           /\ i # k /\ i # j => Slot(b, n, i) = Slot(a, n, i)
  BY LayoutSwap
<1> HIDE DEF b
<1>2. /\ Spot(b, 2 * k) = Left(a[j]) /\ Spot(b, 2 * k + 1) = Right(a[j])
      /\ Spot(b, 2 * j) = Left(a[k]) /\ Spot(b, 2 * j + 1) = Right(a[k])
  BY <1>1, SpotBelow
<1>3. /\ Spot(a, 2 * k) = Left(a[k]) /\ Spot(a, 2 * k + 1) = Right(a[k])
      /\ Spot(a, 2 * j) = Left(a[j]) /\ Spot(a, 2 * j + 1) = Right(a[j])
  BY SpotBelow
<1>4. /\ k <= n /\ j <= n /\ k # j
      /\ 2 * j # k /\ 2 * j # j /\ 2 * j + 1 # k /\ 2 * j + 1 # j
      /\ 2 * k # k /\ 2 * k + 1 # k /\ 2 * k # 2 * k + 1
      /\ {k, 2 * k, 2 * k + 1, 2 * j, 2 * j + 1} \subseteq 1..(2 * n + 1)
  OBVIOUS
<1>5. ASSUME NEW i \in 1..(2 * n + 1)
      PROVE  q[Spot(b, i)] = Slot(b, n, i)
  <2>1. CASE i = k
    <3>1. Slot(b, n, i) = a[j]
      BY <1>1, <1>4, <2>1, Zenon DEF Slot
    <3> QED BY <1>1, <2>1, <3>1, Zenon
  <2>2. CASE i = 2 * k
    <3>1. CASE j = 2 * k
      <4>1. Slot(b, n, i) = a[k]
        BY <1>1, <1>4, <2>2, <3>1, Zenon DEF Slot
      <4> QED BY <1>2, <2>2, <3>1, <4>1, Zenon
    <3>2. CASE j # 2 * k
      <4>1. Slot(b, n, i) = Slot(a, n, i)
        BY <1>1, <1>4, <2>2, <3>2, Zenon
      <4> QED BY <1>2, <2>2, <3>2, <4>1, Zenon
    <3> QED BY <3>1, <3>2
  <2>3. CASE i = 2 * k + 1
    <3>1. CASE j = 2 * k
      <4>1. Slot(b, n, i) = Slot(a, n, i)
        BY <1>1, <1>4, <2>3, <3>1, Zenon
      <4> QED BY <1>2, <2>3, <3>1, <4>1, Zenon
    <3>2. CASE j # 2 * k
      <4>0. j = 2 * k + 1
        BY <3>2
      <4>1. Slot(b, n, i) = a[k]
        BY <1>1, <1>4, <2>3, <4>0, Zenon DEF Slot
      <4> QED BY <1>2, <2>3, <3>2, <4>1, Zenon
    <3> QED BY <3>1, <3>2
  <2>4. CASE i = 2 * j
    <3>1. ptr[Left(a[j])] = Slot(a, n, i)
      BY <2>4, Reading
    <3>2. Slot(b, n, i) = Slot(a, n, i)
      BY <1>1, <1>4, <2>4, Zenon
    <3> QED BY <1>2, <2>4, <3>1, <3>2, Zenon
  <2>5. CASE i = 2 * j + 1
    <3>1. ptr[Right(a[j])] = Slot(a, n, i)
      BY <2>5, Reading
    <3>2. Slot(b, n, i) = Slot(a, n, i)
      BY <1>1, <1>4, <2>5, Zenon
    <3> QED BY <1>2, <2>5, <3>1, <3>2, Zenon
  <2>6. CASE i \notin {k, 2 * k, 2 * k + 1, 2 * j, 2 * j + 1}
    <3>1. Spot(b, i) = Spot(a, i)
      BY <1>1, <2>6
    <3>2. Slot(b, n, i) = Slot(a, n, i)
      BY <1>1, <2>6
    <3>3. Spot(a, i) \in Places
      BY SpotPlace, Zenon
    <3>4. \A m \in {k, 2 * k, 2 * k + 1, 2 * j, 2 * j + 1} : Spot(a, i) # Spot(a, m)
      BY <1>4, <2>6, SpotOnce
    <3>5. Spot(a, i) \notin {Spot(a, k), Left(a[j]), Right(a[j]), Left(a[k]), Right(a[k])}
      BY <1>3, <3>4
    <3>6. ptr[Spot(a, i)] = Slot(a, n, i)
      BY Zenon DEF Laid
    <3> QED BY <3>1, <3>2, <3>3, <3>5, <3>6, Zenon
  <2> QED BY <2>1, <2>2, <2>3, <2>4, <2>5, <2>6
<1>6. ASSUME NEW i \in 1..n
      PROVE  x[b[i]] = i
  <2>1. CASE i = k
    BY <1>1, <2>1, Zenon
  <2>2. CASE i = j
    BY <1>1, <2>2, Zenon
  <2>3. CASE i # k /\ i # j
    <3>1. b[i] = a[i] /\ a[i] \in Threads
      BY <1>1, <2>3, OnFacts, Zenon
    <3>2. a[i] # a[k] /\ a[i] # a[j]
      BY <2>3 DEF Layout
    <3>3. index[a[i]] = i
      BY Zenon DEF Laid
    <3> QED BY <3>1, <3>2, <3>3, Zenon
  <2> QED BY <2>1, <2>2, <2>3
<1> QED BY <1>5, <1>6, Zenon DEF Laid, b

-----------------------------------------------------------------------------
HeapType == [ptr : PtrType, index : IndexType, size : Nat]

(* The fields of the heap, and assignments to them. *)
LEMMA HeapFields ==
  ASSUME NEW h \in HeapType
  PROVE  h.ptr \in PtrType /\ h.index \in IndexType /\ h.size \in Nat
BY DEF HeapType

LEMMA HeapRecord ==
  ASSUME NEW q \in PtrType, NEW y \in IndexType, NEW k \in Nat,
         NEW g, g = [ptr |-> q, index |-> y, size |-> k]
  PROVE  g \in HeapType /\ g.ptr = q /\ g.index = y /\ g.size = k
BY DEF HeapType

LEMMA IndexWrite ==
  ASSUME NEW x \in IndexType, NEW t \in Threads, NEW i \in Nat
  PROVE  LET y == [x EXCEPT ![t] = i] IN
         /\ y \in IndexType
         /\ y[t] = i
         /\ \A u \in Threads : u # t => y[u] = x[u]
BY DEF IndexType

(* Where heap_insert is when it has walked to position k of the tree a,    *)
(* on its way in with thread x: the tree is now b.                         *)
WalkAt(s, b, k, a, n, x, d) ==
  /\ s.heap \in HeapType
  /\ Laid(s.heap.ptr, s.heap.index, b, n)
  /\ Ordered(b, d, n)
  /\ s.thread \in Threads
  /\ s.thread \notin On(b, n)
  /\ On(b, n) \cup {s.thread} = On(a, n) \cup {x}
  /\ \A j \in k..n : b[j] = a[j]
  /\ s.p = Spot(b, k)
  /\ s.index = k
  /\ k > 1 => d[b[k \div 2]] <= d[s.thread]

LEMMA WalkStep ==
  ASSUME NEW n \in Nat, NEW a, NEW x, NEW d \in [Threads -> Nat],
         NEW s, NEW b \in Layout(n), NEW k \in 1..n, WalkAt(s, b, k, a, n, x, d),
         NEW turn \in {0, 1}
  PROVE  LET r == InsertStep(s, d, turn) IN
         /\ \E e \in Layout(n) : WalkAt(r, e, 2 * k + turn, a, n, x, d)
         /\ r.heap.size = s.heap.size
<1> DEFINE h == s.heap
           t == h.ptr[s.p]
           c == s.thread
           m == 2 * k + turn
           r == InsertStep(s, d, turn)
<1>1. /\ h \in HeapType /\ h.ptr \in PtrType /\ h.index \in IndexType
      /\ Laid(h.ptr, h.index, b, n)
  BY HeapFields DEF WalkAt, HeapType
<1>2. /\ t = b[k] /\ t \in Threads /\ t \in On(b, n)
      /\ h.ptr[Left(t)] = Slot(b, n, 2 * k)
      /\ h.ptr[Right(t)] = Slot(b, n, 2 * k + 1)
  <2>1. s.p = Spot(b, k)
    BY DEF WalkAt
  <2> HIDE DEF h
  <2> QED BY <1>1, <2>1, Reading
<1>3. /\ c \in Threads /\ c \notin On(b, n)
      /\ On(b, n) \cup {c} = On(a, n) \cup {x}
      /\ \A j \in k..n : b[j] = a[j]
      /\ s.p = Spot(b, k) /\ s.index = k
      /\ k > 1 => d[b[k \div 2]] <= d[c]
      /\ Ordered(b, d, n)
  BY DEF WalkAt
<1>4. /\ m \in 1..(2 * n + 1) /\ m \div 2 = k /\ m % 2 = turn /\ m > 1 /\ m > k
      /\ \A j \in m..n : j \in k..n /\ j # k /\ j \in 1..n
  OBVIOUS
<1>5. CASE ~(d[c] < d[t])
  <2>1. /\ r.heap = h /\ r.thread = c /\ r.p = Child(t, turn) /\ r.index = m
    BY <1>3, <1>5 DEF InsertStep
  <2>2. Spot(b, m) = Child(t, turn)
    BY <1>2, <1>4 DEF Spot
  <2>3. d[b[m \div 2]] <= d[c]
    BY <1>2, <1>3, <1>4, <1>5, SMTT(60)
  <2>4. WalkAt(r, b, m, a, n, x, d)
    <3> HIDE DEF r, h, c, t, m
    <3> QED BY <1>1, <1>3, <1>4, <2>1, <2>2, <2>3, Zenon DEF WalkAt
  <2> HIDE DEF m, r
  <2>5. r.heap.size = s.heap.size /\ \E g \in Layout(n) : WalkAt(r, g, m, a, n, x, d)
    BY <2>1, <2>4
  <2> QED BY <2>5, Zenon DEF r, m
<1>6. CASE d[c] < d[t]
  <2> DEFINE q == [h.ptr EXCEPT ![Left(c)] = h.ptr[Left(t)],
                                ![Right(c)] = h.ptr[Right(t)],
                                ![s.p] = c]
             y == [h.index EXCEPT ![c] = s.index]
             e == Put(b, k, c)
  <2>1. /\ r.heap = [ptr |-> q, index |-> y, size |-> h.size]
        /\ r.thread = t /\ r.p = Child(c, turn) /\ r.index = m
    BY <1>3, <1>6, Zenon DEF InsertStep
  <2>2. k \in 1..(2 * n + 1) /\ k \in Nat /\ 2 * k \in 1..(2 * n + 1) /\ 2 * k + 1 \in 1..(2 * n + 1)
    OBVIOUS
  <2>3. /\ Left(c) \in Places /\ Right(c) \in Places /\ s.p \in Places
        /\ Left(c) # Right(c) /\ Left(c) # s.p /\ Right(c) # s.p
    BY <1>3, <2>2, PlaceFacts, SpotPlace, SpotOutside
  <2>4. \A i \in 1..(2 * n + 1) : Slot(b, n, i) \in Threads \cup {None}
    <3>1. \A i \in 1..(2 * n + 1) : i <= n => i \in 1..n
      OBVIOUS
    <3> QED BY <3>1, OnFacts, Zenon DEF Slot
  <2>5. /\ q \in PtrType
        /\ q[s.p] = c /\ q[Left(c)] = h.ptr[Left(t)] /\ q[Right(c)] = h.ptr[Right(t)]
        /\ \A p \in Places : p \notin {s.p, Left(c), Right(c)} => q[p] = h.ptr[p]
    <3>1. h.ptr[Left(t)] \in Threads \cup {None} /\ h.ptr[Right(t)] \in Threads \cup {None}
      BY <1>2, <2>2, <2>4, Zenon
    <3> HIDE DEF h, c, t
    <3> QED BY <1>1, <1>3, <2>3, <3>1 DEF PtrType
  <2>6. y \in IndexType /\ y[c] = k /\ \A u \in Threads : u # c => y[u] = h.index[u]
    <3> HIDE DEF h, c
    <3> QED BY <1>1, <1>3, <2>2, IndexWrite
  <2> HIDE DEF q, y
  <2>7. /\ r.heap \in HeapType /\ r.heap.ptr = q /\ r.heap.index = y
        /\ r.heap.size = h.size
    <3> HIDE DEF h, r
    <3> QED BY <1>1, <2>1, <2>5, <2>6, HeapFields DEF HeapType
  <2>8. Laid(q, y, e, n)
    <3> HIDE DEF h, c, t, e
    <3>1. Laid(q, y, Put(b, k, c), n)
      <4>1. PutWritten(q, y, h.ptr, h.index, b, k, c)
        BY <1>2, <1>3, <2>5, <2>6, Zenon DEF PutWritten
      <4> QED BY <1>1, <1>3, <2>5, <2>6, <4>1, PutOver, Zenon
    <3> QED BY <3>1 DEF e
  <2>9. /\ e \in Layout(n)
        /\ On(e, n) = (On(b, n) \ {t}) \cup {c}
        /\ t \notin On(e, n)
        /\ e[k] = c
        /\ \A j \in 1..n : j # k => e[j] = b[j]
    <3> HIDE DEF c, t, e
    <3>1. /\ Put(b, k, c) \in Layout(n)
          /\ On(Put(b, k, c), n) = (On(b, n) \ {b[k]}) \cup {c}
          /\ b[k] \notin On(Put(b, k, c), n)
          /\ Put(b, k, c)[k] = c
          /\ \A j \in 1..n : j # k => Put(b, k, c)[j] = b[j]
      BY <1>3, LayoutPut
    <3> QED BY <1>2, <3>1, Zenon DEF e
  <2> HIDE DEF e, r, h, c, t, m
  <2>10. On(e, n) \cup {t} = On(a, n) \cup {x}
    BY <1>2, <1>3, <2>9, ZenonT(60)
  <2>11. Ordered(e, d, n)
    <3> SUFFICES ASSUME NEW i \in 2..n PROVE d[e[i \div 2]] <= d[e[i]]
      BY DEF Ordered
    <3>1. i \div 2 \in 1..n /\ i \in 1..n /\ i # i \div 2 /\ (i \div 2 = k => i # k) /\ i > 1
      OBVIOUS
    <3>2. d[b[i \div 2]] <= d[b[i]]
      BY <1>3 DEF Ordered
    <3>3. /\ d[c] \in Nat /\ d[t] \in Nat
          /\ d[b[i]] \in Nat /\ d[b[i \div 2]] \in Nat
      BY <1>2, <1>3, <3>1, OnFacts
    <3>4. CASE i = k
      BY <1>3, <2>9, <3>1, <3>4
    <3>5. CASE i \div 2 = k
      <4>1. e[i \div 2] = c /\ e[i] = b[i] /\ d[t] <= d[b[i]]
        BY <1>2, <2>9, <3>1, <3>2, <3>5
      <4> QED BY <1>6, <3>3, <4>1
    <3>6. CASE i # k /\ i \div 2 # k
      BY <2>9, <3>1, <3>2, <3>6
    <3> QED BY <3>4, <3>5, <3>6
  <2>12. \A j \in m..n : e[j] = a[j]
    BY <1>3, <1>4, <2>9, Zenon
  <2>13. Spot(e, m) = Child(c, turn)
    BY <1>4, <2>9 DEF Spot
  <2>14. d[e[m \div 2]] <= d[t]
    BY <1>2, <1>3, <1>4, <1>6, <2>9
  <2>15. WalkAt(r, e, m, a, n, x, d)
    BY <1>2, <1>3, <1>4, <2>1, <2>7, <2>8, <2>9, <2>10, <2>11, <2>12, <2>13, <2>14, ZenonT(60) DEF WalkAt
  <2>16. \E g \in Layout(n) : WalkAt(r, g, m, a, n, x, d)
    BY <2>9, <2>15, Zenon
  <2> QED BY <2>7, <2>16, Zenon DEF r, m, h
<1> QED BY <1>5, <1>6

WalkFn(f, s, d, m) ==
  /\ f[1] = s
  /\ \A k \in 2..m : f[k] = InsertStep(f[k \div 2], d, k % 2)
  /\ InsertWalk(s, d, m) = f[m]

(* The loop of heap_insert visits position k after position k \div 2. *)
LEMMA WalkUnfolded ==
  ASSUME NEW s, NEW d, NEW m \in Nat \ {0}
  PROVE  \E f : WalkFn(f, s, d, m)
<1> DEFINE Is(f, i) ==
             f = [k \in 1..i |-> IF k = 1 THEN s ELSE InsertStep(f[k \div 2], d, k % 2)]
           T == {i \in Nat : \E f : Is(f, i)}
<1>1. 0 \in T
  <2>1. Is([k \in 1..0 |-> s], 0)
    OBVIOUS
  <2> QED BY <2>1, Zenon
<1>2. ASSUME NEW i \in T
      PROVE  i + 1 \in T
  <2>1. PICK f : Is(f, i)
    OBVIOUS
  <2> DEFINE g == [k \in 1..(i + 1) |->
                     IF k <= i THEN f[k]
                     ELSE IF k = 1 THEN s ELSE InsertStep(f[k \div 2], d, k % 2)]
  <2>2. ASSUME NEW k \in 1..(i + 1)
        PROVE  g[k] = IF k = 1 THEN s ELSE InsertStep(g[k \div 2], d, k % 2)
    <3>1. k # 1 => k \div 2 \in 1..i /\ k \div 2 \in 1..(i + 1) /\ k \div 2 <= i
      OBVIOUS
    <3>2. k # 1 => g[k \div 2] = f[k \div 2]
      BY <3>1, Zenon
    <3>3. CASE k <= i
      <4>1. k \in 1..i
        BY <3>3
      <4>2. f[k] = IF k = 1 THEN s ELSE InsertStep(f[k \div 2], d, k % 2)
        BY <2>1, <4>1, Zenon
      <4>3. g[k] = f[k]
        BY <3>3, Zenon
      <4> QED BY <3>2, <4>2, <4>3, Zenon
    <3>4. CASE ~(k <= i)
      <4>1. g[k] = IF k = 1 THEN s ELSE InsertStep(f[k \div 2], d, k % 2)
        BY <3>4, Zenon
      <4> QED BY <3>2, <4>1, Zenon
    <3> QED BY <3>3, <3>4
  <2>3. Is(g, i + 1)
    BY <2>2, ZenonT(60)
  <2> HIDE DEF Is
  <2> QED BY <2>3
<1>3. m \in T
  <2>1. T \in SUBSET Nat
    OBVIOUS
  <2> HIDE DEF T
  <2> QED BY <1>1, <1>2, <2>1, NatSetInduction
<1>4. \E f : Is(f, m)
  BY <1>3
<1> DEFINE f == CHOOSE g : Is(g, m)
<1>5. Is(f, m)
  BY <1>4, Zenon
<1>6. InsertWalk(s, d, m) = f[m]
  BY DEF InsertWalk
<1> HIDE DEF f
<1>7. f[1] = s
  <2>1. 1 \in 1..m
    OBVIOUS
  <2> QED BY <1>5, <2>1, Zenon
<1>8. \A k \in 2..m : f[k] = InsertStep(f[k \div 2], d, k % 2)
  <2>1. \A k \in 2..m : k \in 1..m /\ k # 1
    OBVIOUS
  <2> QED BY <1>5, <2>1, Zenon
<1> HIDE DEF Is
<1>9. WalkFn(f, s, d, m)
  BY <1>6, <1>7, <1>8 DEF WalkFn
<1> QED BY <1>9

(* The walk of heap_insert to any position of the tree or to the next one. *)
LEMMA WalkDone ==
  ASSUME NEW n \in Nat, NEW a \in Layout(n), NEW d \in [Threads -> Nat], NEW h \in HeapType,
         Laid(h.ptr, h.index, a, n), Ordered(a, d, n),
         NEW x \in Threads, x \notin On(a, n), NEW m \in 1..(n + 1)
  PROVE  LET r == InsertWalk([heap |-> h, thread |-> x, p |-> Root, index |-> 1], d, m) IN
         /\ \E e \in Layout(n) : WalkAt(r, e, m, a, n, x, d)
         /\ r.heap.size = h.size
<1> DEFINE s == [heap |-> h, thread |-> x, p |-> Root, index |-> 1]
<1>1. m \in Nat \ {0}
  OBVIOUS
<1>0. PICK f : WalkFn(f, s, d, m)
  <2> HIDE DEF s
  <2> QED BY <1>1, WalkUnfolded
<1>2. /\ f[1] = s
      /\ \A k \in 2..m : f[k] = InsertStep(f[k \div 2], d, k % 2)
      /\ InsertWalk(s, d, m) = f[m]
  BY <1>0 DEF WalkFn
<1> DEFINE P(k) == /\ \E e \in Layout(n) : WalkAt(f[k], e, k, a, n, x, d)
                   /\ f[k].heap.size = h.size
           T == {k \in 1..m : ~P(k)}
<1>3. P(1)
  <2>1. /\ f[1].heap = h /\ f[1].thread = x /\ f[1].p = Root /\ f[1].index = 1
    BY <1>2
  <2>2. Spot(a, 1) = Root /\ ~(1 > 1)
    BY DEF Spot
  <2>3. WalkAt(f[1], a, 1, a, n, x, d)
    BY <2>1, <2>2, Zenon DEF WalkAt
  <2> QED BY <2>1, <2>3
<1>4. ASSUME NEW k \in 2..m, P(k \div 2)
      PROVE  P(k)
  <2> DEFINE j == k \div 2
             turn == k % 2
  <2>1. j \in 1..n /\ turn \in {0, 1} /\ k = 2 * j + turn
    OBVIOUS
  <2> HIDE DEF j, turn
  <2>2. PICK b \in Layout(n) : WalkAt(f[j], b, j, a, n, x, d)
    BY <1>4 DEF j
  <2>3. f[j].heap.size = h.size
    BY <1>4 DEF j
  <2>4. f[k] = InsertStep(f[j], d, turn)
    BY <1>2 DEF j, turn
  <2>5. /\ \E e \in Layout(n) : WalkAt(f[k], e, 2 * j + turn, a, n, x, d)
        /\ f[k].heap.size = f[j].heap.size
    BY <2>1, <2>2, <2>4, WalkStep
  <2> QED BY <2>1, <2>3, <2>5
<1>5. T = {}
  <2> SUFFICES ASSUME T # {} PROVE FALSE
    OBVIOUS
  <2>1. T \in SUBSET Nat
    OBVIOUS
  <2>2. PICK k \in T : \A i \in T : k <= i
    <3> HIDE DEF T
    <3> QED BY <2>1, SmallestNat
  <2>3. k \in 2..m
    <3>1. k \in 1..m /\ k # 1
      BY <1>3
    <3> QED BY <3>1
  <2>4. k \div 2 \in 1..m /\ k \div 2 < k
    BY <2>3
  <2>5. P(k \div 2)
    <3>1. k \div 2 \notin T
      <4> HIDE DEF T
      <4> QED BY <2>1, <2>2, <2>4
    <3> QED BY <2>4, <3>1
  <2> HIDE DEF P
  <2>6. P(k)
    BY <1>4, <2>3, <2>5
  <2> QED BY <2>6
<1>6. P(m)
  <2>1. m \in 1..m
    OBVIOUS
  <2> HIDE DEF P
  <2> QED BY <1>5, <2>1
<1> QED BY <1>2, <1>6

(* The walk to the last element in heap_delete. *)
LEMMA PlaceFound ==
  ASSUME NEW n \in Nat, NEW a \in Layout(n), NEW h,
         Laid(h.ptr, h.index, a, n), NEW m \in 1..(2 * n + 1)
  PROVE  PlaceOf(h, m) = Spot(a, m)
<1> DEFINE Is(f) ==
             f = [k \in 1..m |-> IF k = 1 THEN Root ELSE Child(h.ptr[f[k \div 2]], k % 2)]
           g == [k \in 1..m |-> Spot(a, k)]
           f == CHOOSE r : Is(r)
<1>1. ASSUME NEW k \in 2..m
      PROVE  /\ k \div 2 \in 1..n /\ k \div 2 \in 1..m /\ k \div 2 < k /\ k # 1
             /\ h.ptr[Spot(a, k \div 2)] = a[k \div 2]
             /\ Spot(a, k) = Child(a[k \div 2], k % 2)
  <2>1. k \div 2 \in 1..n /\ k \div 2 \in 1..m /\ k \div 2 < k /\ k # 1
    OBVIOUS
  <2>2. h.ptr[Spot(a, k \div 2)] = a[k \div 2]
    <3> DEFINE j == k \div 2
    <3>1. j \in 1..n
      BY <2>1
    <3> HIDE DEF j
    <3>2. h.ptr[Spot(a, j)] = a[j]
      BY <3>1, Reading
    <3> QED BY <3>2 DEF j
  <2> QED BY <2>1, <2>2, Zenon DEF Spot
<1>2. \A k \in 1..m : k = 1 \/ k \in 2..m
  OBVIOUS
<1>3. Spot(a, 1) = Root
  BY DEF Spot
<1>4. Is(g)
  <2>1. ASSUME NEW k \in 1..m
        PROVE  g[k] = IF k = 1 THEN Root ELSE Child(h.ptr[g[k \div 2]], k % 2)
    <3>1. CASE k = 1
      BY <1>3, <3>1
    <3>2. CASE k \in 2..m
      <4>1. g[k \div 2] = Spot(a, k \div 2) /\ g[k] = Spot(a, k) /\ k # 1
        BY <1>1, <3>2, Zenon
      <4> HIDE DEF g
      <4> QED BY <1>1, <3>2, <4>1, Zenon
    <3> QED BY <1>2, <3>1, <3>2
  <2> QED BY <2>1
<1>5. Is(f)
  <2> HIDE DEF Is, g
  <2> QED BY <1>4, Zenon
<1>6. PlaceOf(h, m) = f[m]
  BY DEF PlaceOf
<1> HIDE DEF f, g
<1>7. /\ f[1] = Root
      /\ \A k \in 2..m : f[k] = Child(h.ptr[f[k \div 2]], k % 2)
  <2>1. 1 \in 1..m /\ \A k \in 2..m : k \in 1..m /\ k # 1
    OBVIOUS
  <2> QED BY <1>5, <2>1, Zenon
<1> HIDE DEF Is
<1> DEFINE T == {k \in 1..m : f[k] # Spot(a, k)}
<1>8. T = {}
  <2> SUFFICES ASSUME T # {} PROVE FALSE
    OBVIOUS
  <2>1. T \in SUBSET Nat
    OBVIOUS
  <2>2. PICK k \in T : \A i \in T : k <= i
    <3> HIDE DEF T
    <3> QED BY <2>1, SmallestNat
  <2>3. k \in 2..m
    BY <1>2, <1>3, <1>7
  <2>4. k \div 2 \notin T
    <3> DEFINE j == k \div 2
    <3>1. j < k /\ j \in Nat /\ k \in Nat
      BY <1>1, <2>3
    <3> HIDE DEF T, j
    <3>2. j \notin T
      BY <2>2, <3>1
    <3> QED BY <3>2 DEF j
  <2>5. f[k \div 2] = Spot(a, k \div 2)
    BY <1>1, <2>3, <2>4, Zenon
  <2>6. f[k] = Spot(a, k)
    <3>1. f[k] = Child(h.ptr[f[k \div 2]], k % 2)
      BY <1>7, <2>3, Zenon
    <3>2. h.ptr[f[k \div 2]] = a[k \div 2]
      BY <1>1, <2>3, <2>5, Zenon
    <3> QED BY <1>1, <2>3, <3>1, <3>2, Zenon
  <2> QED BY <2>6
<1>9. f[m] = Spot(a, m)
  <2>1. m \in 1..m
    OBVIOUS
  <2> QED BY <1>8, <2>1
<1> QED BY <1>6, <1>9

-----------------------------------------------------------------------------
(* The heap holds the threads of Q, in the order of the due times d. *)
Good(h, d, Q) ==
  /\ h \in HeapType
  /\ \E a \in Layout(h.size) : /\ Laid(h.ptr, h.index, a, h.size)
                               /\ Ordered(a, d, h.size)
                               /\ On(a, h.size) = Q

(* What heap_insert does after its loop. *)
EndPtr(s) == [s.heap.ptr EXCEPT ![s.p] = s.thread,
                                ![Left(s.thread)] = None,
                                ![Right(s.thread)] = None]

EndIndex(s) == [s.heap.index EXCEPT ![s.thread] = s.index]

Ended(s, b, n, k) ==
  LET q == EndPtr(s)
      y == EndIndex(s)
      c == s.thread
  IN  /\ q \in PtrType /\ y \in IndexType
      /\ c \in Threads /\ c \notin On(b, n)
      /\ Left(c) \in Places /\ Right(c) \in Places /\ s.p \in Places
      /\ Left(c) # Right(c) /\ Left(c) # s.p /\ Right(c) # s.p
      /\ q[s.p] = c /\ q[Left(c)] = None /\ q[Right(c)] = None
      /\ \A p \in Places : p \notin {s.p, Left(c), Right(c)} => q[p] = s.heap.ptr[p]
      /\ y[c] = k
      /\ \A t \in Threads : t # c => y[t] = s.heap.index[t]

(* It overwrites one place and three fields of the thread it carries. *)
LEMMA InsertEnd ==
  ASSUME NEW n \in Nat, NEW a, NEW x, NEW d, NEW k \in 1..(n + 1),
         NEW s, NEW b \in Layout(n), WalkAt(s, b, k, a, n, x, d)
  PROVE  Ended(s, b, n, k)
<1> DEFINE c == s.thread
           ptr == s.heap.ptr
           index == s.heap.index
           p0 == s.p
<1>1. /\ c \in Threads /\ c \notin On(b, n)
      /\ ptr \in PtrType /\ index \in IndexType
      /\ p0 = Spot(b, k) /\ s.index = k
  BY HeapFields DEF WalkAt
<1>2. k \in 1..(2 * n + 1) /\ k \in Nat
  OBVIOUS
<1>3. /\ Left(c) \in Places /\ Right(c) \in Places /\ p0 \in Places
      /\ Left(c) # Right(c) /\ Left(c) # p0 /\ Right(c) # p0
  <2> HIDE DEF c, p0
  <2> QED BY <1>1, <1>2, PlaceFacts, SpotPlace, SpotOutside
<1> HIDE DEF c, ptr, index, p0
<1> DEFINE q == [ptr EXCEPT ![p0] = c, ![Left(c)] = None, ![Right(c)] = None]
           y == [index EXCEPT ![c] = s.index]
<1>4. /\ q \in PtrType
      /\ q[p0] = c /\ q[Left(c)] = None /\ q[Right(c)] = None
      /\ \A p \in Places : p \notin {p0, Left(c), Right(c)} => q[p] = ptr[p]
  BY <1>1, <1>3, Zenon DEF PtrType
<1>5. /\ y \in IndexType
      /\ y[c] = k
      /\ \A t \in Threads : t # c => y[t] = index[t]
  BY <1>1, <1>2, Zenon DEF IndexType
<1> HIDE DEF q, y
<1>6. q = EndPtr(s) /\ y = EndIndex(s)
  BY Zenon DEF q, y, EndPtr, EndIndex, c, ptr, index, p0
<1> QED BY <1>1, <1>3, <1>4, <1>5, <1>6, Zenon DEF Ended, c, ptr, index, p0

(* _st_add_sleep_q: the thread is in the heap, nobody is lost, and the     *)
(* order holds.                                                            *)
LEMMA InsertGood ==
  ASSUME NEW h, NEW d \in [Threads -> Nat], NEW Q, Good(h, d, Q),
         NEW x \in Threads, x \notin Q
  PROVE  LET g == heap_insert([ptr |-> h.ptr,
                               index |-> [h.index EXCEPT ![x] = h.size + 1],
                               size |-> h.size + 1], d, x).heap
         IN  Good(g, d, Q \cup {x}) /\ g.size = h.size + 1
<1> DEFINE n == h.size
           h1 == [ptr |-> h.ptr, index |-> [h.index EXCEPT ![x] = n + 1], size |-> n + 1]
           s0 == [heap |-> h1, thread |-> x, p |-> Root, index |-> 1]
           s == InsertWalk(s0, d, n + 1)
           g == heap_insert(h1, d, x).heap
<1>1. h \in HeapType /\ h.ptr \in PtrType /\ h.index \in IndexType /\ n \in Nat
  BY HeapFields, Zenon DEF Good
<1>2. PICK a \in Layout(n) : /\ Laid(h.ptr, h.index, a, n)
                             /\ Ordered(a, d, n)
                             /\ On(a, n) = Q
  BY Zenon DEF Good
<1>3. /\ h1 \in HeapType /\ h1.ptr = h.ptr /\ h1.size = n + 1
      /\ h1.index = [h.index EXCEPT ![x] = n + 1]
      /\ h1.index[x] = n + 1
      /\ \A t \in Threads : t # x => h1.index[t] = h.index[t]
  BY <1>1 DEF HeapType, IndexType
<1>4. Laid(h1.ptr, h1.index, a, n)
  <2> HIDE DEF n, h1
  <2>1. h1.ptr \in PtrType /\ h1.index \in IndexType
    BY <1>3, HeapFields, Zenon
  <2>2. \A i \in 1..n : a[i] \in Threads /\ a[i] # x
    BY <1>1, <1>2, OnFacts, Zenon
  <2> QED BY <1>2, <1>3, <2>1, <2>2, Zenon DEF Laid
<1>5. g = [ptr |-> EndPtr(s), index |-> EndIndex(s), size |-> s.heap.size]
  <2>1. h1.index[x] = n + 1
    BY <1>3, Zenon
  <2> HIDE DEF h1, n
  <2> QED BY <2>1, Zenon DEF heap_insert, EndPtr, EndIndex
<1> HIDE DEF h1, g
<1>6. /\ \E e \in Layout(n) : WalkAt(s, e, n + 1, a, n, x, d)
      /\ s.heap.size = n + 1
  <2>1. n + 1 \in 1..(n + 1) /\ x \notin On(a, n)
    BY <1>1, <1>2
  <2> HIDE DEF n
  <2> QED BY <1>1, <1>2, <1>3, <1>4, <2>1, WalkDone, SMTT(60)
<1> HIDE DEF s
<1>7. PICK b \in Layout(n) : WalkAt(s, b, n + 1, a, n, x, d)
  BY <1>6, Zenon
<1> DEFINE c == s.thread
           q == EndPtr(s)
           y == EndIndex(s)
           e == Appended(b, n, c)
<1>0. Ended(s, b, n, n + 1)
  <2>1. n + 1 \in 1..(n + 1)
    BY <1>1
  <2> HIDE DEF n
  <2> QED BY <1>1, <1>7, <2>1, InsertEnd, Zenon
<1>8. /\ q \in PtrType /\ y \in IndexType
      /\ c \in Threads /\ c \notin On(b, n)
      /\ q[s.p] = c /\ q[Left(c)] = None /\ q[Right(c)] = None
      /\ \A p \in Places : p \notin {s.p, Left(c), Right(c)} => q[p] = s.heap.ptr[p]
      /\ y[c] = n + 1
      /\ \A t \in Threads : t # c => y[t] = s.heap.index[t]
  BY <1>0, Zenon DEF Ended
<1>9. g = [ptr |-> q, index |-> y, size |-> n + 1]
  BY <1>5, <1>6, Zenon
<1> HIDE DEF q, y
<1>10. g \in HeapType /\ g.ptr = q /\ g.index = y /\ g.size = n + 1
  <2>1. n + 1 \in Nat
    BY <1>1
  <2>2. q \in PtrType /\ y \in IndexType
    BY <1>8, Zenon
  <2> HIDE DEF n
  <2> QED BY <1>9, <2>1, <2>2, HeapRecord
<1>11. /\ s.p = Spot(b, n + 1)
       /\ Laid(s.heap.ptr, s.heap.index, b, n)
       /\ Ordered(b, d, n)
       /\ On(b, n) \cup {c} = On(a, n) \cup {x}
       /\ n + 1 > 1 => d[b[(n + 1) \div 2]] <= d[c]
  BY <1>7, Zenon DEF WalkAt
<1> HIDE DEF n, c, e
<1>12. Laid(q, y, Appended(b, n, c), n + 1)
  <2>1. /\ q[Spot(b, n + 1)] = c
        /\ \A p \in Places : p \notin {Spot(b, n + 1), Left(c), Right(c)} => q[p] = s.heap.ptr[p]
    BY <1>8, <1>11, Zenon
  <2> QED BY <1>1, <1>8, <1>11, <2>1, PutLast
<1>13. /\ e \in Layout(n + 1)
       /\ On(e, n + 1) = On(b, n) \cup {c}
       /\ e[n + 1] = c
       /\ \A j \in 1..n : e[j] = b[j]
  BY <1>1, <1>8, LayoutAppend DEF e
<1>14. Ordered(e, d, n + 1)
  <2> SUFFICES ASSUME NEW i \in 2..(n + 1) PROVE d[e[i \div 2]] <= d[e[i]]
    BY Zenon DEF Ordered
  <2>1. i \div 2 \in 1..n /\ (i \in 2..n \/ i = n + 1) /\ n + 1 > 1 /\ \A j \in 2..n : j \in 1..n
    BY <1>1
  <2>2. CASE i = n + 1
    BY <1>11, <1>13, <2>1, <2>2, Zenon
  <2>3. CASE i \in 2..n
    <3>1. d[b[i \div 2]] <= d[b[i]]
      BY <1>11, <2>3, Zenon DEF Ordered
    <3> QED BY <1>13, <2>1, <2>3, <3>1, Zenon
  <2> QED BY <2>1, <2>2, <2>3, Zenon
<1>15. On(e, n + 1) = Q \cup {x}
  BY <1>2, <1>11, <1>13, Zenon
<1>16. Good(g, d, Q \cup {x})
  <2>1. Laid(g.ptr, g.index, e, g.size) /\ e \in Layout(g.size)
        /\ Ordered(e, d, g.size) /\ On(e, g.size) = Q \cup {x}
    BY <1>10, <1>12, <1>13, <1>14, <1>15, Zenon DEF e
  <2> QED BY <1>10, <2>1, Zenon DEF Good
<1> QED BY <1>10, <1>16, Zenon DEF g, h1, n

-----------------------------------------------------------------------------
(* The order holds but for the thread at position k, which may be later    *)
(* than its children.                                                      *)
OrderedBut(a, d, n, k) ==
  /\ \A i \in 2..n : i \div 2 # k => d[a[i \div 2]] <= d[a[i]]
  /\ k > 1 => \A i \in 2..n : i \div 2 = k => d[a[k \div 2]] <= d[a[i]]

(* Where the last loop of heap_delete is: the thread that sinks is at      *)
(* position k of the tree b.                                               *)
SinkAt(s, b, k, n, Q, d) ==
  /\ s.heap \in HeapType
  /\ s.heap.size = n
  /\ b \in Layout(n)
  /\ Laid(s.heap.ptr, s.heap.index, b, n)
  /\ On(b, n) = Q
  /\ s.p = Spot(b, k)
  /\ OrderedBut(b, d, n, k)

(* The swap of a late thread with its earlier child moves the trouble to   *)
(* the child's position.                                                   *)
LEMMA SwapOrdered ==
  ASSUME NEW n \in Nat, NEW b \in Layout(n), NEW d \in [Threads -> Nat],
         NEW k \in 1..n, NEW j \in 1..n, j = 2 * k \/ j = 2 * k + 1,
         OrderedBut(b, d, n, k), d[b[j]] <= d[b[k]],
         \A i \in 2..n : i \div 2 = k => d[b[j]] <= d[b[i]]
  PROVE  OrderedBut(Swapped(b, k, j), d, n, j)
<1> DEFINE e == Swapped(b, k, j)
<1>1. /\ e[k] = b[j] /\ e[j] = b[k]
      /\ \A i \in 1..n : i # k /\ i # j => e[i] = b[i]
  BY LayoutSwap
<1> HIDE DEF e
<1>2. /\ j \in 2..n /\ j > 1 /\ j \div 2 = k /\ j # k
      /\ k > 1 => k \in 2..n /\ k \div 2 # k /\ k \div 2 # j /\ k \div 2 \in 1..n
  OBVIOUS
<1>3. ASSUME NEW i \in 2..n
      PROVE  /\ i \in 1..n /\ i \div 2 \in 1..n /\ i # i \div 2
             /\ i \div 2 = j => i # k /\ i # j
             /\ i = k => k > 1
  OBVIOUS
<1>4. ASSUME NEW i \in 2..n, i \div 2 # j
      PROVE  d[e[i \div 2]] <= d[e[i]]
  <2>1. CASE i = k
    <3>1. d[b[k \div 2]] <= d[b[j]]
      BY <1>2, <1>3, <2>1, Zenon DEF OrderedBut
    <3> QED BY <1>1, <1>2, <1>3, <2>1, <3>1, Zenon
  <2>2. CASE i = j
    BY <1>1, <1>2, <2>2, Zenon
  <2>3. CASE i # k /\ i # j
    <3>1. CASE i \div 2 = k
      BY <1>1, <1>3, <2>3, <3>1, Zenon
    <3>2. CASE i \div 2 # k
      BY <1>1, <1>3, <1>4, <2>3, <3>2, Zenon DEF OrderedBut
    <3> QED BY <3>1, <3>2, ZenonT(60)
  <2> QED BY <2>1, <2>2, <2>3, Zenon
<1>5. ASSUME NEW i \in 2..n, i \div 2 = j
      PROVE  d[e[j \div 2]] <= d[e[i]]
  <2>1. d[b[j]] <= d[b[i]]
    BY <1>2, <1>5, Zenon DEF OrderedBut
  <2> QED BY <1>1, <1>2, <1>3, <1>5, <2>1, Zenon
<1> QED BY <1>4, <1>5, Zenon DEF OrderedBut, e

LEMMA SinkStepGood ==
  ASSUME NEW n \in Nat, NEW d \in [Threads -> Nat], NEW Q,
         NEW s, NEW b, NEW k \in 1..n, SinkAt(s, b, k, n, Q, d)
  PROVE  \/ SinkStep(s, d) = s /\ Ordered(b, d, n)
         \/ \E j \in 1..n : j > k /\ \E e : SinkAt(SinkStep(s, d), e, j, n, Q, d)
<1> DEFINE h == s.heap
           t == h.ptr[s.p]
           l == h.ptr[Left(t)]
           r == h.ptr[Right(t)]
           y == IF r = None \/ d[l] < d[r] THEN l ELSE r
           toLeft == y = l
           q == [h.ptr EXCEPT ![s.p] = y,
                              ![Left(y)] = IF toLeft THEN t ELSE l,
                              ![Right(y)] = IF toLeft THEN r ELSE t,
                              ![Left(t)] = h.ptr[Left(y)],
                              ![Right(t)] = h.ptr[Right(y)]]
           x == [h.index EXCEPT ![t] = h.index[y], ![y] = h.index[t]]
<1>1. SinkStep(s, d) =
        IF l = None \/ d[t] <= d[y]
        THEN s
        ELSE [heap |-> [ptr |-> q, index |-> x, size |-> h.size],
              p |-> IF toLeft THEN Left(y) ELSE Right(y)]
  BY Zenon DEF SinkStep
<1>2. /\ h \in HeapType /\ h.size = n
      /\ b \in Layout(n)
      /\ Laid(h.ptr, h.index, b, n)
      /\ On(b, n) = Q
      /\ s.p = Spot(b, k)
      /\ OrderedBut(b, d, n, k)
  BY Zenon DEF SinkAt
<1>3. h.ptr \in PtrType /\ h.index \in IndexType
  BY <1>2, HeapFields, Zenon
<1> HIDE DEF h
<1>4. t = b[k] /\ t \in Threads
  BY <1>2, Reading
<1> HIDE DEF t
<1>5. l = Slot(b, n, 2 * k) /\ r = Slot(b, n, 2 * k + 1)
  BY <1>2, <1>4, Reading
<1> HIDE DEF l, r
<1>6. CASE 2 * k > n
  <2>1. l = None
    BY <1>5, <1>6 DEF Slot
  <2>2. \A i \in 2..n : i \div 2 # k
    BY <1>6
  <2>3. Ordered(b, d, n)
    BY <1>2, <2>2, Zenon DEF OrderedBut, Ordered
  <2> HIDE DEF y, q, x
  <2> QED BY <1>1, <2>1, <2>3, ZenonT(60)
<1>7. CASE ~(2 * k > n)
  <2> DEFINE j == IF toLeft THEN 2 * k ELSE 2 * k + 1
  <2>1. 2 * k \in 1..n /\ 2 * k <= n
    BY <1>7
  <2>2. l = b[2 * k] /\ l \in Threads /\ l # None
    BY <1>2, <1>5, <2>1, OnFacts, HeapAssumption DEF Slot
  <2>5. /\ j \in 1..n /\ y = b[j] /\ (j = 2 * k \/ j = 2 * k + 1)
        /\ toLeft <=> j = 2 * k
        /\ \A i \in 2..n : i \div 2 = k => d[y] <= d[b[i]]
    <3>3. CASE 2 * k + 1 > n
      <4>1. r = None
        BY <1>5, <3>3 DEF Slot
      <4>2. y = l /\ j = 2 * k
        BY <4>1, Zenon
      <4>3. \A i \in 2..n : i \div 2 = k => i = 2 * k
        BY <3>3
      <4>4. d[l] \in Nat
        BY <2>2, Zenon
      <4> HIDE DEF y, j
      <4>5. \A i \in 2..n : i \div 2 = k => d[y] <= d[b[i]]
        BY <2>2, <4>2, <4>3, <4>4
      <4>6. /\ j \in 1..n /\ y = b[j] /\ (j = 2 * k \/ j = 2 * k + 1)
            /\ toLeft <=> j = 2 * k
        BY <2>1, <2>2, <4>2, ZenonT(60)
      <4> QED BY <4>5, <4>6, Zenon
    <3>4. CASE ~(2 * k + 1 > n)
      <4>1. 2 * k + 1 \in 1..n /\ 2 * k + 1 <= n
        BY <3>4
      <4>2. r = b[2 * k + 1] /\ r \in Threads /\ r # None
        BY <1>2, <1>5, <4>1, OnFacts, HeapAssumption DEF Slot
      <4>3. l # r
        <5>1. 2 * k # 2 * k + 1
          OBVIOUS
        <5> QED BY <1>2, <2>1, <2>2, <4>1, <4>2, <5>1, Zenon DEF Layout
      <4>4. d[l] \in Nat /\ d[r] \in Nat
        BY <2>2, <4>2, Zenon
      <4>5. /\ j \in 1..n /\ y = b[j] /\ (j = 2 * k \/ j = 2 * k + 1)
            /\ toLeft <=> j = 2 * k
            /\ d[y] <= d[l] /\ d[y] <= d[r]
        <5>0. d[l] <= d[l] /\ d[r] <= d[r] /\ (d[l] < d[r] => d[l] <= d[r])
              /\ (~(d[l] < d[r]) => d[r] <= d[l]) /\ 2 * k + 1 # 2 * k
          <6> HIDE DEF y, j
          <6> QED BY <4>4
        <5>1. CASE d[l] < d[r]
          <6>1. y = l /\ j = 2 * k
            BY <5>1, Zenon
          <6> HIDE DEF y, j
          <6> QED BY <2>1, <2>2, <5>0, <5>1, <6>1, Zenon
        <5>2. CASE ~(d[l] < d[r])
          <6>1. y = r /\ j = 2 * k + 1
            BY <4>2, <4>3, <5>2, Zenon
          <6> HIDE DEF y, j
          <6> QED BY <4>1, <4>2, <4>3, <5>0, <5>2, <6>1, Zenon
        <5> QED BY <5>1, <5>2, Zenon
      <4>6. \A i \in 2..n : i \div 2 = k => i = 2 * k \/ i = 2 * k + 1
        OBVIOUS
      <4> HIDE DEF y, j
      <4>7. \A i \in 2..n : i \div 2 = k => d[y] <= d[b[i]]
        BY <2>2, <4>2, <4>5, <4>6, Zenon
      <4> QED BY <4>5, <4>7, ZenonT(60)
    <3> QED BY <3>3, <3>4, Zenon
  <2> HIDE DEF y, j
  <2>6. y \in Threads /\ d[y] \in Nat /\ d[t] \in Nat
    BY <1>2, <1>4, <2>5, OnFacts, ZenonT(60)
  <2>7. CASE d[t] <= d[y]
    <3>1. Ordered(b, d, n)
      <4> SUFFICES ASSUME NEW i \in 2..n PROVE d[b[i \div 2]] <= d[b[i]]
        BY Zenon DEF Ordered
      <4>1. CASE i \div 2 # k
        BY <1>2, <4>1, Zenon DEF OrderedBut
      <4>2. CASE i \div 2 = k
        <5>0. i \in 1..n
          OBVIOUS
        <5>1. d[y] <= d[b[i]] /\ d[b[i]] \in Nat
          BY <1>2, <2>5, <4>2, <5>0, OnFacts, Zenon
        <5>2. d[b[i \div 2]] = d[t]
          BY <1>4, <4>2, Zenon
        <5> QED BY <2>6, <2>7, <5>1, <5>2
      <4> QED BY <4>1, <4>2, ZenonT(60)
    <3> HIDE DEF q, x
    <3> QED BY <1>1, <2>7, <3>1, ZenonT(60)
  <2>8. CASE ~(d[t] <= d[y])
    <3> DEFINE e == Swapped(b, k, j)
               z == SinkStep(s, d)
    <3>1. z = [heap |-> [ptr |-> q, index |-> x, size |-> n],
               p |-> IF toLeft THEN Left(y) ELSE Right(y)]
      <4> HIDE DEF q, x, toLeft
      <4> QED BY <1>1, <1>2, <2>2, <2>8, Zenon
    <3>2. /\ j > k /\ k # j
          /\ {k, 2 * k, 2 * k + 1, 2 * j, 2 * j + 1} \subseteq 1..(2 * n + 1)
          /\ k # 2 * k /\ k # 2 * k + 1 /\ k # 2 * j /\ k # 2 * j + 1
          /\ 2 * k # 2 * k + 1 /\ 2 * k # 2 * j /\ 2 * k # 2 * j + 1
          /\ 2 * k + 1 # 2 * j /\ 2 * k + 1 # 2 * j + 1 /\ 2 * j # 2 * j + 1
      BY <2>5
    <3>3. /\ Spot(b, 2 * k) = Left(t) /\ Spot(b, 2 * k + 1) = Right(t)
          /\ Spot(b, 2 * j) = Left(y) /\ Spot(b, 2 * j + 1) = Right(y)
      BY <1>2, <1>4, <2>5, SpotBelow, ZenonT(60)
    <3>4. /\ s.p # Left(t) /\ s.p # Right(t) /\ s.p # Left(y) /\ s.p # Right(y)
          /\ Left(t) # Right(t) /\ Left(t) # Left(y) /\ Left(t) # Right(y)
          /\ Right(t) # Left(y) /\ Right(t) # Right(y) /\ Left(y) # Right(y)
      BY <1>2, <3>2, <3>3, SpotOnce
    <3>5. /\ s.p \in Places /\ Left(t) \in Places /\ Right(t) \in Places
          /\ Left(y) \in Places /\ Right(y) \in Places
      BY <1>2, <3>2, <3>3, SpotPlace, ZenonT(60)
    <3>6. /\ l \in Threads \cup {None} /\ r \in Threads \cup {None}
          /\ h.ptr[Left(y)] \in Threads \cup {None}
          /\ h.ptr[Right(y)] \in Threads \cup {None}
      BY <1>3, <3>5, Zenon DEF PtrType, l, r
    <3>7. /\ q \in PtrType
          /\ q[s.p] = y
          /\ q[Left(y)] = IF toLeft THEN t ELSE l
          /\ q[Right(y)] = IF toLeft THEN r ELSE t
          /\ q[Left(t)] = h.ptr[Left(y)]
          /\ q[Right(t)] = h.ptr[Right(y)]
          /\ \A p \in Places :
               p \notin {s.p, Left(y), Right(y), Left(t), Right(t)} => q[p] = h.ptr[p]
      <4> HIDE DEF toLeft
      <4> DEFINE v == IF toLeft THEN t ELSE l
                 w == IF toLeft THEN r ELSE t
      <4>1. v \in Threads \cup {None} /\ w \in Threads \cup {None}
        BY <1>4, <3>6, ZenonT(60)
      <4> HIDE DEF v, w
      <4>2. q = [h.ptr EXCEPT ![s.p] = y, ![Left(y)] = v, ![Right(y)] = w,
                              ![Left(t)] = h.ptr[Left(y)], ![Right(t)] = h.ptr[Right(y)]]
        BY Zenon DEF v, w
      <4> HIDE DEF q
      <4>3. /\ q \in PtrType
            /\ q[s.p] = y /\ q[Left(y)] = v /\ q[Right(y)] = w
            /\ q[Left(t)] = h.ptr[Left(y)] /\ q[Right(t)] = h.ptr[Right(y)]
            /\ \A p \in Places :
                 p \notin {s.p, Left(y), Right(y), Left(t), Right(t)} => q[p] = h.ptr[p]
        BY <1>3, <2>6, <3>4, <3>5, <3>6, <4>1, <4>2, Zenon DEF PtrType
      <4> QED BY <4>3, Zenon DEF v, w
    <3>8. /\ h.index[t] = k /\ h.index[y] = j
          /\ t # y
      <4>1. t # y
        BY <1>2, <1>4, <2>5, <3>2, Zenon DEF Layout
      <4> QED BY <1>2, <1>4, <2>5, <4>1, Reading, SMTT(60)
    <3>9. /\ x \in IndexType /\ x[t] = j /\ x[y] = k
          /\ \A u \in Threads : u # t /\ u # y => x[u] = h.index[u]
      BY <1>3, <1>4, <2>5, <2>6, <3>8, Zenon DEF IndexType
    <3> HIDE DEF q, x, e, z
    <3>10. Laid(q, x, e, n)
      <4>1. Laid(q, x, Swapped(b, k, j), n)
        <5>1. /\ q[Left(b[j])] = IF j = 2 * k THEN b[k] ELSE Slot(b, n, 2 * k)
              /\ q[Right(b[j])] = IF j = 2 * k THEN Slot(b, n, 2 * k + 1) ELSE b[k]
          BY <1>4, <1>5, <2>5, <3>7, Zenon
        <5>2. /\ q[Spot(b, k)] = b[j]
              /\ q[Left(b[k])] = h.ptr[Left(b[j])] /\ q[Right(b[k])] = h.ptr[Right(b[j])]
              /\ \A p \in Places :
                   p \notin {Spot(b, k), Left(b[j]), Right(b[j]), Left(b[k]), Right(b[k])}
                     => q[p] = h.ptr[p]
              /\ x[b[k]] = j /\ x[b[j]] = k
              /\ \A u \in Threads : u # b[k] /\ u # b[j] => x[u] = h.index[u]
          BY <1>2, <1>4, <2>5, <3>7, <3>9, Zenon
        <5>3. SwapWritten(q, x, h.ptr, h.index, b, n, k, j)
          BY <5>1, <5>2, Zenon DEF SwapWritten
        <5> QED BY <1>2, <2>5, <3>7, <3>9, <5>3, SwapLaid, Zenon
      <4> QED BY <4>1, Zenon DEF e
    <3>11. /\ e \in Layout(n) /\ On(e, n) = Q
           /\ e[k] = y
      BY <1>2, <2>5, LayoutSwap DEF e
    <3>12. z.p = Spot(e, j)
      <4>1. Spot(e, 2 * k) = Left(y) /\ Spot(e, 2 * k + 1) = Right(y)
        BY <3>11, SpotBelow, Zenon
      <4>2. z.p = IF toLeft THEN Left(y) ELSE Right(y)
        BY <3>1, Zenon
      <4> QED BY <2>5, <4>1, <4>2, Zenon
    <3>13. OrderedBut(e, d, n, j)
      <4>1. d[b[j]] <= d[b[k]] /\ \A i \in 2..n : i \div 2 = k => d[b[j]] <= d[b[i]]
        BY <1>4, <2>5, <2>6, <2>8
      <4>2. OrderedBut(Swapped(b, k, j), d, n, j)
        BY <1>2, <2>5, <4>1, SwapOrdered, ZenonT(60)
      <4> QED BY <4>2, Zenon DEF e
    <3>14. z.heap \in HeapType /\ z.heap.ptr = q /\ z.heap.index = x /\ z.heap.size = n
      <4> HIDE DEF toLeft
      <4> QED BY <3>1, <3>7, <3>9, ZenonT(60) DEF HeapType
    <3>15. SinkAt(z, e, j, n, Q, d)
      BY <3>10, <3>11, <3>12, <3>13, <3>14, Zenon DEF SinkAt
    <3> QED BY <2>5, <3>2, <3>15, Zenon DEF z
  <2> QED BY <2>7, <2>8, ZenonT(60)
<1> QED BY <1>6, <1>7, ZenonT(60)

SinkFn(f, h, d, p) ==
  /\ f[0] = [heap |-> h, p |-> p]
  /\ \A i \in 1..h.size : f[i] = SinkStep(f[i - 1], d)
  /\ Sink(h, d, p) = f[h.size].heap

(* The turns of the last loop of heap_delete. *)
LEMMA SinkUnfolded ==
  ASSUME NEW h, NEW d, NEW p, h.size \in Nat
  PROVE  \E f : SinkFn(f, h, d, p)
<1> DEFINE s == [heap |-> h, p |-> p]
           Is(f, m) == f = [i \in 0..m |-> IF i = 0 THEN s ELSE SinkStep(f[i - 1], d)]
           T == {m \in Nat : \E f : Is(f, m)}
<1>0. Sink(h, d, p) = (CHOOSE g : Is(g, h.size))[h.size].heap
  BY Zenon DEF Sink
<1> HIDE DEF s
<1>1. 0 \in T
  <2>1. Is([i \in 0..0 |-> s], 0)
    OBVIOUS
  <2> QED BY <2>1, Zenon
<1>2. ASSUME NEW m \in T
      PROVE  m + 1 \in T
  <2>1. PICK f : Is(f, m)
    BY Zenon
  <2> DEFINE g == [i \in 0..(m + 1) |-> IF i <= m THEN f[i] ELSE SinkStep(f[i - 1], d)]
  <2>2. ASSUME NEW i \in 0..(m + 1)
        PROVE  g[i] = IF i = 0 THEN s ELSE SinkStep(g[i - 1], d)
    <3>1. i # 0 => i - 1 \in 0..m /\ i - 1 \in 0..(m + 1) /\ i - 1 <= m
      OBVIOUS
    <3>2. i # 0 => g[i - 1] = f[i - 1]
      BY <3>1, Zenon
    <3>3. CASE i <= m
      <4>1. i \in 0..m
        BY <3>3
      <4>2. f[i] = IF i = 0 THEN s ELSE SinkStep(f[i - 1], d)
        BY <2>1, <4>1, Zenon
      <4>3. g[i] = f[i]
        BY <3>3, Zenon
      <4> QED BY <3>2, <4>2, <4>3, Zenon
    <3>4. CASE ~(i <= m)
      <4>1. g[i] = SinkStep(f[i - 1], d) /\ i # 0
        BY <3>4
      <4> QED BY <3>2, <4>1, Zenon
    <3> QED BY <3>3, <3>4, ZenonT(60)
  <2>3. Is(g, m + 1)
    BY <2>2, Zenon
  <2> HIDE DEF Is
  <2> QED BY <2>3
<1>3. h.size \in T
  <2>1. T \in SUBSET Nat
    BY Zenon
  <2> HIDE DEF T
  <2> QED BY <1>1, <1>2, <2>1, NatSetInduction, Zenon
<1> DEFINE f == CHOOSE g : Is(g, h.size)
<1>4. Is(f, h.size)
  <2>1. \E g : Is(g, h.size)
    BY <1>3, Zenon
  <2> QED BY <2>1, Zenon
<1>5. Sink(h, d, p) = f[h.size].heap
  BY <1>0, Zenon
<1> HIDE DEF f
<1>6. f[0] = s
  <2>1. 0 \in 0..h.size
    OBVIOUS
  <2> QED BY <1>4, <2>1, Zenon
<1>7. \A i \in 1..h.size : f[i] = SinkStep(f[i - 1], d)
  <2>1. \A i \in 1..h.size : i \in 0..h.size /\ i # 0
    OBVIOUS
  <2> QED BY <1>4, <2>1, Zenon
<1> HIDE DEF Is
<1>8. SinkFn(f, h, d, p)
  BY <1>5, <1>6, <1>7, ZenonT(60) DEF SinkFn, s
<1> QED BY <1>8, Zenon

(* The last loop of heap_delete restores the order and loses nobody: it    *)
(* ends because the thread that sinks comes to a later position with every *)
(* turn.                                                                   *)
LEMMA SinkGood ==
  ASSUME NEW h, NEW p, NEW d \in [Threads -> Nat], NEW Q, h.size \in Nat,
         NEW b, NEW k \in 1..h.size,
         SinkAt([heap |-> h, p |-> p], b, k, h.size, Q, d)
  PROVE  Good(Sink(h, d, p), d, Q) /\ Sink(h, d, p).size = h.size
<1> DEFINE n == h.size
<1>1. PICK f : SinkFn(f, h, d, p)
  BY SinkUnfolded, Zenon
<1>2. /\ f[0] = [heap |-> h, p |-> p]
      /\ \A i \in 1..n : f[i] = SinkStep(f[i - 1], d)
      /\ Sink(h, d, p) = f[n].heap
  BY <1>1, Zenon DEF SinkFn
<1> DEFINE Open(i) == \E e : \E j \in 1..n : j >= i + 1 /\ SinkAt(f[i], e, j, n, Q, d)
           Done(i) == SinkStep(f[i], d) = f[i] /\ Good(f[i].heap, d, Q) /\ f[i].heap.size = n
           T == {i \in Nat : i <= n => Open(i) \/ Done(i)}
<1>3. 0 \in T
  <2>1. SinkAt(f[0], b, k, n, Q, d) /\ k \in 1..n /\ k >= 0 + 1
    BY <1>2
  <2>2. Open(0)
    BY <2>1, Zenon
  <2> QED BY <2>2, Zenon
<1>4. ASSUME NEW i \in T
      PROVE  i + 1 \in T
  <2> SUFFICES ASSUME i + 1 <= n PROVE Open(i + 1) \/ Done(i + 1)
    BY SMTT(60)
  <2>1. f[i + 1] = SinkStep(f[i], d)
    <3>1. i + 1 \in 1..n /\ (i + 1) - 1 = i
      BY SMTT(60)
    <3> QED BY <1>2, <3>1, Zenon
  <2>2. CASE Done(i)
    BY <2>1, <2>2, Zenon
  <2>3. CASE Open(i)
    <3>0. PICK e : \E j \in 1..n : j >= i + 1 /\ SinkAt(f[i], e, j, n, Q, d)
      BY <2>3, Zenon
    <3>1. PICK j \in 1..n : j >= i + 1 /\ SinkAt(f[i], e, j, n, Q, d)
      BY <3>0, Zenon
    <3>2. \/ SinkStep(f[i], d) = f[i] /\ Ordered(e, d, n)
          \/ \E m \in 1..n : m > j /\ \E g : SinkAt(SinkStep(f[i], d), g, m, n, Q, d)
      BY <3>1, SinkStepGood, Zenon
    <3>3. CASE SinkStep(f[i], d) = f[i] /\ Ordered(e, d, n)
      <4>1. /\ f[i].heap \in HeapType /\ f[i].heap.size = n
            /\ e \in Layout(n)
            /\ Laid(f[i].heap.ptr, f[i].heap.index, e, n)
            /\ On(e, n) = Q
        BY <3>1, Zenon DEF SinkAt
      <4>2. Good(f[i].heap, d, Q)
        BY <3>3, <4>1, Zenon DEF Good
      <4> QED BY <2>1, <3>3, <4>1, <4>2, Zenon
    <3>4. CASE \E m \in 1..n : m > j /\ \E g : SinkAt(SinkStep(f[i], d), g, m, n, Q, d)
      <4>0. PICK m \in 1..n : m > j /\ \E g : SinkAt(SinkStep(f[i], d), g, m, n, Q, d)
        BY <3>4, Zenon
      <4>1. PICK g : m > j /\ SinkAt(SinkStep(f[i], d), g, m, n, Q, d)
        BY <4>0, Zenon
      <4>2. m >= (i + 1) + 1
        BY <3>1, <4>1
      <4> QED BY <2>1, <4>1, <4>2, Zenon
    <3> QED BY <3>2, <3>3, <3>4, Zenon
  <2>4. Open(i) \/ Done(i)
    <3>1. i <= n /\ i \in T
      OBVIOUS
    <3> HIDE DEF Open, Done
    <3> QED BY <3>1, Zenon
  <2> HIDE DEF Open, Done
  <2> QED BY <2>2, <2>3, <2>4, ZenonT(60)
<1>5. n \in T
  <2>1. T \in SUBSET Nat
    BY Zenon
  <2> HIDE DEF T
  <2>2. T = Nat
    BY <1>3, <1>4, <2>1, NatSetInduction, ZenonT(60)
  <2> QED BY <2>2, Zenon
<1>6. ~Open(n)
  <2>1. \A j \in 1..n : ~(j >= n + 1)
    OBVIOUS
  <2> QED BY <2>1, Zenon
<1>7. Done(n)
  <2>1. n <= n
    OBVIOUS
  <2> HIDE DEF Open, Done
  <2> QED BY <1>5, <1>6, <2>1, ZenonT(60)
<1> QED BY <1>2, <1>7, ZenonT(60)
=============================================================================
