----------------------------- MODULE HeapProofs -----------------------------
(***************************************************************************)
(* The timeout heap of sched.c implements the sleep queue, for any number  *)
(* of threads, any timeouts and any readings of the clock that do not      *)
(* overflow st_utime_t when they are added.                                *)
(***************************************************************************)
EXTENDS HeapLayout, FiniteSetTheorems
-----------------------------------------------------------------------------
(* heap_delete ends by clearing the fields of the deleted thread, which    *)
(* nothing in the tree refers to.                                          *)
LEMMA ClearedLaid ==
  ASSUME NEW n \in Nat, NEW a \in Layout(n), NEW ptr, NEW index,
         Laid(ptr, index, a, n), NEW t \in Threads, t \notin On(a, n)
  PROVE  LET q == [ptr EXCEPT ![Left(t)] = None, ![Right(t)] = None]
             x == [index EXCEPT ![t] = 0]
         IN  Laid(q, x, a, n)
<1> DEFINE q == [ptr EXCEPT ![Left(t)] = None, ![Right(t)] = None]
           x == [index EXCEPT ![t] = 0]
<1>1. ptr \in PtrType /\ index \in IndexType
  BY DEF Laid
<1>2. Left(t) \in Places /\ Right(t) \in Places
  BY PlaceFacts
<1>3. /\ q \in PtrType
      /\ \A p \in Places : p # Left(t) /\ p # Right(t) => q[p] = ptr[p]
  BY <1>1, <1>2 DEF PtrType
<1>4. x \in IndexType /\ \A u \in Threads : u # t => x[u] = index[u]
  BY <1>1 DEF IndexType
<1> HIDE DEF q, x
<1>5. ASSUME NEW i \in 1..(2 * n + 1)
      PROVE  q[Spot(a, i)] = Slot(a, n, i)
  <2>1. Spot(a, i) \in Places /\ Spot(a, i) # Left(t) /\ Spot(a, i) # Right(t)
    BY SpotPlace, SpotOutside
  <2>2. ptr[Spot(a, i)] = Slot(a, n, i)
    BY Zenon DEF Laid
  <2> QED BY <1>3, <2>1, <2>2, Zenon
<1>6. ASSUME NEW i \in 1..n
      PROVE  x[a[i]] = i
  <2>1. a[i] \in Threads /\ a[i] # t
    BY OnFacts
  <2>2. index[a[i]] = i
    BY Zenon DEF Laid
  <2> QED BY <1>4, <2>1, <2>2, Zenon
<1>7. Laid(q, x, a, n)
  BY <1>3, <1>4, <1>5, <1>6, Zenon DEF Laid
<1> QED BY <1>7 DEF q, x

LEMMA ClearedGood ==
  ASSUME NEW h, NEW d, NEW Q, Good(h, d, Q), NEW t \in Threads, t \notin Q
  PROVE  LET g == [ptr |-> [h.ptr EXCEPT ![Left(t)] = None, ![Right(t)] = None],
                   index |-> [h.index EXCEPT ![t] = 0],
                   size |-> h.size]
         IN  Good(g, d, Q) /\ g.size = h.size
<1> DEFINE q == [h.ptr EXCEPT ![Left(t)] = None, ![Right(t)] = None]
           x == [h.index EXCEPT ![t] = 0]
           n == h.size
           g == [ptr |-> q, index |-> x, size |-> n]
<1>1. n \in Nat
  BY HeapFields DEF Good
<1>2. PICK a \in Layout(n) : /\ Laid(h.ptr, h.index, a, n)
                             /\ Ordered(a, d, n)
                             /\ On(a, n) = Q
  BY DEF Good
<1>3. Laid(q, x, a, n)
  <2> HIDE DEF n
  <2> QED BY <1>1, <1>2, ClearedLaid
<1> HIDE DEF q, x, n
<1>4. g \in HeapType /\ g.ptr = q /\ g.index = x /\ g.size = n
  BY <1>1, <1>3 DEF Laid, HeapType
<1>5. Good(g, d, Q)
  <2> HIDE DEF g
  <2> QED BY <1>2, <1>3, <1>4 DEF Good
<1> QED BY <1>4, <1>5, Zenon DEF g, q, x, n

(* What heap_delete does when t, the last element, is not the deleted one. *)
Moved(h1, d, t, thread) ==
  LET ins == heap_insert(h1, d, t)
      ptr == ins.heap.ptr
      u == ptr[ins.p]
      h2 == [ptr |-> [ptr EXCEPT ![Left(u)] = ptr[Left(thread)],
                                 ![Right(u)] = ptr[Right(thread)]],
             index |-> ins.heap.index,
             size |-> ins.heap.size]
  IN  Sink(h2, d, ins.p)

Replaceable(h1, b, n, d, t, thread, m) ==
  /\ h1 \in HeapType /\ h1.size = n
  /\ b \in Layout(n) /\ Laid(h1.ptr, h1.index, b, n) /\ Ordered(b, d, n)
  /\ t \in Threads /\ t \notin On(b, n)
  /\ thread \in Threads /\ b[m] = thread
  /\ h1.index[t] = m

(* The last element, unlinked, takes the place of the deleted one and      *)
(* rises or sinks from there.                                              *)
LEMMA ReplacedGood ==
  ASSUME NEW n \in Nat, NEW d \in [Threads -> Nat], NEW h1, NEW b, NEW t, NEW thread,
         NEW m \in 1..n, Replaceable(h1, b, n, d, t, thread, m),
         NEW R, R = (On(b, n) \cup {t}) \ {thread}
  PROVE  /\ Good(Moved(h1, d, t, thread), d, R)
         /\ Moved(h1, d, t, thread).size = n
<1>0. /\ h1 \in HeapType /\ h1.size = n
      /\ b \in Layout(n) /\ Laid(h1.ptr, h1.index, b, n) /\ Ordered(b, d, n)
      /\ t \in Threads /\ t \notin On(b, n)
      /\ thread \in Threads /\ b[m] = thread
      /\ h1.index[t] = m
  BY Zenon DEF Replaceable
<1> USE <1>0
<1> DEFINE s == InsertWalk([heap |-> h1, thread |-> t, p |-> Root, index |-> 1], d, m)
           ins == heap_insert(h1, d, t)
           ptr == ins.heap.ptr
           u == ptr[ins.p]
           v == [ptr EXCEPT ![Left(u)] = ptr[Left(thread)],
                            ![Right(u)] = ptr[Right(thread)]]
           h2 == [ptr |-> v, index |-> ins.heap.index, size |-> ins.heap.size]
           c == s.thread
<1>1. ins = [heap |-> [ptr |-> EndPtr(s), index |-> EndIndex(s), size |-> s.heap.size],
             p |-> s.p]
  BY Zenon DEF heap_insert, EndPtr, EndIndex
<1> HIDE DEF ins
<1>2. m \in 1..(n + 1)
  BY SMTT(60)
<1>3. /\ \E e \in Layout(n) : WalkAt(s, e, m, b, n, t, d)
      /\ s.heap.size = n
  BY <1>2, WalkDone, SMTT(60)
<1> HIDE DEF s
<1>4. PICK e \in Layout(n) : WalkAt(s, e, m, b, n, t, d)
  BY <1>3, Zenon
<1>5. Ended(s, e, n, m)
  BY <1>2, <1>4, InsertEnd, Zenon
<1>6. /\ s.p = Spot(e, m)
      /\ Laid(s.heap.ptr, s.heap.index, e, n)
      /\ Ordered(e, d, n)
      /\ On(e, n) \cup {c} = On(b, n) \cup {t}
      /\ \A j \in m..n : e[j] = b[j]
      /\ m > 1 => d[e[m \div 2]] <= d[c]
  BY <1>4, Zenon DEF WalkAt
<1>7. /\ ptr \in PtrType /\ EndIndex(s) \in IndexType
      /\ c \in Threads /\ c \notin On(e, n)
      /\ Left(c) \in Places /\ Right(c) \in Places /\ s.p \in Places
      /\ Left(c) # Right(c) /\ Left(c) # s.p /\ Right(c) # s.p
      /\ ptr[s.p] = c
      /\ \A p \in Places : p \notin {s.p, Left(c), Right(c)} => ptr[p] = s.heap.ptr[p]
      /\ EndIndex(s)[c] = m
      /\ \A w \in Threads : w # c => EndIndex(s)[w] = s.heap.index[w]
  <2>1. ptr = EndPtr(s)
    BY <1>1, Zenon
  <2> HIDE DEF ptr
  <2> QED BY <1>5, <2>1, Zenon DEF Ended
<1>8. u = c /\ ins.p = s.p /\ ins.heap.index = EndIndex(s) /\ ins.heap.size = n
  <2>1. ins.p = s.p /\ ins.heap.index = EndIndex(s) /\ ins.heap.size = n
    BY <1>1, <1>3, Zenon
  <2> HIDE DEF ptr
  <2> QED BY <1>7, <2>1, Zenon
<1> HIDE DEF ptr, u
<1>9. e[m] = thread
  <2>1. m \in m..n
    OBVIOUS
  <2> QED BY <1>6, <2>1, Zenon
<1>10. thread # c /\ thread \in On(e, n)
  BY <1>7, <1>9, OnFacts
<1>11. /\ ptr[Left(thread)] = s.heap.ptr[Left(thread)]
       /\ ptr[Right(thread)] = s.heap.ptr[Right(thread)]
  <2>1. Left(thread) = Spot(e, 2 * m) /\ Right(thread) = Spot(e, 2 * m + 1)
    BY <1>9, SpotBelow
  <2>2. /\ m \in 1..(2 * n + 1) /\ 2 * m \in 1..(2 * n + 1) /\ 2 * m + 1 \in 1..(2 * n + 1)
        /\ m # 2 * m /\ m # 2 * m + 1
    OBVIOUS
  <2>3. Left(thread) # s.p /\ Right(thread) # s.p
    BY <1>6, <2>1, <2>2, SpotOnce, SMTT(60)
  <2>4. /\ Left(thread) \in Places /\ Right(thread) \in Places
        /\ Left(thread) # Left(c) /\ Left(thread) # Right(c)
        /\ Right(thread) # Left(c) /\ Right(thread) # Right(c)
    BY <1>7, <1>10, PlaceFacts, ZenonT(60)
  <2> QED BY <1>7, <2>3, <2>4, Zenon
<1>12. ptr[Left(thread)] \in Threads \cup {None} /\ ptr[Right(thread)] \in Threads \cup {None}
  BY <1>7, PlaceFacts, Zenon DEF PtrType
<1>13. /\ v \in PtrType
       /\ v[s.p] = c
       /\ v[Left(c)] = s.heap.ptr[Left(thread)]
       /\ v[Right(c)] = s.heap.ptr[Right(thread)]
       /\ \A p \in Places : p \notin {s.p, Left(c), Right(c)} => v[p] = s.heap.ptr[p]
  <2>1. v = [ptr EXCEPT ![Left(c)] = ptr[Left(thread)], ![Right(c)] = ptr[Right(thread)]]
    BY <1>8
  <2> HIDE DEF v, c
  <2>2. /\ v \in PtrType /\ v[Left(c)] = ptr[Left(thread)] /\ v[Right(c)] = ptr[Right(thread)]
        /\ \A p \in Places : p # Left(c) /\ p # Right(c) => v[p] = ptr[p]
    BY <1>7, <1>12, <2>1, Zenon DEF PtrType
  <2> QED BY <1>7, <1>11, <2>2, ZenonT(60)
<1> HIDE DEF v
<1> DEFINE g == Put(e, m, c)
<1> HIDE DEF c
<1>14. Laid(v, EndIndex(s), g, n)
  <2> HIDE DEF g
  <2>1. Laid(v, EndIndex(s), Put(e, m, c), n)
    <3>1. PutWritten(v, EndIndex(s), s.heap.ptr, s.heap.index, e, m, c)
      BY <1>6, <1>7, <1>9, <1>13, Zenon DEF PutWritten
    <3> QED BY <1>6, <1>7, <1>13, <3>1, PutOver, Zenon
  <2> QED BY <2>1, Zenon DEF g
<1>15. /\ g \in Layout(n)
       /\ On(g, n) = (On(e, n) \ {e[m]}) \cup {c}
       /\ g[m] = c
       /\ \A j \in 1..n : j # m => g[j] = e[j]
       /\ Spot(g, m) = Spot(e, m)
  <2>1. m \in 1..(2 * n + 1) /\ m # 2 * m /\ m # 2 * m + 1
    BY SMTT(60)
  <2>2. /\ g \in Layout(n)
        /\ On(g, n) = (On(e, n) \ {e[m]}) \cup {c}
        /\ g[m] = c
        /\ \A j \in 1..n : j # m => g[j] = e[j]
        /\ \A i \in 1..(2 * n + 1) : i # 2 * m /\ i # 2 * m + 1 => Spot(g, i) = Spot(e, i)
    BY <1>7, LayoutPut, SMTT(60)
  <2> QED BY <2>1, <2>2, Zenon
<1> HIDE DEF g
<1>16. On(g, n) = R
  <2>1. On(g, n) = (On(e, n) \cup {c}) \ {thread}
    BY <1>7, <1>9, <1>10, <1>15, Zenon
  <2> QED BY <1>6, <2>1, Zenon
<1>17. OrderedBut(g, d, n, m)
  <2>1. ASSUME NEW i \in 2..n
        PROVE  /\ i \in 1..n /\ i \div 2 \in 1..n /\ i # i \div 2 /\ (i = m => m > 1)
               /\ d[e[i \div 2]] <= d[e[i]]
               /\ d[e[i]] \in Nat /\ d[e[i \div 2]] \in Nat
    <3>1. /\ i \in 1..n /\ i \div 2 \in 1..n /\ i # i \div 2 /\ (i = m => m > 1)
      BY SMTT(60)
    <3> QED BY <1>6, <3>1, OnFacts, Zenon DEF Ordered
  <2>2. ASSUME NEW i \in 2..n, i \div 2 # m
        PROVE  d[g[i \div 2]] <= d[g[i]]
    <3>1. CASE i = m
      BY <1>6, <1>15, <2>1, <2>2, <3>1, Zenon
    <3>2. CASE i # m
      BY <1>15, <2>1, <2>2, <3>2, Zenon
    <3> QED BY <3>1, <3>2
  <2>3. ASSUME m > 1, NEW i \in 2..n, i \div 2 = m
        PROVE  d[g[m \div 2]] <= d[g[i]]
    <3>1. m \in 2..n /\ m \div 2 # m /\ m \div 2 \in 1..n
      BY <2>3
    <3>2. d[e[m \div 2]] <= d[e[m]] /\ d[e[m]] <= d[e[i]]
      BY <2>1, <2>3, <3>1, Zenon
    <3>3. g[m \div 2] = e[m \div 2] /\ g[i] = e[i]
      BY <1>15, <2>1, <2>3, <3>1, Zenon
    <3>4. d[e[m \div 2]] \in Nat /\ d[e[m]] \in Nat /\ d[e[i]] \in Nat
      BY <2>1, <3>1, Zenon
    <3>5. d[e[m \div 2]] <= d[e[i]]
      BY <3>2, <3>4
    <3> QED BY <3>3, <3>5, Zenon
  <2> QED BY <2>2, <2>3, Zenon DEF OrderedBut
<1>18. h2 \in HeapType /\ h2.ptr = v /\ h2.index = EndIndex(s) /\ h2.size = n
  BY <1>7, <1>8, <1>13, Zenon DEF HeapType
<1> HIDE DEF h2
<1>19. SinkAt([heap |-> h2, p |-> ins.p], g, m, n, R, d)
  BY <1>6, <1>8, <1>14, <1>15, <1>16, <1>17, <1>18, ZenonT(60) DEF SinkAt
<1>20. Good(Sink(h2, d, ins.p), d, R) /\ Sink(h2, d, ins.p).size = n
  BY <1>18, <1>19, SinkGood, ZenonT(60)
<1> QED BY <1>20, Zenon DEF Moved, h2, v, u, ptr, ins

(* heap_delete, for the last element and for any other. *)
LEMMA DeleteGood ==
  ASSUME NEW h, NEW d \in [Threads -> Nat], NEW Q, Good(h, d, Q), NEW thread \in Q
  PROVE  LET g == heap_delete(h, d, thread)
         IN  Good(g, d, Q \ {thread}) /\ g.size = h.size - 1 /\ h.size \in Nat \ {0}
<1> DEFINE n == h.size - 1
           p == PlaceOf(h, h.size)
           t == h.ptr[p]
           h1 == [ptr |-> [h.ptr EXCEPT ![p] = None],
                  index |-> [h.index EXCEPT ![t] = h.index[thread]],
                  size |-> n]
           h3 == IF t = thread THEN h1 ELSE Moved(h1, d, t, thread)
           g == [ptr |-> [h3.ptr EXCEPT ![Left(thread)] = None, ![Right(thread)] = None],
                 index |-> [h3.index EXCEPT ![thread] = 0],
                 size |-> h3.size]
<1>1. heap_delete(h, d, thread) = g
  BY Zenon DEF heap_delete, Moved
<1>2. h \in HeapType /\ h.ptr \in PtrType /\ h.index \in IndexType /\ h.size \in Nat
  BY HeapFields DEF Good
<1>3. PICK a \in Layout(h.size) : /\ Laid(h.ptr, h.index, a, h.size)
                                  /\ Ordered(a, d, h.size)
                                  /\ On(a, h.size) = Q
  BY DEF Good
<1>4. PICK m \in 1..h.size : a[m] = thread
  BY <1>3 DEF On
<1>5. n \in Nat /\ h.size = n + 1 /\ h.size \in 1..(n + 1)
  BY <1>2, <1>4
<1> HIDE DEF n
<1>6. /\ a \in Layout(n + 1)
      /\ Laid(h.ptr, h.index, a, n + 1)
      /\ Ordered(a, d, n + 1)
      /\ On(a, n + 1) = Q
      /\ m \in 1..(n + 1)
  BY <1>3, <1>4, <1>5
<1>7. p = Spot(a, n + 1) /\ p \in Places
  <2>1. n + 1 \in Nat /\ n + 1 \in 1..(2 * (n + 1) + 1)
    BY <1>5
  <2>2. PlaceOf(h, n + 1) = Spot(a, n + 1)
    BY <1>6, <2>1, PlaceFound
  <2> QED BY <1>5, <1>6, <2>1, <2>2, SpotPlace
<1> HIDE DEF p
<1>8. t = a[n + 1] /\ t \in Threads /\ thread \in Threads /\ h.index[thread] = m /\ t \in Q
  <2>1. n + 1 \in 1..(n + 1) /\ n + 1 \in Nat
    BY <1>5
  <2>2. t = a[n + 1] /\ t \in Threads /\ t \in On(a, n + 1)
    BY <1>6, <1>7, <2>1, Reading, SMTT(60)
  <2>3. thread \in Threads /\ h.index[thread] = m
    BY <1>4, <1>6, <2>1, Reading, SMTT(60)
  <2> QED BY <1>6, <2>2, <2>3
<1> HIDE DEF t
<1>9. /\ h1 \in HeapType /\ h1.size = n
      /\ h1.ptr[p] = None /\ \A w \in Places : w # p => h1.ptr[w] = h.ptr[w]
      /\ h1.index[t] = m /\ \A w \in Threads : w # t => h1.index[w] = h.index[w]
      /\ h1.ptr \in PtrType /\ h1.index \in IndexType
  <2> DEFINE q1 == [h.ptr EXCEPT ![p] = None]
             x1 == [h.index EXCEPT ![t] = h.index[thread]]
  <2>1. /\ q1 \in PtrType /\ q1[p] = None
        /\ \A w \in Places : w # p => q1[w] = h.ptr[w]
    BY <1>2, <1>7 DEF PtrType
  <2>2. /\ x1 \in IndexType /\ x1[t] = m
        /\ \A w \in Threads : w # t => x1[w] = h.index[w]
    BY <1>2, <1>4, <1>8 DEF IndexType
  <2>3. h1 = [ptr |-> q1, index |-> x1, size |-> n]
    OBVIOUS
  <2> HIDE DEF q1, x1, h1
  <2> QED BY <1>5, <2>1, <2>2, <2>3, Zenon DEF HeapType
<1> HIDE DEF h1
<1> DEFINE b == Shortened(a, n)
<1>10. /\ b \in Layout(n)
       /\ Laid(h1.ptr, h1.index, b, n)
       /\ On(b, n) = On(a, n + 1) \ {a[n + 1]}
       /\ \A j \in 1..n : b[j] = a[j]
  <2>1. Unlinked(h1.ptr, h1.index, h.ptr, h.index, a, n)
    BY <1>7, <1>8, <1>9 DEF Unlinked
  <2> HIDE DEF h1
  <2> QED BY <1>5, <1>6, <2>1, TakeLast, Zenon
<1> HIDE DEF b
<1>11. Ordered(b, d, n)
  <2> SUFFICES ASSUME NEW i \in 2..n PROVE d[b[i \div 2]] <= d[b[i]]
    BY DEF Ordered
  <2>1. i \in 1..n /\ i \div 2 \in 1..n /\ i \in 2..(n + 1)
    BY <1>5
  <2> QED BY <1>6, <1>10, <2>1, Zenon DEF Ordered
<1>12. Good(h3, d, Q \ {thread}) /\ h3.size = n
  <2>1. CASE t = thread
    <3>1. Good(h1, d, Q \ {thread})
      BY <1>6, <1>8, <1>9, <1>10, <1>11, <2>1, Zenon DEF Good
    <3> QED BY <1>9, <2>1, <3>1
  <2>2. CASE t # thread
    <3>1. m \in 1..n
      BY <1>4, <1>5, <1>6, <1>8, <2>2
    <3>2. b[m] = thread /\ t \notin On(b, n)
      BY <1>4, <1>8, <1>10, <3>1
    <3>4. Q \ {thread} = (On(b, n) \cup {t}) \ {thread}
      BY <1>6, <1>8, <1>10
    <3>3. /\ Good(Moved(h1, d, t, thread), d, Q \ {thread})
          /\ Moved(h1, d, t, thread).size = n
      <4>1. Replaceable(h1, b, n, d, t, thread, m)
        BY <1>8, <1>9, <1>10, <1>11, <3>2, Zenon DEF Replaceable
      <4> HIDE DEF h3, g
      <4> DEFINE R == Q \ {thread}
      <4>2. R = (On(b, n) \cup {t}) \ {thread}
        BY <3>4
      <4> HIDE DEF R
      <4>3. Good(Moved(h1, d, t, thread), d, R) /\ Moved(h1, d, t, thread).size = n
        BY <1>5, <3>1, <4>1, <4>2, ReplacedGood
      <4> QED BY <4>3 DEF R
    <3>5. h3 = Moved(h1, d, t, thread)
      BY <2>2
    <3> HIDE DEF h3
    <3> QED BY <3>3, <3>5
  <2> QED BY <2>1, <2>2
<1> HIDE DEF h3
<1>13. Good(g, d, Q \ {thread}) /\ g.size = n
  BY <1>8, <1>12, ClearedGood, Zenon
<1> HIDE DEF g
<1> QED BY <1>1, <1>2, <1>5, <1>13 DEF n

-----------------------------------------------------------------------------
(* The root is the thread that is due first. *)
LEMMA RootFirst ==
  ASSUME NEW h, NEW d \in [Threads -> Nat], NEW Q, Good(h, d, Q)
  PROVE  /\ h.size \in Nat
         /\ Q \subseteq Threads
         /\ Q = {} <=> h.size = 0
         /\ Q = {} <=> h.ptr[Root] = None
         /\ h.ptr[Root] # None => /\ h.ptr[Root] \in Q
                                  /\ \A t \in Q : d[h.ptr[Root]] <= d[t]
<1> DEFINE n == h.size
           r == h.ptr[Root]
<1>1. n \in Nat
  BY HeapFields DEF Good
<1>2. PICK a \in Layout(n) : /\ Laid(h.ptr, h.index, a, n)
                             /\ Ordered(a, d, n)
                             /\ On(a, n) = Q
  BY DEF Good
<1> HIDE DEF n
<1>3. r = Slot(a, n, 1)
  <2>1. 1 \in 1..(2 * n + 1)
    BY <1>1
  <2>2. h.ptr[Spot(a, 1)] = Slot(a, n, 1)
    BY <1>2, <2>1, Zenon DEF Laid
  <2> QED BY <2>2 DEF Spot
<1> HIDE DEF r
<1>4. Q \subseteq Threads
  BY <1>1, <1>2, OnFacts
<1>5. CASE n = 0
  <2>1. Q = {}
    BY <1>2, <1>5 DEF On
  <2>2. r = None
    BY <1>3, <1>5 DEF Slot
  <2> QED BY <1>1, <1>4, <1>5, <2>1, <2>2 DEF n, r
<1>6. CASE n # 0
  <2>1. 1 \in 1..n /\ 1 <= n
    BY <1>1, <1>6
  <2>2. r = a[1] /\ a[1] \in Q /\ a[1] \in Threads
    BY <1>1, <1>2, <1>3, <2>1, OnFacts DEF Slot
  <2>3. r # None
    BY <2>2, HeapAssumption
  <2> DEFINE T == {i \in 1..n : ~(d[a[1]] <= d[a[i]])}
  <2>4. \A i \in 1..n : d[a[i]] \in Nat
    BY <1>1, <1>2, OnFacts
  <2>5. T = {}
    <3> SUFFICES ASSUME T # {} PROVE FALSE
      OBVIOUS
    <3>1. T \in SUBSET Nat
      OBVIOUS
    <3>2. PICK k \in T : \A i \in T : k <= i
      <4> HIDE DEF T
      <4> QED BY <3>1, SmallestNat
    <3>3. k \in 1..n /\ ~(d[a[1]] <= d[a[k]]) /\ d[a[k]] \in Nat /\ d[a[1]] \in Nat
      BY <2>1, <2>4
    <3>4. k # 1
      BY <3>3
    <3> DEFINE j == k \div 2
    <3>5. k \in 2..n /\ j \in 1..n /\ j < k
      BY <1>1, <3>3, <3>4
    <3>6. d[a[j]] <= d[a[k]]
      BY <1>2, <3>5 DEF Ordered
    <3> HIDE DEF j
    <3>7. j \notin T
      <4>1. j \in Nat /\ k \in Nat /\ ~(k <= j)
        BY <1>1, <3>5
      <4> HIDE DEF T
      <4> QED BY <3>2, <4>1
    <3>8. d[a[1]] <= d[a[j]] /\ d[a[j]] \in Nat
      BY <2>4, <3>5, <3>7
    <3> QED BY <3>3, <3>6, <3>8
  <2>6. \A t \in Q : d[a[1]] <= d[t]
    BY <1>2, <2>5 DEF On
  <2>7. Q # {}
    BY <2>2
  <2> QED BY <1>1, <1>4, <1>6, <2>2, <2>3, <2>6, <2>7 DEF n, r
<1> QED BY <1>5, <1>6

PopFn(f, h, d, now) ==
  /\ f[0] = [heap |-> h, fired |-> <<>>]
  /\ \A i \in 1..h.size : f[i] = PopStep(f[i - 1], d, now)
  /\ PopDue(h, d, now) = f[h.size]

(* The turns of the loop of _st_vp_check_clock. *)
LEMMA PopUnfolded ==
  ASSUME NEW h, NEW d, NEW now, h.size \in Nat
  PROVE  \E f : PopFn(f, h, d, now)
<1> DEFINE s == [heap |-> h, fired |-> <<>>]
           Is(f, m) == f = [i \in 0..m |-> IF i = 0 THEN s ELSE PopStep(f[i - 1], d, now)]
           T == {m \in Nat : \E f : Is(f, m)}
<1>0. PopDue(h, d, now) = (CHOOSE g : Is(g, h.size))[h.size]
  BY DEF PopDue
<1> HIDE DEF s
<1>1. 0 \in T
  <2>1. Is([i \in 0..0 |-> s], 0)
    OBVIOUS
  <2> QED BY <2>1, Zenon
<1>2. ASSUME NEW m \in T
      PROVE  m + 1 \in T
  <2>1. PICK f : Is(f, m)
    OBVIOUS
  <2> DEFINE g == [i \in 0..(m + 1) |-> IF i <= m THEN f[i] ELSE PopStep(f[i - 1], d, now)]
  <2>2. ASSUME NEW i \in 0..(m + 1)
        PROVE  g[i] = IF i = 0 THEN s ELSE PopStep(g[i - 1], d, now)
    <3>1. i # 0 => i - 1 \in 0..m /\ i - 1 \in 0..(m + 1) /\ i - 1 <= m
      OBVIOUS
    <3>2. i # 0 => g[i - 1] = f[i - 1]
      BY <3>1, Zenon
    <3>3. CASE i <= m
      <4>1. i \in 0..m
        BY <3>3
      <4>2. f[i] = IF i = 0 THEN s ELSE PopStep(f[i - 1], d, now)
        BY <2>1, <4>1, Zenon
      <4>3. g[i] = f[i]
        BY <3>3, Zenon
      <4> QED BY <3>2, <4>2, <4>3, Zenon
    <3>4. CASE ~(i <= m)
      <4>1. g[i] = PopStep(f[i - 1], d, now) /\ i # 0
        BY <3>4
      <4> QED BY <3>2, <4>1, Zenon
    <3> QED BY <3>3, <3>4
  <2>3. Is(g, m + 1)
    BY <2>2
  <2> HIDE DEF Is
  <2> QED BY <2>3
<1>3. h.size \in T
  <2>1. T \in SUBSET Nat
    OBVIOUS
  <2> HIDE DEF T
  <2> QED BY <1>1, <1>2, <2>1, NatSetInduction
<1> DEFINE f == CHOOSE g : Is(g, h.size)
<1>4. Is(f, h.size)
  <2>1. \E g : Is(g, h.size)
    BY <1>3
  <2> QED BY <2>1, Zenon
<1>5. PopDue(h, d, now) = f[h.size]
  BY <1>0
<1> HIDE DEF f
<1>6. f[0] = s
  <2>1. 0 \in 0..h.size
    OBVIOUS
  <2> QED BY <1>4, <2>1, Zenon
<1>7. \A i \in 1..h.size : f[i] = PopStep(f[i - 1], d, now)
  <2>1. \A i \in 1..h.size : i \in 0..h.size /\ i # 0
    OBVIOUS
  <2> QED BY <1>4, <2>1, Zenon
<1> HIDE DEF Is
<1>8. PopFn(f, h, d, now)
  BY <1>5, <1>6, <1>7 DEF PopFn, s
<1> QED BY <1>8

(* Some of the threads that are due have been taken out, in order. *)
Popped(s, Q, d, now, n) ==
  /\ s.fired \in Seq(Threads)
  /\ NoRepeat(s.fired)
  /\ Elems(s.fired) \subseteq Q
  /\ Good(s.heap, d, Q \ Elems(s.fired))
  /\ s.heap.size + Len(s.fired) = n
  /\ \A t \in Elems(s.fired) : /\ d[t] <= now
                               /\ \A u \in Q \ Elems(s.fired) : d[t] <= d[u]
  /\ \A i, j \in 1..Len(s.fired) : i < j => d[s.fired[i]] <= d[s.fired[j]]

LEMMA PopStepGood ==
  ASSUME NEW Q \in SUBSET Threads, NEW d \in [Threads -> Nat], NEW now \in Nat,
         NEW n \in Nat, NEW s, Popped(s, Q, d, now, n)
  PROVE  \/ /\ PopStep(s, d, now) = s
            /\ \A t \in Q \ Elems(s.fired) : d[t] > now
         \/ /\ Popped(PopStep(s, d, now), Q, d, now, n)
            /\ Len(PopStep(s, d, now).fired) = Len(s.fired) + 1
<1> DEFINE w == s.fired
           R == Q \ Elems(w)
           r == s.heap.ptr[Root]
<1>1. /\ w \in Seq(Threads) /\ NoRepeat(w) /\ Elems(w) \subseteq Q
      /\ Good(s.heap, d, R)
      /\ s.heap.size + Len(w) = n
      /\ \A t \in Elems(w) : d[t] <= now /\ \A u \in R : d[t] <= d[u]
      /\ \A i, j \in 1..Len(w) : i < j => d[w[i]] <= d[w[j]]
  BY DEF Popped
<1> HIDE DEF R, w
<1>2. /\ s.heap.size \in Nat
      /\ R = {} <=> r = None
      /\ r # None => r \in R /\ \A t \in R : d[r] <= d[t]
  BY <1>1, RootFirst, Zenon
<1> HIDE DEF r
<1>3. \A t \in R : t \in Q /\ t \in Threads /\ d[t] \in Nat /\ t \notin Elems(w)
  BY DEF R
<1>4. CASE r = None \/ d[r] > now
  <2>1. PopStep(s, d, now) = s
    BY <1>4 DEF PopStep, r
  <2>2. \A t \in R : d[t] > now
    BY <1>2, <1>3, <1>4
  <2> QED BY <2>1, <2>2 DEF R, w
<1>5. CASE ~(r = None \/ d[r] > now)
  <2> DEFINE z == PopStep(s, d, now)
             v == Append(w, r)
             g == heap_delete(s.heap, d, r)
  <2>1. z = [heap |-> g, fired |-> v]
    BY <1>5 DEF PopStep, r, w
  <2>2. r \in R /\ d[r] <= now /\ \A t \in R : d[r] <= d[t]
    BY <1>2, <1>3, <1>5
  <2>3. Good(g, d, R \ {r}) /\ g.size = s.heap.size - 1
    BY <1>1, <2>2, DeleteGood, Zenon
  <2>4. /\ v \in Seq(Threads)
        /\ Elems(v) = Elems(w) \cup {r}
        /\ NoRepeat(v)
    BY <1>1, <1>3, <2>2, AppendElems
  <2>5. /\ Len(v) = Len(w) + 1 /\ Len(w) \in Nat
        /\ \A i \in 1..Len(w) : v[i] = w[i]
        /\ v[Len(w) + 1] = r
    BY <1>1, <1>3, <2>2, SeqAppend, SeqLen
  <2> HIDE DEF g, v, z
  <2>6. z.heap = g /\ z.fired = v
    BY <2>1
  <2>7. R \ {r} = Q \ Elems(v)
    BY <2>4 DEF R
  <2>8. Elems(v) \subseteq Q
    BY <1>1, <1>3, <2>2, <2>4
  <2>9. ASSUME NEW t \in Elems(v)
        PROVE  d[t] <= now /\ \A u \in Q \ Elems(v) : d[t] <= d[u]
    BY <1>1, <2>2, <2>4, <2>7
  <2>10. ASSUME NEW i \in 1..Len(v), NEW j \in 1..Len(v), i < j
         PROVE  d[v[i]] <= d[v[j]]
    <3>1. i \in 1..Len(w) /\ (j \in 1..Len(w) \/ j = Len(w) + 1)
      BY <2>5, <2>10
    <3>2. CASE j \in 1..Len(w)
      BY <1>1, <2>5, <2>10, <3>1, <3>2, Zenon
    <3>3. CASE j = Len(w) + 1
      <4>1. w[i] \in Elems(w)
        BY <3>1 DEF Elems
      <4> QED BY <1>1, <2>2, <2>5, <3>1, <3>3, <4>1
    <3> QED BY <3>1, <3>2, <3>3
  <2>11. g.size + Len(v) = n
    <3> DEFINE p == s.heap.size
               q == Len(w)
    <3>1. /\ p \in Nat /\ q \in Nat /\ p + q = n
          /\ g.size = p - 1 /\ Len(v) = q + 1
      BY <1>1, <1>2, <2>3, <2>5, Zenon
    <3> HIDE DEF p, q
    <3> QED BY <3>1
  <2>12. Popped(z, Q, d, now, n)
    BY <2>3, <2>4, <2>6, <2>7, <2>8, <2>9, <2>10, <2>11, Zenon DEF Popped
  <2>13. Len(z.fired) = Len(s.fired) + 1
    BY <2>5, <2>6 DEF w
  <2> QED BY <2>12, <2>13 DEF z
<1> QED BY <1>4, <1>5

(* _st_vp_check_clock takes out all the threads that are due, earliest     *)
(* first, and leaves a heap of the others.                                 *)
LEMMA PopGood ==
  ASSUME NEW h, NEW d \in [Threads -> Nat], NEW Q, Good(h, d, Q), NEW now \in Nat
  PROVE  LET r == PopDue(h, d, now) IN
         /\ Popped(r, Q, d, now, h.size)
         /\ \A t \in Q \ Elems(r.fired) : d[t] > now
<1> DEFINE n == h.size
<1>1. n \in Nat /\ Q \in SUBSET Threads
  BY RootFirst
<1>2. PICK f : PopFn(f, h, d, now)
  BY <1>1, PopUnfolded
<1>3. /\ f[0] = [heap |-> h, fired |-> <<>>]
      /\ \A i \in 1..n : f[i] = PopStep(f[i - 1], d, now)
      /\ PopDue(h, d, now) = f[n]
  BY <1>2 DEF PopFn
<1> DEFINE Done(i) == /\ PopStep(f[i], d, now) = f[i]
                      /\ \A t \in Q \ Elems(f[i].fired) : d[t] > now
           P(i) == /\ Popped(f[i], Q, d, now, n)
                   /\ Len(f[i].fired) = i \/ Done(i)
           T == {i \in Nat : i <= n => P(i)}
<1>4. 0 \in T
  <2>1. f[0].heap = h /\ f[0].fired = <<>>
    BY <1>3
  <2>2. Elems(<<>>) = {} /\ NoRepeat(<<>>) /\ <<>> \in Seq(Threads) /\ Len(<<>>) = 0
    BY DEF Elems, NoRepeat
  <2>3. Q \ {} = Q
    OBVIOUS
  <2>4. Popped(f[0], Q, d, now, n)
    <3>1. \A i \in 1..0 : FALSE
      OBVIOUS
    <3>2. h.size + 0 = n
      BY <1>1
    <3> QED BY <2>1, <2>2, <2>3, <3>1, <3>2, Zenon DEF Popped
  <2>5. P(0)
    BY <2>1, <2>2, <2>4
  <2> HIDE DEF P
  <2> QED BY <2>5
<1>5. ASSUME NEW i \in T
      PROVE  i + 1 \in T
  <2> SUFFICES ASSUME i + 1 <= n PROVE P(i + 1)
    <3> HIDE DEF P
    <3> QED OBVIOUS
  <2>1. f[i + 1] = PopStep(f[i], d, now)
    <3>1. i + 1 \in 1..n /\ (i + 1) - 1 = i
      BY <1>1
    <3> QED BY <1>3, <3>1
  <2>2. P(i)
    <3>1. i <= n /\ i \in T
      BY <1>1
    <3> HIDE DEF P
    <3> QED BY <3>1
  <2>3. CASE Done(i)
    BY <2>1, <2>2, <2>3
  <2>4. CASE ~Done(i)
    <3>1. /\ Popped(PopStep(f[i], d, now), Q, d, now, n)
          /\ Len(PopStep(f[i], d, now).fired) = Len(f[i].fired) + 1
      <4> DEFINE s == f[i]
      <4>1. /\ Popped(s, Q, d, now, n)
            /\ ~(/\ PopStep(s, d, now) = s
                 /\ \A t \in Q \ Elems(s.fired) : d[t] > now)
        BY <2>2, <2>4
      <4> HIDE DEF s, n
      <4>2. \/ /\ PopStep(s, d, now) = s
               /\ \A t \in Q \ Elems(s.fired) : d[t] > now
            \/ /\ Popped(PopStep(s, d, now), Q, d, now, n)
               /\ Len(PopStep(s, d, now).fired) = Len(s.fired) + 1
        BY <1>1, <4>1, PopStepGood, SMTT(60)
      <4>3. /\ Popped(PopStep(s, d, now), Q, d, now, n)
            /\ Len(PopStep(s, d, now).fired) = Len(s.fired) + 1
        BY <4>1, <4>2, Zenon
      <4> QED BY <4>3 DEF s
    <3>2. Len(f[i].fired) = i
      BY <2>2, <2>4
    <3> QED BY <2>1, <3>1, <3>2
  <2> QED BY <2>3, <2>4
<1>6. P(n)
  <2>1. T \in SUBSET Nat
    OBVIOUS
  <2>2. T = Nat
    <3> HIDE DEF T
    <3> QED BY <1>4, <1>5, <2>1, NatSetInduction
  <2>3. n \in T /\ n <= n
    BY <1>1, <2>2
  <2> HIDE DEF P
  <2> QED BY <2>3
<1>7. CASE Done(n)
  BY <1>3, <1>6, <1>7
<1>8. CASE Len(f[n].fired) = n
  <2> DEFINE R == Q \ Elems(f[n].fired)
  <2>1. Good(f[n].heap, d, R) /\ f[n].heap.size + n = n
    BY <1>6, <1>8 DEF Popped
  <2> HIDE DEF R
  <2>2. f[n].heap.size \in Nat /\ (R = {} <=> f[n].heap.size = 0)
    BY <2>1, RootFirst
  <2>3. R = {}
    BY <1>1, <2>1, <2>2
  <2> QED BY <1>3, <1>6, <2>3 DEF R
<1> QED BY <1>6, <1>7, <1>8

-----------------------------------------------------------------------------
(* The powers of two that bound the integer types. *)
LEMMA Powers ==
  ASSUME NEW n \in Nat
  PROVE  /\ 2^n \in Nat
         /\ n # 0 => 2^(n - 1) \in Nat \ {0} /\ 2^(n - 1) <= 2^n
<1>1. ASSUME NEW k \in Nat
      PROVE  /\ IsFiniteSet(SUBSET (1..k))
             /\ Cardinality(SUBSET (1..k)) = 2^k
             /\ 2^k \in Nat \ {0}
  <2>1. IsFiniteSet(1..k) /\ Cardinality(1..k) = IF 1 > k THEN 0 ELSE k - 1 + 1
    BY FS_Interval
  <2>2. Cardinality(1..k) = k
    BY <2>1
  <2>3. IsFiniteSet(SUBSET (1..k)) /\ Cardinality(SUBSET (1..k)) = 2^k
    BY <2>1, <2>2, FS_SUBSET, Zenon
  <2>4. SUBSET (1..k) # {}
    BY Zenon
  <2> QED BY <2>3, <2>4, FS_CardinalityType, FS_EmptySet, Zenon
<1>2. ASSUME n # 0
      PROVE  2^(n - 1) \in Nat \ {0} /\ 2^(n - 1) <= 2^n
  <2> DEFINE A == SUBSET (1..(n - 1))
             B == SUBSET (1..n)
  <2>1. n - 1 \in Nat
    BY <1>2
  <2>2. A \in SUBSET B
    OBVIOUS
  <2>3. IsFiniteSet(B) /\ Cardinality(A) = 2^(n - 1) /\ Cardinality(B) = 2^n
    BY <1>1, <2>1, Zenon
  <2> HIDE DEF A, B
  <2>4. Cardinality(A) <= Cardinality(B)
    BY <2>2, <2>3, FS_Subset
  <2> QED BY <1>1, <2>1, <2>3, <2>4, Zenon
<1>3. 2^n \in Nat
  BY <1>1, Zenon
<1> QED BY <1>2, <1>3, Zenon

(* No due time wraps around. *)
LEMMA DueTime ==
  ASSUME NEW c \in Clocks, NEW w \in Timeouts
  PROVE  c \in Nat /\ w \in Nat /\ (c + w) % 2^UtimeBits = c + w
<1>1. c \in Nat /\ w \in Nat /\ c + w < 2^UtimeBits /\ UtimeBits \in Nat
  BY HeapAssumption
<1> DEFINE m == 2^UtimeBits
<1>2. m \in Nat
  BY <1>1, Powers
<1>3. c + w < m
  BY <1>1
<1> HIDE DEF m
<1>4. (c + w) % m = c + w
  BY <1>1, <1>2, <1>3
<1> QED BY <1>1, <1>4 DEF m

(* The due times of threads outside do not matter. *)
LEMMA GoodSame ==
  ASSUME NEW h, NEW d \in [Threads -> Nat], NEW e \in [Threads -> Nat], NEW Q,
         Good(h, d, Q), \A t \in Q : d[t] = e[t]
  PROVE  Good(h, e, Q)
<1> DEFINE n == h.size
<1>1. h \in HeapType /\ n \in Nat
  BY HeapFields DEF Good
<1>2. PICK a \in Layout(n) : /\ Laid(h.ptr, h.index, a, n)
                             /\ Ordered(a, d, n)
                             /\ On(a, n) = Q
  BY DEF Good
<1>3. Ordered(a, e, n)
  <2> HIDE DEF n
  <2> SUFFICES ASSUME NEW i \in 2..n PROVE e[a[i \div 2]] <= e[a[i]]
    BY DEF Ordered
  <2>1. i \in 1..n /\ i \div 2 \in 1..n
    BY <1>1
  <2>2. a[i] \in Q /\ a[i \div 2] \in Q
    BY <1>1, <1>2, <2>1, OnFacts
  <2>3. d[a[i \div 2]] <= d[a[i]]
    BY <1>2 DEF Ordered
  <2> QED BY <2>2, <2>3
<1> QED BY <1>1, <1>2, <1>3 DEF Good

(* The inductive invariant: the threads flagged ON_SLEEPQ are laid out as  *)
(* a heap.                                                                 *)
HeapInv ==
  /\ due \in [Threads -> Nat]
  /\ clock \in Clocks
  /\ fired \in Seq(Threads)
  /\ Good(heap, due, onq)

LEMMA HeapInit == Init => HeapInv
<1> SUFFICES ASSUME Init PROVE HeapInv
  OBVIOUS
<1> USE DEF Init, EmptyHeap
<1>1. heap \in HeapType /\ heap.size = 0 /\ heap.ptr \in PtrType /\ heap.index \in IndexType
  BY DEF HeapType, PtrType, IndexType
<1> DEFINE a == [i \in 1..0 |-> None]
<1>2. \A i \in 1..0 : FALSE
  OBVIOUS
<1>3. a \in Layout(0)
  BY <1>2 DEF Layout
<1>4. On(a, 0) = onq
  BY <1>2 DEF On
<1>5. Ordered(a, due, 0)
  BY DEF Ordered
<1>6. Laid(heap.ptr, heap.index, a, 0)
  <2>1. \A i \in 1..(2 * 0 + 1) : i = 1
    OBVIOUS
  <2>2. heap.ptr[Root] = None
    BY PlaceFacts
  <2>3. \A i \in 1..(2 * 0 + 1) : heap.ptr[Spot(a, i)] = Slot(a, 0, i)
    BY <2>1, <2>2 DEF Spot, Slot
  <2> QED BY <1>1, <1>2, <2>3 DEF Laid
<1>7. Good(heap, due, onq)
  <2> HIDE DEF a, Init, EmptyHeap
  <2> QED BY <1>1, <1>3, <1>4, <1>5, <1>6 DEF Good
<1>8. due \in [Threads -> Nat] /\ fired \in Seq(Threads) /\ onq = {} /\ clock \in Clocks
  OBVIOUS
<1> QED BY <1>7, <1>8 DEF HeapInv

LEMMA AddGood ==
  ASSUME HeapInv, NEW t \in Threads, NEW timeout \in Timeouts,
         _st_add_sleep_q(t, timeout)
  PROVE  HeapInv' /\ due'[t] = clock + timeout
<1>1. /\ due \in [Threads -> Nat] /\ clock \in Clocks /\ Good(heap, due, onq)
      /\ t \notin onq /\ onq' = onq \cup {t}
      /\ fired' = <<>> /\ clock' = clock
  BY DEF HeapInv, _st_add_sleep_q
<1>2. /\ (clock + timeout) % 2^UtimeBits = clock + timeout
      /\ clock + timeout \in Nat
  BY <1>1, DueTime
<1>3. due' = [due EXCEPT ![t] = clock + timeout]
  BY <1>2, Zenon DEF _st_add_sleep_q
<1>4. /\ due' \in [Threads -> Nat]
      /\ due'[t] = clock + timeout
      /\ \A u \in Threads : u # t => due'[u] = due[u]
  BY <1>1, <1>2, <1>3
<1>5. onq \subseteq Threads
  BY <1>1, RootFirst, Zenon
<1>6. Good(heap, due', onq)
  <2>1. \A u \in onq : due[u] = due'[u]
    BY <1>1, <1>4, <1>5
  <2> QED BY <1>1, <1>4, <2>1, GoodSame
<1>7. heap' = heap_insert([ptr |-> heap.ptr,
                           index |-> [heap.index EXCEPT ![t] = heap.size + 1],
                           size |-> heap.size + 1], due', t).heap
  BY DEF _st_add_sleep_q
<1>8. Good(heap', due', onq')
  BY <1>1, <1>4, <1>6, <1>7, InsertGood, Zenon
<1>9. fired' \in Seq(Threads)
  BY <1>1
<1> QED BY <1>1, <1>4, <1>8, <1>9 DEF HeapInv

LEMMA DelGood ==
  ASSUME HeapInv, NEW t \in Threads, _st_del_sleep_q(t)
  PROVE  HeapInv' /\ \A u \in onq' : due'[u] = due[u]
<1>1. /\ due \in [Threads -> Nat] /\ clock \in Clocks /\ Good(heap, due, onq)
      /\ t \in onq /\ onq' = onq \ {t} /\ heap' = heap_delete(heap, due, t)
      /\ due' = [due EXCEPT ![t] = 0]
      /\ fired' = <<>> /\ clock' = clock
  BY DEF HeapInv, _st_del_sleep_q
<1>2. onq \subseteq Threads
  BY <1>1, RootFirst, Zenon
<1>3. /\ due' \in [Threads -> Nat]
      /\ \A u \in onq' : due[u] = due'[u]
  BY <1>1, <1>2
<1>4. Good(heap', due, onq')
  BY <1>1, DeleteGood, Zenon
<1>5. Good(heap', due', onq')
  BY <1>1, <1>3, <1>4, GoodSame, Zenon
<1>6. fired' \in Seq(Threads)
  BY <1>1
<1> QED BY <1>1, <1>3, <1>5, <1>6 DEF HeapInv

LEMMA ClockGood ==
  ASSUME HeapInv, NEW now \in Clocks, _st_vp_check_clock(now)
  PROVE  /\ HeapInv'
         /\ clock' = now
         /\ onq' = onq \ Elems(fired')
         /\ \A u \in onq' : due'[u] = due[u] /\ due[u] > now
         /\ Popped([heap |-> heap', fired |-> fired'], onq, due, now, heap.size)
<1>0. now \in Nat
  BY HeapAssumption
<1> DEFINE r == PopDue(heap, due, now)
<1>1. /\ due \in [Threads -> Nat] /\ Good(heap, due, onq)
      /\ clock' = now /\ heap' = r.heap /\ fired' = r.fired
      /\ onq' = onq \ Elems(r.fired)
      /\ due' = [t \in Threads |-> IF t \in Elems(r.fired) THEN 0 ELSE due[t]]
  BY DEF HeapInv, _st_vp_check_clock
<1>2. /\ Popped(r, onq, due, now, heap.size)
      /\ \A t \in onq \ Elems(r.fired) : due[t] > now
  BY <1>0, <1>1, PopGood
<1> HIDE DEF r
<1>3. /\ r.fired \in Seq(Threads)
      /\ Good(r.heap, due, onq \ Elems(r.fired))
  BY <1>2 DEF Popped
<1>5. onq' = onq \ Elems(fired') /\ fired' \in Seq(Threads)
  BY <1>1, <1>3
<1>6. onq \subseteq Threads
  BY <1>1, RootFirst, Zenon
<1>7. /\ due' \in [Threads -> Nat]
      /\ \A u \in onq' : due[u] = due'[u] /\ due[u] > now
  BY <1>1, <1>2, <1>5, <1>6
<1>8. Good(heap', due, onq')
  BY <1>1, <1>3
<1>9. Good(heap', due', onq')
  BY <1>1, <1>7, <1>8, GoodSame
<1>10. HeapInv'
  BY <1>0, <1>1, <1>5, <1>7, <1>9 DEF HeapInv
<1>11. Popped([heap |-> heap', fired |-> fired'], onq, due, now, heap.size)
  BY <1>1, <1>2 DEF Popped
<1> QED BY <1>1, <1>5, <1>7, <1>10, <1>11, Zenon

LEMMA HeapStep == HeapInv /\ [Next]_vars => HeapInv'
<1> SUFFICES ASSUME HeapInv, [Next]_vars PROVE HeapInv'
  OBVIOUS
<1>1. ASSUME NEW t \in Threads, _st_del_sleep_q(t)
      PROVE  HeapInv'
  BY <1>1, DelGood
<1>2. ASSUME NEW t \in Threads, NEW timeout \in Timeouts, _st_add_sleep_q(t, timeout)
      PROVE  HeapInv'
  BY <1>2, AddGood
<1>3. ASSUME NEW now \in Clocks, _st_vp_check_clock(now)
      PROVE  HeapInv'
  BY <1>3, ClockGood
<1>4. CASE UNCHANGED vars
  BY <1>4 DEF vars, HeapInv
<1> QED BY <1>1, <1>2, <1>3, <1>4, Zenon DEF Next

(* The threads flagged ON_SLEEPQ, and no others, are laid out as a heap,   *)
(* whatever sequence of insertions, deletions and readings of the clock.   *)
THEOREM HeapInvariant == Spec => []HeapInv
BY HeapInit, HeapStep, PTL DEF Spec

-----------------------------------------------------------------------------
LEMMA Division ==
  ASSUME NEW k \in Nat \ {0}, NEW m \in Nat
  PROVE  /\ m \div k \in Nat
         /\ (m \div k) * k <= m
         /\ m < (m \div k + 1) * k
OBVIOUS

(* The conversion to int in the dispatch functions loses nothing of what   *)
(* is left until a due time that is less than 2^(IntBits-1) milliseconds   *)
(* away.                                                                   *)
LEMMA LeftFits ==
  ASSUME NEW m \in Nat, m < Milli * 2^(IntBits - 1)
  PROVE  ToInt(m \div Milli) = m \div Milli
<1>1. Milli \in Nat \ {0} /\ IntBits \in Nat /\ IntBits # 0
  BY HeapAssumption
<1> DEFINE q == m \div Milli
           b == 2^(IntBits - 1)
           e == 2^IntBits
<1>2. q \in Nat /\ q * Milli <= m
  BY <1>1, Division
<1>3. b \in Nat /\ e \in Nat /\ b <= e
  BY <1>1, Powers
<1>4. m < Milli * b
  OBVIOUS
<1>5. ToInt(q) = IF q % e < b THEN q % e ELSE (q % e) - e
  BY DEF ToInt
<1> HIDE DEF q, b, e
<1>6. q < b
  <2> SUFFICES ASSUME b <= q PROVE FALSE
    BY <1>2, <1>3
  <2>1. b * Milli <= q * Milli
    BY <1>1, <1>2, <1>3
  <2> QED BY <1>1, <1>2, <1>3, <1>4, <2>1
<1>7. q % e = q
  BY <1>2, <1>3, <1>6
<1> QED BY <1>5, <1>6, <1>7 DEF q

(* The idle thread wakes up in time for everybody. *)
LEMMA InTime == HeapInv => WakesInTime
<1> SUFFICES ASSUME HeapInv PROVE WakesInTime
  OBVIOUS
<1> DEFINE r == heap.ptr[Root]
           D == DispatchTimeout
           b == Milli * 2^(IntBits - 1)
<1>1. due \in [Threads -> Nat] /\ clock \in Nat
  BY HeapAssumption DEF HeapInv
<1>2. /\ onq \subseteq Threads
      /\ onq = {} <=> r = None
      /\ r # None => r \in onq /\ \A t \in onq : due[r] <= due[t]
  BY RootFirst, Zenon DEF HeapInv
<1>3. Milli \in Nat \ {0} /\ b \in Nat \ {0}
  <2> DEFINE e == 2^(IntBits - 1)
  <2>1. Milli \in Nat \ {0} /\ e \in Nat \ {0}
    BY HeapAssumption, Powers
  <2> HIDE DEF e
  <2>2. Milli * e \in Nat \ {0}
    BY <2>1
  <2> QED BY <2>1, <2>2 DEF e
<1>4. D = IF r = None THEN -1
          ELSE ToInt((IF due[r] <= clock THEN 0 ELSE due[r] - clock) \div Milli)
  BY DEF DispatchTimeout
<1> HIDE DEF r
<1>5. onq = {} => D = -1
  BY <1>2, <1>4
<1>6. ASSUME Fits PROVE Punctual
  <2>1. PICK u \in onq : due[u] < clock + b
    BY <1>6 DEF Fits
  <2>2. r # None /\ r \in onq /\ \A t \in onq : due[r] <= due[t]
    BY <1>2, <2>1
  <2> DEFINE m == IF due[r] <= clock THEN 0 ELSE due[r] - clock
             q == m \div Milli
  <2>3. due[r] \in Nat /\ \A t \in onq : due[t] \in Nat
    BY <1>1, <1>2, <2>2
  <2>4. due[r] < clock + b /\ 0 < b
    <3>1. due[r] < clock + b
      <4> HIDE DEF b
      <4> QED BY <1>1, <1>3, <2>1, <2>2, <2>3
    <3>2. 0 < b
      BY <1>3
    <3> QED BY <3>1, <3>2
  <2>5. m \in Nat /\ m < b /\ (m = 0 \/ clock + m = due[r]) /\ due[r] <= clock + m
    <3> HIDE DEF b
    <3> QED BY <1>1, <1>3, <2>3, <2>4
  <2>6. D = ToInt(q)
    BY <1>4, <2>2
  <2> HIDE DEF m
  <2>7. D = q
    BY <2>5, <2>6, LeftFits
  <2>8. q \in Nat /\ q * Milli <= m /\ m < (q + 1) * Milli
    BY <1>3, <2>5, Division
  <2> HIDE DEF q, D
  <2>9. D >= 0
    BY <2>7, <2>8
  <2> DEFINE x == q * Milli
             y == (q + 1) * Milli
  <2>10. x \in Nat /\ y \in Nat /\ x <= m /\ m < y
    BY <1>3, <2>8
  <2>11. D * Milli = x /\ (D + 1) * Milli = y
    BY <2>7
  <2> HIDE DEF x, y
  <2>12. ASSUME NEW t \in onq, due[t] > clock
         PROVE  clock + D * Milli <= due[t]
    BY <1>1, <2>2, <2>3, <2>5, <2>10, <2>11, <2>12
  <2>13. due[r] < clock + (D + 1) * Milli
    BY <1>1, <2>3, <2>5, <2>10, <2>11
  <2> QED BY <2>2, <2>9, <2>12, <2>13, Zenon DEF Punctual, D
<1> QED BY <1>5, <1>6, Zenon DEF WakesInTime, D

LEMMA InvShape == HeapInv => HeapShape
<1> SUFFICES ASSUME HeapInv PROVE HeapShape
  OBVIOUS
<1> DEFINE n == heap.size
<1>1. /\ heap \in HeapType /\ due \in [Threads -> Nat] /\ clock \in Clocks
      /\ fired \in Seq(Threads)
  BY DEF HeapInv, Good
<1>2. PICK a \in Layout(n) : /\ Laid(heap.ptr, heap.index, a, n)
                             /\ Ordered(a, due, n)
                             /\ On(a, n) = onq
  BY DEF HeapInv, Good
<1>3. /\ heap.ptr \in [Places -> Threads \cup {None}]
      /\ heap.index \in [Threads -> Nat] /\ n \in Nat
  BY <1>1, HeapFields DEF PtrType, IndexType
<1> HIDE DEF n
<1>4. onq \subseteq Threads
  BY <1>2, <1>3, OnFacts
<1>5. TypeOK
  BY <1>1, <1>3, <1>4 DEF TypeOK, n
<1>6. ASSUME NEW i \in 1..n
      PROVE  /\ At(i) = a[i]
             /\ a[i] \in onq
             /\ heap.index[a[i]] = i
             /\ heap.ptr[Left(a[i])] = Slot(a, n, 2 * i)
             /\ heap.ptr[Right(a[i])] = Slot(a, n, 2 * i + 1)
  <2>1. i \in 1..(2 * n + 1)
    BY <1>3
  <2>2. PlaceOf(heap, i) = Spot(a, i)
    BY <1>2, <1>3, <2>1, PlaceFound
  <2> QED BY <1>2, <1>3, <2>2, Reading DEF At
<1>7. onq = {At(i) : i \in 1..n}
  <2>1. onq = {a[i] : i \in 1..n}
    BY <1>2 DEF On
  <2> QED BY <1>6, <2>1
<1>8. ASSUME NEW i \in 1..n
      PROVE  /\ heap.index[At(i)] = i
             /\ 2 * i > n => heap.ptr[Left(At(i))] = None
             /\ 2 * i + 1 > n => heap.ptr[Right(At(i))] = None
             /\ i > 1 => due[At(i \div 2)] <= due[At(i)]
  <2>1. 2 * i > n => heap.ptr[Left(At(i))] = None
    BY <1>3, <1>6 DEF Slot
  <2>2. 2 * i + 1 > n => heap.ptr[Right(At(i))] = None
    BY <1>3, <1>6 DEF Slot
  <2>3. ASSUME i > 1 PROVE due[At(i \div 2)] <= due[At(i)]
    <3>1. i \in 2..n /\ i \div 2 \in 1..n
      BY <1>3, <2>3
    <3>2. due[a[i \div 2]] <= due[a[i]]
      BY <1>2, <3>1 DEF Ordered
    <3> QED BY <1>6, <3>1, <3>2
  <2> QED BY <1>6, <2>1, <2>2, <2>3
<1>9. WakesInTime
  BY InTime
<1> HIDE DEF HeapInv
<1> QED BY <1>5, <1>7, <1>8, <1>9 DEF HeapShape, n

(* docs/timeout_heap.txt, for any number of threads: after any sequence of *)
(* insertions, deletions and readings of the clock the threads flagged     *)
(* ON_SLEEPQ are a balanced, left-adjusted tree in heap order, each with   *)
(* its own position in heap_index, and the idle thread, which looks at the *)
(* root only, wakes up in time for all of them, at every moment at which   *)
(* what is left until the first due time fits an int of milliseconds.      *)
THEOREM HeapCorrect == Spec => []HeapShape
BY HeapInvariant, InvShape, PTL
-----------------------------------------------------------------------------
(* No due time is further away than a timeout. *)
Near == \A t \in onq : \E w \in Timeouts : due[t] <= clock + w

LEMMA NearStep ==
  ASSUME HeapInv, Near, [Next]_vars, [clock <= clock']_vars
  PROVE  Near'
<1>0. /\ due \in [Threads -> Nat] /\ clock \in Nat /\ onq \subseteq Threads
      /\ Timeouts \subseteq Nat
  <2>1. onq \subseteq Threads
    BY RootFirst, Zenon DEF HeapInv
  <2> QED BY <2>1, HeapAssumption DEF HeapInv
<1>1. ASSUME NEW t \in Threads, _st_del_sleep_q(t)
      PROVE  Near'
  <2>1. onq' \subseteq onq /\ clock' = clock
    BY <1>1 DEF _st_del_sleep_q
  <2>2. \A u \in onq' : due'[u] = due[u]
    BY <1>1, DelGood
  <2> QED BY <2>1, <2>2 DEF Near
<1>2. ASSUME NEW t \in Threads, NEW timeout \in Timeouts, _st_add_sleep_q(t, timeout)
      PROVE  Near'
  <2>1. due'[t] = clock + timeout /\ clock + timeout \in Nat
    BY <1>0, <1>2, AddGood
  <2>2. onq' = onq \cup {t} /\ clock' = clock
    BY <1>2 DEF _st_add_sleep_q
  <2>3. \A u \in Threads : u # t => due'[u] = due[u]
    BY <1>0, <1>2 DEF _st_add_sleep_q
  <2>4. ASSUME NEW u \in onq' PROVE \E w \in Timeouts : due'[u] <= clock' + w
    <3>1. CASE u = t
      BY <2>1, <2>2, <3>1
    <3>2. CASE u # t
      BY <1>0, <2>2, <2>3, <3>2 DEF Near
    <3> QED BY <3>1, <3>2
  <2> QED BY <2>4 DEF Near
<1>3. ASSUME NEW now \in Clocks, _st_vp_check_clock(now)
      PROVE  Near'
  <2>1. /\ clock' = now /\ now \in Nat /\ onq' \subseteq onq
        /\ \A u \in onq' : due'[u] = due[u]
    BY <1>3, ClockGood, HeapAssumption
  <2>2. clock <= clock'
    BY <1>0, <2>1 DEF vars
  <2>3. ASSUME NEW u \in onq' PROVE \E w \in Timeouts : due'[u] <= clock' + w
    <3>1. PICK w \in Timeouts : due[u] <= clock + w
      BY <2>1 DEF Near
    <3>2. due[u] \in Nat /\ w \in Nat
      BY <1>0, <2>1
    <3> QED BY <1>0, <2>1, <2>2, <3>1, <3>2
  <2> QED BY <2>3 DEF Near
<1>4. CASE UNCHANGED vars
  BY <1>4 DEF vars, Near
<1> QED BY <1>1, <1>2, <1>3, <1>4, Zenon DEF Next

(* Every timeout fits an int of milliseconds: 2^31 of them are 24 days. *)
ShortTimeouts == \A w \in Timeouts : w < Milli * 2^(IntBits - 1)

LEMMA NearFits == HeapInv /\ Near /\ ShortTimeouts => (onq # {} => Punctual)
<1> SUFFICES ASSUME HeapInv, Near, ShortTimeouts, onq # {} PROVE Punctual
  OBVIOUS
<1> DEFINE b == Milli * 2^(IntBits - 1)
<1>1. PICK t \in onq : TRUE
  OBVIOUS
<1>2. PICK w \in Timeouts : due[t] <= clock + w
  BY DEF Near
<1>3. due[t] \in Nat /\ clock \in Nat /\ w \in Nat
  <2>1. onq \subseteq Threads
    BY RootFirst, Zenon DEF HeapInv
  <2> QED BY <2>1, HeapAssumption DEF HeapInv
<1>4. w < b
  BY DEF ShortTimeouts
<1>5. b \in Int
  <2> DEFINE e == 2^(IntBits - 1)
  <2>1. Milli \in Nat /\ e \in Nat
    BY HeapAssumption, Powers
  <2> HIDE DEF e
  <2>2. Milli * e \in Int
    BY <2>1
  <2> QED BY <2>2 DEF e
<1>6. due[t] < clock + b
  <2> HIDE DEF b
  <2> QED BY <1>2, <1>3, <1>4, <1>5
<1>7. Fits
  BY <1>6, Zenon DEF Fits
<1> QED BY <1>7, InTime, Zenon DEF WakesInTime

(* While the clock is not set back, timeouts that fit an int of            *)
(* milliseconds are enough, however large the readings of the clock: the   *)
(* idle thread always wakes up in time.                                    *)
THEOREM SteadyClock ==
  ASSUME ShortTimeouts
  PROVE  Spec /\ [][clock <= clock']_vars => [](onq # {} => Punctual)
<1>1. Init => Near
  BY DEF Init, Near
<1>2. HeapInv /\ Near /\ [Next]_vars /\ [clock <= clock']_vars => Near'
  BY NearStep
<1>3. HeapInv /\ Near => (onq # {} => Punctual)
  BY NearFits
<1> QED BY HeapInvariant, <1>1, <1>2, <1>3, PTL DEF Spec
-----------------------------------------------------------------------------
(* No thread fires twice. *)
LEMMA FiredLength ==
  ASSUME NEW w \in Seq(Threads), NoRepeat(w)
  PROVE  Cardinality(Elems(w)) = Len(w)
<1> DEFINE n == Len(w)
           f == [i \in 1..n |-> w[i]]
<1>1. n \in Nat
  BY SeqLen
<1>2. IsFiniteSet(1..n) /\ Cardinality(1..n) = IF 1 > n THEN 0 ELSE n - 1 + 1
  BY <1>1, FS_Interval
<1>3. Cardinality(1..n) = n
  BY <1>1, <1>2
<1>4. f \in Bijection(1..n, Elems(w))
  BY DEF Bijection, Injection, Surjection, IsInjective, Elems, NoRepeat
<1>5. ExistsBijection(1..n, Elems(w))
  BY <1>4 DEF ExistsBijection
<1> QED BY <1>2, <1>3, <1>5, FS_Bijection

(* The count of a set is the same in the module of the sleep queue. *)
LEMMA SameCount ==
  ASSUME NEW S
  PROVE  Abstract!Cardinality(S) = Cardinality(S)
BY DEF Cardinality, Abstract!Cardinality

(* What the sleep queue holds. *)
queue == [t \in onq |-> due[t]]

LEMMA AddRefines ==
  ASSUME HeapInv, NEW t \in Threads, NEW timeout \in Timeouts,
         _st_add_sleep_q(t, timeout)
  PROVE  Abstract!Add(t, timeout)
<1>1. /\ t \notin onq /\ onq' = onq \cup {t} /\ fired' = <<>> /\ clock' = clock
      /\ due \in [Threads -> Nat]
      /\ due' = [due EXCEPT ![t] = (clock + timeout) % 2^UtimeBits]
  BY DEF _st_add_sleep_q, HeapInv
<1>2. due'[t] = clock + timeout
  BY AddGood
<1>3. onq \subseteq Threads
  BY RootFirst, Zenon DEF HeapInv
<1>4. \A u \in onq : u # t /\ due'[u] = due[u]
  BY <1>1, <1>3
<1>5. queue' = [u \in DOMAIN queue \cup {t} |->
                  IF u = t THEN clock + timeout ELSE queue[u]]
  BY <1>1, <1>2, <1>4 DEF queue
<1>6. t \notin DOMAIN queue
  BY <1>1 DEF queue
<1> QED BY <1>1, <1>5, <1>6 DEF Abstract!Add, queue

LEMMA DelRefines ==
  ASSUME HeapInv, NEW t \in Threads, _st_del_sleep_q(t)
  PROVE  Abstract!Remove(t)
<1>1. t \in onq /\ onq' = onq \ {t} /\ fired' = <<>> /\ clock' = clock
  BY DEF _st_del_sleep_q
<1>2. \A u \in onq' : due'[u] = due[u]
  BY DelGood
<1>3. queue' = [u \in DOMAIN queue \ {t} |-> queue[u]]
  BY <1>1, <1>2 DEF queue
<1> QED BY <1>1, <1>3 DEF Abstract!Remove, queue

LEMMA ClockRefines ==
  ASSUME HeapInv, NEW now \in Clocks, _st_vp_check_clock(now)
  PROVE  Abstract!Expire(now)
<1> DEFINE w == fired'
           n == Len(w)
           S == {t \in onq : due[t] <= now}
<1>0. now \in Nat
  BY HeapAssumption
<1>1. /\ clock' = now /\ onq' = onq \ Elems(w)
      /\ \A u \in onq' : due'[u] = due[u] /\ due[u] > now
      /\ Popped([heap |-> heap', fired |-> w], onq, due, now, heap.size)
  BY ClockGood
<1>2. /\ w \in Seq(Threads) /\ NoRepeat(w) /\ Elems(w) \subseteq onq
      /\ \A t \in Elems(w) : due[t] <= now
      /\ \A i, j \in 1..n : i < j => due[w[i]] <= due[w[j]]
  BY <1>1 DEF Popped
<1>3. due \in [Threads -> Nat] /\ onq \subseteq Threads
  BY RootFirst, Zenon DEF HeapInv
<1>4. S = Elems(w)
  BY <1>0, <1>1, <1>2, <1>3
<1>5. Cardinality(S) = n /\ n \in Nat /\ w \in [1..n -> Threads]
  BY <1>2, <1>4, FiredLength, SeqLen, ZenonT(60)
<1>6. /\ w \in [1..n -> S] /\ S = {w[i] : i \in 1..n}
      /\ \A i, j \in 1..n : i < j => w[i] # w[j]
      /\ \A i \in 1..n : w[i] \in onq
  <2> HIDE DEF S, n, w
  <2> QED BY <1>2, <1>4, <1>5 DEF Elems, NoRepeat, n
<1>7. \A u \in onq : queue[u] = due[u]
  BY DEF queue
<1>8. w \in Abstract!Arrangements(S, queue)
  <2>1. \A i, j \in 1..n : i < j => w[i] # w[j] /\ queue[w[i]] <= queue[w[j]]
    BY <1>2, <1>6, <1>7, Zenon
  <2> DEFINE c == Abstract!Cardinality(S)
  <2> HIDE DEF S, n, w
  <2>2. c = n
    BY <1>5, SameCount, ZenonT(60)
  <2>3. /\ w \in [1..c -> S] /\ S = {w[i] : i \in 1..c}
        /\ \A i, j \in 1..c : i < j => w[i] # w[j] /\ queue[w[i]] <= queue[w[j]]
    BY <1>6, <2>1, <2>2, ZenonT(60)
  <2> QED BY <2>3, ZenonT(60) DEF Abstract!Arrangements
<1>9. DOMAIN queue = onq /\ S = {t \in DOMAIN queue : queue[t] <= now}
  BY DEF queue
<1>10. queue' = [u \in DOMAIN queue \ S |-> queue[u]]
  BY <1>1, <1>4, <1>7, <1>9 DEF queue
<1>11. /\ clock' = now
       /\ fired' \in Abstract!Arrangements({t \in DOMAIN queue : queue[t] <= now}, queue)
       /\ queue' = [u \in DOMAIN queue \ {t \in DOMAIN queue : queue[t] <= now} |->
                      queue[u]]
  <2> HIDE DEF S
  <2> QED BY <1>1, <1>8, <1>9, <1>10, Zenon
<1> QED BY <1>11, Zenon DEF Abstract!Expire, queue

(* The heap is the sleep queue the scheduler relies on: each insertion,    *)
(* each deletion and each reading of the clock is one step of it.  So a    *)
(* reading of the clock finds all threads that are due, earliest first,    *)
(* and taking a thread out loses no other thread's timeout.                *)
THEOREM HeapRefines == Spec => ImplementsSleepQueue
<1>1. Init => Abstract!Init
  BY DEF Init, Abstract!Init
<1>2. ASSUME HeapInv, [Next]_vars
      PROVE  [Abstract!Next]_<<queue, clock, fired>>
  <2>1. ASSUME NEW t \in Threads, _st_del_sleep_q(t)
        PROVE  Abstract!Next
    BY <1>2, <2>1, DelRefines DEF Abstract!Next
  <2>2. ASSUME NEW t \in Threads, NEW timeout \in Timeouts, _st_add_sleep_q(t, timeout)
        PROVE  Abstract!Next
    BY <1>2, <2>2, AddRefines DEF Abstract!Next
  <2>3. ASSUME NEW now \in Clocks, _st_vp_check_clock(now)
        PROVE  Abstract!Next
    BY <1>2, <2>3, ClockRefines DEF Abstract!Next
  <2>4. CASE UNCHANGED vars
    BY <2>4 DEF vars, queue
  <2> QED BY <1>2, <2>1, <2>2, <2>3, <2>4, Zenon DEF Next
<1>3. HeapInv /\ [Next]_vars => [Abstract!Next]_<<[t \in onq |-> due[t]], clock, fired>>
  BY <1>2 DEF queue
<1> QED BY HeapInvariant, <1>1, <1>3, PTL DEF Spec, ImplementsSleepQueue, Abstract!Spec
=============================================================================
