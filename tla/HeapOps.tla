------------------------------ MODULE HeapOps -------------------------------
(***************************************************************************)
(* The functions on the timeout heap of sched.c, which st_vp.cpp repeats:  *)
(* a binary heap linked through the left and right pointers of the thread  *)
(* objects, whose shape is kept by walking the bits of a position number   *)
(* from the root.  A heap is a record of the pointers, the heap_index      *)
(* fields and _ST_SLEEPQ_SIZE.                                             *)
(***************************************************************************)
EXTENDS Clist, Integers

CONSTANTS Threads, None

(* A pointer to a thread lives in _ST_SLEEPQ or in a left or right field;  *)
(* a variable of type _st_thread_t ** holds one of these places.           *)
Root == <<None, "root">>
Left(t) == <<t, "left">>
Right(t) == <<t, "right">>
Places == {Root} \cup (Threads \X {"left", "right"})

EmptyHeap ==
  [ptr |-> [p \in Places |-> None], index |-> [t \in Threads |-> 0], size |-> 0]

Child(t, turn) == IF turn = 1 THEN Right(t) ELSE Left(t)

(* One turn of the loop in heap_insert: the thread being inserted takes    *)
(* the place of a later one met on the way, which is carried on instead.   *)
InsertStep(s, d, turn) ==
  LET h == s.heap
      t == h.ptr[s.p]
      taken == [ptr |-> [h.ptr EXCEPT ![Left(s.thread)] = h.ptr[Left(t)],
                                      ![Right(s.thread)] = h.ptr[Right(t)],
                                      ![s.p] = s.thread],
                index |-> [h.index EXCEPT ![s.thread] = s.index],
                size |-> h.size]
  IN  IF d[s.thread] < d[t]
      THEN [heap |-> taken, thread |-> t, p |-> Child(s.thread, turn),
            index |-> 2 * s.index + turn]
      ELSE [heap |-> h, thread |-> s.thread, p |-> Child(t, turn),
            index |-> 2 * s.index + turn]

(* The loop: the way to position n goes through position n \div 2, and the *)
(* last bit of n is the turn to take there.                                *)
InsertWalk(s, d, n) ==
  LET at[k \in 1..n] == IF k = 1 THEN s ELSE InsertStep(at[k \div 2], d, k % 2)
  IN  at[n]

(* heap_insert: the heap with thread inserted, and the place it returns,   *)
(* which is the one at position thread->heap_index.                        *)
heap_insert(h, d, thread) ==
  LET s == InsertWalk([heap |-> h, thread |-> thread, p |-> Root, index |-> 1],
                      d, h.index[thread])
  IN  [heap |-> [ptr |-> [s.heap.ptr EXCEPT ![s.p] = s.thread,
                                            ![Left(s.thread)] = None,
                                            ![Right(s.thread)] = None],
                 index |-> [s.heap.index EXCEPT ![s.thread] = s.index],
                 size |-> s.heap.size],
       p |-> s.p]

(* The place at position n. *)
PlaceOf(h, n) ==
  LET at[k \in 1..n] == IF k = 1 THEN Root ELSE Child(h.ptr[at[k \div 2]], k % 2)
  IN  at[n]

(* One turn of the last loop of heap_delete: the thread at place p changes *)
(* places with its earlier child, unless the heap order holds already.     *)
SinkStep(s, d) ==
  LET h == s.heap
      t == h.ptr[s.p]
      l == h.ptr[Left(t)]
      r == h.ptr[Right(t)]
      y == IF r = None \/ d[l] < d[r] THEN l ELSE r
      toLeft == y = l
  IN  IF l = None \/ d[t] <= d[y]
      THEN s
      ELSE [heap |-> [ptr |-> [h.ptr EXCEPT ![s.p] = y,
                                            ![Left(y)] = IF toLeft THEN t ELSE l,
                                            ![Right(y)] = IF toLeft THEN r ELSE t,
                                            ![Left(t)] = h.ptr[Left(y)],
                                            ![Right(t)] = h.ptr[Right(y)]],
                      index |-> [h.index EXCEPT ![t] = h.index[y],
                                                ![y] = h.index[t]],
                      size |-> h.size],
            p |-> IF toLeft THEN Left(y) ELSE Right(y)]

(* A mistake to compare with: the thread put in place of the deleted one   *)
(* only rises.                                                             *)
NoSink(h, d, p) == h

(* The loop ends before it has met every thread. *)
Sink(h, d, p) ==
  LET after[i \in 0..h.size] ==
        IF i = 0 THEN [heap |-> h, p |-> p] ELSE SinkStep(after[i - 1], d)
  IN  after[h.size].heap

(* heap_delete: the last element is unlinked, put at the position of the   *)
(* deleted one, and sinks.  The heap_index and due fields of a thread that *)
(* is not in the heap are never read; the model keeps them 0.              *)
heap_delete(h, d, thread) ==
  LET p == PlaceOf(h, h.size)
      t == h.ptr[p]
      h1 == [ptr |-> [h.ptr EXCEPT ![p] = None],
             index |-> [h.index EXCEPT ![t] = h.index[thread]],
             size |-> h.size - 1]
      ins == heap_insert(h1, d, t)
      ptr == ins.heap.ptr
      u == ptr[ins.p]
      h2 == [ptr |-> [ptr EXCEPT ![Left(u)] = ptr[Left(thread)],
                                 ![Right(u)] = ptr[Right(thread)]],
             index |-> ins.heap.index,
             size |-> ins.heap.size]
      h3 == IF t = thread THEN h1 ELSE Sink(h2, d, ins.p)
  IN  [ptr |-> [h3.ptr EXCEPT ![Left(thread)] = None, ![Right(thread)] = None],
       index |-> [h3.index EXCEPT ![thread] = 0],
       size |-> h3.size]

(* One turn of the while loop of _st_vp_check_clock: the thread at the     *)
(* root is taken out if it is due.                                         *)
PopStep(s, d, now) ==
  LET thread == s.heap.ptr[Root] IN
  IF thread = None \/ d[thread] > now
  THEN s
  ELSE [heap |-> heap_delete(s.heap, d, thread), fired |-> Append(s.fired, thread)]

(* A mistake to compare with: one thread is taken out and no more. *)
PopOne(h, d, now) == PopStep([heap |-> h, fired |-> <<>>], d, now)

(* The loop: the heap without the threads that are due, and these threads  *)
(* in the order they were found at the root.                               *)
PopDue(h, d, now) ==
  LET after[i \in 0..h.size] ==
        IF i = 0 THEN [heap |-> h, fired |-> <<>>] ELSE PopStep(after[i - 1], d, now)
  IN  after[h.size]
=============================================================================
