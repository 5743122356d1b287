---------------------------- MODULE KqueueEvent -----------------------------
(***************************************************************************)
(* The kqueue(2) event mechanism of event.c.  A descriptor is registered   *)
(* for one event at a time (EV_ONESHOT) by the dispatch function: until    *)
(* then the request waits in the addlist, where it stays when its thread   *)
(* gives up.  A child made by fork(2) has no kqueue.                       *)
(***************************************************************************)
EXTENDS Pollset, EpollSet

CONSTANTS
  KqMin,    \* ST_KQ_MIN_EVTLIST_SIZE
  MaxAdd    \* bound: st_poll is called while the addlist is shorter than this

VARIABLE kq   \* _st_kq_data and the kernel's queue:
              \*   cnt     the reference counts of fd_data
              \*   add     what the addlist registers
              \*   addcnt  addlist_cnt
              \*   size    addlist_size and evtlist_size
              \*   kset    what the kernel watches
              \*   own     this process has a kqueue

vars == <<ioq, pds, revents, seen, kq>>

Filters == Fds \X {"in", "out"}

Faults == {"err", "nval"}

Init ==
  /\ PollsetInit
  /\ kq = [cnt |-> [x \in Filters |-> 0], add |-> {}, addcnt |-> 0,
           size |-> KqMin, kset |-> {}, own |-> TRUE]

(* The filters a pollset names, in the order the functions visit them. *)
FiltersOf(s) ==
  FlattenSeq([i \in DOMAIN s |->
    SelectSeq(<<<<s[i].fd, "in">>, <<s[i].fd, "out">>>>,
              LAMBDA x : x[2] \in s[i].events)])

(* _st_kq_addlist_expand makes room for twice as many entries as the       *)
(* pollset has descriptors.                                                *)
Expanded(k, s) == [k EXCEPT !.size = Doubled(@, k.addcnt + 2 * Len(s))]

AddFilter(k, x) ==
  LET k2 == [k EXCEPT !.cnt[x] = @ + 1] IN
  IF k.cnt[x] = 0
  THEN [k2 EXCEPT !.add = @ \cup {x}, !.addcnt = @ + 1]
  ELSE k2

Acceptable(s) == \A i \in DOMAIN s : s[i].events \subseteq {"in", "out"}

_st_kq_pollset_add(k, s) == FoldLeft(AddFilter, Expanded(k, s), FiltersOf(s))

(* The counts go down; a filter whose count gets to zero goes to the       *)
(* dellist, unless it just fired.                                          *)
DelFilter(a, x, fired) ==
  [k |-> [a.k EXCEPT !.cnt[x] = @ - 1],
   dels |-> IF a.k.cnt[x] = 1 /\ x \notin fired THEN Append(a.dels, x) ELSE a.dels]

DelFilters(k, s, fired) ==
  FoldLeft(LAMBDA a, x : DelFilter(a, x, fired), [k |-> k, dels |-> <<>>], FiltersOf(s))

(* kevent(2) with EV_DELETE and no room for results stops at the first     *)
(* filter the kernel does not have.                                        *)
Deleted(a) ==
  LET done == {i \in DOMAIN a.dels : \A j \in 1..i : a.dels[j] \in a.k.kset} IN
  [a.k EXCEPT !.kset = @ \ {a.dels[i] : i \in done}]

_st_kq_pollset_del(k, s) == Deleted(DelFilters(k, s, {}))

(* st_poll with _st_kq_pollset_add, which knows no priority data. *)
Poll(t, s) ==
  /\ Acceptable(s)
  /\ kq.addcnt < MaxAdd
  /\ kq' = _st_kq_pollset_add(kq, s)
  /\ Enqueue(t, s)

(* st_poll with _st_kq_pollset_del. *)
GiveUp(t) ==
  /\ Dequeue(t)
  /\ kq' = _st_kq_pollset_del(kq, pds[t])

(* fork(2), seen by the child. *)
Fork ==
  /\ kq' = [kq EXCEPT !.own = FALSE, !.kset = {}]
  /\ UNCHANGED <<ioq, pds, revents, seen>>

(* The rest of _st_kq_dispatch after kevent(2) reported the events of      *)
(* fired: threads that asked for one of them, or whose descriptor is in    *)
(* error, are notified; what they polled in vain is deleted.               *)
Scan(k, fired) ==
  LET report == [t \in Elems(ioq) |->
        [i \in DOMAIN pds[t] |->
           {e \in pds[t][i].events \cup Faults : <<pds[t][i].fd, e>> \in fired}]]
      hit == {t \in Elems(ioq) : \E i \in DOMAIN report[t] : report[t][i] # {}}
      asked == FlattenSeq([i \in DOMAIN ioq |-> IF ioq[i] \in hit THEN pds[ioq[i]]
                                                ELSE <<>>])
  IN  /\ Notify(hit, report)
      /\ kq' = Deleted(DelFilters(k, asked, fired))

(* kevent(2) submits the addlist.  Changes that fail are reported at once  *)
(* and alone; otherwise it reports as many filters as the event list has   *)
(* room for, and these are not watched any more.                           *)
Kevent(k, now) ==
  LET all == k.kset \cup k.add
      failed == {x \in k.add : \E f \in Faults : <<x[1], f>> \in now}
      faults == {y \in now : y[2] \in Faults /\ \E x \in failed : x[1] = y[1]}
      ready == all \cap now
      after(set) == [k EXCEPT !.add = {}, !.addcnt = 0, !.kset = set]
  IN  \/ /\ failed # {}
         /\ seen' = faults
         /\ Scan(after(all \ failed), failed \cup faults)
      \/ /\ failed = {}
         /\ seen' = now \ {y \in now : y[2] \in Faults}
         /\ \E fired \in kSubset(Min({k.size, Cardinality(ready)}), ready) :
              Scan(after(all \ fired), fired)

(* After fork(2) a new kqueue replaces the lost one, and what is on the    *)
(* I/O queue is added again.                                               *)
Reinitialized(k) ==
  FoldLeft(LAMBDA e, t : _st_kq_pollset_add(e, pds[t]),
           [k EXCEPT !.own = TRUE, !.cnt = [x \in Filters |-> 0]], ioq)

_st_kq_dispatch(now) ==
  LET lost == [kq EXCEPT !.add = {}, !.addcnt = 0] IN
  \/ kq.own /\ Kevent(kq, now)
  \/ ~kq.own /\ Kevent(Reinitialized(lost), now)
  \/ /\ ~kq.own      \* kqueue(2) fails: there is nothing to do but retry later
     /\ kq' = lost
     /\ Notify({}, pds)
     /\ seen' = {}

Next ==
  \/ \E t \in Pollers :
       \/ GiveUp(t)
       \/ \E s \in Pollsets : Poll(t, s)
  \/ \E now \in Conditions : _st_kq_dispatch(now)
  \/ Fork

Spec == Init /\ [][Next]_vars
-----------------------------------------------------------------------------
TypeOK ==
  /\ PollsetType
  /\ kq.cnt \in [Filters -> Int]
  /\ kq.add \cup kq.kset \subseteq Filters
  /\ kq.addcnt <= kq.size
  /\ kq.own \in BOOLEAN

(* _st_kq_fd_close refuses a descriptor exactly while some thread polls    *)
(* it.                                                                     *)
KqCountsExact ==
  \A x \in Filters : kq.cnt[x] = AskedBy(Elems(ioq), x[1], x[2])

(* Nobody waits for a filter that fired for others, was deleted with       *)
(* theirs, or was lost in a fork: what a thread polls is registered, or    *)
(* the next dispatch will register it.                                     *)
KqWatchesPolled ==
  kq.own => \A x \in Filters : kq.cnt[x] > 0 => x \in kq.kset \cup kq.add
=============================================================================
