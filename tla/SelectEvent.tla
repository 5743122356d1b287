---------------------------- MODULE SelectEvent -----------------------------
(***************************************************************************)
(* The select(2) event mechanism of event.c.  The three descriptor sets    *)
(* live across dispatches and count how many threads put each descriptor   *)
(* there; select(2) looks only below the highest descriptor.               *)
(***************************************************************************)
EXTENDS Pollset

VARIABLES
  sets,    \* _ST_SELECT_READ_SET, _WRITE_SET, _EXCEP_SET as pairs <<fd, event>>
  refCnt,  \* fd_ref_cnts
  maxfd    \* _ST_SELECT_MAX_OSFD

vars == <<ioq, pds, revents, seen, sets, refCnt, maxfd>>

Init ==
  /\ PollsetInit
  /\ sets = {}
  /\ refCnt = [x \in Fds \X Events |-> 0]
  /\ maxfd = -1

FdsOf(s) == {s[i].fd : i \in DOMAIN s}

(* st_poll with _st_select_pollset_add. *)
Poll(t, s) ==
  /\ Enqueue(t, s)
  /\ sets' = sets \cup {x \in Fds \X Events : Asked(s, x[1], x[2]) > 0}
  /\ refCnt' = [x \in Fds \X Events |-> refCnt[x] + Asked(s, x[1], x[2])]
  /\ maxfd' = Max(FdsOf(s) \cup {maxfd})

(* The requests of the threads in S leave the sets: the counts go down and *)
(* a descriptor leaves a set when its count gets to zero.                  *)
Forget(S) ==
  /\ refCnt' = [x \in Fds \X Events |-> refCnt[x] - AskedBy(S, x[1], x[2])]
  /\ sets' = {x \in sets : ~(refCnt[x] > 0 /\ refCnt'[x] <= 0)}

(* st_poll with _st_select_pollset_del, which leaves maxfd alone. *)
GiveUp(t) ==
  /\ Dequeue(t)
  /\ Forget({t})
  /\ UNCHANGED maxfd

(* A mistake to compare with: the wrong threads are looked at. *)
HighestOfOthers(S) == Max(UNION {FdsOf(pds[t]) : t \in Elems(ioq) \ S} \cup {-1})

(* The highest descriptor of the threads in S. *)
Highest(S) == Max(UNION {FdsOf(pds[t]) : t \in S} \cup {-1})

(* The loop over the I/O queue in _st_select_dispatch and in               *)
(* _st_select_find_bad_fd: threads with something to report are notified,  *)
(* and maxfd is computed again from the others.                            *)
Scan(report) ==
  LET hit == {t \in Elems(ioq) : \E i \in DOMAIN report[t] : report[t][i] # {}}
  IN  /\ Notify(hit, report)
      /\ Forget(hit)
      /\ maxfd' = Highest(Elems(ioq) \ hit)

(* select(2) fails with EBADF when one of the descriptors it looks at is   *)
(* bad; then all descriptors on the I/O queue are tried.                   *)
_st_select_dispatch(now) ==
  LET watched == {x \in sets : x[1] <= maxfd}
      found == watched \cap now
  IN  /\ seen' = now
      /\ \/ /\ \E x \in watched : <<x[1], "nval">> \in now
            /\ Scan([t \in Pollers |->
                       [i \in DOMAIN pds[t] |->
                          {k \in {"nval"} : <<pds[t][i].fd, k>> \in now}]])
         \/ /\ \A x \in watched : <<x[1], "nval">> \notin now
            /\ found # {}
            /\ Scan([t \in Pollers |->
                       [i \in DOMAIN pds[t] |->
                          {k \in pds[t][i].events : <<pds[t][i].fd, k>> \in found}]])
         \/ /\ \A x \in watched : <<x[1], "nval">> \notin now
            /\ found = {}
            /\ Notify({}, pds)
            /\ UNCHANGED <<sets, refCnt, maxfd>>

Next ==
  \/ \E t \in Pollers : GiveUp(t) \/ \E s \in Pollsets : Poll(t, s)
  \/ \E now \in Conditions : _st_select_dispatch(now)

Spec == Init /\ [][Next]_vars
-----------------------------------------------------------------------------
TypeOK ==
  /\ PollsetType
  /\ sets \subseteq Fds \X Events
  /\ refCnt \in [Fds \X Events -> Int]
  /\ maxfd \in Fds \cup {-1}

(* _st_select_fd_close refuses a descriptor exactly while some thread      *)
(* polls it: the counts survive threads that give up, are notified, name a *)
(* descriptor twice or share it with others.                               *)
SelectCountsExact ==
  \A x \in Fds \X Events : refCnt[x] = AskedBy(Elems(ioq), x[1], x[2])
=============================================================================
