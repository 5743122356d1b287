---------------------------- MODULE EpollEvent ------------------------------
(***************************************************************************)
(* The epoll(7) event mechanism of event.c in one process.  Descriptors    *)
(* stay registered with the kernel while some thread polls them, for the   *)
(* events some thread asked for.                                           *)
(***************************************************************************)
EXTENDS Pollset, EpollSet

CONSTANTS
  FdHint,     \* fd_hint, the initial size of the event list
  Refusals    \* the sets of descriptors epoll_ctl(2) may refuse to add

VARIABLE ep   \* _st_epoll_data and the kernel's epoll set

vars == <<ioq, pds, revents, seen, ep>>

Init == PollsetInit /\ ep = EmptyEpoll(Fds, FdHint)

(* st_poll with _st_epoll_pollset_add. *)
Poll(t, s) ==
  /\ \E refused \in Refusals :
       LET a == _st_epoll_pollset_add(ep, s, refused) IN a.ok /\ ep' = a.e
  /\ Enqueue(t, s)

(* st_poll fails because a descriptor could not be added. *)
PollFails(t, s) ==
  /\ t \notin Elems(ioq)
  /\ \E refused \in Refusals :
       LET a == _st_epoll_pollset_add(ep, s, refused) IN ~a.ok /\ ep' = a.e
  /\ UNCHANGED <<ioq, pds, revents, seen>>

(* st_poll with _st_epoll_pollset_del. *)
GiveUp(t) ==
  /\ Dequeue(t)
  /\ ep' = _st_epoll_pollset_del(ep, pds[t], {})

(* epoll_wait(2) reports as many descriptors as the event list has room    *)
(* for.                                                                    *)
_st_epoll_dispatch(now) ==
  \E fired \in SUBSET ReadyFds(ep, now) :
    LET reports == [t \in Elems(ioq) |-> Report(ep, pds[t], now, fired)]
        hit == {t \in Elems(ioq) : \E i \in DOMAIN reports[t] : reports[t][i] # {}}
    IN  /\ Cardinality(fired) = Min({ep.size, Cardinality(ReadyFds(ep, now))})
        /\ seen' = now
        /\ Notify(hit, reports)
        /\ ep' = UpdateFired(
                   FoldLeft(LAMBDA e, t : _st_epoll_pollset_del(e, pds[t], fired),
                            ep, SelectSeq(ioq, LAMBDA t : t \in hit)),
                   fired)

Next ==
  \/ \E t \in Pollers :
       \/ GiveUp(t)
       \/ \E s \in Pollsets : Poll(t, s) \/ PollFails(t, s)
  \/ \E now \in Conditions : _st_epoll_dispatch(now)

Spec == Init /\ [][Next]_vars
-----------------------------------------------------------------------------
TypeOK ==
  /\ PollsetType
  /\ ep.cnt \in [Fds \X Events -> Int]
  /\ ep.evtcnt \in Int
  /\ ep.size \in Nat
  /\ DOMAIN ep.kset \subseteq Fds
  /\ \A fd \in DOMAIN ep.kset : ep.kset[fd] \subseteq Events

(* _st_epoll_fd_close refuses a descriptor exactly while some thread polls *)
(* it, also after a request failed in the middle and was unrolled.         *)
EpollCountsExact ==
  \A x \in Fds \X Events : ep.cnt[x] = AskedBy(Elems(ioq), x[1], x[2])

(* The kernel watches exactly what some thread polls for, and evtlist_cnt  *)
(* is the number of descriptors it watches, so the event list has room for *)
(* all of them.                                                            *)
KernelSetExact ==
  /\ \A fd \in Fds : (fd \in DOMAIN ep.kset) = (EpollEvents(ep, fd) # {})
  /\ \A fd \in DOMAIN ep.kset : ep.kset[fd] = EpollEvents(ep, fd)
  /\ ep.evtcnt = Cardinality(DOMAIN ep.kset)
  /\ ep.evtcnt <= ep.size
=============================================================================
