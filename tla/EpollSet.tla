------------------------------ MODULE EpollSet ------------------------------
(***************************************************************************)
(* The bookkeeping of the epoll mechanism of event.c.  A record e has      *)
(*   cnt     the reference counts of fd_data, per descriptor and event     *)
(*   evtcnt  evtlist_cnt, the number of registered descriptors             *)
(*   size    evtlist_size                                                  *)
(*   kset    the kernel's epoll set: registered descriptors to events      *)
(* The revents fields of fd_data are zero outside the dispatch function;   *)
(* inside, fired is the set of descriptors where they are not.             *)
(***************************************************************************)
EXTENDS Integers, SequencesExt

EventKinds == {"in", "out", "pri"}

NoFds == [fd \in {} |-> {}]

EmptyEpoll(fds, hint) ==
  [cnt |-> [x \in fds \X EventKinds |-> 0], evtcnt |-> 0, size |-> hint,
   kset |-> NoFds]

(* _ST_EPOLL_EVENTS(fd): the events somebody polls fd for. *)
EpollEvents(e, fd) == {k \in EventKinds : e.cnt[<<fd, k>>] # 0}

Counted(e, pd, n) ==
  [e EXCEPT !.cnt = [x \in DOMAIN @ |->
     IF x[1] = pd.fd /\ x[2] \in pd.events THEN @[x] + n ELSE @[x]]]

(* epoll_ctl(2) on a set that has fd, or with ADD on one that has not. *)
Registered(e, fd, events) ==
  [e EXCEPT !.kset = [f \in DOMAIN @ \cup {fd} |-> IF f = fd THEN events ELSE @[f]]]

(* EPOLL_CTL_DEL, which fails without effect when fd is not in the set. *)
Unregistered(e, fd) ==
  IF fd \in DOMAIN e.kset
  THEN [e EXCEPT !.kset = [f \in DOMAIN @ \ {fd} |-> @[f]], !.evtcnt = @ - 1]
  ELSE e

(* EPOLL_CTL_MOD or EPOLL_CTL_DEL, as the remaining events say. *)
Update(e, fd) ==
  IF EpollEvents(e, fd) = {} THEN Unregistered(e, fd)
  ELSE IF fd \in DOMAIN e.kset THEN Registered(e, fd, EpollEvents(e, fd)) ELSE e

(* One turn of the loop in _st_epoll_pollset_del. *)
DelOne(e, pd, fired) ==
  LET e2 == Counted(e, pd, -1) IN
  IF EpollEvents(e2, pd.fd) # EpollEvents(e, pd.fd) /\ pd.fd \notin fired
  THEN Update(e2, pd.fd)
  ELSE e2

_st_epoll_pollset_del(e, s, fired) ==
  FoldLeft(LAMBDA f, pd : DelOne(f, pd, fired), e, s)

(* _st_epoll_evtlist_expand. *)
RECURSIVE Doubled(_, _)
Doubled(n, needed) == IF needed > n THEN Doubled(2 * n, needed) ELSE n

(* One turn of the loop in _st_epoll_pollset_add.  The kernel may refuse   *)
(* to add the descriptors of refused (EPERM, ENOMEM, ENOSPC), refuses to   *)
(* modify one it does not have, and adding one it has is no error.         *)
AddOne(a, pd, refused) ==
  LET old == EpollEvents(a.e, pd.fd)
      e2 == Counted(a.e, pd, 1)
      new == EpollEvents(e2, pd.fd)
      known == pd.fd \in DOMAIN e2.kset
      e3 == IF known /\ old = {} THEN e2 ELSE Registered(e2, pd.fd, new)
      tried == [a EXCEPT !.e = e2, !.n = @ + 1]
  IN  IF a.failed THEN a
      ELSE IF new = old THEN tried
      ELSE IF ~known /\ (old # {} \/ pd.fd \in refused)
           THEN [tried EXCEPT !.failed = TRUE]
      ELSE IF old = {}
           THEN [tried EXCEPT !.e = [e3 EXCEPT
                   !.evtcnt = @ + 1, !.size = Doubled(@, e3.evtcnt + 1)]]
      ELSE [tried EXCEPT !.e = e3]

(* A mistake to compare with: the descriptor that failed is not unrolled. *)
UnrollShort(a, s) == _st_epoll_pollset_del(a.e, SubSeq(s, 1, a.n - 1), {})

(* The error path: the state is unrolled up to the failed descriptor. *)
Unroll(a, s) == _st_epoll_pollset_del(a.e, SubSeq(s, 1, a.n), {})

_st_epoll_pollset_add(e, s, refused) ==
  LET a == FoldLeft(LAMBDA b, pd : AddOne(b, pd, refused),
                    [e |-> e, n |-> 0, failed |-> FALSE], s)
  IN  [e |-> IF a.failed THEN Unroll(a, s) ELSE a.e, ok |-> ~a.failed]

(* The descriptors epoll_wait(2) would report, errors whether asked for or *)
(* not, and their revents: an error sets the I/O bits too.                 *)
ReadyFds(e, now) ==
  {fd \in DOMAIN e.kset : \E k \in e.kset[fd] \cup {"err"} : <<fd, k>> \in now}

Revents(e, now, fd) ==
  {k \in e.kset[fd] \cup {"err"} : <<fd, k>> \in now}
    \cup (IF <<fd, "err">> \in now THEN EpollEvents(e, fd) ELSE {})

(* What the dispatch function tells a thread about its pollset s when the  *)
(* descriptors of fired were reported.                                     *)
Report(e, s, now, fired) ==
  [i \in DOMAIN s |->
     IF s[i].fd \in fired
     THEN Revents(e, now, s[i].fd) \cap (s[i].events \cup {"err"})
     ELSE {}]

(* A mistake to compare with: fired descriptors stay registered. *)
KeepFired(e, fired) == e

(* The last loop of the dispatch function: descriptors that fired are      *)
(* modified or deleted.                                                    *)
UpdateFired(e, fired) == FoldLeft(Update, e, SetToSeq(fired))
=============================================================================
