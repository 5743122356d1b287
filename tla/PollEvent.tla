----------------------------- MODULE PollEvent ------------------------------
(***************************************************************************)
(* The poll(2) event mechanism of event.c.  Only the number of polled      *)
(* descriptors is kept between dispatches; the array given to poll(2) is   *)
(* gathered from the I/O queue at each dispatch.                           *)
(***************************************************************************)
EXTENDS Pollset, SequencesExt

CONSTANTS
  MinSize,   \* ST_MIN_POLLFDS_SIZE
  Spare      \* room added when the array is allocated again

VARIABLES
  osfdCnt,     \* _ST_POLL_OSFD_CNT
  pollfdsSize  \* _ST_POLLFDS_SIZE

vars == <<ioq, pds, revents, seen, osfdCnt, pollfdsSize>>

Init == PollsetInit /\ osfdCnt = 0 /\ pollfdsSize = MinSize

(* st_poll with _st_poll_pollset_add. *)
Poll(t, s) ==
  /\ Enqueue(t, s)
  /\ osfdCnt' = osfdCnt + Len(s)
  /\ UNCHANGED pollfdsSize

(* st_poll with _st_poll_pollset_del. *)
GiveUp(t) ==
  /\ Dequeue(t)
  /\ osfdCnt' = osfdCnt - Len(pds[t])
  /\ UNCHANGED pollfdsSize

(* The descriptors of the queued threads in one array. *)
Gathered(q) == FlattenSeq([i \in DOMAIN q |-> pds[q[i]]])

RoomFor == IF osfdCnt > pollfdsSize THEN osfdCnt + Spare ELSE pollfdsSize

(* What poll(2) reports for the part of the array that belongs to thread   *)
(* q[i]; it looks at the first osfdCnt entries.                            *)
Report(q, i, now) ==
  LET before == Len(Gathered(SubSeq(q, 1, i - 1)))
      s == pds[q[i]]
  IN  [j \in DOMAIN s |->
         IF before + j > osfdCnt THEN {}
         ELSE {k \in s[j].events \cup {"err", "nval"} : <<s[j].fd, k>> \in now}]

AnyReady(report) == \E j \in DOMAIN report : report[j] # {}

_st_poll_dispatch(now) ==
  LET reports == [t \in Elems(ioq) |-> Report(ioq, Position(ioq)[t], now)]
      hit == {t \in Elems(ioq) : AnyReady(reports[t])}
  IN  /\ seen' = now
      /\ pollfdsSize' = RoomFor
      /\ Notify(hit, reports)
      /\ osfdCnt' = osfdCnt - Len(Gathered(SelectSeq(ioq, LAMBDA t : t \in hit)))

Next ==
  \/ \E t \in Pollers : GiveUp(t) \/ \E s \in Pollsets : Poll(t, s)
  \/ \E now \in Conditions : _st_poll_dispatch(now)

Spec == Init /\ [][Next]_vars
-----------------------------------------------------------------------------
TypeOK == PollsetType /\ osfdCnt \in Int /\ pollfdsSize \in Nat

(* The assertions of the poll mechanism: the count is never negative and   *)
(* is the number of descriptors on the I/O queue, so the array gathered at *)
(* the next dispatch fits.                                                 *)
PollCountExact == osfdCnt = Len(Gathered(ioq)) /\ Len(Gathered(ioq)) <= RoomFor
=============================================================================
