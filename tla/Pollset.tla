------------------------------ MODULE Pollset -------------------------------
(***************************************************************************)
(* The requests of st_poll (struct _st_pollq, common.h) as the event       *)
(* mechanisms of event.c see them.                                         *)
(***************************************************************************)
EXTENDS Clist, Integers, FiniteSetsExt

CONSTANTS
  Pollers,     \* threads that call st_poll
  Fds,         \* descriptors
  Pollsets,    \* arguments of st_poll: sequences of [fd, events]
  Conditions   \* what may be true of the descriptors at a dispatch

Events == {"in", "out", "pri"}

ASSUME PollsetAssumption ==
  /\ Fds \subseteq Nat
  /\ Conditions \subseteq SUBSET (Fds \X (Events \cup {"err", "nval"}))
  /\ \A s \in Pollsets : \A i \in DOMAIN s :
       s[i].fd \in Fds /\ s[i].events \subseteq Events /\ s[i].events # {}

VARIABLES
  ioq,       \* _ST_IOQ: the threads on it, in order
  pds,       \* pq->pds of these threads
  revents,   \* if the last step was a dispatch, what it reported to each thread
  seen       \* history: what was then true of the descriptors

PollsetType ==
  /\ ioq \in Seq(Pollers) /\ NoRepeat(ioq)
  /\ pds \in [Pollers -> Pollsets \cup {<<>>}]
  /\ \A t \in Pollers : t \in Elems(ioq) <=> pds[t] # <<>>
  /\ \A t \in Pollers : \A i \in DOMAIN revents[t] :
       revents[t][i] \subseteq Events \cup {"err", "nval"}
  /\ seen \in Conditions \cup {{}}

PollsetInit ==
  /\ ioq = <<>>
  /\ pds = [t \in Pollers |-> <<>>]
  /\ revents = [t \in Pollers |-> <<>>]
  /\ seen = {}

(* st_poll blocks with its pollq on the I/O queue. *)
Enqueue(t, s) ==
  /\ t \notin Elems(ioq)
  /\ ioq' = Append(ioq, t)
  /\ pds' = [pds EXCEPT ![t] = s]
  /\ revents' = [u \in Pollers |-> <<>>]
  /\ seen' = {}

(* st_poll timed out or was interrupted: the pollq is still on the queue. *)
Dequeue(t) ==
  /\ t \in Elems(ioq)
  /\ ioq' = Unlink(ioq, t)
  /\ pds' = [pds EXCEPT ![t] = <<>>]
  /\ revents' = [u \in Pollers |-> <<>>]
  /\ seen' = {}

(* The last part of every dispatch function: the threads of hit are taken  *)
(* off the queue and made runnable with the given reports.                 *)
Notify(hit, report) ==
  /\ ioq' = SelectSeq(ioq, LAMBDA t : t \notin hit)
  /\ pds' = [t \in Pollers |-> IF t \in hit THEN <<>> ELSE pds[t]]
  /\ revents' = [t \in Pollers |-> IF t \in hit THEN report[t] ELSE <<>>]

(* How often a pollset asks for an event of a descriptor, and how often    *)
(* the pollsets of a set of threads do.                                    *)
Asked(s, fd, k) == Cardinality({i \in DOMAIN s : s[i].fd = fd /\ k \in s[i].events})

AskedBy(S, fd, k) == MapThenSumSet(LAMBDA t : Asked(pds[t], fd, k), S)
=============================================================================
