------------------------------ MODULE EventSys ------------------------------
(***************************************************************************)
(* What the scheduler expects of an event mechanism (the _st_eventsys_t    *)
(* operations of event.c): the dispatch function takes off the I/O queue   *)
(* the threads that asked for something that is ready, and tells them the  *)
(* truth.                                                                  *)
(***************************************************************************)
EXTENDS Pollset

VARIABLE room   \* how many events one dispatch can report

(* What there is to report: errors and bad descriptors are reported        *)
(* whether asked for or not.                                               *)
Heard(pd) == {k \in pd.events \cup {"err", "nval"} : <<pd.fd, k>> \in seen'}

Hit(s) == \E i \in DOMAIN s : Heard(s[i]) # {}

Bad(s) == \E i \in DOMAIN s : "nval" \in Heard(s[i])

(* A report is true: each event is one the caller asked for and the kernel *)
(* saw, or its descriptor is in error.                                     *)
Truthful(r, s) ==
  /\ DOMAIN r = DOMAIN s
  /\ \E i \in DOMAIN r : r[i] # {}
  /\ \A i \in DOMAIN r :
       r[i] \subseteq IF Heard(s[i]) \cap {"err", "nval"} # {}
                      THEN s[i].events \cup Heard(s[i])
                      ELSE Heard(s[i])

Crowded == Cardinality(seen') > room

(* A dispatch notifies exactly the threads that asked for something that   *)
(* is ready.  While somebody polls a bad descriptor it may notify only     *)
(* such threads, and when more is ready than it can report only some, and  *)
(* leave the others to the next dispatch.                                  *)
Dispatch(now) ==
  /\ seen' = now
  /\ \E hit \in SUBSET Elems(ioq) :
       /\ \A t \in hit : Hit(pds[t]) /\ Truthful(revents'[t], pds[t])
       /\ \A t \in Elems(ioq) \ hit :
            Hit(pds[t]) => \/ ~Bad(pds[t]) /\ \E u \in hit : Bad(pds[u])
                           \/ Crowded
       /\ Notify(hit, revents')

Next ==
  \/ \E t \in Pollers : Dequeue(t) \/ \E s \in Pollsets : Enqueue(t, s)
  \/ \E now \in Conditions : Dispatch(now)

Spec == PollsetInit /\ [][Next]_<<ioq, pds, revents, seen>>
=============================================================================
