---------------------------- MODULE ServerProofs ----------------------------
(***************************************************************************)
(* The thread limits of the server and the lock of st_accept, for any      *)
(* number of processes, any limits and any number of connections, faults   *)
(* and restarts.                                                           *)
(***************************************************************************)
EXTENDS Server, FiniteSetTheorems, TLAPS

VpStates == Live \cup {"none", "dead", "gone"}

(* The lock of st_accept; without serialization nobody takes it. *)
LockInv ==
  /\ acc \in [Procs -> [Places -> Nat]]
  /\ serialized \in BOOLEAN /\ lost \in BOOLEAN /\ token \in 0 .. 1
  /\ ~serialized => token = 0 /\ \A p \in Procs : Free(p)
  /\ AcceptSerialized

VpType ==
  [state : VpStates, pid : 1 .. 2, masked : BOOLEAN, pending : SUBSET Signals,
   sig_pipe : Seq(Signals), loaded : Nat, wait : Nat, busy : Nat, sessions : Nat]

ServerType ==
  /\ vp \in [Procs -> VpType]
  /\ wdog \in [at : {"start", "wait", "reaped", "forked", "exited", "quit"},
               index : Procs, pending : SUBSET Signals]
  /\ vp_pids \in [Procs -> -1 .. 2]
  /\ sent \in [conns : 0 .. MaxConns, signals : SUBSET Signals, faults : Nat]
  /\ conf \in Nat
  /\ backlog \in 0 .. sent.conns

(* A process that is not up has no threads; the watchdog starts processes  *)
(* only in places where there is none.                                     *)
NoThreads(p) == acc[p] = Nobody /\ vp[p].busy = 0 /\ vp[p].sessions = 0

Throttled(p) ==
  LET v == vp[p] IN
  /\ v.wait = acc[p].try + acc[p].locked + acc[p].poll
  /\ v.busy = v.sessions
  /\ v.wait <= max_wait_threads /\ v.wait + v.busy <= max_threads
  /\ \/ v.wait >= min_wait_threads
     \/ v.wait + v.busy = max_threads
     \/ sent.faults > 0

Counted(p) == IF vp[p].state = "up" THEN Throttled(p) ELSE NoThreads(p)

WatchInv ==
  /\ wdog.at = "start" => \A p \in wdog.index .. Count : vp[p].state = "none"
  /\ wdog.at = "reaped" => vp[wdog.index].state = "gone"

ThrottleInv == ServerType /\ WatchInv /\ \A p \in Procs : Counted(p)

ServerInv == LockInv /\ ThrottleInv
-----------------------------------------------------------------------------
(* set_thread_throttling: the shares are positive and in order. *)
LEMMA ShareMonotone ==
  ASSUME NEW n \in Nat \ {0}, NEW a \in Nat \ {0}, NEW b \in Nat \ {0}, a <= b
  PROVE  /\ (IF a % n # 0 THEN a \div n + 1 ELSE a \div n) \in Nat \ {0}
         /\ (IF a % n # 0 THEN a \div n + 1 ELSE a \div n)
              <= (IF b % n # 0 THEN b \div n + 1 ELSE b \div n)
OBVIOUS

LEMMA Limits ==
  /\ max_wait_threads \in Nat \ {0} /\ max_threads \in Nat /\ min_wait_threads \in Nat
  /\ max_wait_threads <= max_threads /\ min_wait_threads <= max_wait_threads
<1> DEFINE least == IF MaxWaitThreads <= MaxThreads THEN MaxWaitThreads ELSE MaxThreads
<1>1. \A a, b \in Nat : Min({a, b}) = IF a <= b THEN a ELSE b
  BY DEF Min
<1>2. Min({MaxWaitThreads, MaxThreads}) = least
  BY <1>1, ServerAssumption
<1>3. least \in Nat \ {0} /\ least <= MaxThreads /\ MaxThreads \in Nat \ {0}
  BY ServerAssumption
<1> HIDE DEF least
<1>4. Share(least) \in Nat \ {0} /\ Share(least) <= Share(MaxThreads)
  BY <1>3, ShareMonotone, ServerAssumption, Zenon DEF Share
<1>5. Share(MaxThreads) \in Nat \ {0}
  BY <1>3, MaxThreads <= MaxThreads, ShareMonotone, ServerAssumption, Zenon DEF Share
<1>6. max_wait_threads = Share(least) /\ max_threads = Share(MaxThreads)
  BY <1>2 DEF max_wait_threads, max_threads
<1>7. min_wait_threads = IF 2 <= max_wait_threads THEN 2 ELSE max_wait_threads
  BY <1>1, <1>4, <1>6 DEF min_wait_threads
<1> QED
  BY <1>4, <1>5, <1>6, <1>7
-----------------------------------------------------------------------------
(* A thread of p goes from one place of st_accept to another. *)
LEMMA MoveEffect ==
  ASSUME acc \in [Procs -> [Places -> Nat]], NEW p \in Procs,
         NEW from \in Places, NEW to \in Places, from # to,
         acc[p][from] > 0, Move(p, from, to)
  PROVE  /\ acc' \in [Procs -> [Places -> Nat]]
         /\ \A q \in Procs \ {p} : acc'[q] = acc[q]
         /\ \A place \in Places :
              acc'[p][place] = IF place = from THEN acc[p][place] - 1
                               ELSE IF place = to THEN acc[p][place] + 1
                               ELSE acc[p][place]
<1> DEFINE row == [[acc[p] EXCEPT ![from] = @ - 1] EXCEPT ![to] = @ + 1]
<1>2. acc[p] \in [Places -> Nat]
  OBVIOUS
<1>1. acc' = [acc EXCEPT ![p] = row]
  BY <1>2 DEF Move
<1>3. row \in [Places -> Nat]
  BY <1>2
<1>4. \A place \in Places :
        row[place] = IF place = from THEN acc[p][place] - 1
                     ELSE IF place = to THEN acc[p][place] + 1
                     ELSE acc[p][place]
  BY <1>2
<1> HIDE DEF row
<1>5. acc'[p] = row
  BY <1>1
<1> QED
  BY <1>1, <1>3, <1>4, <1>5

(* A thread of p leaves st_accept and n call it. *)
LEMMA AgainEffect ==
  ASSUME acc \in [Procs -> [Places -> Nat]], NEW p \in Procs, NEW n \in Nat,
         serialized \in BOOLEAN, acc[p][Ready] > 0, Again(p, n)
  PROVE  /\ acc' \in [Procs -> [Places -> Nat]]
         /\ \A q \in Procs \ {p} : acc'[q] = acc[q]
         /\ acc'[p].poll = acc[p].poll
         /\ acc'[p].locked = IF serialized THEN acc[p].locked - 1 ELSE acc[p].locked
         /\ acc'[p].try = IF serialized THEN acc[p].try + n ELSE acc[p].try - 1 + n
<1> DEFINE row == [place \in Places |-> acc[p][place] - (IF place = Ready THEN 1 ELSE 0)
                                          + (IF place = "try" THEN n ELSE 0)]
<1>2. acc[p] \in [Places -> Nat]
  OBVIOUS
<1>1. acc' = [acc EXCEPT ![p] = row]
  BY <1>2 DEF Again
<1>3. row \in [Places -> Nat]
  BY <1>2 DEF Ready, Places
<1>4. /\ row.poll = acc[p].poll
      /\ row.locked = IF serialized THEN acc[p].locked - 1 ELSE acc[p].locked
      /\ row.try = IF serialized THEN acc[p].try + n ELSE acc[p].try - 1 + n
  BY <1>2 DEF Ready, Places
<1> HIDE DEF row
<1>5. acc'[p] = row
  BY <1>1
<1> QED
  BY <1>1, <1>3, <1>4, <1>5
-----------------------------------------------------------------------------
(* Nobody goes in or out. *)
LEMMA LockKept ==
  ASSUME LockInv, acc' \in [Procs -> [Places -> Nat]],
         \A q \in Procs : acc'[q].locked = acc[q].locked,
         UNCHANGED <<serialized, token, lost>>
  PROVE  LockInv'
BY DEF LockInv, AcceptSerialized, Free

LEMMA LockTaken ==
  ASSUME LockInv, NEW p \in Procs, Lock(p), UNCHANGED lost
  PROVE  LockInv'
<1>1. /\ acc' \in [Procs -> [Places -> Nat]]
      /\ \A q \in Procs \ {p} : acc'[q].locked = acc[q].locked
      /\ acc'[p].locked = acc[p].locked + 1
  BY MoveEffect DEF LockInv, Lock, Places
<1>2. /\ serialized /\ serialized' = serialized
      /\ token = 1 /\ token' = 0
  BY DEF LockInv, Lock
<1>3. ~lost /\ \A q \in Procs : acc[q].locked = 0
  BY <1>2 DEF LockInv, AcceptSerialized, Free
<1> QED
  BY <1>1, <1>2, <1>3 DEF LockInv, AcceptSerialized, Free

LEMMA LockReleased ==
  ASSUME LockInv, NEW p \in Procs, acc[p][Ready] > 0,
         acc' \in [Procs -> [Places -> Nat]],
         \A q \in Procs \ {p} : acc'[q] = acc[q],
         acc'[p].locked = IF serialized THEN acc[p].locked - 1 ELSE acc[p].locked,
         Unlock, UNCHANGED <<serialized, lost>>
  PROVE  LockInv'
<1>1. CASE ~serialized
  BY <1>1, Zenon DEF LockInv, AcceptSerialized, Free, Unlock
<1>2. CASE serialized
  <2>1. acc[p].locked = 1 /\ ~lost /\ token = 0
    BY <1>2 DEF LockInv, AcceptSerialized, Free, Ready, Places
  <2>2. \A q \in Procs : acc'[q].locked = 0
    BY <1>2, <2>1 DEF LockInv, AcceptSerialized, Free
  <2>3. token' = 1
    BY <1>2, <2>1 DEF Unlock
  <2> QED
    BY <1>2, <2>1, <2>2, <2>3 DEF LockInv, AcceptSerialized, Free
<1> QED
  BY <1>1, <1>2

LEMMA LockEnds ==
  ASSUME LockInv, NEW p \in Procs, Ends(p)
  PROVE  LockInv'
<1>1. /\ acc' \in [Procs -> [Places -> Nat]]
      /\ \A q \in Procs \ {p} : acc'[q] = acc[q]
      /\ acc'[p].locked = 0
  BY DEF LockInv, Ends, Nobody, Places
<1>2. lost' = (lost \/ acc[p].locked # 0) /\ UNCHANGED <<serialized, token>>
  BY DEF Ends, Free
<1>3. CASE acc[p].locked = 0
  <2>1. \A q \in Procs : acc'[q].locked = acc[q].locked
    BY <1>1, <1>3
  <2> QED
    BY <1>1, <1>2, <1>3, <2>1, LockKept DEF LockInv
<1>4. CASE acc[p].locked # 0
  <2>1. \A q \in Procs : acc'[q].locked = 0
    BY <1>1, <1>4 DEF LockInv, AcceptSerialized, Free
  <2>2. serialized /\ token = 0
    BY <1>4 DEF LockInv, AcceptSerialized, Free
  <2> QED
    BY <1>1, <1>2, <1>4, <2>1, <2>2, Zenon DEF LockInv, AcceptSerialized, Free
<1> QED
  BY <1>3, <1>4

LEMMA LockWaits ==
  ASSUME LockInv, NEW p \in Procs, Waits(p)
  PROVE  LockInv'
<1>1. CASE Lock(p)
  BY <1>1, LockTaken DEF Waits
<1>2. CASE Readable(p)
  <2>1. /\ acc' \in [Procs -> [Places -> Nat]]
        /\ \A q \in Procs : acc'[q].locked = acc[q].locked
    BY <1>2, MoveEffect DEF LockInv, Readable, Places
  <2> QED
    BY <1>2, <2>1, LockKept DEF Waits, Readable
<1>3. CASE NotReady(p)
  <2>1. acc[p][Ready] > 0 /\ Ready \in Places /\ Ready # "poll" /\ "poll" \in Places
    BY <1>3 DEF NotReady, Ready, Places
  <2>2. /\ acc' \in [Procs -> [Places -> Nat]]
        /\ \A q \in Procs \ {p} : acc'[q] = acc[q]
        /\ \A place \in Places :
             acc'[p][place] = IF place = Ready THEN acc[p][place] - 1
                              ELSE IF place = "poll" THEN acc[p][place] + 1
                              ELSE acc[p][place]
    BY <1>3, <2>1, MoveEffect DEF LockInv, NotReady
  <2>3. acc'[p].locked = IF serialized THEN acc[p].locked - 1 ELSE acc[p].locked
    BY <2>2 DEF Ready, Places
  <2> QED
    BY <1>3, <2>1, <2>2, <2>3, LockReleased DEF Waits, NotReady
<1> QED
  BY <1>1, <1>2, <1>3 DEF Waits

LEMMA LockAgain ==
  ASSUME LockInv, NEW p \in Procs, NEW n \in Nat, acc[p][Ready] > 0, Again(p, n),
         Unlock, UNCHANGED <<serialized, lost>>
  PROVE  LockInv'
<1>1. /\ acc' \in [Procs -> [Places -> Nat]]
      /\ \A q \in Procs \ {p} : acc'[q] = acc[q]
      /\ acc'[p].locked = IF serialized THEN acc[p].locked - 1 ELSE acc[p].locked
  BY AgainEffect DEF LockInv
<1> QED
  BY <1>1, LockReleased

(* Some threads of p call st_accept for the first time. *)
LEMMA LockTry ==
  ASSUME LockInv, NEW p \in Procs, NEW n \in Nat, acc' = [acc EXCEPT ![p].try = n],
         UNCHANGED <<serialized, token, lost>>
  PROVE  LockInv'
<1>1. /\ acc' \in [Procs -> [Places -> Nat]]
      /\ \A q \in Procs : acc'[q].locked = acc[q].locked
  BY DEF LockInv, Places
<1> QED
  BY <1>1, LockKept

LEMMA LockNext ==
  ASSUME LockInv, [Next]_vars
  PROVE  LockInv'
<1>1. CASE UNCHANGED <<acceptVars, lost>>
  BY <1>1, LockKept DEF acceptVars, LockInv
<1>2. CASE Connect
  BY <1>2, LockKept DEF Connect, LockInv
<1>3. ASSUME NEW p \in Procs, start_threads(p)
      PROVE  LockInv'
  <2>1. PICK n \in 0 .. max_wait_threads :
          IF n = max_wait_threads THEN Ends(p)
          ELSE /\ acc' = [acc EXCEPT ![p].try = max_wait_threads - n]
               /\ UNCHANGED <<serialized, backlog, token, lost>>
    BY <1>3 DEF start_threads
  <2>2. max_wait_threads - n \in Nat
    BY Limits
  <2> QED
    BY <2>1, <2>2, LockEnds, LockTry
<1>4. ASSUME NEW p \in Procs, process_signals(p)
      PROVE  LockInv'
  BY <1>1, <1>4, LockEnds DEF process_signals
<1>5. ASSUME NEW p \in Procs, Serves(p)
      PROVE  LockInv'
  <2>1. PICK n \in Nat : Accepts(p, n)
    BY <1>5 DEF Serves
  <2> QED
    BY <1>5, <2>1, LockAgain DEF Serves, Accepts
<1>6. ASSUME NEW p \in Procs, Refuses(p)
      PROVE  LockInv'
  BY <1>6, LockAgain DEF Refuses, Accepts, Fails
<1>7. ASSUME NEW p \in Procs, SessionEnds(p)
      PROVE  LockInv'
  <2>1. CASE acc' = acc
    BY <1>1, <1>7, <2>1, LockKept DEF SessionEnds, LockInv
  <2>2. CASE acc' = [acc EXCEPT ![p].try = @ + 1]
    <3>1. acc[p].try + 1 \in Nat
      BY DEF LockInv, Places
    <3> QED
      BY <1>7, <2>2, <3>1, LockTry, Zenon DEF SessionEnds
  <2> QED
    BY <1>7, <2>1, <2>2 DEF SessionEnds
<1>8. ASSUME NEW p \in Procs, Kill(p)
      PROVE  LockInv'
  BY <1>8, LockEnds DEF Kill
<1>9. ASSUME NEW p \in Procs, Waits(p)
      PROVE  LockInv'
  BY <1>9, LockWaits
<1>10. CASE Watchdog \/ wdog_sighandler
  BY <1>1, <1>10, Zenon DEF Watchdog, ForkFirst, Wait, NoChild, ForkAnother, Unblock,
                     wdog_sighandler
<1>11. ASSUME NEW p \in Procs, install_sighandlers(p)
       PROVE  LockInv'
  BY <1>1, <1>11 DEF install_sighandlers
<1>12. ASSUME NEW sig \in Signals, Signal(sig)
       PROVE  LockInv'
  BY <1>1, <1>12 DEF Signal
<1> QED
  BY <1>1, <1>2, <1>3, <1>4, <1>5, <1>6, <1>7, <1>8, <1>9, <1>10, <1>11, <1>12
  DEF Next, vars, acceptVars
-----------------------------------------------------------------------------
LEMMA OthersCounted ==
  ASSUME ServerType, ServerType', NEW q \in Procs, Counted(q),
         vp'[q] = vp[q], acc'[q] = acc[q], sent'.faults >= sent.faults
  PROVE  Counted(q)'
BY DEF Counted, Throttled, NoThreads, ServerType

(* A step of one process: the others and the watchdog see nothing of it. *)
LEMMA ProcessStep ==
  ASSUME ThrottleInv, NEW p \in Procs, vp[p].state \in Live,
         vp' \in [Procs -> VpType],
         \A q \in Procs \ {p} : vp'[q] = vp[q] /\ acc'[q] = acc[q],
         sent' \in [conns : 0 .. MaxConns, signals : SUBSET Signals, faults : Nat],
         sent'.faults >= sent.faults, backlog' \in 0 .. sent'.conns,
         UNCHANGED <<wdog, vp_pids, conf>>,
         Counted(p)'
  PROVE  ThrottleInv'
<1>1. ServerType'
  BY DEF ThrottleInv, ServerType
<1>3. ASSUME NEW q \in Procs
      PROVE  Counted(q)'
  <2>1. CASE q = p
    BY <2>1
  <2>2. CASE q # p
    BY <1>1, <2>2, OthersCounted DEF ThrottleInv
  <2> QED
    BY <2>1, <2>2
<1>4. \A q \in Procs : vp[q].state \in {"none", "gone"} => vp'[q] = vp[q]
  BY DEF Live
<1>5. wdog.index \in Procs /\ \A q \in wdog.index .. Count : q \in Procs
  BY ServerAssumption, SMTT(60) DEF ThrottleInv, ServerType
<1>6. WatchInv'
  BY <1>4, <1>5 DEF ThrottleInv, WatchInv
<1> QED
  BY <1>1, <1>3, <1>6 DEF ThrottleInv

(* A step that changes neither the threads of a process nor its state, or  *)
(* is taken by a process that has no threads yet.                          *)
LEMMA QuietCounted ==
  ASSUME ServerType, ServerType', NEW q \in Procs, Counted(q),
         acc'[q] = acc[q], sent'.faults >= sent.faults,
         vp'[q].wait = vp[q].wait, vp'[q].busy = vp[q].busy,
         vp'[q].sessions = vp[q].sessions, vp'[q].state = vp[q].state
  PROVE  Counted(q)'
BY DEF Counted, Throttled, NoThreads, ServerType

LEMMA EmptyCounted ==
  ASSUME NEW q \in Procs, acc'[q] = Nobody, vp'[q].state # "up",
         vp'[q].busy = 0, vp'[q].sessions = 0
  PROVE  Counted(q)'
BY DEF Counted, NoThreads, Nobody

LEMMA VpIsVp ==
  ASSUME NEW state \in VpStates, NEW pid \in 1 .. 2, NEW masked \in BOOLEAN
  PROVE  /\ Vp(state, pid, masked) \in VpType
         /\ Vp(state, pid, masked).state = state
         /\ Vp(state, pid, masked).busy = 0
         /\ Vp(state, pid, masked).sessions = 0
BY DEF Vp, VpType

LEMMA EndsCounted ==
  ASSUME ThrottleInv, NEW p \in Procs, vp[p].state \in Live, Ends(p),
         sent' \in [conns : 0 .. MaxConns, signals : SUBSET Signals, faults : Nat],
         sent'.conns = sent.conns, sent'.faults >= sent.faults,
         UNCHANGED <<wdog, vp_pids, conf>>, acc \in [Procs -> [Places -> Nat]]
  PROVE  ThrottleInv'
<1>1. /\ Dead(vp[p]) \in VpType /\ Dead(vp[p]).state = "dead"
      /\ Dead(vp[p]).busy = 0 /\ Dead(vp[p]).sessions = 0
  <2>1. vp[p].pid \in 1 .. 2 /\ "dead" \in VpStates
    BY DEF ThrottleInv, ServerType, VpType, VpStates
  <2> QED
    BY <2>1, VpIsVp, Zenon DEF Dead
<1>2. /\ vp' \in [Procs -> VpType] /\ vp'[p] = Dead(vp[p])
      /\ \A q \in Procs \ {p} : vp'[q] = vp[q]
  BY <1>1 DEF Ends, ThrottleInv, ServerType
<1>3. acc'[p] = Nobody /\ \A q \in Procs \ {p} : acc'[q] = acc[q]
  BY DEF Ends
<1>4. Counted(p)'
  BY <1>1, <1>2, <1>3, EmptyCounted
<1>5. backlog' \in 0 .. sent'.conns
  BY DEF Ends, ThrottleInv, ServerType
<1> QED
  BY <1>1, <1>2, <1>3, <1>4, <1>5, ProcessStep

(* The threads of p in st_accept, the count that wait_threads keeps. *)
Waiting(p) == acc[p].try + acc[p].locked + acc[p].poll

LEMMA MoveWaiting ==
  ASSUME acc \in [Procs -> [Places -> Nat]], NEW p \in Procs,
         NEW from \in Places, NEW to \in Places, from # to,
         acc[p][from] > 0, Move(p, from, to)
  PROVE  /\ \A q \in Procs \ {p} : acc'[q] = acc[q]
         /\ Waiting(p)' = Waiting(p)
<1>1. \A place \in Places :
         acc'[p][place] = IF place = from THEN acc[p][place] - 1
                          ELSE IF place = to THEN acc[p][place] + 1
                          ELSE acc[p][place]
  BY MoveEffect
<1>2. \A place \in Places : acc[p][place] \in Nat
  OBVIOUS
<1>3. Waiting(p)' = Waiting(p)
  BY <1>1, <1>2 DEF Waiting, Places
<1> QED
  BY <1>3, MoveEffect

LEMMA AgainWaiting ==
  ASSUME acc \in [Procs -> [Places -> Nat]], NEW p \in Procs, NEW n \in Nat,
         serialized \in BOOLEAN, acc[p][Ready] > 0, Again(p, n)
  PROVE  /\ \A q \in Procs \ {p} : acc'[q] = acc[q]
         /\ Waiting(p)' = Waiting(p) - 1 + n
         /\ Waiting(p) > 0
<1>1. /\ acc'[p].poll = acc[p].poll
      /\ acc'[p].locked = IF serialized THEN acc[p].locked - 1 ELSE acc[p].locked
      /\ acc'[p].try = IF serialized THEN acc[p].try + n ELSE acc[p].try - 1 + n
  BY AgainEffect
<1>2. /\ acc[p].try \in Nat /\ acc[p].locked \in Nat /\ acc[p].poll \in Nat
      /\ acc[p][Ready] > 0 /\ Ready \in {"try", "locked"}
  BY DEF Places, Ready
<1>3. Waiting(p)' = Waiting(p) - 1 + n /\ Waiting(p) > 0
  BY <1>1, <1>2, SMTT(60) DEF Waiting
<1> QED
  BY <1>3, AgainEffect

LEMMA WaitsCounted ==
  ASSUME LockInv, ThrottleInv, NEW p \in Procs, Waits(p)
  PROVE  ThrottleInv'
<1>1. /\ \A q \in Procs \ {p} : acc'[q] = acc[q]
      /\ Waiting(p)' = Waiting(p)
      /\ backlog' = backlog
  <2>1. CASE Lock(p)
    BY <2>1, MoveWaiting DEF Lock, LockInv, Places
  <2>2. CASE Readable(p)
    BY <2>2, MoveWaiting DEF Readable, LockInv, Places
  <2>3. CASE NotReady(p)
    <3>1. Ready \in Places /\ Ready # "poll" /\ "poll" \in Places
      BY DEF Ready, Places
    <3> QED
      BY <2>3, <3>1, MoveWaiting DEF NotReady, LockInv
  <2> QED
    BY <2>1, <2>2, <2>3 DEF Waits
<1>2. vp[p].state = "up" /\ UNCHANGED <<vp, wdog, vp_pids, conf, sent>>
  BY DEF Waits
<1>3. Counted(p)'
  BY <1>1, <1>2 DEF ThrottleInv, Counted, Throttled, Waiting
<1>4. vp' \in [Procs -> VpType]
  BY <1>2 DEF ThrottleInv, ServerType
<1>5. /\ sent' \in [conns : 0 .. MaxConns, signals : SUBSET Signals, faults : Nat]
      /\ sent'.faults >= sent.faults /\ backlog' \in 0 .. sent'.conns
  BY <1>1, <1>2 DEF ThrottleInv, ServerType
<1>6. vp[p].state \in Live
  BY <1>2 DEF Live
<1> QED
  BY <1>1, <1>2, <1>3, <1>4, <1>5, <1>6, ProcessStep

(* Failures are counted, nothing else. *)
LEMMA FaultEffect ==
  ASSUME ServerType, Fault
  PROVE  /\ sent' \in [conns : 0 .. MaxConns, signals : SUBSET Signals, faults : Nat]
         /\ sent'.conns = sent.conns /\ sent'.faults = sent.faults + 1
         /\ sent'.faults >= sent.faults /\ sent'.faults > 0
BY DEF ServerType, Fault

LEMMA RefusesCounted ==
  ASSUME LockInv, ThrottleInv, NEW p \in Procs, Refuses(p)
  PROVE  ThrottleInv'
<1>1. acc[p][Ready] > 0 /\ Again(p, 1)
  BY DEF Refuses, Fails, Accepts
<1>2. /\ \A q \in Procs \ {p} : acc'[q] = acc[q]
      /\ Waiting(p)' = Waiting(p) - 1 + 1
  BY <1>1, AgainWaiting DEF LockInv
<1>3. Waiting(p) \in Nat
  BY DEF LockInv, Waiting, Places
<1>4. Waiting(p)' = Waiting(p)
  BY <1>2, <1>3
<1>5. vp[p].state = "up" /\ UNCHANGED <<vp, wdog, vp_pids, conf>> /\ Fault
  BY DEF Refuses
<1>6. /\ sent' \in [conns : 0 .. MaxConns, signals : SUBSET Signals, faults : Nat]
      /\ sent'.conns = sent.conns /\ sent'.faults >= sent.faults /\ sent'.faults > 0
  BY <1>5, FaultEffect DEF ThrottleInv
<1>7. Counted(p)'
  BY <1>4, <1>5, <1>6 DEF ThrottleInv, Counted, Throttled, Waiting
<1>8. vp' \in [Procs -> VpType] /\ vp[p].state \in Live
  BY <1>5 DEF ThrottleInv, ServerType, Live
<1>9. backlog' \in 0 .. sent'.conns
  BY <1>6 DEF ThrottleInv, ServerType, Refuses, Fails, Accepts
<1> QED
  BY <1>2, <1>5, <1>6, <1>7, <1>8, <1>9, ProcessStep

LEMMA CountersSet ==
  ASSUME vp \in [Procs -> VpType], NEW p \in Procs,
         NEW a \in Nat, NEW b \in Nat, NEW c \in Nat,
         vp' = [vp EXCEPT ![p].wait = a, ![p].busy = b, ![p].sessions = c]
  PROVE  vp' \in [Procs -> VpType] /\ \A q \in Procs \ {p} : vp'[q] = vp[q]
<1> DEFINE f == [vp EXCEPT ![p].wait = a]
           g == [f EXCEPT ![p].busy = b]
           h == [g EXCEPT ![p].sessions = c]
<1>1. f \in [Procs -> VpType] /\ \A q \in Procs \ {p} : f[q] = vp[q]
  BY ZenonT(60) DEF VpType
<1> HIDE DEF f
<1>2. g \in [Procs -> VpType] /\ \A q \in Procs \ {p} : g[q] = f[q]
  BY <1>1, ZenonT(60) DEF VpType
<1> HIDE DEF g
<1>3. h \in [Procs -> VpType] /\ \A q \in Procs \ {p} : h[q] = g[q]
  BY <1>2, ZenonT(60) DEF VpType
<1>4. vp' = h
  BY DEF f, g
<1> HIDE DEF h
<1> QED
  BY <1>1, <1>2, <1>3, <1>4, Zenon

(* The decision of handle_connections to create a spare thread keeps the   *)
(* limits.                                                                 *)
LEMMA ServesCounted ==
  ASSUME LockInv, ThrottleInv, NEW p \in Procs, Serves(p)
  PROVE  ThrottleInv'
<1> DEFINE v == vp[p]
<1>1. PICK spare \in 0 .. (IF NeedsSpare(v) THEN 1 ELSE 0) :
        /\ Accepts(p, spare)
        /\ vp' = [vp EXCEPT ![p].wait = @ - 1 + spare, ![p].busy = @ + 1,
                            ![p].sessions = @ + 1]
        /\ IF NeedsSpare(v) /\ spare = 0 THEN Fault ELSE UNCHANGED sent
  BY Zenon DEF Serves
<1>2. spare \in Nat /\ spare <= 1 /\ (spare = 1 => NeedsSpare(v))
  OBVIOUS
<1>3. v.state = "up" /\ UNCHANGED <<wdog, vp_pids, conf>>
  BY DEF Serves
<1>4. v \in VpType /\ v.wait \in Nat /\ v.busy \in Nat /\ v.sessions \in Nat
  BY SMTT(60) DEF ThrottleInv, ServerType, VpType
<1>5. /\ \A q \in Procs \ {p} : acc'[q] = acc[q]
      /\ Waiting(p)' = Waiting(p) - 1 + spare
      /\ Waiting(p) > 0
  BY <1>1, <1>2, AgainWaiting DEF Accepts, LockInv
<1>6. /\ v.wait = Waiting(p) /\ v.busy = v.sessions
      /\ v.wait <= max_wait_threads /\ v.wait + v.busy <= max_threads
      /\ v.wait >= min_wait_threads \/ v.wait + v.busy = max_threads \/ sent.faults > 0
  BY <1>3 DEF ThrottleInv, Counted, Throttled, Waiting
<1>7. /\ sent' \in [conns : 0 .. MaxConns, signals : SUBSET Signals, faults : Nat]
      /\ sent'.conns = sent.conns /\ sent'.faults >= sent.faults
      /\ NeedsSpare(v) /\ spare = 0 => sent'.faults > 0
      /\ sent.faults > 0 => sent'.faults > 0
  <2>1. CASE Fault
    BY <2>1, FaultEffect DEF ThrottleInv
  <2>2. CASE UNCHANGED sent /\ ~(NeedsSpare(v) /\ spare = 0)
    BY <2>2 DEF ThrottleInv, ServerType
  <2> QED
    BY <1>1, <2>1, <2>2
<1> DEFINE r == vp'[p]
<1>8. v.wait - 1 + spare \in Nat
  BY <1>2, <1>4, <1>5, <1>6
<1>9. vp' \in [Procs -> VpType] /\ \A q \in Procs \ {p} : vp'[q] = vp[q]
  <2>1. v.busy + 1 \in Nat /\ v.sessions + 1 \in Nat /\ vp \in [Procs -> VpType]
    BY <1>4 DEF ThrottleInv, ServerType
  <2>2. vp' = [vp EXCEPT ![p].wait = v.wait - 1 + spare, ![p].busy = v.busy + 1,
                         ![p].sessions = v.sessions + 1]
    BY <1>1
  <2> QED
    BY <1>8, <2>1, <2>2, CountersSet, Zenon
<1>10. /\ r.state = "up" /\ r.wait = v.wait - 1 + spare
       /\ r.busy = v.busy + 1 /\ r.sessions = v.sessions + 1
  BY <1>1, <1>3, <1>4 DEF ThrottleInv, ServerType, VpType
<1>11. /\ r.wait <= max_wait_threads /\ r.wait + r.busy <= max_threads
       /\ r.wait >= min_wait_threads \/ r.wait + r.busy = max_threads \/ sent'.faults > 0
  BY <1>2, <1>4, <1>6, <1>7, <1>10, Limits DEF NeedsSpare
<1>12. Counted(p)'
  BY <1>5, <1>6, <1>9, <1>10, <1>11 DEF Counted, Throttled, Waiting
<1>13. backlog' \in 0 .. sent'.conns
  BY <1>1, <1>7 DEF ThrottleInv, ServerType, Accepts
<1>14. vp[p].state \in Live
  BY <1>3 DEF Live
<1> QED
  BY <1>3, <1>5, <1>7, <1>9, <1>12, <1>13, <1>14, ProcessStep

LEMMA SessionEndsCounted ==
  ASSUME LockInv, ThrottleInv, NEW p \in Procs, SessionEnds(p)
  PROVE  ThrottleInv'
<1> DEFINE v == vp[p]
           stays == v.wait + 1 <= max_wait_threads
           r == vp'[p]
<1>1. /\ v.state = "up" /\ v.sessions > 0 /\ backlog' = backlog
      /\ UNCHANGED <<wdog, vp_pids, conf, sent>>
  BY DEF SessionEnds, Runs
<1>2. v \in VpType /\ v.wait \in Nat /\ v.busy \in Nat /\ v.sessions \in Nat
  BY SMTT(60) DEF ThrottleInv, ServerType, VpType
<1>3. /\ v.wait = Waiting(p) /\ v.busy = v.sessions
      /\ v.wait <= max_wait_threads /\ v.wait + v.busy <= max_threads
      /\ v.wait >= min_wait_threads \/ v.wait + v.busy = max_threads \/ sent.faults > 0
  BY <1>1 DEF ThrottleInv, Counted, Throttled, Waiting
<1>4. /\ \A q \in Procs \ {p} : acc'[q] = acc[q]
      /\ Waiting(p)' = IF stays THEN Waiting(p) + 1 ELSE Waiting(p)
  <2>1. CASE stays
    <3>1. acc' = [acc EXCEPT ![p].try = @ + 1]
      BY <2>1 DEF SessionEnds
    <3>2. /\ \A q \in Procs \ {p} : acc'[q] = acc[q]
          /\ acc'[p].try = acc[p].try + 1
          /\ acc'[p].locked = acc[p].locked /\ acc'[p].poll = acc[p].poll
      BY <3>1 DEF LockInv, Places
    <3>3. acc[p].try \in Nat /\ acc[p].locked \in Nat /\ acc[p].poll \in Nat
      BY DEF LockInv, Places
    <3> QED
      BY <2>1, <3>2, <3>3 DEF Waiting
  <2>2. CASE ~stays
    BY <2>2 DEF SessionEnds, Waiting
  <2> QED
    BY <2>1, <2>2
<1>5. vp' \in [Procs -> VpType] /\ \A q \in Procs \ {p} : vp'[q] = vp[q]
  <2> DEFINE waits == IF stays THEN v.wait + 1 ELSE v.wait
  <2>1. /\ waits \in Nat /\ v.busy - 1 \in Nat /\ v.sessions - 1 \in Nat
        /\ vp \in [Procs -> VpType]
    BY <1>1, <1>2, <1>3 DEF ThrottleInv, ServerType
  <2>2. vp' = [vp EXCEPT ![p].wait = waits, ![p].busy = v.busy - 1,
                         ![p].sessions = v.sessions - 1]
    BY DEF SessionEnds
  <2> HIDE DEF waits
  <2> QED
    BY <2>1, <2>2, CountersSet, Zenon
<1>6. /\ r.state = "up" /\ r.wait = IF stays THEN v.wait + 1 ELSE v.wait
      /\ r.busy = v.busy - 1 /\ r.sessions = v.sessions - 1
  BY <1>1, <1>2 DEF ThrottleInv, ServerType, VpType, SessionEnds
<1>7. /\ r.wait <= max_wait_threads /\ r.wait + r.busy <= max_threads
      /\ r.wait >= min_wait_threads \/ r.wait + r.busy = max_threads \/ sent.faults > 0
  BY <1>2, <1>3, <1>6, Limits
<1>8. Counted(p)'
  BY <1>1, <1>3, <1>4, <1>5, <1>6, <1>7 DEF Counted, Throttled, Waiting
<1>9. /\ sent' \in [conns : 0 .. MaxConns, signals : SUBSET Signals, faults : Nat]
      /\ sent'.faults >= sent.faults /\ backlog' \in 0 .. sent'.conns
  BY <1>1 DEF ThrottleInv, ServerType
<1>10. vp[p].state \in Live
  BY <1>1 DEF Live
<1> QED
  BY <1>1, <1>4, <1>5, <1>8, <1>9, <1>10, ProcessStep

LEMMA InstallCounted ==
  ASSUME LockInv, ThrottleInv, NEW p \in Procs, install_sighandlers(p)
  PROVE  ThrottleInv'
<1> DEFINE v == vp[p]
<1>1. PICK order \in Arrangements(v.pending, [s \in Signals |-> 0]) :
        vp' = [vp EXCEPT ![p].state = "installed", ![p].pending = {},
                         ![p].sig_pipe = order]
  BY Zenon DEF install_sighandlers
<1>2. v \in VpType /\ v.pending \subseteq Signals /\ vp \in [Procs -> VpType]
  BY SMTT(60) DEF ThrottleInv, ServerType, VpType
<1>3. order \in Seq(Signals)
  <2>1. IsFiniteSet(Signals)
    <3>1. IsFiniteSet({"HUP"})
      BY FS_Singleton, Zenon
    <3>2. IsFiniteSet({"HUP"} \cup {"TERM"})
      BY <3>1, FS_AddElement
    <3>3. Signals = {"HUP"} \cup {"TERM"}
      BY DEF Signals
    <3> QED
      BY <3>2, <3>3
  <2>2. Cardinality(v.pending) \in Nat
    BY <1>2, <2>1, FS_Subset, FS_CardinalityType
  <2>3. order \in [1 .. Cardinality(v.pending) -> v.pending]
    BY <1>1 DEF Arrangements
  <2> QED
    BY <1>2, <2>2, <2>3
<1> DEFINE f == [vp EXCEPT ![p].state = "installed"]
           g == [f EXCEPT ![p].pending = {}]
           h == [g EXCEPT ![p].sig_pipe = order]
<1>4. /\ f \in [Procs -> VpType] /\ \A q \in Procs \ {p} : f[q] = vp[q]
      /\ f[p].state = "installed"
      /\ f[p].busy = v.busy /\ f[p].sessions = v.sessions
  BY <1>2, Zenon DEF VpType, VpStates, Live
<1> HIDE DEF f
<1>5. /\ g \in [Procs -> VpType] /\ \A q \in Procs \ {p} : g[q] = f[q]
      /\ g[p].state = "installed"
      /\ g[p].busy = v.busy /\ g[p].sessions = v.sessions
  BY <1>4, ZenonT(60) DEF VpType
<1> HIDE DEF g
<1>6. /\ h \in [Procs -> VpType] /\ \A q \in Procs \ {p} : h[q] = g[q]
      /\ h[p].state = "installed"
      /\ h[p].busy = v.busy /\ h[p].sessions = v.sessions
  BY <1>3, <1>5, ZenonT(60) DEF VpType
<1>7. vp' = h
  BY <1>1 DEF f, g
<1> HIDE DEF h
<1>8. /\ v.state = "starting" /\ acc' = acc /\ backlog' = backlog
      /\ UNCHANGED <<wdog, vp_pids, conf, sent>>
  BY DEF install_sighandlers, acceptVars
<1>9. acc[p] = Nobody /\ v.busy = 0 /\ v.sessions = 0
  BY <1>8 DEF ThrottleInv, Counted, NoThreads
<1>10. Counted(p)'
  BY <1>6, <1>7, <1>8, <1>9, EmptyCounted
<1>11. /\ sent' \in [conns : 0 .. MaxConns, signals : SUBSET Signals, faults : Nat]
       /\ sent'.faults >= sent.faults /\ backlog' \in 0 .. sent'.conns
  BY <1>8 DEF ThrottleInv, ServerType
<1>12. vp[p].state \in Live /\ \A q \in Procs \ {p} : vp'[q] = vp[q] /\ acc'[q] = acc[q]
  BY <1>4, <1>5, <1>6, <1>7, <1>8 DEF Live
<1> QED
  BY <1>6, <1>7, <1>8, <1>10, <1>11, <1>12, ProcessStep

(* start_threads: the counters of a process that comes up. *)
LEMMA StartCounted ==
  ASSUME LockInv, ThrottleInv, NEW p \in Procs, start_threads(p)
  PROVE  ThrottleInv'
<1> DEFINE v == vp[p]
<1>1. PICK n \in 0 .. max_wait_threads :
        /\ sent' = [sent EXCEPT !.faults = @ + n]
        /\ IF n = max_wait_threads THEN Ends(p)
           ELSE /\ vp' = [vp EXCEPT ![p].state = "up", ![p].loaded = conf,
                                    ![p].wait = max_wait_threads - n]
                /\ acc' = [acc EXCEPT ![p].try = max_wait_threads - n]
                /\ UNCHANGED <<serialized, backlog, token, lost>>
  BY DEF start_threads
<1>2. v.state = "installed" /\ UNCHANGED <<wdog, vp_pids, conf>>
  BY DEF start_threads
<1>3. n \in Nat /\ max_wait_threads - n \in Nat
  BY Limits
<1>4. /\ sent' \in [conns : 0 .. MaxConns, signals : SUBSET Signals, faults : Nat]
      /\ sent'.conns = sent.conns /\ sent'.faults >= sent.faults
      /\ n > 0 => sent'.faults > 0
  BY <1>1, <1>3 DEF ThrottleInv, ServerType
<1>5. vp[p].state \in Live
  BY <1>2 DEF Live
<1>6. CASE n = max_wait_threads
  BY <1>1, <1>2, <1>4, <1>5, <1>6, EndsCounted DEF LockInv
<1>7. CASE n # max_wait_threads
  <2>1. vp \in [Procs -> VpType] /\ conf \in Nat
    BY DEF ThrottleInv, ServerType
  <2>2. acc[p] = Nobody /\ v.busy = 0 /\ v.sessions = 0
    BY <1>2 DEF ThrottleInv, Counted, NoThreads
  <2> DEFINE f == [vp EXCEPT ![p].state = "up"]
             g == [f EXCEPT ![p].loaded = conf]
             h == [g EXCEPT ![p].wait = max_wait_threads - n]
  <2>3. /\ f \in [Procs -> VpType] /\ \A q \in Procs \ {p} : f[q] = vp[q]
        /\ f[p].state = "up" /\ f[p].busy = 0 /\ f[p].sessions = 0
    BY <2>1, <2>2, ZenonT(60) DEF VpType, VpStates, Live
  <2> HIDE DEF f
  <2>4. /\ g \in [Procs -> VpType] /\ \A q \in Procs \ {p} : g[q] = f[q]
        /\ g[p].state = "up" /\ g[p].busy = 0 /\ g[p].sessions = 0
    BY <2>1, <2>3, ZenonT(60) DEF VpType
  <2> HIDE DEF g
  <2>5. /\ h \in [Procs -> VpType] /\ \A q \in Procs \ {p} : h[q] = g[q]
        /\ h[p].state = "up" /\ h[p].busy = 0 /\ h[p].sessions = 0
        /\ h[p].wait = max_wait_threads - n
    BY <1>3, <2>4, ZenonT(60) DEF VpType
  <2>6. vp' = h
    BY <1>1, <1>7 DEF f, g
  <2> HIDE DEF h
  <2>7. acc' = [acc EXCEPT ![p].try = max_wait_threads - n] /\ backlog' = backlog
    BY <1>1, <1>7
  <2>8. /\ \A q \in Procs \ {p} : acc'[q] = acc[q]
        /\ acc'[p].try = max_wait_threads - n
        /\ acc'[p].locked = 0 /\ acc'[p].poll = 0
    BY <2>2, <2>7 DEF LockInv, Places, Nobody
  <2>9. /\ max_wait_threads - n = max_wait_threads - n + 0 + 0
        /\ max_wait_threads - n <= max_wait_threads
        /\ max_wait_threads - n + 0 <= max_threads
        /\ max_wait_threads - n >= min_wait_threads \/ sent'.faults > 0
    BY <1>3, <1>4, Limits
  <2>10. Counted(p)'
    BY <2>5, <2>6, <2>8, <2>9 DEF Counted, Throttled
  <2>11. backlog' \in 0 .. sent'.conns
    BY <1>4, <2>7 DEF ThrottleInv, ServerType
  <2>12. \A q \in Procs \ {p} : vp'[q] = vp[q] /\ acc'[q] = acc[q]
    BY <2>3, <2>4, <2>5, <2>6, <2>8
  <2> QED
    BY <1>2, <1>4, <1>5, <2>5, <2>6, <2>10, <2>11, <2>12, ProcessStep
<1> QED
  BY <1>6, <1>7

LEMMA SignalsCounted ==
  ASSUME LockInv, ThrottleInv, NEW p \in Procs, process_signals(p)
  PROVE  ThrottleInv'
<1> DEFINE v == vp[p]
<1>1. v.state = "up" /\ v.sig_pipe # << >> /\ UNCHANGED <<wdog, vp_pids, conf, sent>>
  BY DEF process_signals, Runs
<1>2. /\ sent' \in [conns : 0 .. MaxConns, signals : SUBSET Signals, faults : Nat]
      /\ sent'.conns = sent.conns /\ sent'.faults >= sent.faults
  BY <1>1 DEF ThrottleInv, ServerType
<1>3. vp[p].state \in Live
  BY <1>1 DEF Live
<1>4. CASE Ends(p)
  BY <1>1, <1>2, <1>3, <1>4, EndsCounted DEF LockInv
<1>5. CASE /\ vp' = [vp EXCEPT ![p].sig_pipe = Tail(@), ![p].loaded = conf]
           /\ UNCHANGED <<acceptVars, lost>>
  <2>1. v \in VpType /\ v.sig_pipe \in Seq(Signals) /\ vp \in [Procs -> VpType] /\ conf \in Nat
    BY SMTT(60) DEF ThrottleInv, ServerType, VpType
  <2>2. Tail(v.sig_pipe) \in Seq(Signals)
    BY <1>1, <2>1
  <2> DEFINE tail == Tail(v.sig_pipe)
             f == [vp EXCEPT ![p].sig_pipe = tail]
             g == [f EXCEPT ![p].loaded = conf]
  <2>3. tail \in Seq(Signals)
    BY <2>2
  <2>4. vp' = [[vp EXCEPT ![p].sig_pipe = tail] EXCEPT ![p].loaded = conf]
    BY <1>5
  <2> HIDE DEF tail
  <2>5. /\ f \in [Procs -> VpType] /\ \A q \in Procs \ {p} : f[q] = vp[q]
        /\ f[p].state = v.state /\ f[p].wait = v.wait
        /\ f[p].busy = v.busy /\ f[p].sessions = v.sessions
    BY <2>1, <2>3, Zenon DEF VpType
  <2>6. vp' = g
    BY <2>4
  <2> HIDE DEF f
  <2>7. /\ g \in [Procs -> VpType] /\ \A q \in Procs \ {p} : g[q] = f[q]
        /\ g[p].state = v.state /\ g[p].wait = v.wait
        /\ g[p].busy = v.busy /\ g[p].sessions = v.sessions
    BY <2>1, <2>5, ZenonT(60) DEF VpType
  <2> HIDE DEF g
  <2>8. acc' = acc /\ backlog' \in 0 .. sent'.conns
    BY <1>1, <1>5 DEF acceptVars, ThrottleInv, ServerType
  <2>9. Counted(p)'
    BY <1>1, <2>6, <2>7, <2>8 DEF ThrottleInv, Counted, Throttled
  <2>10. \A q \in Procs \ {p} : vp'[q] = vp[q] /\ acc'[q] = acc[q]
    BY <2>5, <2>6, <2>7, <2>8
  <2> QED
    BY <1>1, <1>2, <1>3, <2>6, <2>7, <2>8, <2>9, <2>10, ProcessStep
<1> QED
  BY <1>4, <1>5 DEF process_signals
-----------------------------------------------------------------------------
(* A step of the watchdog: threads do not change; a process whose state    *)
(* changes has none before and after.                                      *)
LEMMA WatchStep ==
  ASSUME ThrottleInv, ServerType', WatchInv', acc' = acc, sent'.faults >= sent.faults,
         \A q \in Procs :
           \/ /\ vp'[q].state = vp[q].state /\ vp'[q].wait = vp[q].wait
              /\ vp'[q].busy = vp[q].busy /\ vp'[q].sessions = vp[q].sessions
           \/ /\ vp[q].state # "up" /\ vp'[q].state # "up"
              /\ vp'[q].busy = 0 /\ vp'[q].sessions = 0
  PROVE  ThrottleInv'
<1> SUFFICES ASSUME NEW q \in Procs
             PROVE  Counted(q)'
  BY DEF ThrottleInv
<1>1. CASE /\ vp'[q].state = vp[q].state /\ vp'[q].wait = vp[q].wait
           /\ vp'[q].busy = vp[q].busy /\ vp'[q].sessions = vp[q].sessions
  BY <1>1, QuietCounted DEF ThrottleInv
<1>2. CASE /\ vp[q].state # "up" /\ vp'[q].state # "up"
           /\ vp'[q].busy = 0 /\ vp'[q].sessions = 0
  <2>1. acc[q] = Nobody
    BY <1>2 DEF ThrottleInv, Counted, NoThreads
  <2> QED
    BY <1>2, <2>1, EmptyCounted
<1> QED
  BY <1>1, <1>2

LEMMA ForkFirstCounted ==
  ASSUME ThrottleInv, ForkFirst
  PROVE  ThrottleInv'
<1> DEFINE p == wdog.index
<1>1. /\ wdog.at = "start" /\ p \in Procs /\ p \in p .. Count /\ Procs = 1 .. Count
      /\ Count \in Nat
  BY ServerAssumption DEF ForkFirst, ThrottleInv, ServerType
<1>2. \A q \in p .. Count : vp[q].state = "none"
  BY <1>1 DEF ThrottleInv, WatchInv
<1>3. UNCHANGED <<acc, backlog, conf, sent>>
  BY DEF ForkFirst, acceptVars
<1>4. sent'.faults >= sent.faults
  BY <1>3 DEF ThrottleInv, ServerType
<1>5. CASE /\ vp' = [vp EXCEPT ![p] = Vp("starting", 1, FALSE)]
           /\ vp_pids' = [vp_pids EXCEPT ![p] = 1]
           /\ wdog' = IF p = Count THEN [wdog EXCEPT !.at = "wait"]
                      ELSE [wdog EXCEPT !.index = p + 1]
  <2> DEFINE v == Vp("starting", 1, FALSE)
  <2>1. v \in VpType /\ v.state = "starting" /\ v.busy = 0 /\ v.sessions = 0
    <3>1. "starting" \in VpStates /\ 1 \in 1 .. 2 /\ FALSE \in BOOLEAN
      BY DEF VpStates, Live
    <3> QED
      BY <3>1, VpIsVp, Zenon
  <2> HIDE DEF v
  <2>2. /\ vp' \in [Procs -> VpType] /\ vp'[p] = v
        /\ \A q \in Procs \ {p} : vp'[q] = vp[q]
    BY <1>1, <1>5, <2>1, Zenon DEF ThrottleInv, ServerType, v
  <2>3. /\ wdog' \in [at : {"start", "wait", "reaped", "forked", "exited", "quit"},
                       index : Procs, pending : SUBSET Signals]
        /\ wdog'.at = "start" => wdog'.index = p + 1
        /\ wdog'.at # "reaped"
    <3>1. CASE p = Count
      BY <1>5, <3>1 DEF ThrottleInv, ServerType
    <3>2. CASE p # Count
      <4>1. p + 1 \in Procs
        BY <1>1, <3>2
      <4>2. wdog' = [wdog EXCEPT !.index = p + 1]
        BY <1>5, <3>2
      <4> QED
        BY <1>1, <4>1, <4>2, SMTT(60) DEF ThrottleInv, ServerType
    <3> QED
      BY <3>1, <3>2
  <2>4. vp_pids' \in [Procs -> -1 .. 2]
    BY <1>1, <1>5 DEF ThrottleInv, ServerType
  <2>5. ServerType'
    BY <1>3, <2>2, <2>3, <2>4 DEF ThrottleInv, ServerType
  <2>6. WatchInv'
    BY <1>1, <1>2, <2>2, <2>3 DEF WatchInv
  <2> QED
    BY <1>1, <1>2, <1>3, <1>4, <2>1, <2>2, <2>5, <2>6, WatchStep
<1>6. CASE /\ wdog' = [wdog EXCEPT !.at = IF p = 1 THEN "quit" ELSE "wait"]
           /\ UNCHANGED <<vp, vp_pids>>
  <2>1. ServerType' /\ WatchInv'
    BY <1>3, <1>6 DEF ThrottleInv, ServerType, WatchInv
  <2> QED
    BY <1>3, <1>4, <1>6, <2>1, WatchStep
<1> QED
  BY <1>5, <1>6, Zenon DEF ForkFirst

LEMMA WaitCounted ==
  ASSUME ThrottleInv, Wait
  PROVE  ThrottleInv'
<1>1. PICK p \in Procs : /\ vp[p].state = "dead"
                         /\ vp' = [vp EXCEPT ![p].state = "gone"]
                         /\ wdog' = [wdog EXCEPT !.at = "reaped", !.index = p]
  BY Zenon DEF Wait
<1>2. UNCHANGED <<acc, backlog, vp_pids, conf, sent>>
  BY DEF Wait, acceptVars
<1>3. vp[p].busy = 0 /\ vp[p].sessions = 0
  BY <1>1 DEF ThrottleInv, Counted, NoThreads
<1>4. /\ vp' \in [Procs -> VpType] /\ \A q \in Procs \ {p} : vp'[q] = vp[q]
      /\ vp'[p].state = "gone" /\ vp'[p].busy = 0 /\ vp'[p].sessions = 0
  <2>1. vp \in [Procs -> VpType] /\ "gone" \in VpStates
    BY DEF ThrottleInv, ServerType, VpStates
  <2>2. vp' = [vp EXCEPT ![p].state = "gone"]
    BY <1>1
  <2> QED
    BY <1>3, <2>1, <2>2, ZenonT(60) DEF VpType
<1>5. /\ wdog' \in [at : {"start", "wait", "reaped", "forked", "exited", "quit"},
                     index : Procs, pending : SUBSET Signals]
      /\ wdog'.at = "reaped" /\ wdog'.index = p
  BY <1>1, Zenon DEF ThrottleInv, ServerType
<1>6. ServerType'
  BY <1>2, <1>4, <1>5 DEF ThrottleInv, ServerType
<1>7. WatchInv'
  BY <1>4, <1>5 DEF WatchInv
<1>8. sent'.faults >= sent.faults
  BY <1>2 DEF ThrottleInv, ServerType
<1> QED
  BY <1>1, <1>2, <1>4, <1>6, <1>7, <1>8, WatchStep

LEMMA ForkAnotherCounted ==
  ASSUME ThrottleInv, ForkAnother
  PROVE  ThrottleInv'
<1> DEFINE p == wdog.index
<1>1. /\ p \in Procs /\ vp[p].state = "gone" /\ vp[p].pid \in 1 .. 2
      /\ UNCHANGED <<acc, backlog, vp_pids, conf>>
  BY DEF ForkAnother, acceptVars, ThrottleInv, ServerType, WatchInv, VpType
<1>2. /\ wdog' \in [at : {"start", "wait", "reaped", "forked", "exited", "quit"},
                     index : Procs, pending : SUBSET Signals]
      /\ wdog'.at = "forked"
  BY DEF ForkAnother, ThrottleInv, ServerType
<1>3. WatchInv'
  BY <1>2 DEF WatchInv
<1>4. CASE Fault /\ UNCHANGED vp
  <2>1. /\ sent' \in [conns : 0 .. MaxConns, signals : SUBSET Signals, faults : Nat]
        /\ sent'.conns = sent.conns /\ sent'.faults >= sent.faults
    BY <1>4, FaultEffect DEF ThrottleInv
  <2>2. ServerType'
    BY <1>1, <1>2, <1>4, <2>1 DEF ThrottleInv, ServerType
  <2> QED
    BY <1>1, <1>3, <1>4, <2>1, <2>2, WatchStep
<1>5. CASE /\ vp' = [vp EXCEPT ![p] = Vp("starting", Other(vp[p].pid), TRUE)]
           /\ UNCHANGED sent
  <2> DEFINE v == Vp("starting", Other(vp[p].pid), TRUE)
  <2>1. "starting" \in VpStates /\ Other(vp[p].pid) \in 1 .. 2 /\ TRUE \in BOOLEAN
    BY <1>1 DEF VpStates, Live, Other
  <2>2. v \in VpType /\ v.state = "starting" /\ v.busy = 0 /\ v.sessions = 0
    BY <2>1, VpIsVp, Zenon
  <2> HIDE DEF v
  <2>3. /\ vp' \in [Procs -> VpType] /\ vp'[p] = v
        /\ \A q \in Procs \ {p} : vp'[q] = vp[q]
    BY <1>1, <1>5, <2>2, Zenon DEF ThrottleInv, ServerType, v
  <2>4. ServerType'
    BY <1>1, <1>2, <1>5, <2>3, Zenon DEF ThrottleInv, ServerType
  <2>5. sent'.faults >= sent.faults
    BY <1>5 DEF ThrottleInv, ServerType
  <2> QED
    BY <1>1, <1>3, <2>2, <2>3, <2>4, <2>5, WatchStep
<1> QED
  BY <1>4, <1>5, Zenon DEF ForkAnother

LEMMA DeliverEffect ==
  ASSUME NEW v \in VpType, NEW sig \in Signals, NEW w, w = Deliver(v, sig)
  PROVE  /\ w \in VpType
         /\ v.state \in {"none", "dead", "gone"} => w = v
         /\ \/ /\ w.state = v.state /\ w.wait = v.wait
               /\ w.busy = v.busy /\ w.sessions = v.sessions
            \/ /\ v.state # "up" /\ w.state # "up" /\ w.busy = 0 /\ w.sessions = 0
<1>0. v.masked \in BOOLEAN /\ v.pid \in 1 .. 2 /\ v.sig_pipe \in Seq(Signals)
      /\ v.pending \subseteq Signals
  BY DEF VpType
<1>1. CASE v.state = "starting" /\ v.masked
  <2>1. w = [v EXCEPT !.pending = @ \cup {sig}]
    BY <1>1 DEF Deliver
  <2> QED
    BY <1>0, <1>1, <2>1 DEF VpType
<1>2. CASE v.state = "starting" /\ ~v.masked
  <2>1. w = Vp("dead", v.pid, FALSE)
    BY <1>2 DEF Deliver, Dead
  <2>2. "dead" \in VpStates /\ FALSE \in BOOLEAN
    BY DEF VpStates
  <2>3. w \in VpType /\ w.state = "dead" /\ w.busy = 0 /\ w.sessions = 0
    BY <1>0, <2>1, <2>2 DEF Vp, VpType
  <2> QED
    BY <1>2, <2>3
<1>3. CASE v.state \in {"installed", "up"}
  <2>1. w = [v EXCEPT !.sig_pipe = Append(v.sig_pipe, sig)]
    BY <1>3 DEF Deliver
  <2>2. Append(v.sig_pipe, sig) \in Seq(Signals)
    BY <1>0
  <2> QED
    BY <1>3, <2>1, <2>2, Zenon DEF VpType
<1>4. CASE v.state \notin {"starting", "installed", "up"}
  <2>1. w = v
    BY <1>4 DEF Deliver
  <2> QED
    BY <2>1
<1> QED
  BY <1>0, <1>1, <1>2, <1>3, <1>4

LEMMA HandlerCounted ==
  ASSUME ThrottleInv, wdog_sighandler
  PROVE  ThrottleInv'
<1>1. PICK sig \in wdog.pending :
        /\ vp' = [p \in Procs |-> IF vp_pids[p] = vp[p].pid
                                  THEN Deliver(vp[p], sig) ELSE vp[p]]
        /\ wdog' = [wdog EXCEPT !.pending = @ \ {sig},
                                !.at = IF sig = "TERM" THEN "exited" ELSE @]
  BY Zenon DEF wdog_sighandler
<1>2. sig \in Signals /\ \A q \in Procs : vp[q] \in VpType
  BY DEF ThrottleInv, ServerType
<1>3. UNCHANGED <<acc, backlog, vp_pids, conf, sent>> /\ wdog.at \in {"wait", "reaped"}
  BY DEF wdog_sighandler, acceptVars, Unblocked
<1>4. ASSUME NEW q \in Procs
      PROVE  /\ vp'[q] \in VpType
             /\ vp[q].state \in {"none", "dead", "gone"} => vp'[q] = vp[q]
             /\ \/ /\ vp'[q].state = vp[q].state /\ vp'[q].wait = vp[q].wait
                   /\ vp'[q].busy = vp[q].busy /\ vp'[q].sessions = vp[q].sessions
                \/ /\ vp[q].state # "up" /\ vp'[q].state # "up"
                   /\ vp'[q].busy = 0 /\ vp'[q].sessions = 0
  <2>1. CASE vp'[q] = vp[q]
    BY <1>2, <2>1
  <2>2. CASE vp'[q] = Deliver(vp[q], sig)
    BY <1>2, <2>2, DeliverEffect
  <2> QED
    BY <1>1, <2>1, <2>2
<1>5. vp' \in [Procs -> VpType]
  BY <1>1, <1>4
<1>6. /\ wdog' \in [at : {"start", "wait", "reaped", "forked", "exited", "quit"},
                     index : Procs, pending : SUBSET Signals]
      /\ wdog'.at # "start" /\ wdog'.index = wdog.index
      /\ wdog'.at = "reaped" => wdog.at = "reaped"
  BY <1>1, <1>3, Zenon DEF ThrottleInv, ServerType
<1>7. ServerType'
  BY <1>3, <1>5, <1>6 DEF ThrottleInv, ServerType
<1>8. WatchInv'
  BY <1>4, <1>6 DEF ThrottleInv, ServerType, WatchInv
<1>9. sent'.faults >= sent.faults
  BY <1>3 DEF ThrottleInv, ServerType
<1> QED
  BY <1>3, <1>4, <1>7, <1>8, <1>9, WatchStep

(* The rest of the watchdog and the environment leave the processes alone. *)
LEMMA RestCounted ==
  ASSUME ThrottleInv, NoChild \/ Unblock \/ Connect \/ \E sig \in Signals : Signal(sig)
  PROVE  ThrottleInv'
<1>1. vp' = vp /\ acc' = acc
  BY DEF NoChild, Unblock, Connect, Signal, acceptVars
<1>2. CASE NoChild
  <2>1. ServerType' /\ WatchInv'
    BY <1>2 DEF ThrottleInv, ServerType, WatchInv, NoChild, acceptVars
  <2>2. sent'.faults >= sent.faults
    BY <1>2 DEF ThrottleInv, ServerType, NoChild
  <2> QED
    BY <1>1, <2>1, <2>2, WatchStep
<1>3. CASE Unblock
  <2>1. ForkResult(vp[wdog.index]) \in -1 .. 2
    BY <1>3 DEF ThrottleInv, ServerType, VpType, ForkResult
  <2>2. vp_pids' \in [Procs -> -1 .. 2]
    BY <1>3, <2>1 DEF ThrottleInv, ServerType, Unblock
  <2>3. ServerType' /\ WatchInv'
    BY <1>3, <2>2 DEF ThrottleInv, ServerType, WatchInv, Unblock, acceptVars
  <2>4. sent'.faults >= sent.faults
    BY <1>3 DEF ThrottleInv, ServerType, Unblock
  <2> QED
    BY <1>1, <2>3, <2>4, WatchStep
<1>4. CASE Connect
  <2>1. /\ sent' \in [conns : 0 .. MaxConns, signals : SUBSET Signals, faults : Nat]
        /\ sent'.conns = sent.conns + 1 /\ sent'.faults >= sent.faults
    <3>1. /\ sent \in [conns : 0 .. MaxConns, signals : SUBSET Signals, faults : Nat]
          /\ sent.conns < MaxConns /\ sent' = [sent EXCEPT !.conns = sent.conns + 1]
      BY <1>4 DEF ThrottleInv, ServerType, Connect
    <3>2. sent.conns + 1 \in 0 .. MaxConns /\ sent.faults \in Nat
      BY <3>1, ServerAssumption
    <3> QED
      BY <3>1, <3>2
  <2>2. backlog' \in 0 .. sent'.conns
    BY <1>4, <2>1 DEF ThrottleInv, ServerType, Connect
  <2>3. ServerType' /\ WatchInv'
    BY <1>4, <2>1, <2>2 DEF ThrottleInv, ServerType, WatchInv, Connect
  <2> QED
    BY <1>1, <2>1, <2>3, WatchStep
<1>5. ASSUME NEW sig \in Signals, Signal(sig)
      PROVE  ThrottleInv'
  <2>1. /\ sent' \in [conns : 0 .. MaxConns, signals : SUBSET Signals, faults : Nat]
        /\ sent'.conns = sent.conns /\ sent'.faults >= sent.faults
    BY <1>5 DEF ThrottleInv, ServerType, Signal
  <2>2. /\ wdog' \in [at : {"start", "wait", "reaped", "forked", "exited", "quit"},
                       index : Procs, pending : SUBSET Signals]
        /\ wdog'.at = wdog.at /\ wdog'.index = wdog.index
    BY <1>5 DEF ThrottleInv, ServerType, Signal
  <2>3. conf' \in Nat /\ backlog' = backlog /\ vp_pids' = vp_pids
    BY <1>5 DEF ThrottleInv, ServerType, Signal, acceptVars
  <2>4. ServerType'
    BY <1>1, <2>1, <2>2, <2>3 DEF ThrottleInv, ServerType
  <2>5. WatchInv'
    BY <1>1, <2>2 DEF ThrottleInv, WatchInv
  <2> QED
    BY <1>1, <2>1, <2>4, <2>5, WatchStep
<1> QED
  BY <1>2, <1>3, <1>4, <1>5

LEMMA ThrottleNext ==
  ASSUME LockInv, ThrottleInv, [Next]_vars
  PROVE  ThrottleInv'
<1>1. CASE UNCHANGED vars
  BY <1>1 DEF vars, ThrottleInv, ServerType, WatchInv, Counted, Throttled, NoThreads
<1>2. CASE Watchdog \/ wdog_sighandler
  BY <1>2, ForkFirstCounted, WaitCounted, ForkAnotherCounted, HandlerCounted, RestCounted
  DEF Watchdog
<1>3. CASE Connect \/ \E sig \in Signals : Signal(sig)
  BY <1>3, RestCounted
<1>4. ASSUME NEW p \in Procs, Kill(p)
      PROVE  ThrottleInv'
  <2>1. /\ sent' \in [conns : 0 .. MaxConns, signals : SUBSET Signals, faults : Nat]
        /\ sent'.conns = sent.conns /\ sent'.faults >= sent.faults
    BY <1>4, FaultEffect DEF Kill, ThrottleInv
  <2> QED
    BY <1>4, <2>1, EndsCounted DEF Kill, LockInv
<1>5. ASSUME NEW p \in Procs,
             \/ install_sighandlers(p) \/ start_threads(p) \/ process_signals(p)
             \/ Waits(p) \/ Serves(p) \/ Refuses(p) \/ SessionEnds(p)
      PROVE  ThrottleInv'
  BY <1>5, InstallCounted, StartCounted, SignalsCounted, WaitsCounted, ServesCounted,
     RefusesCounted, SessionEndsCounted
<1> QED
  BY <1>1, <1>2, <1>3, <1>4, <1>5 DEF Next

LEMMA ServerInit ==
  ASSUME Init
  PROVE  ServerInv
<1>1. \A p \in Procs : acc[p] = Nobody
  BY DEF Init, AcceptInit
<1>2. acc \in [Procs -> [Places -> Nat]] /\ \A p \in Procs : Free(p)
  BY DEF Init, AcceptInit, Nobody, Places, Free
<1>3. LockInv
  <2>1. serialized \in BOOLEAN /\ token = (IF serialized THEN 1 ELSE 0) /\ lost = FALSE
    BY DEF Init, AcceptInit
  <2>2. token \in 0 .. 1 /\ (~serialized => token = 0)
    BY <2>1
  <2>3. AcceptSerialized
    BY <1>2, <2>1 DEF AcceptSerialized
  <2> QED
    BY <1>2, <2>1, <2>2, <2>3, Zenon DEF LockInv
<1>4. "none" \in VpStates /\ 1 \in 1 .. 2 /\ FALSE \in BOOLEAN
  BY DEF VpStates
<1>5. \A p \in Procs : /\ vp[p] \in VpType /\ vp[p].state = "none"
                        /\ vp[p].busy = 0 /\ vp[p].sessions = 0
  BY <1>4, VpIsVp, Zenon DEF Init
<1>6. vp \in [Procs -> VpType]
  BY <1>5, Zenon DEF Init
<1>7. 1 \in Procs
  BY ServerAssumption
<1>8. ServerType
  <2>1. wdog \in [at : {"start", "wait", "reaped", "forked", "exited", "quit"},
                  index : Procs, pending : SUBSET Signals]
    BY <1>7 DEF Init
  <2>2. vp_pids \in [Procs -> -1 .. 2] /\ conf \in Nat
    BY DEF Init
  <2>3. /\ sent \in [conns : 0 .. MaxConns, signals : SUBSET Signals, faults : Nat]
        /\ sent.conns = 0
    BY ServerAssumption DEF Init
  <2>4. backlog \in 0 .. sent.conns
    BY <2>3 DEF Init, AcceptInit
  <2> QED
    BY <1>6, <2>1, <2>2, <2>3, <2>4 DEF ServerType
<1>9. WatchInv
  BY <1>5, ServerAssumption, Zenon DEF WatchInv, Init
<1>10. \A p \in Procs : Counted(p)
  BY <1>1, <1>5 DEF Counted, NoThreads
<1> QED
  BY <1>3, <1>8, <1>9, <1>10 DEF ServerInv, ThrottleInv

LEMMA TypeImplied ==
  ASSUME ServerInv
  PROVE  TypeOK
<1>1. ASSUME NEW p \in Procs, NEW place \in Places
      PROVE  acc[p][place] \in 0 .. max_threads
  <2>1. acc[p].try \in Nat /\ acc[p].locked \in Nat /\ acc[p].poll \in Nat
    BY DEF ServerInv, LockInv, Places
  <2>2. CASE vp[p].state = "up"
    <3>1. /\ vp[p].wait = acc[p].try + acc[p].locked + acc[p].poll
          /\ vp[p].wait <= max_wait_threads
      BY <2>2 DEF ServerInv, ThrottleInv, Counted, Throttled
    <3> QED
      BY <2>1, <3>1, Limits DEF Places
  <2>3. CASE vp[p].state # "up"
    <3>1. acc[p] = Nobody
      BY <2>3 DEF ServerInv, ThrottleInv, Counted, NoThreads
    <3> QED
      BY <3>1, Limits DEF Nobody
  <2> QED
    BY <2>2, <2>3
<1>2. acc \in [Procs -> [Places -> 0 .. max_threads]]
  <2>1. acc \in [Procs -> [Places -> Nat]]
    BY DEF ServerInv, LockInv
  <2> QED
    BY <1>1, <2>1
<1>3. backlog \in 0 .. MaxConns
  BY ServerAssumption DEF ServerInv, ThrottleInv, ServerType
<1>4. \A p \in Procs : vp[p].state \in Live \cup {"none", "dead", "gone"}
  BY DEF ServerInv, ThrottleInv, ServerType, VpType, VpStates
<1>5. vp_pids \in [Procs -> -1 .. 2]
      /\ wdog.at \in {"start", "wait", "reaped", "forked", "exited", "quit"}
  BY DEF ServerInv, ThrottleInv, ServerType
<1> QED
  BY <1>2, <1>3, <1>4, <1>5 DEF TypeOK, ServerInv, LockInv
-----------------------------------------------------------------------------
(* The lock and the counters, as one inductive invariant of the server. *)
THEOREM ServerInvariant == Spec => []ServerInv
<1>1. Init => ServerInv
  BY ServerInit
<1>2. ServerInv /\ [Next]_vars => ServerInv'
  BY LockNext, ThrottleNext DEF ServerInv
<1> QED
  BY <1>1, <1>2, PTL DEF Spec

(* st_accept: the byte in the pipe keeps all threads of all processes but  *)
(* one out of accept(2), for any number of processes, threads, connections *)
(* and kills.                                                              *)
THEOREM AcceptCorrect == Spec => []AcceptSerialized
<1>1. ServerInv => AcceptSerialized
  BY DEF ServerInv, LockInv
<1> QED
  BY <1>1, ServerInvariant, PTL

(* handle_connections: its counters and the limits of                      *)
(* set_thread_throttling, for every way to set them.                       *)
THEOREM ThrottleCorrect == Spec => []ThreadsThrottled
<1>1. ServerInv => ThreadsThrottled
  <2> SUFFICES ASSUME ServerInv
               PROVE  ThreadsThrottled
    OBVIOUS
  <2>1. \A p \in Procs : vp[p].state = "up" => Throttled(p)
    BY DEF ServerInv, ThrottleInv, Counted
  <2> QED
    BY <2>1, TypeImplied DEF ThreadsThrottled, Throttled
<1> QED
  BY <1>1, ServerInvariant, PTL
=============================================================================
