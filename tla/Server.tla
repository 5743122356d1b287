------------------------------- MODULE Server -------------------------------
(***************************************************************************)
(* examples/server.c: a watchdog that forks the virtual processors (VPs),  *)
(* replaces the ones that die and forwards signals to them, and in every   *)
(* VP the threads that serve the connections of one listening socket and   *)
(* the thread that processes signals.  A VP's code between two blocking    *)
(* calls is one step; its signal handler may run between any two steps.    *)
(***************************************************************************)
EXTENDS StAccept, Clist

CONSTANTS
  MaxWaitThreads,   \* spare threads asked for, over all VPs
  MaxThreads,       \* threads asked for, over all VPs
  MaxConns,         \* bound: connections that arrive
  MaxFaults         \* bound: kills, failed forks and thread creations once started

VARIABLES
  vp,        \* the virtual processors
  wdog,      \* the watchdog: where it is, which VP it handles, its pending signals
  vp_pids,   \* the process ids the watchdog has stored, 0 or -1 for none
  conf,      \* version of the configuration files
  sent,      \* connections, signals and faults so far
  lost       \* a VP was killed between lock and unlock

vars == <<serialized, backlog, token, acc, vp, wdog, vp_pids, conf, sent, lost>>
acceptVars == <<serialized, backlog, token, acc>>

Signals == {"TERM", "HUP"}
Count == Cardinality(Procs)

(* set_thread_throttling: shares of a VP, rounded up. *)
Share(n) == IF n % Count # 0 THEN n \div Count + 1 ELSE n \div Count
max_wait_threads == Share(Min({MaxWaitThreads, MaxThreads}))
max_threads == Share(MaxThreads)
min_wait_threads == Min({2, max_wait_threads})

ASSUME ServerAssumption ==
  /\ Count \in Nat \ {0} /\ Procs = 1 .. Count
  /\ {MaxWaitThreads, MaxThreads} \subseteq Nat \ {0}
  /\ {MaxConns, MaxFaults} \subseteq Nat

-----------------------------------------------------------------------------
(* A VP is none, starting (forked, handlers of the watchdog or none),      *)
(* installed, up, dead (not yet waited for) or gone.  Of process ids it    *)
(* matters only that a VP's differs from that of the one it replaces.      *)
Vp(state, pid, masked) ==
  [state |-> state, pid |-> pid, masked |-> masked, pending |-> {},
   sig_pipe |-> << >>, loaded |-> 0, wait |-> 0, busy |-> 0, sessions |-> 0]

Other(pid) == IF pid = 1 THEN 2 ELSE 1

Live == {"starting", "installed", "up"}

Init ==
  /\ AcceptInit
  /\ vp = [p \in Procs |-> Vp("none", 1, FALSE)]
  /\ wdog = [at |-> "start", index |-> 1, pending |-> {}]
  /\ vp_pids = [p \in Procs |-> 0]
  /\ conf = 0
  /\ sent = [conns |-> 0, signals |-> {}, faults |-> 0]
  /\ lost = FALSE

Fault == sent.faults < MaxFaults /\ sent' = [sent EXCEPT !.faults = @ + 1]

(* v is dead, whatever it was doing. *)
Dead(v) == Vp("dead", v.pid, FALSE)

(* Process p ends: its threads are gone, what it read from the pipe too. *)
Ends(p) ==
  /\ vp' = [vp EXCEPT ![p] = Dead(@)]
  /\ acc' = [acc EXCEPT ![p] = Nobody]
  /\ lost' = (lost \/ ~Free(p))
  /\ UNCHANGED <<serialized, backlog, token>>

-----------------------------------------------------------------------------
(* The watchdog: start_processes. *)

(* fork may fail here too, after which it is not tried again. *)
ForkFirst ==
  LET p == wdog.index IN
  /\ wdog.at = "start"
  /\ \/ /\ vp' = [vp EXCEPT ![p] = Vp("starting", 1, FALSE)]
        /\ vp_pids' = [vp_pids EXCEPT ![p] = 1]
        /\ wdog' = IF p = Count THEN [wdog EXCEPT !.at = "wait"]
                   ELSE [wdog EXCEPT !.index = p + 1]
     \/ /\ wdog' = [wdog EXCEPT !.at = IF p = 1 THEN "quit" ELSE "wait"]
        /\ UNCHANGED <<vp, vp_pids>>
  /\ UNCHANGED <<acceptVars, conf, sent, lost>>

Wait ==
  /\ wdog.at = "wait"
  /\ \E p \in Procs :
       /\ vp[p].state = "dead"
       /\ vp' = [vp EXCEPT ![p].state = "gone"]
       /\ wdog' = [wdog EXCEPT !.at = "reaped", !.index = p]
  /\ UNCHANGED <<acceptVars, vp_pids, conf, sent, lost>>

(* wait fails: there is no child left. *)
NoChild ==
  /\ wdog.at = "wait"
  /\ \A p \in Procs : vp[p].state \in {"none", "gone"}
  /\ wdog' = [wdog EXCEPT !.at = "quit"]
  /\ UNCHANGED <<acceptVars, vp, vp_pids, conf, sent, lost>>

(* The signals are blocked before the fork: a signal that comes in between *)
(* waits as one that comes after the fork does.  The new process inherits  *)
(* the blocked signals, not the pending ones.                              *)
(* When fork fails, its result -1 is stored all the same.                  *)
ForkAnother ==
  /\ wdog.at = "reaped"
  /\ wdog' = [wdog EXCEPT !.at = "forked"]
  /\ \/ /\ vp' = [vp EXCEPT ![wdog.index] = Vp("starting", Other(@.pid), TRUE)]
        /\ UNCHANGED sent
     \/ Fault /\ UNCHANGED vp
  /\ UNCHANGED <<acceptVars, vp_pids, conf, lost>>

ForkResult(v) == IF v.state = "gone" THEN -1 ELSE v.pid

Unblock ==
  /\ wdog.at = "forked"
  /\ vp_pids' = [vp_pids EXCEPT ![wdog.index] = ForkResult(vp[wdog.index])]
  /\ wdog' = [wdog EXCEPT !.at = "wait"]
  /\ UNCHANGED <<acceptVars, vp, conf, sent, lost>>

(* What a signal does to a process: it stays pending, kills, or is written *)
(* to the signal pipe by child_sighandler.                                 *)
Deliver(v, sig) ==
  CASE v.state = "starting" /\ v.masked -> [v EXCEPT !.pending = @ \cup {sig}]
    [] v.state = "starting" /\ ~v.masked -> Dead(v)
    [] v.state \in {"installed", "up"} -> [v EXCEPT !.sig_pipe = Append(@, sig)]
    [] OTHER -> v

(* Mutant: the signals are unblocked before the process id is stored. *)
UnblockedEarly == {"wait", "reaped", "forked"}

Unblocked == {"wait", "reaped"}

wdog_sighandler ==
  /\ wdog.at \in Unblocked
  /\ \E sig \in wdog.pending :
       /\ vp' = [p \in Procs |-> IF vp_pids[p] = vp[p].pid
                                 THEN Deliver(vp[p], sig) ELSE vp[p]]
       /\ wdog' = [wdog EXCEPT !.pending = @ \ {sig},
                               !.at = IF sig = "TERM" THEN "exited" ELSE @]
  /\ UNCHANGED <<acceptVars, vp_pids, conf, sent, lost>>

-----------------------------------------------------------------------------
(* A virtual processor. *)

(* Mutant: what was pending is dropped. *)
install_nothing_pending(p) ==
  /\ vp[p].state = "starting"
  /\ vp' = [vp EXCEPT ![p].state = "installed", ![p].pending = {}]
  /\ UNCHANGED <<acceptVars, wdog, vp_pids, conf, sent, lost>>

(* Unblocking delivers what is pending, in some order. *)
install_sighandlers(p) ==
  /\ vp[p].state = "starting"
  /\ \E order \in Arrangements(vp[p].pending, [s \in Signals |-> 0]) :
       vp' = [vp EXCEPT ![p].state = "installed", ![p].pending = {},
                        ![p].sig_pipe = order]
  /\ UNCHANGED <<acceptVars, wdog, vp_pids, conf, sent, lost>>

(* load_configs and start_threads: n threads cannot be created. *)
start_threads(p) ==
  /\ vp[p].state = "installed"
  /\ \E n \in 0 .. max_wait_threads :
       /\ sent.faults + n <= MaxFaults
       /\ sent' = [sent EXCEPT !.faults = @ + n]
       /\ IF n = max_wait_threads THEN Ends(p)
          ELSE /\ vp' = [vp EXCEPT ![p].state = "up", ![p].loaded = conf,
                                   ![p].wait = max_wait_threads - n]
               /\ acc' = [acc EXCEPT ![p].try = max_wait_threads - n]
               /\ UNCHANGED <<serialized, backlog, token, lost>>
  /\ UNCHANGED <<wdog, vp_pids, conf>>

Runs(p) == vp[p].state = "up" /\ Free(p)

process_signals(p) ==
  /\ Runs(p) /\ vp[p].sig_pipe # << >>
  /\ \/ /\ Head(vp[p].sig_pipe) = "HUP"
        /\ vp' = [vp EXCEPT ![p].sig_pipe = Tail(@), ![p].loaded = conf]
        /\ UNCHANGED <<acceptVars, lost>>
     \/ Head(vp[p].sig_pipe) = "TERM" /\ Ends(p)
  /\ UNCHANGED <<wdog, vp_pids, conf, sent>>

-----------------------------------------------------------------------------
(* handle_connections. *)

Waits(p) ==
  /\ vp[p].state = "up"
  /\ \/ Free(p) /\ (Lock(p) \/ Readable(p))
     \/ NotReady(p)
  /\ UNCHANGED <<vp, wdog, vp_pids, conf, sent, lost>>

(* Mutant: the limit is not looked at. *)
NeedsSpareAlways(v) == v.wait - 1 < min_wait_threads

NeedsSpare(v) == v.wait - 1 < min_wait_threads /\ v.wait + v.busy < max_threads

(* A connection comes, and with it a spare thread if one is needed and can *)
(* be created.                                                             *)
Serves(p) ==
  /\ vp[p].state = "up"
  /\ \E spare \in 0 .. (IF NeedsSpare(vp[p]) THEN 1 ELSE 0) :
       /\ Accepts(p, spare)
       /\ vp' = [vp EXCEPT ![p].wait = @ - 1 + spare, ![p].busy = @ + 1,
                           ![p].sessions = @ + 1]
       /\ IF NeedsSpare(vp[p]) /\ spare = 0 THEN Fault ELSE UNCHANGED sent
  /\ UNCHANGED <<wdog, vp_pids, conf, lost>>

(* st_accept returns NULL and is called again: accept(2) failed, or there  *)
(* was no memory for the new descriptor and the connection was closed.     *)
Refuses(p) ==
  /\ vp[p].state = "up"
  /\ Fails(p) \/ Accepts(p, 1)
  /\ Fault
  /\ UNCHANGED <<vp, wdog, vp_pids, conf, lost>>

(* handle_session returns; a thread too many ends. *)
SessionEnds(p) ==
  LET stays == vp[p].wait + 1 <= max_wait_threads IN
  /\ Runs(p) /\ vp[p].sessions > 0
  /\ vp' = [vp EXCEPT ![p].wait = IF stays THEN @ + 1 ELSE @,
                      ![p].busy = @ - 1, ![p].sessions = @ - 1]
  /\ acc' = IF stays THEN [acc EXCEPT ![p].try = @ + 1] ELSE acc
  /\ UNCHANGED <<serialized, backlog, token, wdog, vp_pids, conf, sent, lost>>

-----------------------------------------------------------------------------
(* The environment. *)

Connect ==
  /\ sent.conns < MaxConns
  /\ sent' = [sent EXCEPT !.conns = @ + 1]
  /\ backlog' = backlog + 1
  /\ UNCHANGED <<serialized, token, acc, vp, wdog, vp_pids, conf, lost>>

(* Each signal is sent at most once, a bound; SIGHUP after a change of the *)
(* configuration.                                                          *)
Signal(sig) ==
  /\ wdog.at \notin {"start", "exited", "quit"} /\ sig \notin sent.signals
  /\ sent' = [sent EXCEPT !.signals = @ \cup {sig}]
  /\ wdog' = [wdog EXCEPT !.pending = @ \cup {sig}]
  /\ conf' = IF sig = "HUP" THEN conf + 1 ELSE conf
  /\ UNCHANGED <<acceptVars, vp, vp_pids, lost>>

Kill(p) ==
  /\ vp[p].state \in Live
  /\ Fault
  /\ Ends(p)
  /\ UNCHANGED <<wdog, vp_pids, conf>>

Watchdog == ForkFirst \/ Wait \/ NoChild \/ ForkAnother \/ Unblock

Next ==
  \/ Watchdog \/ wdog_sighandler
  \/ \E p \in Procs :
       \/ install_sighandlers(p) \/ start_threads(p) \/ process_signals(p)
       \/ Waits(p) \/ Serves(p) \/ Refuses(p) \/ SessionEnds(p)
       \/ Kill(p)
  \/ Connect
  \/ \E sig \in Signals : Signal(sig)

(* Processes run, every thread of a VP gets its turn, and sessions end. *)
Fairness ==
  /\ WF_vars(Watchdog) /\ WF_vars(wdog_sighandler)
  /\ \A p \in Procs :
       /\ WF_vars(install_sighandlers(p)) /\ WF_vars(start_threads(p))
       /\ WF_vars(process_signals(p)) /\ WF_vars(SessionEnds(p))
       /\ WF_vars(Waits(p)) /\ WF_vars(Serves(p))

Spec == Init /\ [][Next]_vars /\ Fairness

-----------------------------------------------------------------------------
TypeOK ==
  /\ serialized \in BOOLEAN /\ lost \in BOOLEAN
  /\ backlog \in 0 .. MaxConns /\ token \in 0 .. 1
  /\ acc \in [Procs -> [Places -> 0 .. max_threads]]
  /\ vp_pids \in [Procs -> -1 .. 2]
  /\ wdog.at \in {"start", "wait", "reaped", "forked", "exited", "quit"}
  /\ \A p \in Procs :
       vp[p].state \in Live \cup {"none", "dead", "gone"}

(* What the counters of handle_connections say of a VP is true, and a VP   *)
(* has never more threads than the limits of set_thread_throttling allow.  *)
(* As long as threads can be created, it has the spare threads it wants,   *)
(* unless it has all the threads it may have.                              *)
ThreadsThrottled ==
  /\ TypeOK
  /\ \A p \in Procs :
       LET v == vp[p] IN v.state = "up" =>
         /\ v.wait = acc[p].try + acc[p].locked + acc[p].poll
         /\ v.busy = v.sessions
         /\ v.wait <= max_wait_threads /\ v.wait + v.busy <= max_threads
         /\ \/ v.wait >= min_wait_threads
            \/ v.wait + v.busy = max_threads
            \/ sent.faults > 0

(* The byte in the pipe is a lock: with it, at most one thread of all      *)
(* processes is between lock and unlock in st_accept, and the byte is      *)
(* there for the others exactly when nobody is, unless a process was       *)
(* killed while it had it: then nobody is ever inside again.               *)
AcceptSerialized ==
  serialized =>
    /\ \A p, q \in Procs : ~Free(p) => acc[p].locked = 1 /\ (p # q => Free(q))
    /\ token = IF lost \/ \E p \in Procs : ~Free(p) THEN 0 ELSE 1
    /\ lost => \A p \in Procs : Free(p)

(* A SIGTERM the watchdog catches ends every VP, the one it was about to   *)
(* replace included (start_processes blocks signals around fork for this). *)
TermEndsAll ==
  \A p \in Procs : []<>(wdog.at = "exited" => vp[p].state \notin Live)

(* After a SIGHUP to the watchdog every VP works with the new              *)
(* configuration, wherever it was in its start when the signal came.       *)
ReloadReachesAll ==
  \A p \in Procs : []<>(vp[p].state # "up" \/ vp[p].loaded = conf)

(* A connection is accepted while the watchdog lives, though VPs die, are  *)
(* replaced, or have all their threads in sessions, unless the byte of     *)
(* st_netfd_serialize_accept went with a VP.                               *)
ConnectionsServed ==
  []<>(backlog = 0 \/ lost \/ wdog.at \in {"exited", "quit"})
=============================================================================
