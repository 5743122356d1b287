# State Threads: a verification project

TLA+ models of the State Threads library (`src/st-1.9`), the TLC configurations
that check them, and TLAPS proofs about them.  State Threads is a user-level
thread library: one process runs one *virtual processor* (VP), threads run one
at a time, and a context switch happens only inside a blocking library call.

## The system and its parts

| Part | Source | Model |
|------|--------|-------|
| Lists: circular, intrusive | `common.h` | `Clist`, lemmas in `ClistProofs` |
| VP: thread objects, queues, context switch | `common.h`, `sched.c` | `StVp` |
| Sleeping, condition variables, mutexes | `sync.c` | `StSync`, proofs in `MutexProofs`, `ResultProofs` |
| Threads, join, interrupt, poll, idle loop, clock | `sched.c` | `StSched`, invariants in `SchedInv`, proofs in `SchedProofs` |
| Timeout heap, length of the idle thread's wait | `sched.c`, `event.c` | `HeapOps`, `TimeoutHeap`, specified by `SleepQueue`, proofs in `HeapLayout`, `HeapProofs` |
| Event mechanisms: select, poll, epoll, kqueue | `event.c`, `event.h` | `Pollset`, `SelectEvent`, `PollEvent`, `EpollSet`, `EpollEvent`, `KqueueEvent`, `EventMechanisms`, specified by `EventSys` |
| epoll across `fork(2)` | `event.c` | `EpollFork` |
| Input, output, connect | `io.c` | `StreamIo` |
| `st_accept`, serialized accept | `io.c` | `StAccept` |
| Stacks | `stk.c` | `StackPool` |
| Private data of threads and descriptors | `key.c`, `io.c` | `PrivateData` |
| C++ port: threads, condition variables, timeout heap, stacks | `st_vp.cpp`, `st_common.h` | `CStVp` over `HeapOps` |
| C++ port: descriptors, epoll, input and output | `st_io.cpp`, `st_event.cpp` | `CStIO` |
| All of these together under an application | | `Library` |
| LRU cache | `extensions/lrucache.c` | `LruSet`, `LruCache`, proofs in `LruProofs` |
| DNS resolver and DNS cache | `extensions/dnsres.c`, `dnscache.c` | `DnsLookup` over `LruSet` |
| File reader process | `extensions/stx_fileio.c` | `FileReader` |
| Example server: watchdog, processes, signals, threads | `examples/server.c` | `Server` over `StAccept`, proofs in `ServerProofs` |
| Other examples | `examples/proxy.c`, `lookupdns.c`, `res.c` | not modelled: short programs that use the library |
| Drafts of the port | `coroutine_thread.cpp`, `st_cond.cpp` | not modelled: not built, and they do not compile |
| Register save and restore, time of day | `md.h`, `md.S`, `st_time.cpp` | not modelled: a context switch is atomic, and the clock is the environment's |

A blocking call puts the caller on a wait queue (condition variable, mutex) or
on the I/O queue, puts it in the timeout heap when it has a timeout, and calls
the scheduler.  The scheduler resumes the head of the run queue.  When the run
queue is empty it resumes the *idle thread*, which asks the event mechanism for
ready descriptors, reads the clock, and wakes up the threads concerned.  A
thread may be woken by a signal, a mutex handoff, a ready descriptor, the clock,
or `st_thread_interrupt`, and several of these may hit it before it runs.  The
I/O functions and the extensions are loops around these blocking calls, so other
threads run between any two of their turns.

## How the models correspond to the code

**Scheduler (`StVp`, `StSync`, `StSched`).**  A library call is one action up to
its context switch and one action from the switch to its return, because nothing
else can run in between.  `pc[t]` names the call thread `t` is inside of, and
`current = None` stands for the inside of `_st_vp_schedule`.  Calls that fail
without changing anything are stuttering steps.  The queues (`runq`, `ioq`,
`zombieq`, `waitq`) are sequences; the termination condition variable of a thread
has the thread's name.  `sleepq` maps each thread in the timeout heap to the time
left until it is due, which keeps time finite.  Thread objects are not reused.
`woken` (what made a thread runnable) and `holds` (who was told it owns a mutex)
are history variables.  `Dispatch(ready)` is the contract of an event mechanism:
it wakes any set of pollers on the I/O queue.

**Timeout heap (`HeapOps`, `TimeoutHeap`).**  `HeapOps` has the pointer structure of
`heap_insert` and `heap_delete`: left and right pointers, heap indexes and the walk
along the bits of a position.  `TimeoutHeap` has the operations of the scheduler on
it.  `SleepQueue` says what the scheduler relies on, and the heap is
shown to implement it with `queue` mapped to the due times of flagged threads.
`DispatchTimeout` is what the dispatch functions compute from the root of the
heap, with the widths of `st_utime_t` and `int`.

**Event mechanisms.**  `Pollset` has what they share: the I/O queue and the
pollsets of the threads on it.  `EventSys` is the contract: a dispatch notifies
exactly the threads that asked for something that is ready, with true reports.
Each mechanism adds its own data: the running count and the array of poll(2); the
descriptor sets, reference counts and highest descriptor of select(2); the
per-descriptor counts, the event list and the kernel's set of epoll(7), the last
as operations on a record (`EpollSet`); the one-shot filters of kqueue(2), which
wait in a list until a dispatch registers them.  (`_st_kq_init` is
commented out, so on a system with kqueue the source would have to be completed
first; the functions modelled are complete.)
`EventMechanisms` chooses one, as `st_set_eventsys` does, and states the contract
for all.  `EpollFork` uses the same operations in several processes: a child
inherits its parent's epoll set, at any moment and with whatever threads wait in it,
and makes its own at its first dispatch.  The history variables `meddled` and
`dropped` name the descriptors of a process that another one changed in its set, and
those it could not register again.

**Input and output (`StreamIo`).**  `st_connect` and the functions that receive
and send, the ones that return after one transfer and the ones that loop
(`st_readv_resid`, `st_writev_resid`, `st_writev`, and `st_read_fully` and `st_write`
on top of them), with every split into partial transfers, waits, timeouts, errors and
the failing allocation in `st_writev`.  Vectors may have empty entries.  A byte is
named by its vector and its place in it.

**The C++ port and the whole library (`CStVp`, `CStIO`, `PrivateData`,
`Library`).**  The port repeats the scheduler, the stacks, the epoll mechanism and
the input and output functions as classes.  A step is an operator on the record
`vp` of the members of `CStVp`; `CStIO` adds the descriptor objects, the table of
reference counts, the kernel's epoll set and, for each thread, the call it is in,
whose system calls may have any result the kernel can give.  `StackPool` is the
free list of stacks, the same in C and C++, and the port's timeout heap is, statement
by statement, that of `sched.c`, so `CStVp` uses the operators of `HeapOps`.  Of the
port's functions that transfer vectors `CStIO` has the system calls and the waits; the
arithmetic on the vectors, the same as in `io.c`, is in `StreamIo`.  `PrivateData` adds
the keys and values of the C library, which the port does not have, like the mutexes,
which are in `StSync` only; a thread's values lie on its stack, which the next thread
gets.  `Library` lets an application make these calls.  Its threads are shown
to be scheduled as `StSched` says, with a refinement mapping from the record to the variables of `StSched`; an input or output call
appears there as a series of polls.  The entry of a new thread into
`st_thread_main` through the saved context is taken to work.

**LRU cache (`LruSet`, `LruCache`).**  The operations of `lrucache.c` on a
record; `LruCache` lets several threads keep references while others look up,
insert, delete and evict.

**DNS (`DnsLookup`).**  Lookups of several threads through one cache; each asks
server after server for name after name, and replies come late, repeatedly or
never.  A query may be refused by a server or impossible to build.  `addr_list` and
`_stx_dns_ttl` are shared by all lookups, as in the code.

**Server (`StAccept`, `Server`).**  `StAccept` is `st_accept` in threads of several
processes, with the byte in a pipe that `st_netfd_serialize_accept` makes a lock
between them, or without it, as the server's command line chooses.  (On Linux the
library is built without the pipe; the serialized variant is for other systems.)
Threads of a process are counted by where they are, since they do not differ.
`Server` adds the watchdog of `start_processes`, with the points at which its
signal handler can run, the start of a process (forked, handlers installed,
threads started), its signal pipe, and the counters by which `handle_connections`
creates and ends threads.  One listening socket stands for all, as their threads
and counters are separate.  `lost` is a history variable: a process was killed
between lock and unlock.

**File reader (`FileReader`).**  The calling threads, the two pipes with their
capacity, and the child process.  A fork may fail; a command may find the control
pipe full, and its `st_write` may fail or time out, which the code does not look at.
Nothing in `stx_file_read` compares the length asked for with `FILEREADER_MAX_READ`, the
size of the child's buffer; `FileAssumption` assumes that callers keep to it.  The
history variable `clean` says that the
descriptor was used by one call at a time and that no call timed out.

## The runs

| Run | Question | Instance |
|-----|----------|----------|
| `sched` | Do all interleavings of the calls keep the queues, the mutexes and the reported results right? | three threads, a condition variable, a mutex, timeouts 0 and 1 |
| `fair` | Does a runnable thread run, does a timeout fire? | three threads, timeout 2 |
| `joiner` | (violated) Does every join end? | three threads |
| `heap` | Is the heap balanced and ordered, does it implement `SleepQueue`, and does the idle thread wait neither too long nor for ever? | six threads, three timeouts, a clock that may be set back, an `int` too small for some waits |
| `events` | Does every mechanism keep the contract and exact books, also in forked processes? | two threads, two descriptors, pollsets of one or two; for epoll also a parent and a child forked at any moment |
| `stream` | Is every byte transferred once and in order, are residuals and results exact, does a call with a live peer return? | vectors of up to three entries of 0 to two bytes |
| `lru` | Is nothing freed in use, and what is evicted? | three threads, six entries with two of one key, limits 3 and 5 |
| `dns` | Does every lookup get its own answer, try everything before it fails, and return? | two threads, two hosts, two servers, a search domain |
| `server` | Are the thread limits kept, is accept serialized, do signals reach every process, are connections served? | two processes, two connections, one SIGHUP, one SIGTERM, one fault |
| `file` | Does a call get the section it asked for, do calls and the close return? | two threads, a file of two units, room for one answer in the pipe |
| `filelate` | (violated) The same after a timeout. | one thread |
| `library` | Does the port schedule as `StSched` says; are stacks, descriptors and private values never shared, leaked or destroyed twice? | three threads, two descriptors, two values, five applications |

The bounds are explained in the `.cfg` files.  They are the smallest in which the
interesting cases happen: an owner with two waiters, or a joiner, its target and
a second joiner, need three threads; the heap needs six threads before the
replacement of a deleted one comes from another branch and has to rise; two
pollers and two descriptors give a descriptor that is shared and one that is
named twice; the cache has fewer places than entries and can be full by weight
before it is full by number; the pipe of the file reader fills after one
unread answer; with a share of two threads per process, two connections make a
process create a thread, reach its limit and end a thread.

The constants `Timeouts`, `Elapsed`, `Clocks` and `MaxTime` bound time.
`UtimeBits`, `IntBits` and `Milli` scale the widths of `st_utime_t` and `int` and the
length of a millisecond down to the instance.  `HeapAssumption` says that no due time
overflows `st_utime_t`; that what is left until then fits an `int` of milliseconds is
not assumed, and in `heap` it does not always.  `MaxCount` bounds the descriptors a forked
process has registered, `MaxAdd` the requests that wait for a kqueue, `MaxAvail`
and `MaxRoom` the socket buffers, `OutCap` and `ControlCap` the pipes, `MaxValues`
the private values an application makes, and `MaxConns` and `MaxFaults` what happens
to the server, which also gets each signal at most once, and none before the
watchdog has its handlers.  `FdHint`, `MinSize`, `KqMin`, `KeysMax` and `PageSize`
are constants of the code made so small that tables must grow and sizes must be
rounded, and `LocalMaxiov` one made so small that `st_writev` must allocate.
`Sections` are the parts of the file that `file` reads.  `Refusals` are the
descriptors that epoll_ctl(2) may refuse to add.

The applications of `library` each use a part of the library: threads that wait
and are waited for, threads that share descriptors, threads that serve a listening
socket, threads with private data and stacks of two sizes, and private data of
descriptors.  All calls in one application would be out of reach.

The passing runs check deadlock, except `file`, where after a timeout the close
may wait for ever (see below), and `server`, which ends or waits for clients.

### Fairness

`fair` assumes that the scheduler and the idle loop go on, that a resumed call
finishes, that application code gives the processor up again and again, which the
cooperative design asks of it, and that the clock does not stand still.  `dns`
and `stream` assume that a waiting call is resumed when what it waits for is
there or its timeout has passed, and `stream` that the peer is alive or closes,
that is, accepts a connection, sends and drains, or ends the connection.
`file` assumes that the child, a process of its own, keeps running and that a
thread whose descriptor is readable is resumed.  `server` assumes that processes
run, that the threads of a process get their turns, and that sessions end: the
response is written without a timeout, so this is asked of the clients.

### What the violated runs show

* `joiner`: between the reaping of a zombie and its cleanup a second joiner gets
  past the checks and waits for a signal that nobody sends.
* `filelate`: the answer to a call that timed out stays in the pipe, and the next
  call takes it for its own.

### Other observations

These disagreements were met while modelling and are found by changing an
instance; they have no run of their own.

* With `SignalledWaitSucceeds` as an invariant, `sched` fails: the interrupt flag is
  tested after the switch, so an interrupt sent to a waiter that was already
  signalled makes it report EINTR, and the signal is lost for the other waiters
  (`sync.c:208`).  The reference manual says that a runnable thread gets an
  interrupt when it is about to block.
* When the watchdog of the server cannot fork a replacement it stores -1 and does
  not try again (`server.c:635`), although the server is said to have "a constant
  number of processes" (`server.c:182`); with the last one it ends itself.
* A process killed between lock and unlock takes the byte with it, and no process
  accepts again: `ConnectionsServed` needs the exception `lost`.
* `PolledIsWatched`, of which `KernelSetExact` consists for forked processes, needs
  two exceptions, and `events` violates it without either.  `meddled`: until its first
  dispatch a child uses its parent's epoll set, so what it registers or deletes
  changes what the parent waits for, and an EEXIST of `epoll_ctl` is taken for success
  without adjusting the events (`event.c:1087`).  `dropped`: the result of
  `_st_epoll_pollset_add` is ignored when a forked process fills its new set
  (`event.c:1146`), so a refused descriptor is polled and not watched.
* The manual says of `st_readv_resid` that a non-zero `*iov_size` means the end of the
  connection; a vector that ends in an empty entry leaves one on an open connection
  (`io.c:500`).  `ResidExact` says it of the bytes left, not of the entries.
* `WakesInTime` needs the premise `Fits`, and `heap` violates it without: when the
  first due time is 2^31 milliseconds away, about 25 days, the wait that the dispatch
  functions compute (`event.c:1126`) turns negative or too short, and a negative one
  makes the idle thread wait without a limit although a thread sleeps.  Such a
  distance comes from a timeout of that length or from a clock set back by as much.
* A name of which `res_mkquery` makes no query is skipped with all servers that are
  left for it (`dnsres.c:142`); `TriesEverything` says so.
* A thread that was notified and has not run yet is counted by nobody, so its
  descriptor can be closed and its number given out again before the thread makes
  its next system call (`st_event.cpp:335`).  `PolledIsOpen` is about the threads
  that poll.
* With `FirstOffset = 1`, `file` violates `CleanReads`: the child takes the
  descriptor to stand at offset 0 (`stx_fileio.c:98`).
* Without `clean`, `file` violates `CloseReturns`: answers nobody reads fill the
  pipe, the child blocks in `write`, and the close waits for the child in
  `waitpid` (`stx_fileio.c:140`).  Two threads that use one descriptor take each
  other's answers (`stx_fileio.c:189`).
* The clock is read by the idle thread only (`sched.c:223`), so
  `TimersFireWhenIdle` needs its premise: threads that keep each other runnable
  keep all timeouts from being looked at.

## What is proved

The theorems about the library hold for any number of threads, condition variables
and mutexes and any set of timeouts, from the assumptions on the constants in `StVp`
(`VpAssumption`: the sets are finite or disjoint where the model needs it, and
timeouts are natural numbers).  Those about the timeout heap hold for any number of
threads and any timeouts and readings of the clock, also when it is set back, from
`HeapAssumption` (the sum of a reading and a timeout fits `st_utime_t`).  Those
about the cache hold for any entries,
keys, weights, limits and users, from `LruAssumption` and `UsersAssumption` (weights
and limits are natural numbers, the users are finitely many).  Those about the server
hold for any number of processes, limits, connections and faults, from
`ServerAssumption` (the processes are numbered from 1, the limits are positive, the
bounds natural numbers).

| Theorem | Module | States |
|---------|--------|--------|
| `TypeCorrect` | `SchedProofs` | `TypeOK` |
| `QueuesCorrect` | `SchedProofs` | the run queue holds exactly the runnable threads and the zombie queue exactly the zombies, each once (`QueuesExact`) |
| `ScheduleAssertion` | `SchedProofs` | the assertion in `_st_vp_schedule` (`NextIsRunnable`) |
| `DispatchSafe` | `SchedProofs` | a dispatch function sees only threads in IO_WAIT (`DispatchFindsWaiters`) |
| `HeapHoldsBlocked` | `SchedProofs` | only blocked threads are in the timeout heap (`SleepersBlocked`) |
| `WaitQueuesCorrect` | `MutexProofs` | wait queues hold exactly the threads inside a wait (`WaitQueuesExact`) |
| `ActiveCountCorrect` | `MutexProofs` | the counter that ends the process is exact (`ActiveCountExact`) |
| `MutexCorrect` | `MutexProofs` | no handoff is lost, and a free mutex has no blocked waiter (`MutexExact`) |
| `ResultsCorrect` | `ResultProofs` | calls report what ended their wait (`ResultsTruthful`) |
| `HeapCorrect` | `HeapProofs` | the heap is balanced, left-adjusted and ordered, and the idle thread wakes up in time whenever the time left fits an `int` of milliseconds (`HeapShape`) |
| `SteadyClock` | `HeapProofs` | if the clock is never set back and every timeout fits an `int` of milliseconds, the idle thread always wakes up in time |
| `HeapRefines` | `HeapProofs` | every insertion, deletion and reading of the clock is a step of `SleepQueue` (`ImplementsSleepQueue`) |
| `HoldersCorrect` | `LruProofs` | what a thread holds is not freed, and reference counts are exact (`HeldStays`) |
| `ListCorrect` | `LruProofs` | the LRU list has exactly the entries nobody uses, and a key is found once (`ListExact`) |
| `LimitsCorrect` | `LruProofs` | the counters are true and within the limits (`WithinLimits`) |
| `EvictionCorrect` | `LruProofs` | eviction takes the list from its head, and the list keeps the order of the last releases (`EvictsOldest`, an action property) |
| `AcceptCorrect` | `ServerProofs` | the byte in the pipe is a lock between all threads of all processes (`AcceptSerialized`) |
| `ThrottleCorrect` | `ServerProofs` | thread counters are true and within the limits (`ThreadsThrottled`) |

Apart from `SteadyClock`, which no run states, these are all the properties that the
runs `heap` and `lru` check, and all the invariants that `sched` and `server` check.

**The queues.**  The first five follow from `SchedInvariant`, which says that
`SchedInv` is an invariant.  `QueuesExact` is not inductive by itself.  That a
wakeup puts a thread on the run queue once needs to know that the thread is
blocked, and that is known only from where it was found: on a wait queue with the
state of that kind of wait (`StateFitsPlace`), in the heap (`SleepersBlocked`), or
on the I/O queue when the idle thread runs (`PollersQueued`, `IdleRunsAlone`).
`IdleRunsAlone` carries the least obvious part: a poller woken by the clock leaves
its pollq on the I/O queue until it runs, and that is harmless because the idle
thread does not dispatch again before the run queue is empty.  `NextType` and
`NextQueues` have one step per action; `BlockKeeps`, `WakeKeeps`, `ReturnKeeps` and
`ReapKeeps` are the four ways in which actions change the queues.  `ClistProofs`
has the facts about `Append`, `Unlink` and the elements of a list that they rest on.

**Wait queues and the counter.**  `WaitQueuesExact` is inductive together with
`SchedInv`: a thread enters a queue (`EnterKeeps`), leaves it (`LeaveKeeps`), or
moves to its end (`WaitAgainKeeps`), and every other step leaves the threads
inside waits alone (`WaitqFrame`).  `ActiveCountExact` follows from the change of
one thread at a time (`ActiveStep`).

**Mutexes.**  `MutexInv` adds to `OwnerKnows` what a queued thread may rely on
(`MutexWaits`): a thread that queues for a mutex does not hold it; while it is
blocked the mutex has an owner; and once it is runnable again it has been handed
the mutex, or has been interrupted with its flag still set.  From this
`LockResultExact` shows that the test `owner != me` in `st_mutex_lock` tells the two
apart, also when an interrupt follows a handoff.  `MutexUntouched` collects what
the many steps that have nothing to do with mutexes leave alone (`OtherSteps`).

**Results.**  `WakeRecorded(t)` says for a thread that has been woken inside a call
that its flags and its place on the I/O queue agree with what woke it.  A step
leaves a thread alone (`Undisturbed`), ends or begins its wait (`Settled`), or wakes
it up; the lemmas on wakeups (`SignalWakes`, `ExitWakes`, `DispatchWakes`,
`ClockWakes`, `InterruptWakes`, `ReapWakes`) say which threads and how.
`JoinersAlone` says that at most one thread at a time is inside a join of another,
since a second one is refused, and that a signal reaches it only from the exit of
its target.  So a join that is resumed without an error finds a zombie, and the
loop in `st_thread_join` never turns twice.

**The timeout heap.**  The links of the threads are a tree only as long as the code
keeps them so; the proof says which tree.  A *layout* `a` of `n` threads (`Layout`)
gives the thread at each position 1 to `n`; `Spot(a, i)` is the place, the root or a
link of the thread at `i \div 2`, that holds position `i`.  `Good(h, d, Q)` says that
for some layout of exactly the threads `Q` every place up to position `2n + 1` holds
what the layout says, NULL after `n`, every `heap_index` is the position, and due
times grow along the branches.  `HeapInv` is `Good` for the flagged threads.  No due
time wraps around (`DueTime`, from `HeapAssumption`), and the conversion to `int` loses
nothing of a wait below 2^(`IntBits` - 1) milliseconds (`LeftFits`); so the wait is
right whenever the first due time is that near (`InTime`).  While the clock is not set
back nobody is further from being due than a timeout (`Near`, `NearStep`), from which
`SteadyClock` follows for timeouts of less than 25 days, however large the readings of
the clock are.  The loops are recursive
functions; each is unfolded once into a sequence of states (`WalkUnfolded`,
`SinkUnfolded`, `PopUnfolded`), and its invariant is proved for one turn (`WalkStep`,
`SinkStepGood`, `PopStepGood`) and then for all.  The invariant of the walk in
`heap_insert` (`WalkAt`) is that the heap without the thread carried is laid out and
ordered, and that this thread is due no earlier than the last one passed; that of the
sinking loop (`SinkAt`) is that the order holds everywhere but below one position.
`ReplacedGood` is the case the tests hardly reach: the last thread replaces a deleted
one of another branch, so it may have to rise, which the walk does, or to sink.
`HeapRefines` maps each action to one of `SleepQueue` (`AddRefines`, `DelRefines`,
`ClockRefines`).

**The cache.**  `Sound(c)` is what each operation of `lrucache.c` keeps: an entry in use
is in the table; the list has every entry not in use once; an entry marked for
deletion is in use; two entries of a key are never both to be found; the counters
count the table, the weight as the number of units of weight (`Units`).  `CacheInv`
adds that a reference count is the number of holders, and the limits.  That an
insertion makes enough room (`InsertSound`) rests on `LighterSound` and
`SmallerSound`, eviction by weight and by number, each a loop over a beginning of the
list (`DeletionsSound`).  For the order of the list, `Within(r, q)` says that `r` has
only elements of `q`, in the order of `q`, and `OldestFirst` that entries leave from the
head; from these each step moves the list only as `ListMoves` says.

**Induction.**  What a recursive function computes for every input needs induction over
the natural numbers.  `ClistProofs` has it as a theorem about sets (`NatSetInduction`:
a set of natural numbers with 0 and every successor is `Nat`), from the library's
`NatLessThanWellFounded`, and the loops above use it.

**The server.**  `ServerInv` is the conjunction of `LockInv` and `ThrottleInv`.
`AcceptSerialized` is inductive with the types of its variables and the fact that
nobody takes the lock when there is none; the lemmas follow what a step does with it
(`LockKept`, `LockTaken`, `LockReleased`, `LockEnds`).  The limits need more: that a
process that is not up has no threads (`Counted`), and that the watchdog forks only
where there is no process (`WatchInv`), so that a new process never inherits the
counters of a running one.  `ServesCounted` and `SessionEndsCounted` are the two
decisions of `handle_connections`, to create a thread and to end one; `Limits` is
what they need of the rounding in `set_thread_throttling`.

TLC has checked `SchedInv`, `MutexInv` and `ResultInv` as invariants of `sched`,
`HeapInv` of `heap`, `CacheInv` of `lru`, and `ServerInv` with the constants of `server`
but three spare threads and five threads.

Model-checked only: all liveness properties, which are out of reach of the proof
system; the event mechanisms, the stream loops, the DNS resolver and the file reader;
and `Library`, that is, the port's refinement of `StSched`, stacks, descriptors and
private data.  Their invariants have no proofs yet.

## Not modelled

* Drafts of the port.  The Makefile builds neither `coroutine_thread.cpp` nor
  `st_cond.cpp`.  The first includes a header that exists only as an empty file in
  `obj/`; the second defines `st_cond_broadcast` (`st_cond.cpp:94`), which its class
  does not declare.  There is no program to model.
* Register save and restore (`md.h`, `md.S`), red zones, page protection and the
  addresses of stacks.
* The time functions: `st_utime`, the cached time of `st_timecache_set`, and
  `st_set_utime_function`.
* In the port, the reaction of `st_epoll_dispatch` to a fork, which repeats
  `event.c` (see `EpollFork`), and a failing initialization.  (`st_io_init` returns
  success before it has called `st_epoll_init` when the limit of descriptors does
  not fit an `int`, and `st_epoll_init` reads a field of its data after it has failed
  and set the pointer to NULL.)
* Failing allocations other than those of stacks, descriptor objects, `st_writev` and the
  tables of the port; among them the deletion list of kqueue.
* The debugging list of threads, the switch callbacks, statistics counters, and
  the packet format of DNS.
* Signals that reach the watchdog before it has its handlers, a full signal pipe,
  SIGUSR1, logs, and the command line of the server.
* The examples `proxy.c` and `lookupdns.c`, and the session of `server.c`: straight
  sequences of the modelled calls.  `res.c` is an earlier version of the resolver.
* Thread objects are not reused in `StSched` and `Library`, where the number of
  threads ever created is bounded; stacks, descriptors and their objects are.
