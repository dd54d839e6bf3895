# Verification of pmu_Roboflex

pmu_Roboflex paces the threads of robot applications.  A library
(`librobonix.so`, preloaded) opens a CPU-cycle counter for every thread; each
time the counter overflows, a signal handler - a *scheduling tick* - decides how
long the thread sleeps.  A daemon takes commands from other programs, keeps a
few bits and figures in shared memory, and forwards signals.  This directory
holds TLA+ models of those parts, the TLC runs that check them on small
instances, and TLAPS proofs of what holds for every instance.  Paths begin at
`src/`, which stands for the root of the repository.

## The system

| Part | State | Operations | Interacts with |
|---|---|---|---|
| Local context API (`src/src/robflex_api.c:255-436`) | per thread: `loc_ctx`, `in_critical`, `n_signal_pendings`; the application's `LocalContext` objects | `robflex_set_*`, `robflex_shot_on_latency`, `robflex_add_runcycle`, `robflex_switch_context`, ... | interrupted by both signals, on the same thread |
| Tick handlers (`src/src/dym_hook.c:69-282`) | per thread: `past`, `avg_timecost_ns`; `loc_ctx.aux.norm`, `loc_ctx.aux.lat` | `handle_tick` and the handler of each policy; `cpi_set_interrupt_handler` | read `loc_ctx`, the event table, shared memory; sleep on a futex |
| Event contexts (`src/inc/robflex_def.h:159-318`, `robflex_api.c:200-229`) | per thread: `event_map` (array or khash); event bits in shared memory | attach, detach; the scan of `handle_tick` | the daemon changes the bits at any time |
| Daemon (`src/src/server.c`) | socket, `g_running`, shared memory | start, serve, dispatch of six commands, stop | commanded by datagrams, signals threads |
| Client libraries (`robflex_api.c:20-123`; `src/src/python/robflex_api.py`) | one socket per thread, each in its own place (`socket_fd`, `_local.sock`) | open on first use, send, clean up | the daemon's socket, full or gone; the descriptors of the process |
| Thread and process set-up (`dym_hook.c:293-560`) | per thread: `perf_fd`; per process: descriptors, signal handler | constructor, `pthread_create`, `fork`, `clone`, clean-up | opens the counter that makes ticks |
| Python bindings (`src/src/python/pmu_tick_api.py`) | the library loaded; the program's cffi objects | load; every call of the C library through the cdef | local contexts and event contexts, in another layout; log messages |
| Shared memory in the client (`robflex_api.c:126-198`) | `g_shmem_data` | map, test events, busy degree | the daemon |
| Configuration (`robflex_config.c`) | `robflex_config` | parse | read at set-up |
| Load monitor, idle waker (`server.c:150-245`, `proc_stat.c`) | figures and futex in shared memory | sample, wake | ends sleeps of ticks |
| Shared-memory HPF scheduler (`script/patches/xsched.patch`) | priorities, `min_priority`, `futex_seq` in shared memory | hint, reschedule, publish, wait | xsched server and the launch worker of every GPU queue |

### What is hard in it

- *Signals inside calls.*  A tick may arrive between any two assignments of a
  call and run on half a context.  The API defers it (`in_critical`) and runs it
  on the way out - with deferral off and the signal unmasked, so ticks nest.
- *Accounts carried across.*  `time_budgets` belongs to a context, the clock
  (`past`) to the thread; contexts are switched, sleeps are late or cut short.
- *Words that wrap.*  The latency handler subtracts, multiplies and divides
  signed and unsigned 64-bit words as the types happen to fall.
- *A table written by the program while its own handler scans it*, and bits that
  the daemon changes during the scan.
- *Datagrams, restarts and signals of the daemon*: a queue that outlives a test
  of `g_running`, a socket path that another daemon takes over, bits left behind
  by a crash, a `sendto` that blocks.
- *Descriptors kept by number.*  Sockets and counters are closed, inherited and
  reused while somebody still has their number; a failure is remembered as one; a
  signal handler opens a socket in the middle of the program's opening one.
- *A set-up in steps, each of which may fail*, with threads and processes made
  in between, and a counter that runs from the first of them.
- *Two declarations of one type*: the cdef and the library disagree about
  `LocalContext`, which crosses between them by pointer and by value.
- *Two words and a futex*: a GPU queue loads `min_priority` and `futex_seq` while
  the server stores, increments and wakes, and hints arrive while it waits.

`PROJECT.json` lists these hazards one by one, with the line and the property
that covers each, or why none does.

### What makes each part correct

- Local context: no deferred tick is left behind; no tick acts on half a
  context, whatever arrives inside a call; a deferred tick runs; a call is atomic.
- Tick handlers: a bound on how far a thread runs ahead of its slices over any
  number of ticks; a debt is worked off; before a deadline, a sleep leaves the
  cycles still expected their share of the time; the estimate settles.
- Event contexts: at most one entry per event, whole entries, the promise of a
  map of limited capacity; the choice of a tick is the highest level.
- Daemon: accepted commands take effect in order, or it is known which last one
  failed; nobody who sends waits for ever; a daemon told to stop stops.
- Clients: a thread sends on its own socket, loses none but in cases that can be
  named, and gets through in the end.
- Set-up: a thread that was set up keeps ticking, no counter is lost, no tick
  kills outside a known window.
- Python bindings: what is saved comes back; a log message is logged as
  formatted or not at all.
- HPF scheduler: a worker that sleeps at its gate is outranked or about to be
  woken; the gate follows the ready queues; the highest queue runs.

## The modules

**`ContextCalls`** declares the context (policy, the two words of the union
`uAuxData`, with the member that wrote each last) and the calls.
**`AtomicContext`** is the abstract specification of the API: every call takes
effect at once and every tick is charged once to the context in use.
**`LocalContext`** is the code: `Enter`, one `Write` per assignment, `Leave`
(clears `in_critical` or unblocks the signal), `DrainTick`/`DrainDone` (the loop
on `n_signal_pendings`), `Return`; and `PerfSignal`, `TickEnd`, `CpiSignal` for the
handlers.  `frames` is the stack of ticks on the thread: the program only steps
when it is empty.  A frame keeps what its tick finds in the context when it
begins, by which it chooses its handler; when the tick ends it stores to the
budget of the context then in use (`Charged`).  How much is stored is another question:
in the budget the model counts stores, and what they add up to, nested ticks and
the `now`, `past` and `diff` they share included, is in `TickPacing`.
`CallsAreAtomic` is the refinement: a call takes effect at its first assignment
(a switch when it makes its backup); what `shot_on_latency` assigns after the
ticks it drains counts as assigned before them, since in its policy they do not
read it here (in `LatencyTick` they do).  The values of a latency context are left to
`LatencyTick`; the totals of a chain of latency contexts, which only the
application reads, are left out.

**`TickPacing`** is the arithmetic of `handle_tick`: `TickVsleep`,
`TickYielding`, the immediate policy, and what `set_time_for_throttle`,
`clear_time_budget` and `switch_context` do to the account.  Time is a natural
number; `since` is `now - past`.  Calls are atomic here, which is what
`LocalContext` is about, and so are ticks, but for one that interrupts one
(`NestedTick`): there the budget stored last wins, and the cost counted is some part
of the time since the last tick.  A switch saves the old account in any object,
the new one's included, or nowhere.  History: `lead` is how much the ticks of a window were
worth minus the time it took; the window may be restarted at any tick, so an
invariant on `lead` is a statement about every run of consecutive ticks; `cut`
records that some sleep was shorter than asked for.

**`LatencyTick`** is `handle_tick_latency_oriented` with words of `Width` bits: `U`
and `S` read a number as an unsigned or a signed word, and stand in the formulas
where C converts.  Its calls are those of a latency context
(`set_as_latency_flick`, `add_runcycle`, `chained_from_latency`, and
`shot_on_latency` in the two steps between which deferred ticks run).  A sleep
may end early; time and cycles stop at their bounds.  History: `nap`, the sleep
the last tick asked for, and what it was to fit into.

**`EventTable`** is the array build of `event_map`, store by store; the scan of a
tick, entry by entry, with the program stopped; and the bits, which change at
any time.  What the tick then stores to the words of the context it chose is left
to `TickPacing` and `LatencyTick`.  A demand's policy, aux and level are three stores, told apart by the
demand they came from.  The `uint32_t` level becomes an `int` of `Width` bits.
**`EventMap`** is its abstract specification (a map of limited capacity), which
the khash build, a vendored table, promises as well.

**`Daemon`** is `server.c` from start to stop (`unlink`, `bind`, map, clear the
bits, the loop, close, unlink), its signal handler, crashes at any step, several
daemon processes, and the clients: queued, blocked on a full socket, refused, or
timed out (Python).  `Receive` takes a datagram; `Handle` is what `handle_client_request`
and the `do_*` function it dispatches to do with it, and for the two scheduling
commands `SetScheduler` and `SetPriority` are one system call each, done or
failed, with the program counter at `nice` between the two of SCHED_OTHER: a signal
or a crash may come there.  The policy of a thread and its nice value are apart
(`class`, `nice`).  `TakeSignal` is the handler in the application, which stores the
slice and sends a log message; a thread may be blocked in that.  The kernel is external: a datagram queue of
`MaxQueue`, a path that names a socket, `sigqueue` to a process.  History:
`wanted` (what the accepted commands ask for), `unmet` (the policies and nice
values the last command about them failed to set), `alone` (no two daemons ran
at once), `late`.  The text of a datagram is abstracted (`LogText` has its length).

**`CommandClients`** is the other side of the socket: the threads of one process
that come and go, the place where each client keeps a thread's socket (`Kept`),
the table of descriptors they share with the application's files, and a command
from `PyCommand` or `CCommand` (the test for a socket) over `OpenSocket` and `KeepSocket`
(the call of `socket()` and the store of what it returned) to `Accept`, `Refuse` or
`TimeOut`; `Cleanup` is `robflex_cleanup`.  A thread has two commands under way at most:
its program's and, before any further step of that, the log message of the
signal handler that interrupted it (`HandlerLogs`), through the same `socket_fd`.  The
daemon is there or away (`Turn`).  A preloaded thread begins with `set_high_nice`.
History: `ended`, the sockets whose C thread ended; `crossed`, those a handler
opened while its program was opening one.  What a command says is left out.

**`ThreadSetup`** is `setup_perf_ctrl`, one action per system call, and `FailInit` (no
memory for the event table) and `Fail` with what each leaves behind; `CreateThread`, `Fork` and `CloneProcess`, which copy
the descriptors and the thread-local; `Return`, `PthreadExit`, `Exit`; and
`Overflow`, for the signals nothing handles.  A counter is named by the thread
it counts.  History: who has forked, which processes were cloned, whose set-up
closed a descriptor, which counters were knowingly left.

**`PythonBindings`** has a context as words and the two layouts of it: an object
of the program has the words of the cdef (`KeptByObject`), the library reads and
writes its own (`SeenByLib`), and what lies past the end is `JUNK`.  Its actions
are the loading of the library and each call that moves a context.
**`LogText`** follows a log message - formatting in Python, by a client each, a second
formatting in C, the cuts, the encoding, the 256-byte receive buffer - with a
text as its length and the counts of what matters in it.

**`HpfShm`** is the gate that the xsched patch puts before every launch: `AskToRun`
(the loop under the worker's lock, which reads the priority), `LoadMin`, `LoadSeq`,
`FutexWait` for the worker; `Sched`, then for each device `Publish` (find or add the
slot), `StoreMin`, `IncrementSeq`, `FutexWake` for the server.  A client sends the
server events, which it handles before it reschedules; that part of xsched is a
submodule and external.  `futex_seq` itself is left out: what a worker tells of
it is whether it changed (`fresh`).  A process may end and start again at any
step.  A hint is `HintPriority` (the store) and later `SendHint`: hints of several
threads may be sent in another order than they were set.  History: `missed`, the
workers whose gate opened between their two loads; `crossed`, the queues whose last
hint was sent before an earlier one.

How they fit together: `Daemon` and `CommandClients` meet at the datagram queue
(each has the other as `Handle`/`Receive` and `Accept`); the slice `Daemon` delivers by signal
is `CpiSignal` of `LocalContext`; the bits it sets are those `EventTable` scans;
`ThreadSetup` ends where `PerfSignal` begins; `LocalContext` says when a tick may run
and on what, `TickPacing` and `LatencyTick` what it does; `PythonBindings` calls
`EventTable`'s and `LocalContext`'s operations through its layouts.

The `MC*` modules give TLC its constants; the `*Proofs` modules hold the proofs.

## The runs

| Run | Instance | Shows |
|---|---|---|
| `lc` | every call, 2 objects, 3 calls, 2 ticks, a slice from the daemon | `NoTickLeftBehind`, `TicksSeeWholeContext`, `NestingIsBounded`, `CallsAreAtomic`, and `DeferredTickRuns` under fairness |
| `tp` | slices 1 and 2, 1 object, saved in it or nowhere, runs of up to 3, sleeps cut short or 1 late, ticks in ticks | `BurstBound`, `NothingOwed`, `DebtShrinks`, `DebtIsPaidOff` |
| `lat` | words of 8 bits, slice 3, 3 demands, feedback late and early, rounds of up to 14 time units and 8 cycles | `SleepsWithinDeadline`, `EstimateSettles` |
| `et` | 3 events, 2 entries, 2 demands (one negative once stored), 2 own levels | `TableIsSound`, `TickPicksHighest`, `ImplementsEventMap` |
| `d_order` | 1 daemon, restarted and crashed, 2 clients, 1 thread scheduled by three commands, an event, an unknown event, system calls that fail, queue of 1 | `CommandsTakeEffectInOrder` |
| `d_live` | 2 daemons over each other, a client and a handler that logs, queue of 1 | `EveryClientReturns`, `TerminationStops` |
| `clients` | 2 preloaded threads, one of them interrupted by the handler that logs, 3 descriptors, both clients, queue of 1 | `SendsOnItsOwnSocket`, `NoSocketIsLost`, `CommandsGetThrough` |
| `setup` | 4 threads of up to 4 processes, 3 descriptors, 1 failure | `CountersKeepRunning`, `NoCounterIsLost`, `OnlyTheWindowKills` |
| `py` | 2 objects, 1 event, 2 demands, 11 texts, up to 1 argument | `SavedDemandSurvives`, `LogsArriveWhole` |
| `py_logs` | as `py` | violation: `LogsAreSafe` |
| `hpf` | 2 queues on one device, or on two with room for one; 2 priorities, one queue hinted, 2 events and hints under way | `SleepersAreOutranked`, `GateFollowsQueues`, `TopQueueRuns` |
| `hpf_lost` | 2 queues on one device | violation: `NoneSleepsAtAnOpenGate` |

Every passing run but `d_live` checks the type invariant too.

*Bounds.*  Three calls and two ticks are enough for a call to inherit what two
others left (a context saved, changed and switched to again), with one tick
deferred and one nested in it as it is drained (no more can nest: `NestingIsBounded`
is proved).  Slices of 1 and 2 with runs of 3 reach both clamps of `time_budgets`
and every sign of the balance; `MaxLead` (11)
lies above the bound (10), so the bound can be broken - a clamp without its lower
side does break it.  Windows that fall behind are dropped, since one begun at
that tick is ahead of them.  In `lat`, the demands are expected right, short and
long of what a round uses, and one has a target (100) whose product with the
slice passes 2^8: the wrap happens, as it does in 64 bits for a target of a few
minutes.  Two entries and three events fill the table, and
freeing and reusing the first entry while the second is in use follows.  A queue
of one fills at once, and with the datagram in hand and two blocked clients four
commands are under way and have an order; their targets are one thread and one
event because commands about different ones do not meet.  `d_order` has one daemon
process (restarting it is the same as starting another when none runs) to leave
room for all commands; `d_live` has two that overlap.  Three descriptors hold
two sockets and a file, so that they run out, and one of them is 0.  One thread
with a handler is enough, since handlers only share what is their thread's.  Four
threads are enough for a parent, its child, a thread of either and a counter
inherited twice; three descriptors for a counter that is inherited, one's own and
a neighbour's.  The texts of `py` are those on either side of each limit and one for
each kind of sign in them, alone and in the pairs that differ.  Two queues and two
priorities are one that outranks the other, either way round; the second device
is the one that gets no slot; two events under way can be of both queues, or two
crossed hints, or the hint and the end of one.  A second queue that hints as well
repeats the first.

*Deadlock* is checked except where the model stops: at the bounds `MaxCalls` and
`MaxSignals` in `lc`, when every thread has ended in `setup`, and after
a failed import or an object written past its end in `py`.

*Fairness.*  `LocalContext`: a call that has begun and a tick that has begun go
on (the thread is scheduled); calls and signals need not come.  `TickPacing`: the
thread runs and its counter, which counts its cycles, overflows; for `DebtIsPaidOff`
sleeps are cut short, and ticks interrupted by ticks, only finitely often.  `LatencyTick`: a
`shot_on_latency` that has begun is finished.  `Daemon`: the daemon's own steps (it
is a real-time process), and a blocked sender, a handler among them, gets a free
place if there is one time and again (strong fairness: others may take it first,
but the kernel wakes waiters in order).  `CommandClients`: none; what the program and
the daemon's uptime have to do is a premise of `CommandsGetThrough` - a thread that
commands time and again has commands that return - as is that, from some time
on, no send times out: Python gives up after five seconds, and
on a socket that is full for longer each time nothing gets through.  `HpfShm`: each worker thread is
scheduled, and so is the server's, which goes on publishing what it has begun
and reschedules however many events come.  No fairness of clients, applications,
signals, restarts or crashes.

## Findings

- `hpf_lost`: a worker compares the priority it had when it came to its gate
  (`src/script/patches/xsched.patch:253`).  Hint a higher one while it waits, and the server raises
  the gate to that: the queue waits, outranked by nothing but itself, against
  the comment at `xsched.patch:584`.  The other
  way to sleep at an open gate is a gate that opens between the loads at 773 and
  776; `SleepersAreOutranked` shows there is no third.
- `py_logs`: `robflex_log_message` of `src/src/python/pmu_tick_api.py` says (line 146) that
  it formats a message in Python and sends "a single string to the daemon
  (vsnprintf-safe)"; the string becomes the format of `vsnprintf` (`robflex_api.c:90`),
  without arguments.  A percent sign in it is undefined there.  `LogsArriveWhole` shows
  that nothing else comes between a message and the daemon's log.

Seen while modelling, and part of the models, with the properties stated so that
they say what holds beside them:

- `shot_on_latency` restarts `start_time` after it has drained the deferred ticks
  (`robflex_api.c:379`), though `used_ncycle` was cleared before: `LatencyTick` has
  the two steps, and what ticks between them make of the old start.
- Two threads that hint one queue may store their priorities in one order and
  send the hints in the other (`xsched.patch:91-92`): a queue left at 0 while the server
  has 1 keeps the gate of its device closed to everybody, itself included, until the
  next hint.  `GateFollowsQueues` and `TopQueueRuns` except a queue whose last hint was
  sent before an earlier one (`crossed`).
- `cpi_set_interrupt_handler` logs (`dym_hook.c:289`), through the same lazily opened
  `socket_fd` as the program.  Between the test and the store (`robflex_api.c:22-23`) it
  opens and stores a socket that the program then overwrites: it stays open and
  unused, or a good one gives way to the -1 of a `socket()` that failed.
- A tick nested in a drained one moves `now`, `past` and `diff` of the thread
  (`dym_hook.c:68`) under it: the outer tick counts a yield and a cost that are
  neither its own nor the sum, and its budget overwrites the inner one's.  The account
  recovers (`DebtIsPaidOff`), but no bound on one such tick is stated: `BurstBound` and
  `NothingOwed` are about runs without one.
- A context that owes time and is switched in again and again without being saved
  (`saved_context` NULL, or another object) never works it off, which
  `DebtIsPaidOff` excepts.
- `do_sched_setscheduler` sets the policy and then the nice value (`server.c:335,339`); when the
  second fails, or the daemon ends in between, the thread is left with the
  policy of one command and the nice value of another, and the client, which has
  its 0 already, is not told (`unmet`).
- A latency round that is already late, or has slack from an earlier stage,
  makes a negative rest time that is multiplied and divided as an unsigned word
  (`dym_hook.c:183,197`): the tick may ask for a sleep of minutes.
  `SleepsWithinDeadline` excepts the two.
- PREDETERMINED is handled by `handle_tick_yielding` (`dym_hook.c:255`) and runs
  on while the system is idle, against `robflex_def.h:112`.
- An unknown event name maps to index 0 while the test is for -1
  (`server.c:404`): bit 0 is set, the command succeeds.  `Handle` does so.
- `sigqueue` with a tid signals the process: any thread may store the slice
  (`server.c:389`, against the comment at 384).  `TakeSignal` does so.
- The child of a fork disables the counter it inherits, which is its parent's
  (`dym_hook.c:314`), and a process made by `clone` is never set up, since
  `real_clone` returns in the parent only (`dym_hook.c:525`); `Readme.md:95` says
  both are paced.  `CountersKeepRunning` excepts the parents.
- A set-up that fails in `sigaction` or `F_SETSIG` closes the descriptor and keeps
  its number (`dym_hook.c:363`); another counter gets it, and is closed with it.
- The counter runs from `perf_event_open` on, and an overflow between
  `F_SETOWN_EX` and `F_SETSIG` is a SIGIO, which ends the process
  (`dym_hook.c:379`): `OnlyTheWindowKills`.
- The C client keeps the -1 of a failed `socket()` for good, takes descriptor 0
  for none, and leaves a socket open with every thread that ends
  (`robflex_api.c:20`).  `CommandsGetThrough` and `NoSocketIsLost` name the cases.
- The cdef's `LocalContext` (`python/pmu_tick_api.py:52`) is not the library's:
  other order, a shorter union, no level.  An object from `localcontext_alloc`, offered "for
  switch_context" (line 244), is written past its end when a context is saved in
  it.  `robflex_shot_on_latency` returns a struct and is declared to return an int
  (line 82).  The default `None` of `saved_context` is refused by cffi (line 230).
- A log message is formatted by Python and again by `vsnprintf`, without
  arguments; and the daemon receives into 256 bytes (`server.c:456`), so that a
  longer one, though the clients allow it, does not parse and is dropped.

## What is proved

For every value of the constants (within the named assumptions of each module):

- `LocalContextProofs`: `TypeCorrect`, `NoTickIsLeftBehind`, `NestingBounded`, and
  `TicksAreWhole` - the last under `Undisturbed`: disciplined calls, and contexts that
  are whole to begin with.  The invariant behind
  them ties `in_critical` and `blocked` to the place in the call, says that ticks
  are only deferred while a call is under way, and says of every prefix of a
  call's assignments what they leave of the context: while it is not whole, either
  signals are deferred or blocked, or the one assignment left keeps it whole
  (`WholeInv`).
  `CallsTakeEffectAtOnce` is the refinement of `AtomicContext`, for any calls in any
  policy and any slices from the daemon.  `View` writes the mapping out as one
  record, with a call that has begun and assigned nothing yet taken back, and with
  what is left to it assigned once it has.  A step is then one of four (`StepSeen`): nothing
  is seen of it, or a tick, a call or a slice is.  The first assignment of a call is
  seen as the whole call, so `PlaceInv` has to say that a call which has not made it
  is not refused now either, whatever ticks and slices have come since it was let
  through; and a tick must dispatch on the policy that is seen, so `StandInv` says
  that while one is handled the policy does not change.
- `TickPacingProofs`: `PacingTypeCorrect`, `PaceIsBounded`, `NothingIsOwed`, for
  any slices, run lengths and delays, and switches that save anywhere or nowhere.  The bound alone is not inductive: the
  invariant is that a YIELDING context has a budget in `-5 * slice .. 0` and that
  `lead <= budget - since + 5 * slice`: what a window is ahead by was saved up in
  the budget.  `DebtIsWorkedOff` is the step behind the liveness property: a tick
  that sleeps as long as it asks to ends with less debt than it found.
  For `LatencyTick`, `LatencyTypeCorrect` and `NoSleepMissesTheDeadline` hold for words of
  any width, with demands, feedback and bounds that are words (`RangeAssumption`: a
  round and a margin stay below half a word, cycles and a slice below one; 2^63 ns
  are 292 years), and `WordAssumption`: that `2 ^ Width` is a number with two equal
  halves, which the prover cannot work out for itself.  The argument is about remainders: what `U` and `S` make of the sum or product of
  words differs from it by whole words (`WordOf`, `WholeWords`), so the time left is
  right once its sign is (`TimeIsShared`), its product with the slice is never
  more than it should be, the quotient is no more than the share (`QuotientBelow`),
  and taking the margin and the time since the last tick away cannot turn a
  negative sleep into a positive one (`MarginIsKept`).  `TicksShareTheRound` draws
  the conclusion for a whole round: no tick leaves less time for each cycle still
  expected than it found (`TicksKeepThePace`).  `EstimateGetsNearer`: a round
  brings the estimate strictly nearer to the cycles it used, or leaves it where
  it is settled, and only a round or a new demand moves it.
- `EventTableProofs`: `TableTypeCorrect` and `TickChoosesHighest`.  The invariant
  follows the scan: every settled entry behind `scan.next` whose event is still
  on ranks no higher than `scan.highest`, and the chosen entry has that level and
  was on at some time.  `TableStaysSound` follows a call: `InHand` says of the entry
  it works on, by the words it has yet to store, what is old and what is new;
  `Others`, that all other entries are whole, of different events, and not of the
  call's; `Counted`, whether `count` has been brought up to date (`InHandCounts`).
  From these `TableImplementsMap` follows step by step: the first step of a call is
  the map's step, with the demand it has yet to store as the entry's; every other
  store, and every step of a scan, leaves the map as it is.
- `CommandClientsProofs`: `ClientsTypeCorrect`, `SocketIsOnesOwn`, `SocketsAreKept`,
  for any threads and descriptors.  That a sender's
  socket is its own is not inductive: what is kept has to be open in between
  (`PySocketKept`, and `CSocketKept`, which can say nothing of 0 and -1), and a
  command has to be sound at each of its places (`CallsSound`): one that opens has
  found no socket and finds none later but what its handler put there, one that keeps
  holds an open socket of its thread, and one that sends has got one, on
  descriptor 0 too, which stays as it is while the handler comes and goes.
- `ThreadSetupProofs`: `SetupTypeCorrect`, `CountersRun`, `CountersAreKept`,
  `WindowOnly`, for any number of threads, descriptors and failures.  That a
  counter runs depends on who may disable it, so the invariant says what a
  `perf_fd` names: one's own counter, or that of a thread the property excepts
  (`Names`), no two threads of a process the same (`DescriptorsKept`), no process
  a counter twice (`HeldOnce`), none before it was opened (`Openings`).  `Progress`
  reads off the counter how far its thread's set-up has got, and `Handled` that
  whoever asked for a signal had installed the handler before: what is left is
  the window.  `Births` keeps threads to come out of it all.
- `PythonBindingsProofs`: `SavedDemandsSurvive`, for any
  objects, events and demands of four words.  What an object brings back is
  stated of what the library *sees* in it; the invariant, `ObjectsKept`, is of what it
  *holds*: the first words of the context saved, which include its policy and
  its whole union because those come first in the library's layout.  `TypeCorrect`
  holds for any list of candidates (`PathsAssumption`), of which the import takes the
  first that loads.  `LogsArrive` is for texts of any length with doubled percent signs among their
  characters (`TextsAssumption`) and any overhead: formatting makes a text again
  or raises; each client's cut lies beyond what the daemon receives, so that
  whatever is cut is dropped; and without percent signs the second formatting
  changes nothing.
- `DaemonProofs`: `DaemonTypeCorrect` and `CommandsInOrder`, for any daemons, clients,
  commands and limits.  The types need to know that a datagram is in hand just
  while it is handled (`Requested`).  The order needs an invariant over the datagrams
  still queued, `Follows`: for every event, policy and nice value (`EventsFollow`,
  `ClassesFollow`, `NicesFollow`), the last command in the queue that is about it says
  what is wanted of it, else the one in hand does - for a policy, until its first
  system call - else the value is what is wanted, or is known to be unmet.  Only an open socket has a queue
  (`QueuesOpen`), only one daemon runs while `alone` holds (`OneRuns`), and with no
  socket the scheduling is already as wanted (`AtRest`); the bits are taken as clear
  until a starting daemon has cleared them (`Base`).
- `HpfShmProofs`: `GateTypeCorrect`, `SleepersAreTold` and `GateFollows`, for any
  queues, devices, priorities and events under way.  For the first loss,
  `OpeningIsTold`: a gate that is open to a worker past its first load has *just*
  been opened, and either `futex_seq` will differ from what the worker loaded or the
  wake is still to come.  For the gate, `EventsTell` and `EventsRate`: the last event
  under way about a queue says whether it is ready and - if its hints have been
  sent, the last one last - with which priority, and where there is none the
  scheduler has it right; `HintsLast`: of the hints to be sent, the last set is the
  queue's priority, as long as none has been crossed; and `Published`: unless there
  is something to schedule, what is published, or about to be, is the highest.

Every safety property the passing runs check, invariant, action property or
refinement, is a theorem.  Only model-checked are the temporal ones
(`DeferredTickRuns`, `DebtIsPaidOff`, `EstimateSettles`, `EveryClientReturns`,
`TerminationStops`, `CommandsGetThrough`, `TopQueueRuns`): liveness under fairness
rests on ENABLED, and the two that count down (the debt, the estimate) on an
induction over their value, both beyond the prover.  What is proved of them is the
step that counts: `DebtShrinks` and `EstimateApproaches`.

## Not modelled, and why

- *Shared memory mapping in the client*: whether it succeeded is the constant
  `Mapped` of `TickPacing`; a process without it that tests an event or asks for the
  busy degree ends in an assertion or a fault (`robflex_api.c:144`), and nothing
  goes on from there.
- *Configuration*: one pass over a JSON object before the counter is opened, with
  nothing to interleave with; its effect is a run of attach calls, which
  `EventTable` has.
- *Load monitor and idle waker*: averages of `/proc/stat` in floating point, of
  which other parts only read one word, the busy degree.  `TickPacing` takes it as
  free, and a wake-up may end any sleep of `TickPacing` and `LatencyTick`.
- *The daemon's xserver child*: started and stopped by `main` alone.
- *The totals of a chain* (`total_latency`, `used_latency`): only the application
  reads them.
- *HPF scheduler*: an application that pauses or resumes its queue (no property
  depends on it), a server that stops, and what of xsched is not in the patch.
- `khash.h` is vendored; benchmarks and scripts only use the system.
- `handle_tick_predetermined` is never called.

## Plan

All components of the plan are modelled but for those above.  What is left is to
prove, for the other temporal properties, what their steps come nearer to: that
each datagram handled brings a blocked sender nearer to its place, and each step of
a call a deferred tick nearer to its drain.
