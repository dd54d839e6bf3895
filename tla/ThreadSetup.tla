----------------------------- MODULE ThreadSetup ----------------------------
(***************************************************************************)
(* How librobonix.so gives every thread a cycle counter whose overflows    *)
(* are its scheduling ticks (dym_hook.c): the constructor, the wrappers of *)
(* pthread_create, fork and clone, the steps of setup_perf_ctrl, each of   *)
(* which may fail, and perf_ctrl_cleanup.                                  *)
(*                                                                         *)
(* A counter counts one thread and is named by it.  A process has a table  *)
(* of descriptors; fork copies the table, so two processes hold the same   *)
(* counter, and the thread-local perf_fd with it.  A thread is given a     *)
(* name once; a process is named by its first thread.                      *)
(***************************************************************************)
EXTENDS Integers

CONSTANTS
  Threads,  \* threads, of all processes
  Main,     \* the thread that runs the constructor
  MaxFd,    \* RLIMIT_NOFILE; descriptor 0 is taken
  MaxFails, \* bound on the steps of set-up that fail
  NULL      \* nothing

ASSUME SetupAssumption ==
  /\ Main \in Threads /\ MaxFd \in Nat \ {0} /\ MaxFails \in Nat
  /\ NULL \notin Threads

VARIABLES
  st,       \* where each thread is in its life
  proc,     \* the process of each
  perf_fd,  \* __thread int perf_fd
  fds,      \* the counter each descriptor of each process holds, or NULL
  on,       \* the counters that are enabled
  notify,   \* the thread, or NULL, and the signal the overflows of each go to
  handler,  \* processes with a handler of PERF_SIGNAL
  fails,    \* counter behind the bound
  parents,  \* history: threads that have forked, or cloned a process
  cloned,   \* history: processes made by clone
  closed,   \* history: processes in which a failed set-up has closed its descriptor
  left,     \* history: counters nobody will close before their process ends
  killed    \* history: where the threads were that an overflow has killed

kernel == <<fds, on, notify, handler>>
history == <<parents, cloned, closed, left, killed>>
vars == <<st, proc, perf_fd, kernel, fails, history>>

Descriptors == 1 .. MaxFd
SettingUp == {"begin", "open", "action", "own", "signal", "enable"}
Alive(t) == st[t] \in SettingUp \cup {"run"}

\* Mutant: one perf_fd for all threads of a process.
OneForAll(t) == proc[t]

\* perf_fd is thread-local.
Slot(t) == t

\* The counter the perf_fd of `t` names in its process.
Fd(t) == perf_fd[Slot(t)]
Named(t) == IF Fd(t) \in Descriptors THEN fds[proc[t]][Fd(t)] ELSE NULL
SetFd(t, d) == perf_fd' = [perf_fd EXCEPT ![Slot(t)] = d]

\* The table of `p` without descriptor `d`.
Without(p, d) == [fds EXCEPT ![p] = [e \in Descriptors |-> IF e = d THEN NULL ELSE @[e]]]

-----------------------------------------------------------------------------
Init ==
  /\ st = [t \in Threads |-> IF t = Main THEN "begin" ELSE "unborn"]
  /\ proc = [t \in Threads |-> t]
  /\ perf_fd = [t \in Threads |-> 0]
  /\ fds = [p \in Threads |-> [d \in Descriptors |-> NULL]]
  /\ on = {} /\ notify = [t \in Threads |-> [to |-> NULL, signal |-> "SIGIO"]] /\ handler = {}
  /\ fails = 0
  /\ parents = {} /\ cloned = {} /\ closed = {} /\ left = {} /\ killed = {}

Goto(t, where) == st' = [st EXCEPT ![t] = where]

\* if (perf_fd > 0): disable the counter, close the descriptor, forget it.
Release(t) ==
  IF Fd(t) > 0
  THEN /\ on' = on \ {Named(t)}
       /\ fds' = Without(proc[t], Fd(t))
       /\ SetFd(t, 0)
  ELSE UNCHANGED <<on, fds, perf_fd>>

-----------------------------------------------------------------------------
(* setup_perf_ctrl, system call by system call *)

\* Mutant: the handler is installed last.
HandlerLast(s) ==
  CASE s = "begin" -> "open" [] s = "open" -> "own" [] s = "own" -> "signal"
    [] s = "signal" -> "action" [] s = "action" -> "enable" [] s = "enable" -> "run"

\* The order of the steps.
After(s) ==
  CASE s = "begin" -> "open" [] s = "open" -> "action" [] s = "action" -> "own"
    [] s = "own" -> "signal" [] s = "signal" -> "enable" [] s = "enable" -> "run"

\* The child of a fork finds the perf_fd of the thread that forked.
Begin(t) ==
  /\ st[t] = "begin"
  /\ Release(t)
  /\ Goto(t, After("begin"))
  /\ UNCHANGED <<proc, notify, handler, fails, history>>

\* robflex_event_table_init has no memory for the map (the khash build), and
\* nothing is opened.
FailInit(t) ==
  /\ st[t] = "begin"
  /\ fails < MaxFails /\ fails' = fails + 1
  /\ Release(t)
  /\ Goto(t, "run")
  /\ UNCHANGED <<proc, notify, handler, history>>

\* perf_event_open.  The counter is not opened disabled: it counts at once.
Open(t) ==
  /\ st[t] = "open"
  /\ \E d \in Descriptors :
       /\ fds[proc[t]][d] = NULL /\ \A e \in Descriptors : fds[proc[t]][e] = NULL => d <= e
       /\ fds' = [fds EXCEPT ![proc[t]][d] = t]
       /\ SetFd(t, d)
  /\ on' = on \cup {t}
  /\ Goto(t, After("open"))
  /\ UNCHANGED <<proc, notify, handler, fails, history>>

\* sigaction(PERF_SIGNAL)
Sigaction(t) ==
  /\ st[t] = "action"
  /\ handler' = handler \cup {proc[t]}
  /\ Goto(t, After("action"))
  /\ UNCHANGED <<proc, perf_fd, fds, on, notify, fails, history>>

\* F_SETFL O_ASYNC and F_SETOWN_EX: overflows send SIGIO to the thread ...
SetOwner(t) ==
  /\ st[t] = "own" /\ Named(t) # NULL
  /\ notify' = [notify EXCEPT ![Named(t)].to = t]
  /\ Goto(t, After("own"))
  /\ UNCHANGED <<proc, perf_fd, fds, on, handler, fails, history>>

\* ... and, after F_SETSIG, PERF_SIGNAL.
SetSignal(t) ==
  /\ st[t] = "signal" /\ Named(t) # NULL
  /\ notify' = [notify EXCEPT ![Named(t)].signal = "PERF_SIGNAL"]
  /\ Goto(t, After("signal"))
  /\ UNCHANGED <<proc, perf_fd, fds, on, handler, fails, history>>

\* PERF_EVENT_IOC_ENABLE
Enable(t) ==
  /\ st[t] = "enable"
  /\ on' = on \cup ({Named(t)} \ {NULL})
  /\ Goto(t, After("enable"))
  /\ UNCHANGED <<proc, perf_fd, fds, notify, handler, fails, history>>

\* Mutant: the error number of the system call.
Errno == -24

\* What perf_event_open returns when it fails.
OpenFailed == -1

\* A step fails: the set-up is given up, and nobody looks at what it returns.
\* Opening leaves -1; sigaction and F_SETSIG close the descriptor and keep its
\* number; F_SETOWN_EX leaves the counter running.  The last two fail, too, when
\* somebody else has closed the descriptor.
Fail(t) ==
  /\ \/ st[t] \in {"open", "action", "own", "signal"} /\ fails < MaxFails /\ fails' = fails + 1
     \/ st[t] \in {"own", "signal"} /\ Named(t) = NULL /\ UNCHANGED fails
     \/ st[t] = "open" /\ (\A d \in Descriptors : fds[proc[t]][d] # NULL) /\ UNCHANGED fails
  /\ SetFd(t, IF st[t] = "open" THEN OpenFailed ELSE Fd(t))
  /\ IF st[t] \in {"action", "signal"}
     THEN fds' = Without(proc[t], Fd(t)) /\ closed' = closed \cup {proc[t]}
     ELSE UNCHANGED <<fds, closed>>
  /\ Goto(t, "run")
  /\ UNCHANGED <<proc, on, notify, handler, parents, cloned, left, killed>>

-----------------------------------------------------------------------------
(* Threads and processes *)

\* pthread_create, or clone of a thread: `u` runs thread_start_wrapper (or
\* clone_start_wrapper).
CreateThread(t, u) ==
  /\ st[t] = "run" /\ st[u] = "unborn"
  /\ proc' = [proc EXCEPT ![u] = proc[t]]
  /\ Goto(u, "begin")
  /\ UNCHANGED <<perf_fd, kernel, fails, history>>

\* Mutant: the child forgets the perf_fd it was forked with.
ChildForgets(t) == 0

\* A child has a copy of its parent's thread-locals.
Inherited(t) == Fd(t)

NewProcess(t, u, where) ==
  /\ st[t] = "run" /\ st[u] = "unborn"
  /\ Goto(u, where)
  /\ perf_fd' = [perf_fd EXCEPT ![Slot(u)] = Inherited(t)]
  /\ fds' = [fds EXCEPT ![u] = fds[proc[t]]]
  /\ handler' = IF proc[t] \in handler THEN handler \cup {u} ELSE handler
  /\ parents' = parents \cup {t}
  /\ closed' = IF proc[t] \in closed THEN closed \cup {u} ELSE closed
  /\ UNCHANGED <<proc, on, notify, fails, killed>>

\* The counters of the parent's other threads stay open in the child.
Fork(t, u) ==
  /\ NewProcess(t, u, "begin")
  /\ left' = left \cup {<<u, e>> : e \in {fds[proc[t]][d] : d \in Descriptors} \ {Named(t), NULL}}
  /\ UNCHANGED cloned

\* clone of a process: real_clone only returns in the parent, and the child,
\* which runs `fn`, is not set up.
CloneProcess(t, u) ==
  /\ NewProcess(t, u, "run")
  /\ left' = left \cup {<<u, e>> : e \in {fds[proc[t]][d] : d \in Descriptors} \ {NULL}}
  /\ cloned' = cloned \cup {u}

\* The start routine returns, and the wrapper cleans up.
Return(t) ==
  /\ st[t] = "run" /\ proc[t] # t
  /\ Release(t)
  /\ Goto(t, "ended")
  /\ UNCHANGED <<proc, notify, handler, fails, history>>

\* pthread_exit, or cancellation: the wrapper never gets to clean up.
PthreadExit(t) ==
  /\ st[t] = "run" /\ proc[t] # t
  /\ Goto(t, "ended")
  /\ left' = left \cup {<<proc[t], t>>}
  /\ UNCHANGED <<proc, perf_fd, kernel, fails, parents, cloned, closed, killed>>

\* All threads of `p` end, and the kernel closes its descriptors.
EndOf(p) ==
  /\ st' = [t \in Threads |-> IF proc[t] = p /\ Alive(t) THEN "ended" ELSE st[t]]
  /\ fds' = [fds EXCEPT ![p] = [d \in Descriptors |-> NULL]]

\* exit: the destructor cleans up the thread that calls it.
Exit(t) ==
  /\ st[t] = "run"
  /\ on' = IF Fd(t) > 0 THEN on \ {Named(t)} ELSE on
  /\ EndOf(proc[t])
  /\ UNCHANGED <<proc, perf_fd, notify, handler, fails, history>>

\* The counter of `t` overflows.  A handled signal is a tick; SIGIO, or a signal
\* without a handler, ends the process.
Ticks(t) ==
  /\ Alive(t) /\ t \in on /\ (\E p \in Threads, d \in Descriptors : fds[p][d] = t)
  /\ notify[t].to # NULL /\ Alive(notify[t].to)

Overflow(t) ==
  /\ Ticks(t)
  /\ LET u == notify[t].to
     IN  /\ notify[t].signal = "SIGIO" \/ proc[u] \notin handler
         /\ killed' = killed \cup {st[u]}
         /\ EndOf(proc[u])
  /\ UNCHANGED <<proc, perf_fd, on, notify, handler, fails, parents, cloned, closed, left>>

-----------------------------------------------------------------------------
SetUp(t) ==
  \/ Begin(t) \/ FailInit(t)
  \/ Open(t) \/ Sigaction(t) \/ SetOwner(t) \/ SetSignal(t) \/ Enable(t) \/ Fail(t)

Next ==
  \/ \E t \in Threads : SetUp(t) \/ Return(t) \/ PthreadExit(t) \/ Exit(t) \/ Overflow(t)
  \/ \E t, u \in Threads : CreateThread(t, u) \/ Fork(t, u) \/ CloneProcess(t, u)

Spec == Init /\ [][Next]_vars

-----------------------------------------------------------------------------
\* The variables keep their types.
TypeOK ==
  /\ st \in [Threads -> {"unborn", "run", "ended"} \cup SettingUp]
  /\ proc \in [Threads -> Threads]
  /\ perf_fd \in [Threads -> Descriptors \cup {-1, 0}]
  /\ fds \in [Threads -> [Descriptors -> Threads \cup {NULL}]]
  /\ on \subseteq Threads
  /\ notify \in [Threads -> [to : Threads \cup {NULL}, signal : {"SIGIO", "PERF_SIGNAL"}]]
  /\ handler \subseteq Threads /\ fails \in Nat

\* A thread that was set up goes on ticking, whatever threads and processes are
\* made and end around it, unless it has forked or cloned a process itself (the
\* child switches off the counter it inherits), or a set-up that failed in its
\* process closed a descriptor and kept the number.
Counting(t) == t \in on /\ Named(t) = t /\ notify[t] = [to |-> t, signal |-> "PERF_SIGNAL"]
SetUpRan(t) == st[t] = "run" /\ notify[t].signal = "PERF_SIGNAL"
CountersKeepRunning ==
  \A t \in Threads :
    SetUpRan(t) => Counting(t) \/ t \in parents \/ proc[t] \in closed

\* Every counter a process holds is that of a live thread of it, which will
\* close it, or one that was left: by pthread_exit, or inherited from its
\* parent's other threads.  The exception is a failed set-up.
NoCounterIsLost ==
  \A p \in Threads, d \in Descriptors :
    LET t == fds[p][d]
    IN  t # NULL /\ p \notin closed => 
          \/ <<p, t>> \in left
          \/ \E u \in Threads : Alive(u) /\ proc[u] = p /\ Fd(u) = d

\* No overflow ends a process, but one that hits its thread between F_SETOWN_EX
\* and F_SETSIG; and, when a set-up fails at F_SETSIG, one of the counter that a
\* process forked in between keeps open.
OnlyTheWindowKills ==
  killed \subseteq {"signal"} \cup (IF closed = {} THEN {} ELSE {"enable", "run"})
=============================================================================
