------------------------------- MODULE Daemon -------------------------------
(***************************************************************************)
(* robonix_daemon (server.c) and the clients that command it through       *)
(* /tmp/schedule_daemon.sock (robflex_api.c, python/robflex_api.py).       *)
(*                                                                         *)
(* A daemon process starts (unlink, bind, map and clear the shared         *)
(* memory), serves datagrams one at a time until SIGTERM or SIGINT clears  *)
(* g_running, and shuts down; it may fail or crash at any step, and be     *)
(* started again, even while another one serves.  A command changes the    *)
(* event bits, the scheduling of a thread (by one system call or by two,   *)
(* any of which may fail), or, by a signal, its time slice.  A client gets *)
(* 0 once its datagram is queued: it learns nothing of what becomes of it. *)
(*                                                                         *)
(* The kernel is modelled as far as the code relies on it: a path names a  *)
(* socket until it is unlinked, bound or not; a datagram socket queues     *)
(* MaxQueue datagrams and then blocks the sender; a socket loses its queue *)
(* when its process ends; sigqueue signals a process, and any of its       *)
(* threads may take the signal.  Its handler is a sender of its own: what  *)
(* it interrupts goes on when it returns.                                  *)
(***************************************************************************)
EXTENDS Integers, Sequences, FiniteSets

CONSTANTS
  Daemons,    \* processes that may run the daemon
  Clients,    \* threads that send commands
  Commands,   \* the commands they send
  Events,     \* names robflex_get_event_idx knows
  NONE,       \* the index it gives to any other name
  Threads,    \* threads of the one process the commands are about, that take its signals
  MaxQueue,   \* net.unix.max_dgram_qlen
  MaxPending, \* RLIMIT_SIGPENDING: sigqueue fails beyond it
  NULL        \* nothing

\* What the handler of CPI_SET_SIGNAL sends (robflex_log_message).
Log == [cmd |-> "log_message"]
Datagrams == Commands \cup {Log}
Senders == Clients \cup Threads

\* The commands that set the policy of a thread, and those that set its nice
\* value: the priority of SCHED_OTHER stands for it.
ForClass(m) == m.cmd = "sched_setscheduler"
ForNice(m)  == m.cmd = "set_priority" \/ (ForClass(m) /\ m.policy = "SCHED_OTHER")
IsScheduling(m) == ForClass(m) \/ ForNice(m)

ASSUME DaemonAssumption ==
  /\ NONE \notin Events /\ MaxQueue \in Nat \ {0} /\ MaxPending \in Nat
  /\ NULL \notin Daemons /\ NULL \notin Datagrams
  /\ Clients \cap Threads = {}
  /\ \A m \in Commands : IsScheduling(m) => m.tid \in Threads /\ m.priority \in Int

VARIABLES
  st,        \* where each daemon process is
  path,      \* the daemon whose socket SOCKET_PATH names, or NULL
  queue,     \* the datagrams queued on the socket of each
  g_running,
  request,   \* the datagram being handled, or NULL
  sending,   \* a sender blocked in sendto: to whom (NULL: a socket since closed), and what
  bits,      \* event_bits
  class,     \* the policy of each thread and its real-time priority
  nice,      \* the nice value of each thread
  signals,   \* CPI_SET_SIGNALs queued to the process
  slice,     \* the last slice each thread stored, or NULL
  wanted,    \* history: the events and scheduling the accepted commands ask for
  unmet,     \* history: the scheduling the last command about it failed to set
  alone,     \* history: no two daemons have run at once, and `wanted` is kept
  late       \* history: daemons signalled between the test of g_running and recvfrom

kernel == <<path, queue, sending>>
scheduling == <<class, nice>>
effects == <<bits, class, nice, signals, slice>>
history == <<wanted, unmet, alone, late>>
vars == <<st, g_running, request, kernel, effects, history>>

Starting == {"unlink", "bind", "shmem", "clear"}
Loop     == {"check", "enter", "recv", "handle", "nice"}
Stopping == {"close", "cleanup"}

\* The socket is bound and open.
Bound(d) == st[d] \in {"shmem", "clear", "close"} \cup Loop

\* A policy with its real-time priority: SCHED_OTHER has none.
Class(m) == [policy |-> m.policy, rt |-> IF m.policy = "SCHED_OTHER" THEN 0 ELSE m.priority]
Classes == [policy : {m.policy : m \in {c \in Commands : ForClass(c)}} \cup {"SCHED_OTHER"}, rt : Int]

Nothing == [bits  |-> {},
            class |-> [t \in Threads |-> [policy |-> "SCHED_OTHER", rt |-> 0]],
            nice  |-> [t \in Threads |-> 0]]

-----------------------------------------------------------------------------
Init ==
  /\ st = [d \in Daemons |-> "off"] /\ path = NULL
  /\ queue = [d \in Daemons |-> <<>>] /\ g_running = [d \in Daemons |-> TRUE]
  /\ request = [d \in Daemons |-> NULL] /\ sending = [c \in Senders |-> NULL]
  /\ bits = {} /\ class = Nothing.class /\ nice = Nothing.nice
  /\ signals = <<>> /\ slice = [t \in Threads |-> NULL]
  /\ wanted = Nothing /\ unmet = {} /\ alone = TRUE /\ late = {}

Goto(d, where) == st' = [st EXCEPT ![d] = where]

\* History: two daemons are too many to say what commands ask for.
Want(new) == wanted' = IF alone THEN new ELSE wanted

\* What an accepted command `m` asks for.
Asked(m) ==
  CASE m.cmd = "apply_event"     -> [wanted EXCEPT !.bits = @ \cup ({m.name} \cap Events)]
    [] m.cmd = "cancel_event"    -> [wanted EXCEPT !.bits = @ \ {m.name}]
    [] ForClass(m) /\ ForNice(m) -> [wanted EXCEPT !.class[m.tid] = Class(m), !.nice[m.tid] = m.priority]
    [] ForClass(m) /\ ~ForNice(m) -> [wanted EXCEPT !.class[m.tid] = Class(m)]
    [] ForNice(m) /\ ~ForClass(m) -> [wanted EXCEPT !.nice[m.tid] = m.priority]
    [] OTHER                     -> wanted

\* History: a system call has set `what` of the thread of `m`, or not.
Met(what, m)   == unmet' = IF alone THEN unmet \ {<<what, m.tid>>} ELSE unmet
Unmet(what, m) == unmet' = IF alone THEN unmet \cup {<<w, m.tid>> : w \in what} ELSE unmet

-----------------------------------------------------------------------------
(* Clients: send_command_to_daemon *)

Listened == path # NULL /\ Bound(path)

Queued(d, m) ==
  /\ queue' = [queue EXCEPT ![d] = Append(@, m)]
  /\ Want(Asked(m))

\* sendto: a socket that is not there, or that nobody has open, fails it at
\* once; a full one blocks it.
Sendto(c, m) ==
  /\ sending[c] = NULL
  /\ \/ ~Listened /\ UNCHANGED <<queue, sending, wanted>>
     \/ /\ Listened /\ Len(queue[path]) < MaxQueue
        /\ Queued(path, m) /\ UNCHANGED sending
     \/ /\ Listened /\ Len(queue[path]) >= MaxQueue
        /\ sending' = [sending EXCEPT ![c] = [to |-> path, command |-> m]]
        /\ UNCHANGED <<queue, wanted>>

Send(c, m) ==
  /\ Sendto(c, m)
  /\ UNCHANGED <<st, path, g_running, request, effects, unmet, alone, late>>

\* A blocked sendto gets through, or fails when the socket is closed.
Unblock(c) ==
  /\ sending[c] # NULL
  /\ LET d == sending[c].to
     IN  \/ d # NULL /\ Len(queue[d]) < MaxQueue /\ Queued(d, sending[c].command)
         \/ d = NULL /\ UNCHANGED <<queue, wanted>>
  /\ sending' = [sending EXCEPT ![c] = NULL]
  /\ UNCHANGED <<st, path, g_running, request, effects, unmet, alone, late>>

\* The Python client gives up after five seconds.
TimeOut(c) ==
  /\ sending[c] # NULL
  /\ sending' = [sending EXCEPT ![c] = NULL]
  /\ UNCHANGED <<st, path, queue, g_running, request, effects, history>>

-----------------------------------------------------------------------------
(* The daemon: main *)

Start(d) ==
  /\ st[d] = "off"
  /\ Goto(d, "unlink")
  /\ g_running' = [g_running EXCEPT ![d] = TRUE] /\ late' = late \ {d}
  /\ IF \A e \in Daemons : st[e] = "off" THEN UNCHANGED <<wanted, unmet, alone>>
     ELSE alone' = FALSE /\ wanted' = Nothing /\ unmet' = {}
  /\ UNCHANGED <<kernel, effects, request>>

UnlinkSocket(d) ==
  /\ st[d] = "unlink"
  /\ path' = NULL
  /\ Goto(d, "bind")
  /\ UNCHANGED <<effects, queue, sending, g_running, request, history>>

\* setup_unix_socket: bind fails when the path exists.
BindSocket(d) ==
  /\ st[d] = "bind"
  /\ \/ path = NULL /\ path' = d /\ Goto(d, "shmem") /\ Want([wanted EXCEPT !.bits = {}])
     \/ path # NULL /\ Goto(d, "off") /\ UNCHANGED <<path, wanted>>
  /\ UNCHANGED <<effects, queue, sending, g_running, request, unmet, alone, late>>

MapSharedMemory(d) ==
  /\ st[d] = "shmem"
  /\ Goto(d, "clear")
  /\ UNCHANGED <<kernel, effects, g_running, request, history>>

\* Mutant: the bits a former daemon left are kept.
KeptBits == bits

\* The event bits of a daemon that begins to serve.
ClearedBits == {}

ClearEvents(d) ==
  /\ st[d] = "clear"
  /\ bits' = ClearedBits
  /\ Goto(d, "check")
  /\ UNCHANGED <<kernel, scheduling, signals, slice, g_running, request, history>>

\* while (g_running)
Check(d) ==
  /\ st[d] = "check"
  /\ Goto(d, IF g_running[d] THEN "enter" ELSE "close")
  /\ UNCHANGED <<kernel, effects, g_running, request, history>>

\* Mutant: the datagram stays on the queue (MSG_PEEK).
Peeked(q) == q

\* recvfrom takes the first datagram off the queue.
Taken(q) == Tail(q)

Receive(d) ==
  /\ st[d] \in {"enter", "recv"} /\ queue[d] # <<>>
  /\ request' = [request EXCEPT ![d] = Head(queue[d])]
  /\ queue' = [queue EXCEPT ![d] = Taken(@)]
  /\ Goto(d, "handle")
  /\ UNCHANGED <<effects, path, sending, g_running, history>>

\* recvfrom blocks.
Wait(d) ==
  /\ st[d] = "enter" /\ queue[d] = <<>>
  /\ Goto(d, "recv")
  /\ UNCHANGED <<kernel, effects, g_running, request, history>>

\* Mutant: a name nobody knows is an index of its own.
RawName(name) == name

\* robflex_get_event_idx
EventIdx(name) == IF name \in Events THEN name ELSE NONE

\* The event bits after the command `m`; the index is only tested against -1.
NewBits(m) ==
  CASE m.cmd = "apply_event"  -> bits \cup {EventIdx(m.name)}
    [] m.cmd = "cancel_event" -> bits \ {EventIdx(m.name)}
    [] OTHER                  -> bits

\* handle_client_request returns: main goes round.
Return(d) == Goto(d, "check") /\ request' = [request EXCEPT ![d] = NULL]

\* do_apply_event, do_cancel_event, do_log_message and do_update_ctrl_time_cost.
Handle(d) ==
  LET m == request[d]
  IN  /\ st[d] = "handle" /\ ~IsScheduling(m)
      /\ Return(d)
      /\ bits' = NewBits(m)
      /\ signals' = IF m.cmd = "update_ctrl_time_cost" /\ Len(signals) < MaxPending
                    THEN Append(signals, m) ELSE signals
      /\ UNCHANGED <<kernel, scheduling, slice, g_running, history>>

\* Mutant: the priority of SCHED_OTHER is left to sched_setscheduler, which
\* ignores it.
NeverNice(m) == FALSE

\* do_sched_setscheduler goes on to setpriority.
ThenNice(m) == m.policy = "SCHED_OTHER"

\* do_sched_setscheduler, its first system call; a failure leaves out the second.
SetScheduler(d) ==
  LET m == request[d]
  IN  /\ st[d] = "handle" /\ ForClass(m)
      /\ \/ /\ class' = [class EXCEPT ![m.tid] = Class(m)]
            /\ Met("class", m)
            /\ IF ThenNice(m) THEN Goto(d, "nice") /\ UNCHANGED request ELSE Return(d)
         \/ /\ UNCHANGED class
            /\ Unmet(IF ForNice(m) THEN {"class", "nice"} ELSE {"class"}, m)
            /\ Return(d)
      /\ UNCHANGED <<kernel, bits, nice, signals, slice, g_running, wanted, alone, late>>

\* setpriority, in do_set_priority or after the first call of
\* do_sched_setscheduler.
SetPriority(d) ==
  LET m == request[d]
  IN  /\ st[d] = "nice" \/ (st[d] = "handle" /\ m.cmd = "set_priority")
      /\ \/ nice' = [nice EXCEPT ![m.tid] = m.priority] /\ Met("nice", m)
         \/ UNCHANGED nice /\ Unmet({"nice"}, m)
      /\ Return(d)
      /\ UNCHANGED <<kernel, bits, class, signals, slice, g_running, wanted, alone, late>>

\* The socket of `d` is closed: what its queue holds is lost, and the senders
\* it blocks are to fail.
Close(d) ==
  /\ queue' = [queue EXCEPT ![d] = <<>>]
  /\ sending' = [c \in Senders |->
       IF sending[c] # NULL /\ sending[c].to = d THEN [sending[c] EXCEPT !.to = NULL] ELSE sending[c]]
  /\ Want([bits |-> bits \cap Events, class |-> class, nice |-> nice]) /\ unmet' = {}

\* close(server.socket_fd)
CloseSocket(d) ==
  /\ st[d] = "close"
  /\ Goto(d, "cleanup")
  /\ Close(d)
  /\ UNCHANGED <<effects, path, g_running, request, alone, late>>

\* unlink(SOCKET_PATH), whatever socket the path names by now.
Cleanup(d) ==
  /\ st[d] = "cleanup"
  /\ path' = NULL
  /\ Goto(d, "off")
  /\ UNCHANGED <<effects, queue, sending, g_running, request, history>>

\* Mutant: the system call is restarted (SA_RESTART).
Restarted(d) == st

\* recvfrom, interrupted, returns EINTR.
Interrupted(d) == IF st[d] = "recv" THEN [st EXCEPT ![d] = "check"] ELSE st

\* signal_handler, for SIGINT and SIGTERM.
Terminate(d) ==
  /\ st[d] # "off" /\ g_running[d]
  /\ g_running' = [g_running EXCEPT ![d] = FALSE]
  /\ late' = IF st[d] = "enter" THEN late \cup {d} ELSE late
  /\ st' = Interrupted(d)
  /\ UNCHANGED <<kernel, effects, request, wanted, unmet, alone>>

\* A crash, SIGKILL, or a start-up step that fails after bind: the socket is
\* closed; the path, the bits and the scheduling stay, half set perhaps.
Crash(d) ==
  /\ st[d] # "off"
  /\ Goto(d, "off")
  /\ Close(d)
  /\ request' = [request EXCEPT ![d] = NULL]
  /\ UNCHANGED <<effects, path, g_running, alone, late>>

\* A thread of the process takes the signal: cpi_set_interrupt_handler stores the
\* slice and logs it, with a sendto that may block the handler.
TakeSignal(t) ==
  /\ signals # <<>>
  /\ slice' = [slice EXCEPT ![t] = Head(signals)]
  /\ signals' = Tail(signals)
  /\ Sendto(t, Log)
  /\ UNCHANGED <<st, path, bits, scheduling, g_running, request, unmet, alone, late>>

-----------------------------------------------------------------------------
Serve(d) ==
  \/ Check(d) \/ Receive(d) \/ Wait(d) \/ Handle(d) \/ SetScheduler(d) \/ SetPriority(d)
  \/ CloseSocket(d) \/ Cleanup(d)
Setup(d) == UnlinkSocket(d) \/ BindSocket(d) \/ MapSharedMemory(d) \/ ClearEvents(d)

Next ==
  \/ \E c \in Clients : (\E m \in Commands : Send(c, m)) \/ TimeOut(c)
  \/ \E c \in Senders : Unblock(c)
  \/ \E d \in Daemons : Start(d) \/ Setup(d) \/ Serve(d) \/ Terminate(d) \/ Crash(d)
  \/ \E t \in Threads : TakeSignal(t)

Spec == Init /\ [][Next]_vars

\* The daemon is scheduled (SCHED_FIFO), and the kernel wakes a blocked sender
\* as its socket has room time and again.
FairSpec ==
  /\ Spec
  /\ \A d \in Daemons : WF_vars(Serve(d) \/ Setup(d))
  /\ \A c \in Senders : SF_vars(Unblock(c))

-----------------------------------------------------------------------------
\* The variables keep their types.
TypeOK ==
  /\ st \in [Daemons -> {"off"} \cup Starting \cup Loop \cup Stopping]
  /\ path \in Daemons \cup {NULL}
  /\ queue \in [Daemons -> Seq(Datagrams)] /\ g_running \in [Daemons -> BOOLEAN]
  /\ request \in [Daemons -> Datagrams \cup {NULL}]
  /\ sending \in [Senders -> [to : Daemons \cup {NULL}, command : Datagrams] \cup {NULL}]
  /\ bits \subseteq Events \cup {NONE}
  /\ class \in [Threads -> Classes] /\ nice \in [Threads -> Int]
  /\ signals \in Seq(Datagrams) /\ slice \in [Threads -> Datagrams \cup {NULL}]
  /\ wanted \in [bits : SUBSET Events, class : [Threads -> Classes], nice : [Threads -> Int]]
  /\ unmet \subseteq {"class", "nice"} \X Threads
  /\ alone \in BOOLEAN /\ late \subseteq Daemons

\* Once a daemon has worked off its queue, the events are those its clients
\* applied and did not cancel, and the policy and the nice value of every thread
\* those the last command that sets them asked for, in the order the commands
\* were accepted: a crash between two system calls, a restart, what the former
\* daemon left in shared memory, and commands accepted before the bits are
\* cleared, included; unless two daemons have run at once, and but for the
\* policy or the nice value the last command about it failed to set.
CommandsTakeEffectInOrder ==
  \A d \in Daemons :
    alone /\ st[d] \in {"check", "enter", "recv"} /\ queue[d] = <<>> =>
      /\ bits \cap Events = wanted.bits
      /\ \A t \in Threads : /\ class[t] = wanted.class[t] \/ <<"class", t>> \in unmet
                            /\ nice[t] = wanted.nice[t] \/ <<"nice", t>> \in unmet

\* Nobody waits for ever in sendto, a client or a signal handler, whatever the
\* daemon it waits for does.
EveryClientReturns == \A c \in Senders : sending[c] # NULL ~> sending[c] = NULL

\* A daemon told to stop does stop, busy or idle, unless the signal arrived just
\* before recvfrom and no datagram ever wakes it.
Stopped(d) == st[d] = "off" \/ (d \in late /\ st[d] = "recv" /\ queue[d] = <<>>)
TerminationStops == \A d \in Daemons : ~g_running[d] ~> Stopped(d)
=============================================================================
