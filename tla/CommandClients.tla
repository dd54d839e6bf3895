--------------------------- MODULE CommandClients ---------------------------
(***************************************************************************)
(* The two ways a Python program commands the daemon, side by side in one  *)
(* process: python/robflex_api.py (the client "py") opens a socket of its  *)
(* own; python/pmu_tick_api.py calls the C library (the client "c").  Each *)
(* keeps one datagram socket per thread, opened by the first command.      *)
(*                                                                         *)
(* The descriptors of the process are few, the application opens and       *)
(* closes files among them, and threads begin and end: a socket is opened, *)
(* missed, closed and forgotten while other threads do the same.  Where    *)
(* librobonix.so is preloaded, a thread is also interrupted by the handler *)
(* of CPI_SET_SIGNAL, wherever it is, and the handler sends a log message  *)
(* through the C library: it may find the thread between the test and the  *)
(* store of socket_fd.  What a command says is left out.                   *)
(***************************************************************************)
EXTENDS Integers

CONSTANTS
  Threads,   \* thread ids, of threads that come and go
  MaxFiles,  \* RLIMIT_NOFILE
  MaxQueue,  \* net.unix.max_dgram_qlen
  Preloaded, \* TRUE: librobonix.so sets up every thread
  Signalled, \* threads whose target is set while they run, by CPI_SET_SIGNAL
  NULL       \* nothing

Descriptors == 0 .. MaxFiles - 1
Clients == {"py", "c"}
Socket(lib, t) == [lib |-> lib, thread |-> t]
Sockets == [lib : Clients, thread : Threads]
AppFile == [lib |-> "application", thread |-> 0]

\* Who sends: the program, or the handler that interrupts it.
Levels == {"program", "handler"}

\* A command under way: what it does next, and what socket() has returned.
Calls == [lib : Clients, at : {"open", "keep", "send"}, fd : Descriptors \cup {-1, NULL}]

ASSUME ClientsAssumption ==
  /\ MaxFiles \in Nat \ {0} /\ MaxQueue \in Nat \ {0} /\ Preloaded \in BOOLEAN
  /\ NULL \notin Descriptors \cup {-1} /\ NULL \notin Sockets /\ NULL \notin Calls /\ NULL # AppFile

VARIABLES
  live,      \* the threads that run
  sock,      \* _local.sock of each thread, or NULL
  socket_fd, \* __thread int socket_fd of each thread; 0 is none
  files,     \* what each descriptor is: NULL (free), AppFile, or a client's socket
  call,      \* the commands each thread is sending, of its program and of its handler, or NULL
  up,        \* the daemon's socket is bound and open
  queued,    \* the datagrams queued on it
  ended,     \* history: sockets of the C library whose thread has ended
  crossed    \* history: sockets the handler opened while the program was opening one

vars == <<live, sock, socket_fd, files, call, up, queued, ended, crossed>>
environment == <<live, up, ended>>

Free == {d \in Descriptors : files[d] = NULL}

\* The kernel opens the lowest free descriptor, if there is one.
NextFree == {d \in Free : \A e \in Free : d <= e}

-----------------------------------------------------------------------------
(* Where a client keeps the socket of a thread *)

Kept(lib, t) == IF lib = "py" THEN sock[t] ELSE socket_fd[t]
NoSocket(lib) == IF lib = "py" THEN NULL ELSE 0

\* Mutant: _local is no thread-local but one object.
OneForAll(t) == CHOOSE u \in Threads : TRUE

\* threading.local(), __thread: a thread has its own.
Slot(t) == t

Keep(lib, t, d) ==
  \/ lib = "py" /\ sock' = [sock EXCEPT ![t] = d] /\ UNCHANGED socket_fd
  \/ lib = "c" /\ socket_fd' = [socket_fd EXCEPT ![t] = d] /\ UNCHANGED sock

\* Mutant: Python remembers the failure too.
FailureRemembered(lib) == -1

\* What is kept when socket() fails: Python's raises before it is stored, C
\* stores the -1.
FailedSocket(lib) == IF lib = "py" THEN NULL ELSE -1

-----------------------------------------------------------------------------
\* _get_socket, or the lazy opening in send_command_to_daemon, begins with a test
\* for a socket.
Begun(lib, t) ==
  [lib |-> lib, at |-> IF Kept(lib, Slot(t)) = NoSocket(lib) THEN "open" ELSE "send", fd |-> NULL]

\* A thread starts.  Preloaded, it first asks the daemon for a higher priority
\* (set_high_nice): it has no socket yet.
SetHighNice == IF Preloaded THEN [lib |-> "c", at |-> "open", fd |-> NULL] ELSE NULL
Idle == [l \in Levels |-> NULL]

Init ==
  /\ \E t \in Threads :
       /\ live = {t}
       /\ call = [u \in Threads |-> IF u = t THEN [Idle EXCEPT !["program"] = SetHighNice] ELSE Idle]
  /\ sock = [t \in Threads |-> NoSocket("py")] /\ socket_fd = [t \in Threads |-> NoSocket("c")]
  /\ files = [d \in Descriptors |-> NULL]
  /\ up = TRUE /\ queued = 0 /\ ended = {} /\ crossed = {}

Start(t) ==
  /\ t \notin live
  /\ live' = live \cup {t}
  /\ call' = [call EXCEPT ![t]["program"] = SetHighNice]
  /\ UNCHANGED <<sock, socket_fd, files, up, queued, ended, crossed>>

\* A thread ends.  Its thread-locals go with it: Python's socket object closes
\* its descriptor, the int of the C library does not.
End(t) ==
  /\ t \in live /\ call[t] = Idle
  /\ live' = live \ {t}
  /\ files' = [d \in Descriptors |-> IF d = sock[t] THEN NULL ELSE files[d]]
  /\ sock' = [sock EXCEPT ![t] = NULL] /\ socket_fd' = [socket_fd EXCEPT ![t] = 0]
  /\ ended' = ended \cup {d \in Descriptors : files[d] = Socket("c", t)}
  /\ UNCHANGED <<call, up, queued, crossed>>

\* The application opens and closes files of its own, its standard input too.
OpenFile ==
  /\ \E d \in NextFree : files' = [files EXCEPT ![d] = AppFile]
  /\ UNCHANGED <<environment, sock, socket_fd, call, queued, crossed>>

CloseFile(d) ==
  /\ files[d] = AppFile
  /\ files' = [files EXCEPT ![d] = NULL]
  /\ UNCHANGED <<environment, sock, socket_fd, call, queued, crossed>>

-----------------------------------------------------------------------------
(* A command *)

Begin(t, l, lib) ==
  /\ t \in live /\ call[t][l] = NULL
  /\ call' = [call EXCEPT ![t][l] = Begun(lib, t)]
  /\ UNCHANGED <<environment, sock, socket_fd, files, queued, crossed>>

\* The functions of robflex_api.py; the program is not in its handler.
PyCommand(t) == call[t]["handler"] = NULL /\ Begin(t, "program", "py")

\* The functions of robflex_api.c, which the wrappers of pmu_tick_api.py call.
CCommand(t) == call[t]["handler"] = NULL /\ Begin(t, "program", "c")

\* cpi_set_interrupt_handler logs the target it has stored.  It interrupts a
\* command here; when the program is at none it does what CCommand does.
HandlerLogs(t) == Preloaded /\ t \in Signalled /\ call[t]["program"] # NULL /\ Begin(t, "handler", "c")

\* The command a thread is at: its handler's before its program's.
Runs(t, l) == call[t][l] # NULL /\ (l = "program" => call[t]["handler"] = NULL)
At(t, l, at) == Runs(t, l) /\ call[t][l].at = at
Goto(t, l, at, fd) == call' = [call EXCEPT ![t][l] = [lib |-> call[t][l].lib, at |-> at, fd |-> fd]]
Returns(t, l) == call' = [call EXCEPT ![t][l] = NULL]

\* There is none: socket(), on the lowest free descriptor, or a failure ...
OpenSocket(t, l) ==
  /\ At(t, l, "open")
  /\ \/ \E d \in NextFree :
          /\ files' = [files EXCEPT ![d] = Socket(call[t][l].lib, t)]
          /\ Goto(t, l, "keep", d)
     \/ /\ Free = {} /\ Goto(t, l, "keep", -1)
        /\ UNCHANGED files
  /\ UNCHANGED <<environment, sock, socket_fd, queued, crossed>>

\* The program has found no socket_fd and not yet stored one.
OpensOne(t) == LET c == call[t]["program"] IN c # NULL /\ c.lib = "c" /\ c.at \in {"open", "keep"}

\* ... which is kept, whatever is there by now.
KeepSocket(t, l) ==
  /\ At(t, l, "keep")
  /\ LET c == call[t][l]
     IN  \/ /\ c.fd # -1
            /\ Keep(c.lib, Slot(t), c.fd)
            /\ Goto(t, l, "send", NULL)
            /\ crossed' = crossed \cup {d \in {c.fd} : l = "handler" /\ OpensOne(t)}
         \/ /\ c.fd = -1
            /\ Keep(c.lib, Slot(t), FailedSocket(c.lib))
            /\ Returns(t, l)
            /\ UNCHANGED crossed
  /\ UNCHANGED <<environment, files, queued>>

\* sendto on a descriptor that was opened.
CanSend(t, l) == At(t, l, "send")
Opened(t, l) == Kept(call[t][l].lib, Slot(t)) # -1

\* The datagram is queued, and the command returns 0.
Accept(t, l) ==
  /\ CanSend(t, l) /\ Opened(t, l) /\ up /\ queued < MaxQueue
  /\ queued' = queued + 1
  /\ Returns(t, l)
  /\ UNCHANGED <<environment, sock, socket_fd, files, crossed>>

\* The command returns -1: no descriptor (EBADF), or no daemon.
Refuse(t, l) ==
  /\ CanSend(t, l) /\ (~Opened(t, l) \/ ~up)
  /\ Returns(t, l)
  /\ UNCHANGED <<environment, sock, socket_fd, files, queued, crossed>>

\* The queue has been full for five seconds; the C library goes on waiting.
TimeOut(t, l) ==
  /\ CanSend(t, l) /\ call[t][l].lib = "py" /\ Opened(t, l) /\ up /\ queued = MaxQueue
  /\ Returns(t, l)
  /\ UNCHANGED <<environment, sock, socket_fd, files, queued, crossed>>

\* Mutant: the socket is dropped, not closed.
OnlyForgotten(t) == files

\* sock.close()
Closed(t) == [d \in Descriptors |-> IF d = sock[Slot(t)] THEN NULL ELSE files[d]]

\* robflex_cleanup
Cleanup(t) ==
  /\ t \in live /\ call[t] = Idle /\ sock[Slot(t)] # NULL
  /\ files' = Closed(t)
  /\ sock' = [sock EXCEPT ![Slot(t)] = NULL]
  /\ UNCHANGED <<environment, socket_fd, call, queued, crossed>>

-----------------------------------------------------------------------------
(* The daemon, as far as its clients can tell (Daemon has all of it) *)

Receive ==
  /\ queued > 0
  /\ queued' = queued - 1
  /\ UNCHANGED <<environment, sock, socket_fd, files, call, crossed>>

\* It stops or crashes, and is started again.
Turn ==
  /\ up' = ~up
  /\ queued' = 0
  /\ UNCHANGED <<live, ended, sock, socket_fd, files, call, crossed>>

-----------------------------------------------------------------------------
Sends(t, l) ==
  \/ OpenSocket(t, l) \/ KeepSocket(t, l)
  \/ Accept(t, l) \/ Refuse(t, l) \/ TimeOut(t, l)

Next ==
  \/ \E t \in Threads : Start(t) \/ End(t) \/ PyCommand(t) \/ CCommand(t) \/ HandlerLogs(t) \/ Cleanup(t)
  \/ OpenFile \/ (\E d \in Descriptors : CloseFile(d))
  \/ \E t \in Threads, l \in Levels : Sends(t, l)
  \/ Receive \/ Turn

Spec == Init /\ [][Next]_vars

-----------------------------------------------------------------------------
\* The variables keep their types.
TypeOK ==
  /\ live \subseteq Threads
  /\ sock \in [Threads -> Descriptors \cup {NULL}]
  /\ socket_fd \in [Threads -> Descriptors \cup {-1}]
  /\ files \in [Descriptors -> Sockets \cup {AppFile, NULL}]
  /\ call \in [Threads -> [Levels -> Calls \cup {NULL}]]
  /\ up \in BOOLEAN /\ queued \in 0 .. MaxQueue
  /\ ended \subseteq Descriptors /\ crossed \subseteq Descriptors

\* A thread sends on a socket it opened itself and nobody has closed since,
\* whatever other threads, and its own handler, open, clean up and leave behind:
\* descriptors are used again at once, and a stale one would name a file of the
\* application.
SendsOnItsOwnSocket ==
  \A t \in Threads, l \in Levels : CanSend(t, l) /\ Opened(t, l) =>
    files[Kept(call[t][l].lib, Slot(t))] = Socket(call[t][l].lib, t)

\* A socket somebody can still send on or close, or is about to keep.
InUse(d) ==
  LET s == files[d]
  IN  /\ s.thread \in live
      /\ \/ Kept(s.lib, s.thread) = d
         \/ \E l \in Levels : LET c == call[s.thread][l] IN c # NULL /\ c.at = "keep" /\ c.fd = d

\* Every socket of the process is kept by a live thread, but for three kinds of
\* the C library's: those whose thread has ended, one on descriptor 0, which the
\* library takes for none and replaces, and one the handler opened between the
\* test and the store of the program it interrupted.  Python's client loses none.
NoSocketIsLost ==
  \A d \in Descriptors : files[d] \in Sockets =>
    InUse(d) \/ (files[d].lib = "c" /\ d \in ended \cup crossed \cup {0})

\* A thread that goes on commanding a daemon that serves, in a process that has
\* descriptors, gets through time and again, whatever failed before: unless it
\* uses the C library and its first socket() failed, for then it never tries
\* another.  That it goes on commanding says that its commands return; nothing
\* else is asked of the schedule.
Commands(lib, t) == IF lib = "py" THEN PyCommand(t) ELSE CCommand(t)
LastsAndServes(lib, t) ==
  /\ <>[](up /\ Free # {})
  /\ []<><<Commands(lib, t)>>_vars
  /\ <>[][~TimeOut(t, "program")]_vars
GetsThrough(lib, t) == []<><<Accept(t, "program") /\ call[t]["program"].lib = lib>>_vars
CommandsGetThrough ==
  \A t \in Threads :
    /\ LastsAndServes("py", t) => GetsThrough("py", t)
    /\ LastsAndServes("c", t)  => GetsThrough("c", t) \/ <>[](socket_fd[t] = -1)
=============================================================================
