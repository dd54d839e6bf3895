-------------------------- MODULE ThreadSetupProofs --------------------------
(***************************************************************************)
(* Theorems about ThreadSetup, for any number of threads, descriptors and  *)
(* failures: the counters of set-up threads keep running, none is lost,    *)
(* and an overflow ends a process only in the window of the set-up.        *)
(***************************************************************************)
EXTENDS ThreadSetup, TLAPS

Unset == [to |-> NULL, signal |-> "SIGIO"]
Installed == {"action", "own", "signal", "enable"}

\* A thread that is not born is a process of its own, and nobody knows it; the
\* process of any other has been born.
Births ==
  \A t \in Threads :
    IF st[t] = "unborn"
    THEN proc[t] = t /\ t \notin closed \cup parents /\ notify[t] = Unset /\ perf_fd[t] = 0
    ELSE st[proc[t]] # "unborn"

\* A counter is opened by its thread's set-up, with no descriptor left over.
Openings ==
  \A t \in Threads :
    /\ st[t] \in {"unborn", "begin", "open"} => \A p \in Threads, d \in Descriptors : fds[p][d] # t
    /\ st[t] = "open" => perf_fd[t] <= 0

\* A process has a counter at most once.
HeldOnce ==
  \A p \in Threads, d, e \in Descriptors : fds[p][d] # NULL /\ fds[p][d] = fds[p][e] => d = e

\* The perf_fd of the live threads of a process are open, and differ, until a
\* set-up closes one and keeps its number.
DescriptorsKept ==
  \A t \in Threads :
    Alive(t) /\ perf_fd[t] > 0 /\ proc[t] \notin closed =>
      /\ Named(t) # NULL
      /\ proc[t] # t => Named(t) = t
      /\ \A u \in Threads : Alive(u) /\ proc[u] = proc[t] /\ u # t => perf_fd[u] # perf_fd[t]

\* What a perf_fd names: the thread's own counter, or one that is not safe.
Exempt(t) == t \in parents \/ proc[t] \in closed
Names ==
  \A t \in Threads :
    Alive(t) /\ Named(t) # NULL =>
      /\ Named(t) # t => Exempt(Named(t))
      /\ st[t] \in Installed => proc[Named(t)] = proc[t]

\* How far the set-up of a thread has got can be read off its counter.
Notified(t) == notify[t] = [to |-> t, signal |-> "PERF_SIGNAL"]
Progress ==
  \A t \in Threads :
    proc[t] \notin closed =>
      /\ st[t] \in {"begin", "open", "action", "own"} => notify[t] = Unset
      /\ st[t] = "signal" => notify[t] = [to |-> t, signal |-> "SIGIO"]
      /\ st[t] = "enable" => Notified(t)
      /\ st[t] = "run" => notify[t] = Unset \/ Notified(t)
      /\ st[t] = "ended" => notify[t].to \in {NULL, t}
      /\ st[t] \in Installed \/ (st[t] = "run" /\ Notified(t)) =>
           /\ perf_fd[t] > 0 /\ Named(t) = t
           /\ t \notin parents => t \in on

\* Signals go to threads that asked for them, after the handler was installed.
Handled ==
  /\ \A t \in Threads : st[t] \in {"own", "signal", "enable"} => proc[t] \in handler
  /\ \A t \in Threads : notify[t].to # NULL =>
       /\ st[notify[t].to] \in {"signal", "enable", "run", "ended"}
       /\ proc[notify[t].to] \in handler

IInv ==
  /\ TypeOK /\ Births /\ Openings /\ HeldOnce /\ DescriptorsKept /\ Names /\ Progress /\ Handled
  /\ NoCounterIsLost /\ OnlyTheWindowKills

-----------------------------------------------------------------------------
\* What a perf_fd is, and what it names.
LEMMA Fds ==
  ASSUME TypeOK, NEW t \in Threads
  PROVE  /\ Fd(t) = perf_fd[t]
         /\ perf_fd[t] > 0 => perf_fd[t] \in Descriptors /\ Named(t) = fds[proc[t]][perf_fd[t]]
         /\ ~(perf_fd[t] > 0) => perf_fd[t] \notin Descriptors /\ Named(t) = NULL
         /\ Named(t) \in Threads \cup {NULL}
         /\ proc[t] \in Threads
BY SetupAssumption DEF TypeOK, Fd, Slot, Named, Descriptors

LEMMA InitIInv == Init => IInv
<1> SUFFICES ASSUME Init PROVE IInv
  OBVIOUS
<1>1. TypeOK
  BY SetupAssumption DEF Init, TypeOK, SettingUp
<1>2. Births /\ Openings /\ HeldOnce /\ NoCounterIsLost
  BY SetupAssumption DEF Init, Births, Openings, HeldOnce, NoCounterIsLost, Unset
<1>3. DescriptorsKept /\ Names
  <2>1. \A t \in Threads : perf_fd[t] = 0
    BY DEF Init
  <2>2. ASSUME NEW t \in Threads PROVE Named(t) = NULL
    <3>1. perf_fd[t] = 0 /\ 0 \notin Descriptors
      BY <2>1, SetupAssumption DEF Descriptors
    <3> QED
      BY <3>1 DEF Named, Fd, Slot
  <2> QED
    BY <2>1, <2>2 DEF DescriptorsKept, Names
<1>4. Progress
  BY SetupAssumption DEF Init, Progress, Notified, Unset, Installed
<1>5. Handled /\ OnlyTheWindowKills
  BY DEF Init, Handled, OnlyTheWindowKills
<1> QED
  BY <1>1, <1>2, <1>3, <1>4, <1>5 DEF IInv

-----------------------------------------------------------------------------
\* The steps of the set-up that leave the descriptors alone.
LEMMA SigactionKeeps ==
  ASSUME IInv, NEW t \in Threads, Sigaction(t)
  PROVE  IInv'
<1> USE SetupAssumption DEF IInv
<1>1. /\ st[t] = "action" /\ st' = [st EXCEPT ![t] = "own"] /\ handler' = handler \cup {proc[t]}
      /\ UNCHANGED <<proc, perf_fd, fds, on, notify, fails, parents, cloned, closed, left, killed>>
  BY DEF Sigaction, Goto, After, history
<1>2. TypeOK'
  BY <1>1 DEF TypeOK, SettingUp
<1>3. /\ \A u \in Threads \ {t} : st'[u] = st[u]
      /\ st'[t] = "own" /\ Alive(t) /\ \A u \in Threads : Alive(u)' = Alive(u)
  BY <1>1 DEF TypeOK, Alive, SettingUp
<1>4. \A u \in Threads : Named(u)' = Named(u) /\ Fd(u)' = Fd(u)
  BY <1>1 DEF Named, Fd
<1>5. Births' /\ Openings' /\ HeldOnce'
  BY <1>1, <1>3 DEF Births, Openings, HeldOnce
<1>6. DescriptorsKept' /\ Names'
  BY <1>1, <1>3, <1>4 DEF DescriptorsKept, Names, Installed, Exempt
<1>7. Progress'
  BY <1>1, <1>3, <1>4 DEF Progress, Installed, Notified
<1>8. Handled'
  BY <1>1, <1>3 DEF Handled
<1>9. NoCounterIsLost' /\ OnlyTheWindowKills'
  BY <1>1, <1>3, <1>4 DEF NoCounterIsLost, OnlyTheWindowKills
<1> QED
  BY <1>2, <1>5, <1>6, <1>7, <1>8, <1>9

\* What a descriptor of the own names until a set-up has failed: at "own" and
\* "signal" it is the thread's own counter, or one of a thread of its process.
LEMMA OwnCounter ==
  ASSUME IInv, NEW t \in Threads, st[t] \in Installed
  PROVE  /\ proc[t] \notin closed => Named(t) = t
         /\ Named(t) # NULL => Named(t) \in Threads /\ proc[Named(t)] = proc[t]
BY Fds DEF IInv, Progress, Names, Alive, SettingUp, Installed

LEMMA SetOwnerKeeps ==
  ASSUME IInv, NEW t \in Threads, SetOwner(t)
  PROVE  IInv'
<1> USE SetupAssumption DEF IInv
<1> DEFINE c == Named(t)
<1>1. /\ st[t] = "own" /\ st' = [st EXCEPT ![t] = "signal"]
      /\ c \in Threads /\ notify' = [notify EXCEPT ![c].to = t]
      /\ UNCHANGED <<proc, perf_fd, fds, on, handler, fails, parents, cloned, closed, left, killed>>
  BY Fds DEF SetOwner, Goto, After, history
<1>2. TypeOK'
  BY <1>1 DEF TypeOK, SettingUp
<1>3. /\ \A u \in Threads \ {t} : st'[u] = st[u]
      /\ st'[t] = "signal" /\ Alive(t) /\ \A u \in Threads : Alive(u)' = Alive(u)
      /\ \A u \in Threads \ {c} : notify'[u] = notify[u]
      /\ notify'[c] = [to |-> t, signal |-> notify[c].signal]
  BY <1>1 DEF TypeOK, Alive, SettingUp
<1>4. \A u \in Threads : Named(u)' = Named(u) /\ Fd(u)' = Fd(u)
  BY <1>1 DEF Named, Fd
<1>5. proc[c] = proc[t] /\ (proc[t] \notin closed => c = t)
  BY <1>1, OwnCounter DEF Installed
<1>6. Births' /\ Openings' /\ HeldOnce'
  <2>1. st[c] # "unborn"
    BY <1>1, <1>3, <1>5, Fds DEF Openings, Named, TypeOK
  <2> QED
    BY <1>1, <1>3, <2>1 DEF Births, Openings, HeldOnce
<1>7. DescriptorsKept' /\ Names'
  BY <1>1, <1>3, <1>4 DEF DescriptorsKept, Names, Installed, Exempt
<1>8. Progress'
  BY <1>1, <1>3, <1>4, <1>5 DEF Progress, Installed, Notified, Unset
<1>9. Handled'
  BY <1>1, <1>3 DEF Handled
<1>10. NoCounterIsLost' /\ OnlyTheWindowKills'
  BY <1>1, <1>3, <1>4 DEF NoCounterIsLost, OnlyTheWindowKills
<1> QED
  BY <1>2, <1>6, <1>7, <1>8, <1>9, <1>10

LEMMA SetSignalKeeps ==
  ASSUME IInv, NEW t \in Threads, SetSignal(t)
  PROVE  IInv'
<1> USE SetupAssumption DEF IInv
<1> DEFINE c == Named(t)
<1>1. /\ st[t] = "signal" /\ st' = [st EXCEPT ![t] = "enable"]
      /\ c \in Threads /\ notify' = [notify EXCEPT ![c].signal = "PERF_SIGNAL"]
      /\ UNCHANGED <<proc, perf_fd, fds, on, handler, fails, parents, cloned, closed, left, killed>>
  BY Fds DEF SetSignal, Goto, After, history
<1>2. TypeOK'
  BY <1>1 DEF TypeOK, SettingUp
<1>3. /\ \A u \in Threads \ {t} : st'[u] = st[u]
      /\ st'[t] = "enable" /\ Alive(t) /\ \A u \in Threads : Alive(u)' = Alive(u)
      /\ \A u \in Threads \ {c} : notify'[u] = notify[u]
      /\ notify'[c] = [to |-> notify[c].to, signal |-> "PERF_SIGNAL"]
  BY <1>1 DEF TypeOK, Alive, SettingUp
<1>4. \A u \in Threads : Named(u)' = Named(u) /\ Fd(u)' = Fd(u)
  BY <1>1 DEF Named, Fd
<1>5. proc[c] = proc[t] /\ (proc[t] \notin closed => c = t)
  BY <1>1, OwnCounter DEF Installed
<1>6. Births' /\ Openings' /\ HeldOnce'
  <2>1. st[c] # "unborn"
    BY <1>1, <1>3, <1>5, Fds DEF Openings, Named, TypeOK
  <2> QED
    BY <1>1, <1>3, <2>1 DEF Births, Openings, HeldOnce
<1>7. DescriptorsKept' /\ Names'
  BY <1>1, <1>3, <1>4 DEF DescriptorsKept, Names, Installed, Exempt
<1>8. Progress'
  BY <1>1, <1>3, <1>4, <1>5 DEF Progress, Installed, Notified, Unset
<1>9. Handled'
  BY <1>1, <1>3 DEF Handled
<1>10. NoCounterIsLost' /\ OnlyTheWindowKills'
  BY <1>1, <1>3, <1>4 DEF NoCounterIsLost, OnlyTheWindowKills
<1> QED
  BY <1>2, <1>6, <1>7, <1>8, <1>9, <1>10

LEMMA EnableKeeps ==
  ASSUME IInv, NEW t \in Threads, Enable(t)
  PROVE  IInv'
<1> USE SetupAssumption DEF IInv
<1>1. /\ st[t] = "enable" /\ st' = [st EXCEPT ![t] = "run"]
      /\ on' = on \cup ({Named(t)} \ {NULL})
      /\ UNCHANGED <<proc, perf_fd, fds, notify, handler, fails, parents, cloned, closed, left, killed>>
  BY DEF Enable, Goto, After, history
<1>2. TypeOK'
  BY <1>1, Fds DEF TypeOK, SettingUp
<1>3. /\ \A u \in Threads \ {t} : st'[u] = st[u]
      /\ st'[t] = "run" /\ Alive(t) /\ \A u \in Threads : Alive(u)' = Alive(u)
  BY <1>1 DEF TypeOK, Alive, SettingUp
<1>4. \A u \in Threads : Named(u)' = Named(u) /\ Fd(u)' = Fd(u)
  BY <1>1 DEF Named, Fd
<1>5. Births' /\ Openings' /\ HeldOnce'
  BY <1>1, <1>3 DEF Births, Openings, HeldOnce
<1>6. DescriptorsKept' /\ Names'
  BY <1>1, <1>3, <1>4 DEF DescriptorsKept, Names, Installed, Exempt
<1>7. Progress'
  BY <1>1, <1>3, <1>4 DEF Progress, Installed, Notified, Unset
<1>8. Handled'
  BY <1>1, <1>3 DEF Handled
<1>9. NoCounterIsLost' /\ OnlyTheWindowKills'
  BY <1>1, <1>3, <1>4 DEF NoCounterIsLost, OnlyTheWindowKills
<1> QED
  BY <1>2, <1>5, <1>6, <1>7, <1>8, <1>9

-----------------------------------------------------------------------------
(* The steps that close descriptors *)

\* Release closes the descriptor of one thread, which no other thread of its
\* process names.  Its counter is the thread's own, or an exempt one.
LEMMA ReleaseKeeps ==
  ASSUME IInv, NEW t \in Threads, NEW where,
         \/ st[t] = "begin" /\ where \in {"open", "run"}
         \/ st[t] = "run" /\ where = "ended",
         Release(t), Goto(t, where),
         fails' \in Nat, UNCHANGED <<proc, notify, handler, history>>
  PROVE  IInv'
<1> USE SetupAssumption DEF IInv
<1>1. /\ st' = [st EXCEPT ![t] = where]
      /\ UNCHANGED <<proc, notify, handler, parents, cloned, closed, left, killed>>
  BY DEF Goto, history
<1>2. /\ \A u \in Threads \ {t} : st'[u] = st[u]
      /\ st'[t] = where /\ Alive(t) /\ \A u \in Threads : Alive(u)' => Alive(u)
      /\ \A u \in Threads \ {t} : Alive(u)' = Alive(u)
  BY <1>1 DEF TypeOK, Alive, SettingUp
<1>3. /\ on' = on \ {Named(t)} \/ (on' = on /\ Named(t) = NULL)
      /\ perf_fd' \in [Threads -> Descriptors \cup {-1, 0}]
      /\ perf_fd'[t] \in {-1, 0} /\ \A u \in Threads \ {t} : perf_fd'[u] = perf_fd[u]
      /\ fds' \in [Threads -> [Descriptors -> Threads \cup {NULL}]]
      /\ \A p \in Threads, d \in Descriptors :
           fds'[p][d] = IF p = proc[t] /\ d = perf_fd[t] THEN NULL ELSE fds[p][d]
  <2>1. CASE perf_fd[t] > 0
    <3>1. /\ on' = on \ {Named(t)} /\ perf_fd' = [perf_fd EXCEPT ![t] = 0]
          /\ fds' = Without(proc[t], perf_fd[t])
      BY <2>1 DEF Release, SetFd, Slot, Fd
    <3>2. fds \in [Threads -> [Descriptors -> Threads \cup {NULL}]] /\ proc[t] \in Threads
      BY DEF TypeOK
    <3>3. fds' = [fds EXCEPT ![proc[t]] = [e \in Descriptors |-> IF e = perf_fd[t] THEN NULL ELSE fds[proc[t]][e]]]
      BY <3>1, <3>2 DEF Without
    <3>4. fds' \in [Threads -> [Descriptors -> Threads \cup {NULL}]]
      BY <3>2, <3>3
    <3>5. \A p \in Threads, d \in Descriptors :
            fds'[p][d] = IF p = proc[t] /\ d = perf_fd[t] THEN NULL ELSE fds[p][d]
      BY <3>2, <3>3
    <3>6. perf_fd' \in [Threads -> Descriptors \cup {-1, 0}] /\ perf_fd'[t] = 0
          /\ \A u \in Threads \ {t} : perf_fd'[u] = perf_fd[u]
      BY <3>1 DEF TypeOK
    <3> QED
      BY <3>1, <3>4, <3>5, <3>6
  <2>2. CASE ~(perf_fd[t] > 0)
    <3>1. UNCHANGED <<on, fds, perf_fd>>
      BY <2>2 DEF Release, Fd, Slot
    <3>2. Named(t) = NULL /\ perf_fd[t] \notin Descriptors /\ perf_fd[t] \in {-1, 0}
      BY <2>2, Fds DEF TypeOK
    <3> QED
      BY <3>1, <3>2 DEF TypeOK
  <2> QED
    BY <2>1, <2>2
<1>4. TypeOK'
  BY <1>1, <1>3 DEF TypeOK, SettingUp
<1>5. /\ Named(t)' = NULL
      /\ \A u \in Threads : Named(u)' \in {NULL, Named(u)}
      /\ \A u \in Threads \ {t} :
           Alive(u) /\ proc[u] \notin closed => Named(u)' = Named(u)
  <2>1. \A u \in Threads : Named(u)' = IF perf_fd'[u] \in Descriptors THEN fds'[proc[u]][perf_fd'[u]] ELSE NULL
    BY <1>1 DEF Named, Fd, Slot
  <2>2. \A u \in Threads \ {t} :
          Alive(u) /\ proc[u] \notin closed /\ proc[u] = proc[t] /\ perf_fd[u] \in Descriptors => perf_fd[u] # perf_fd[t]
    BY <1>2 DEF DescriptorsKept, Descriptors
  <2>3. Named(t)' = NULL
    BY <1>3, <2>1 DEF Descriptors
  <2>4. ASSUME NEW u \in Threads \ {t}
        PROVE  /\ Named(u)' \in {NULL, Named(u)}
               /\ Alive(u) /\ proc[u] \notin closed => Named(u)' = Named(u)
    <3>1. proc[u] \in Threads /\ perf_fd'[u] = perf_fd[u]
      BY <1>3 DEF TypeOK
    <3>2. CASE perf_fd[u] \in Descriptors
      BY <1>3, <2>1, <2>2, <3>1, <3>2 DEF Named, Fd, Slot
    <3>3. CASE perf_fd[u] \notin Descriptors
      BY <2>1, <3>1, <3>3 DEF Named, Fd, Slot
    <3> QED
      BY <3>2, <3>3
  <2> QED
    BY <2>3, <2>4
<1>6. Births' /\ Openings' /\ HeldOnce'
  <2>1. Births'
    BY <1>1, <1>2, <1>3 DEF Births
  <2>2. Openings'
    <3>1. \A u \in Threads, p \in Threads, d \in Descriptors : fds'[p][d] = u => fds[p][d] = u
      BY <1>3
    <3>2. \A u \in Threads : st'[u] \in {"unborn", "begin", "open"} => st[u] \in {"unborn", "begin", "open"}
      BY <1>2
    <3>3. \A u \in Threads : st'[u] = "open" => perf_fd'[u] <= 0
      BY <1>2, <1>3 DEF Openings
    <3> QED
      BY <3>1, <3>2, <3>3 DEF Openings
  <2>3. HeldOnce'
    BY <1>3 DEF HeldOnce
  <2> QED
    BY <2>1, <2>2, <2>3
<1>7. DescriptorsKept'
  <2> SUFFICES ASSUME NEW u \in Threads, Alive(u)', perf_fd'[u] > 0, proc[u] \notin closed
               PROVE  /\ Named(u)' # NULL /\ (proc[u] # u => Named(u)' = u)
                      /\ \A v \in Threads : Alive(v)' /\ proc[v] = proc[u] /\ v # u => perf_fd'[v] # perf_fd'[u]
    BY <1>1 DEF DescriptorsKept
  <2>1. u # t /\ Alive(u) /\ perf_fd'[u] = perf_fd[u] /\ Named(u)' = Named(u)
    <3>1. u # t
      BY <1>3
    <3> QED
      BY <1>2, <1>3, <1>5, <3>1
  <2>2. \A v \in Threads : Alive(v)' /\ proc[v] = proc[u] /\ v # u => perf_fd'[v] # perf_fd'[u]
    <3> SUFFICES ASSUME NEW v \in Threads, Alive(v)', proc[v] = proc[u], v # u
                 PROVE  perf_fd'[v] # perf_fd'[u]
      OBVIOUS
    <3>1. CASE v = t
      BY <1>3, <3>1
    <3>2. CASE v # t
      BY <1>2, <1>3, <2>1, <3>2 DEF DescriptorsKept
    <3> QED
      BY <3>1, <3>2
  <2> QED
    BY <2>1, <2>2 DEF DescriptorsKept
<1>8. Names'
  BY <1>1, <1>2, <1>3, <1>5 DEF Names, Installed, Exempt
<1>9. Progress'
  <2>1. \A u \in Threads \ {t} : u \in on /\ u \notin parents /\ proc[u] \notin closed => u \in on'
    BY <1>2, <1>3 DEF Names, Exempt
  <2>2. \A u \in Threads \ {t} : st[u] \in Installed \cup {"run"} => Alive(u)
    BY DEF Alive, Installed, SettingUp
  <2>3. ASSUME NEW u \in Threads \ {t}, proc[u] \notin closed
        PROVE  /\ st'[u] = st[u] /\ notify'[u] = notify[u] /\ perf_fd'[u] = perf_fd[u]
               /\ Alive(u) => Named(u)' = Named(u)
    BY <1>1, <1>2, <1>3, <1>5, <2>3
  <2>4. proc[t] \notin closed => notify'[t].to \in {NULL, t} /\ (where \in {"open", "run"} => notify'[t] = Unset)
    <3>1. CASE st[t] = "begin"
      <4>1. proc[t] \notin closed => notify[t] = Unset
        BY <3>1 DEF Progress
      <4> QED
        BY <1>1, <4>1 DEF Unset
    <3>2. CASE st[t] = "run" /\ where = "ended"
      <4>1. proc[t] \notin closed => notify[t] = Unset \/ Notified(t)
        BY <3>2 DEF Progress
      <4> QED
        BY <1>1, <3>2, <4>1 DEF Notified, Unset
    <3> QED
      BY <3>1, <3>2
  <2> SUFFICES ASSUME NEW u \in Threads, proc[u] \notin closed
               PROVE  /\ st'[u] \in {"begin", "open", "action", "own"} => notify'[u] = Unset
                      /\ st'[u] = "signal" => notify'[u] = [to |-> u, signal |-> "SIGIO"]
                      /\ st'[u] = "enable" => Notified(u)'
                      /\ st'[u] = "run" => notify'[u] = Unset \/ Notified(u)'
                      /\ st'[u] = "ended" => notify'[u].to \in {NULL, u}
                      /\ st'[u] \in Installed \/ (st'[u] = "run" /\ Notified(u)') =>
                           /\ perf_fd'[u] > 0 /\ Named(u)' = u
                           /\ u \notin parents => u \in on'
    BY <1>1 DEF Progress, Unset
  <2>5. CASE u = t
    <3>1. notify'[t] = Unset => ~Notified(t)'
      BY DEF Unset, Notified
    <3> QED
      BY <1>2, <2>4, <2>5, <3>1 DEF Installed
  <2>6. CASE u # t
    BY <2>1, <2>2, <2>3, <2>6 DEF Progress, Notified, Installed
  <2> QED
    BY <2>5, <2>6
<1>10. Handled'
  BY <1>1, <1>2 DEF Handled
<1>11. NoCounterIsLost' /\ OnlyTheWindowKills'
  <2> SUFFICES ASSUME NEW p \in Threads, NEW d \in Descriptors, fds'[p][d] # NULL, p \notin closed,
                      <<p, fds'[p][d]>> \notin left
               PROVE  \E u \in Threads : Alive(u)' /\ proc'[u] = p /\ Fd(u)' = d
    BY <1>1 DEF NoCounterIsLost, OnlyTheWindowKills
  <2>1. fds'[p][d] = fds[p][d] /\ ~(p = proc[t] /\ d = perf_fd[t])
    BY <1>3
  <2>2. PICK u \in Threads : Alive(u) /\ proc[u] = p /\ Fd(u) = d
    BY <2>1 DEF NoCounterIsLost
  <2>3. u # t
    BY <2>1, <2>2 DEF Fd, Slot
  <2> QED
    BY <1>1, <1>2, <1>3, <2>2, <2>3 DEF Fd, Slot
<1> QED
  BY <1>4, <1>6, <1>7, <1>8, <1>9, <1>10, <1>11

LEMMA BeginKeeps ==
  ASSUME IInv, NEW t \in Threads, Begin(t) \/ FailInit(t)
  PROVE  IInv'
<1>1. fails' \in Nat
  BY DEF IInv, TypeOK, Begin, FailInit
<1> QED
  BY <1>1, ReleaseKeeps DEF Begin, FailInit, After

LEMMA ReturnKeeps ==
  ASSUME IInv, NEW t \in Threads, Return(t)
  PROVE  IInv'
<1>1. fails' \in Nat
  BY DEF IInv, TypeOK, Return
<1> QED
  BY <1>1, ReleaseKeeps DEF Return

\* A set-up that fails closing nothing.
LEMMA FailKeeps1 ==
  ASSUME IInv, NEW t \in Threads, Fail(t), st[t] \in {"open", "own"}
  PROVE  IInv'
<1> USE SetupAssumption DEF IInv
<1>1. /\ st' = [st EXCEPT ![t] = "run"]
      /\ perf_fd' = [perf_fd EXCEPT ![t] = IF st[t] = "open" THEN -1 ELSE perf_fd[t]]
      /\ fails' \in {fails, fails + 1}
      /\ UNCHANGED <<proc, fds, on, notify, handler, parents, cloned, closed, left, killed>>
  BY DEF Fail, Goto, SetFd, Fd, Slot, OpenFailed
<1>2. /\ \A u \in Threads \ {t} : st'[u] = st[u] /\ perf_fd'[u] = perf_fd[u]
      /\ st'[t] = "run" /\ Alive(t) /\ \A u \in Threads : Alive(u)' = Alive(u)
      /\ perf_fd'[t] = perf_fd[t] \/ (perf_fd[t] <= 0 /\ perf_fd'[t] = -1)
  BY <1>1 DEF TypeOK, Alive, SettingUp, Openings
<1>3. TypeOK'
  BY <1>1 DEF TypeOK, SettingUp
<1>4. \A u \in Threads : Named(u)' = Named(u)
  <2>1. perf_fd[t] \in Descriptors => perf_fd[t] > 0
    BY DEF Descriptors
  <2>2. -1 \notin Descriptors
    BY DEF Descriptors
  <2>3. perf_fd'[t] = perf_fd[t] \/ (perf_fd[t] \notin Descriptors /\ perf_fd'[t] \notin Descriptors)
    BY <1>2, <2>1, <2>2 DEF TypeOK, Descriptors
  <2> QED
    BY <1>1, <1>2, <2>3 DEF Named, Fd, Slot
<1>5. Births' /\ Openings' /\ HeldOnce'
  BY <1>1, <1>2 DEF Births, Openings, HeldOnce
<1>6. DescriptorsKept'
  BY <1>1, <1>2, <1>4 DEF DescriptorsKept, TypeOK
<1>7. Names'
  BY <1>1, <1>2, <1>4 DEF Names, Installed, Exempt
<1>8. Progress'
  <2>1. proc[t] \notin closed => notify[t] = Unset /\ ~Notified(t)
    <3>1. proc[t] \notin closed => notify[t] = Unset
      BY <1>1 DEF Progress, Alive
    <3> QED
      BY <3>1 DEF Unset, Notified
  <2> QED
    BY <1>1, <1>2, <1>4, <2>1 DEF Progress, Installed, Notified
<1>9. Handled'
  BY <1>1, <1>2 DEF Handled
<1>10. NoCounterIsLost' /\ OnlyTheWindowKills'
  <2>1. \A d \in Descriptors : Fd(t) = d => Fd(t)' = d
    BY <1>2 DEF Fd, Slot, Descriptors
  <2>2. \A u \in Threads \ {t} : Fd(u)' = Fd(u)
    BY <1>2 DEF Fd, Slot
  <2> QED
    BY <1>1, <1>2, <2>1, <2>2 DEF NoCounterIsLost, OnlyTheWindowKills
<1> QED
  BY <1>3, <1>5, <1>6, <1>7, <1>8, <1>9, <1>10

\* A set-up that fails and closes its descriptor: its process is marked.
LEMMA FailKeeps2 ==
  ASSUME IInv, NEW t \in Threads, Fail(t), st[t] \in {"action", "signal"}
  PROVE  IInv'
<1> USE SetupAssumption DEF IInv
<1>1. /\ st' = [st EXCEPT ![t] = "run"]
      /\ perf_fd' = [perf_fd EXCEPT ![t] = perf_fd[t]]
      /\ fds' = Without(proc[t], perf_fd[t]) /\ closed' = closed \cup {proc[t]}
      /\ fails' \in {fails, fails + 1}
      /\ UNCHANGED <<proc, on, notify, handler, parents, cloned, left, killed>>
  BY DEF Fail, Goto, SetFd, Fd, Slot
<1>2. /\ \A u \in Threads \ {t} : st'[u] = st[u]
      /\ st'[t] = "run" /\ Alive(t) /\ \A u \in Threads : Alive(u)' = Alive(u)
      /\ perf_fd' = perf_fd
  BY <1>1 DEF TypeOK, Alive, SettingUp
<1>3. /\ fds' \in [Threads -> [Descriptors -> Threads \cup {NULL}]]
      /\ \A p \in Threads, d \in Descriptors :
           fds'[p][d] = IF p = proc[t] /\ d = perf_fd[t] THEN NULL ELSE fds[p][d]
  <2>1. fds \in [Threads -> [Descriptors -> Threads \cup {NULL}]] /\ proc[t] \in Threads
    BY DEF TypeOK
  <2>2. fds' = [fds EXCEPT ![proc[t]] = [e \in Descriptors |-> IF e = perf_fd[t] THEN NULL ELSE fds[proc[t]][e]]]
    BY <1>1, <2>1 DEF Without
  <2>3. fds' \in [Threads -> [Descriptors -> Threads \cup {NULL}]]
    BY <2>1, <2>2
  <2>4. \A p \in Threads, d \in Descriptors :
          fds'[p][d] = IF p = proc[t] /\ d = perf_fd[t] THEN NULL ELSE fds[p][d]
    BY <2>1, <2>2
  <2> QED
    BY <2>3, <2>4
<1>4. TypeOK'
  BY <1>1, <1>2, <1>3 DEF TypeOK, SettingUp
<1>5. /\ \A u \in Threads : Named(u)' \in {NULL, Named(u)}
      /\ \A u \in Threads : proc[u] # proc[t] => Named(u)' = Named(u)
  BY <1>1, <1>2, <1>3 DEF TypeOK, Named, Fd, Slot
<1>6. Births' /\ HeldOnce'
  BY <1>1, <1>2, <1>3 DEF Births, HeldOnce
<1>7. Openings'
  <2>1. \A u \in Threads, p \in Threads, d \in Descriptors : fds'[p][d] = u => fds[p][d] = u
    BY <1>3
  <2> QED
    BY <1>2, <2>1 DEF Openings
<1>8. DescriptorsKept'
  BY <1>1, <1>2, <1>5 DEF DescriptorsKept
<1>9. Names'
  BY <1>1, <1>2, <1>5 DEF Names, Installed, Exempt
<1>10. Progress'
  BY <1>1, <1>2, <1>5 DEF Progress, Installed, Notified
<1>11. Handled'
  BY <1>1, <1>2 DEF Handled
<1>12. NoCounterIsLost'
  BY <1>1, <1>2, <1>3 DEF NoCounterIsLost, Fd, Slot
<1>13. OnlyTheWindowKills'
  BY <1>1 DEF OnlyTheWindowKills
<1> QED
  BY <1>4, <1>6, <1>7, <1>8, <1>9, <1>10, <1>11, <1>12, <1>13

LEMMA FailKeeps ==
  ASSUME IInv, NEW t \in Threads, Fail(t)
  PROVE  IInv'
BY FailKeeps1, FailKeeps2 DEF Fail

-----------------------------------------------------------------------------
\* A descriptor is opened: it is free, so no thread of a process that has none
\* closed names it.
LEMMA OpenKeeps ==
  ASSUME IInv, NEW t \in Threads, Open(t)
  PROVE  IInv'
<1> USE SetupAssumption DEF IInv
<1>1. PICK d \in Descriptors :
        /\ fds[proc[t]][d] = NULL
        /\ fds' = [fds EXCEPT ![proc[t]][d] = t]
        /\ perf_fd' = [perf_fd EXCEPT ![t] = d]
  BY DEF Open, SetFd, Slot
<1>2. /\ st[t] = "open" /\ st' = [st EXCEPT ![t] = "action"] /\ on' = on \cup {t}
      /\ UNCHANGED <<proc, notify, handler, fails, parents, cloned, closed, left, killed>>
  BY DEF Open, Goto, After, history
<1>3. /\ \A u \in Threads \ {t} : st'[u] = st[u] /\ perf_fd'[u] = perf_fd[u]
      /\ st'[t] = "action" /\ perf_fd'[t] = d /\ d > 0 /\ perf_fd[t] <= 0
      /\ Alive(t) /\ \A u \in Threads : Alive(u)' = Alive(u)
  BY <1>1, <1>2 DEF TypeOK, Alive, SettingUp, Openings, Descriptors
<1>4. /\ fds' \in [Threads -> [Descriptors -> Threads \cup {NULL}]]
      /\ \A p \in Threads, e \in Descriptors :
           fds'[p][e] = IF p = proc[t] /\ e = d THEN t ELSE fds[p][e]
      /\ proc[t] \in Threads
  BY <1>1 DEF TypeOK
<1>5. \A u \in Threads \ {t} :
        Alive(u) /\ proc[u] = proc[t] /\ perf_fd[u] = d => proc[u] \in closed
  BY <1>1, <1>3, Fds DEF DescriptorsKept
<1>6. /\ Named(t)' = t /\ Named(t) = NULL
      /\ \A u \in Threads \ {t} :
           \/ Named(u)' = Named(u)
           \/ Named(u)' = t /\ proc[u] = proc[t] /\ perf_fd[u] = d
  <2>1. \A u \in Threads : Named(u)' = IF perf_fd'[u] \in Descriptors THEN fds'[proc[u]][perf_fd'[u]] ELSE NULL
    BY <1>2 DEF Named, Fd, Slot
  <2>2. Named(t) = NULL
    <3>1. perf_fd[t] \notin Descriptors
      BY <1>3 DEF Descriptors
    <3> QED
      BY <3>1 DEF Named, Fd, Slot
  <2>3. ASSUME NEW u \in Threads \ {t}
        PROVE  Named(u)' = Named(u) \/ (Named(u)' = t /\ proc[u] = proc[t] /\ perf_fd[u] = d)
    <3>1. proc[u] \in Threads /\ perf_fd'[u] = perf_fd[u]
      BY <1>3 DEF TypeOK
    <3> QED
      BY <1>4, <2>1, <3>1 DEF Named, Fd, Slot
  <2> QED
    BY <1>3, <1>4, <2>1, <2>2, <2>3
<1>7. TypeOK'
  BY <1>1, <1>2, <1>4 DEF TypeOK, SettingUp
<1>8. Births'
  BY <1>2, <1>3 DEF Births
<1>9. Openings'
  BY <1>3, <1>4 DEF Openings
<1>10. HeldOnce'
  BY <1>2, <1>4 DEF HeldOnce, Openings
<1>11. DescriptorsKept'
  <2> SUFFICES ASSUME NEW u \in Threads, Alive(u), perf_fd'[u] > 0, proc[u] \notin closed
               PROVE  /\ Named(u)' # NULL /\ (proc[u] # u => Named(u)' = u)
                      /\ \A v \in Threads : Alive(v) /\ proc[v] = proc[u] /\ v # u => perf_fd'[v] # perf_fd'[u]
    BY <1>2, <1>3 DEF DescriptorsKept
  <2>1. CASE u = t
    BY <1>3, <1>5, <1>6, <2>1
  <2>2. CASE u # t
    <3>1. Named(u)' = Named(u) /\ perf_fd'[u] = perf_fd[u]
      BY <1>3, <1>5, <1>6, <2>2
    <3>2. \A v \in Threads : Alive(v) /\ proc[v] = proc[u] /\ v # u => perf_fd'[v] # perf_fd'[u]
      BY <1>3, <1>5, <2>2 DEF DescriptorsKept
    <3> QED
      BY <3>1, <3>2 DEF DescriptorsKept
  <2> QED
    BY <2>1, <2>2
<1>12. Names'
  BY <1>2, <1>3, <1>5, <1>6 DEF Names, Installed, Exempt
<1>13. Progress'
  <2>1. proc[t] \notin closed => notify[t] = Unset
    BY <1>2 DEF Progress
  <2>2. \A u \in Threads \ {t} : Alive(u) /\ proc[u] \notin closed => Named(u)' = Named(u)
    BY <1>5, <1>6
  <2>3. \A u \in Threads : st[u] \in Installed \cup {"run"} => Alive(u)
    BY DEF Alive, Installed, SettingUp
  <2> QED
    BY <1>2, <1>3, <1>6, <2>1, <2>2, <2>3 DEF Progress, Installed, Notified
<1>14. Handled'
  BY <1>2, <1>3 DEF Handled
<1>15. NoCounterIsLost' /\ OnlyTheWindowKills'
  <2> SUFFICES ASSUME NEW p \in Threads, NEW e \in Descriptors, fds'[p][e] # NULL, p \notin closed,
                      <<p, fds'[p][e]>> \notin left
               PROVE  \E u \in Threads : Alive(u) /\ proc[u] = p /\ perf_fd'[u] = e
    BY <1>2, <1>3 DEF NoCounterIsLost, OnlyTheWindowKills, Fd, Slot
  <2>1. CASE p = proc[t] /\ e = d
    BY <1>3, <2>1
  <2>2. CASE ~(p = proc[t] /\ e = d)
    <3>1. PICK u \in Threads : Alive(u) /\ proc[u] = p /\ perf_fd[u] = e
      BY <1>4, <2>2 DEF NoCounterIsLost, Fd, Slot
    <3>2. u # t
      BY <1>3, <3>1 DEF Descriptors
    <3> QED
      BY <1>3, <3>1, <3>2
  <2> QED
    BY <2>1, <2>2
<1> QED
  BY <1>7, <1>8, <1>9, <1>10, <1>11, <1>12, <1>13, <1>14, <1>15

-----------------------------------------------------------------------------
(* The steps of threads and processes *)

\* A new thread is in the process of its creator, with no counter yet.
LEMMA CreateThreadKeeps ==
  ASSUME IInv, NEW t \in Threads, NEW u \in Threads, CreateThread(t, u)
  PROVE  IInv'
<1> USE SetupAssumption DEF IInv
<1>1. /\ st[t] = "run" /\ st[u] = "unborn" /\ st' = [st EXCEPT ![u] = "begin"]
      /\ proc' = [proc EXCEPT ![u] = proc[t]]
      /\ UNCHANGED <<perf_fd, fds, on, notify, handler, fails, parents, cloned, closed, left, killed>>
  BY DEF CreateThread, Goto, kernel, history
<1>2. /\ \A v \in Threads \ {u} : st'[v] = st[v] /\ proc'[v] = proc[v]
      /\ st'[u] = "begin" /\ proc'[u] = proc[t] /\ proc[t] \in Threads
      /\ \A v \in Threads \ {u} : Alive(v)' = Alive(v)
      /\ perf_fd[u] = 0 /\ notify[u] = Unset /\ proc[u] = u
  BY <1>1 DEF TypeOK, Alive, Births
<1>3. TypeOK'
  BY <1>1, <1>2 DEF TypeOK, SettingUp
<1>4. /\ Named(u)' = NULL
      /\ \A v \in Threads \ {u} : Named(v)' = Named(v)
  <2>1. 0 \notin Descriptors
    BY DEF Descriptors
  <2> QED
    BY <1>1, <1>2, <2>1 DEF Named, Fd, Slot
<1>5. Births'
  <2>1. st[proc[t]] # "unborn"
    BY <1>1 DEF Births
  <2>2. \A v \in Threads \ {u} : IF st[v] = "unborn" THEN proc[v] = v ELSE st[proc[v]] # "unborn"
    BY DEF Births
  <2>3. \A v \in Threads \ {u} : st'[v] # "unborn" => st'[proc'[v]] # "unborn"
    BY <1>1, <1>2, <2>2 DEF TypeOK
  <2>4. st'[proc'[u]] # "unborn"
    BY <1>1, <1>2, <2>1
  <2> QED
    BY <1>1, <1>2, <2>3, <2>4 DEF Births
<1>6. Openings' /\ HeldOnce'
  BY <1>1, <1>2 DEF Openings, HeldOnce
<1>7. DescriptorsKept'
  <2> SUFFICES ASSUME NEW v \in Threads, Alive(v)', perf_fd[v] > 0, proc'[v] \notin closed
               PROVE  /\ Named(v)' # NULL /\ (proc'[v] # v => Named(v)' = v)
                      /\ \A w \in Threads : Alive(w)' /\ proc'[w] = proc'[v] /\ w # v => perf_fd[w] # perf_fd[v]
    BY <1>1 DEF DescriptorsKept
  <2>1. v # u
    BY <1>2
  <2> QED
    BY <1>2, <1>4, <2>1 DEF DescriptorsKept
<1>8. \A v \in Threads : Exempt(v) /\ v # u => Exempt(v)'
  BY <1>1, <1>2 DEF Exempt
<1>9. \A v \in Threads : Named(v) # u
  BY <1>1, Fds DEF Openings, Named, Fd, Slot, TypeOK
<1>10. Names'
  BY <1>2, <1>4, <1>8, <1>9, Fds DEF Names, Installed
<1>11. Progress'
  BY <1>1, <1>2, <1>4 DEF Progress, Installed, Notified
<1>12. Handled'
  <2>1. \A v \in Threads : notify[v].to # u
    BY <1>1, SetupAssumption DEF Handled
  <2> QED
    BY <1>1, <1>2, <2>1 DEF Handled, TypeOK
<1>13. NoCounterIsLost' /\ OnlyTheWindowKills'
  <2> SUFFICES ASSUME NEW p \in Threads, NEW d \in Descriptors, fds[p][d] # NULL, p \notin closed,
                      <<p, fds[p][d]>> \notin left
               PROVE  \E v \in Threads : Alive(v)' /\ proc'[v] = p /\ perf_fd[v] = d
    BY <1>1 DEF NoCounterIsLost, OnlyTheWindowKills, Fd, Slot
  <2>1. PICK v \in Threads : Alive(v) /\ proc[v] = p /\ perf_fd[v] = d
    BY DEF NoCounterIsLost, Fd, Slot
  <2>2. v # u
    BY <1>1, <2>1 DEF Alive, SettingUp
  <2> QED
    BY <1>2, <2>1, <2>2
<1> QED
  BY <1>3, <1>5, <1>6, <1>7, <1>10, <1>11, <1>12, <1>13

\* A thread that ends without cleaning up leaves its own counter to its process.
LEMMA PthreadExitKeeps ==
  ASSUME IInv, NEW t \in Threads, PthreadExit(t)
  PROVE  IInv'
<1> USE SetupAssumption DEF IInv
<1>1. /\ st[t] = "run" /\ proc[t] # t /\ st' = [st EXCEPT ![t] = "ended"]
      /\ left' = left \cup {<<proc[t], t>>}
      /\ UNCHANGED <<proc, perf_fd, fds, on, notify, handler, fails, parents, cloned, closed, killed>>
  BY DEF PthreadExit, Goto, kernel
<1>2. /\ \A u \in Threads \ {t} : st'[u] = st[u] /\ Alive(u)' = Alive(u)
      /\ st'[t] = "ended" /\ Alive(t) /\ ~Alive(t)'
  BY <1>1 DEF TypeOK, Alive, SettingUp
<1>3. \A u \in Threads : Named(u)' = Named(u) /\ Fd(u)' = Fd(u)
  BY <1>1 DEF Named, Fd
<1>4. TypeOK'
  BY <1>1 DEF TypeOK
<1>5. Births' /\ Openings' /\ HeldOnce'
  BY <1>1, <1>2 DEF Births, Openings, HeldOnce, TypeOK
<1>6. DescriptorsKept' /\ Names'
  BY <1>1, <1>2, <1>3 DEF DescriptorsKept, Names, Exempt
<1>7. Progress'
  <2>1. proc[t] \notin closed => notify[t].to \in {NULL, t}
    <3>1. proc[t] \notin closed => notify[t] = Unset \/ Notified(t)
      BY <1>1 DEF Progress
    <3> QED
      BY <3>1 DEF Unset, Notified
  <2> QED
    BY <1>1, <1>2, <1>3, <2>1 DEF Progress, Installed, Notified
<1>8. Handled'
  BY <1>1, <1>2 DEF Handled
<1>9. NoCounterIsLost' /\ OnlyTheWindowKills'
  <2> SUFFICES ASSUME NEW p \in Threads, NEW d \in Descriptors, fds[p][d] # NULL, p \notin closed,
                      <<p, fds[p][d]>> \notin left'
               PROVE  \E u \in Threads : Alive(u)' /\ proc[u] = p /\ Fd(u) = d
    BY <1>1, <1>3 DEF NoCounterIsLost, OnlyTheWindowKills
  <2>1. PICK u \in Threads : Alive(u) /\ proc[u] = p /\ Fd(u) = d
    BY <1>1 DEF NoCounterIsLost
  <2>2. u # t
    <3>1. u = t => perf_fd[t] > 0 /\ Named(t) = fds[p][d]
      BY <2>1, Fds DEF Descriptors
    <3>2. u = t => Named(t) = t
      BY <1>1, <1>2, <2>1, <3>1 DEF DescriptorsKept
    <3> QED
      BY <1>1, <2>1, <3>1, <3>2
  <2> QED
    BY <1>2, <2>1, <2>2
<1> QED
  BY <1>4, <1>5, <1>6, <1>7, <1>8, <1>9

\* A process is made: a copy of its parent's descriptors, with one thread, which
\* inherits the perf_fd of the thread that made it.
LEMMA NewProcessKeeps ==
  ASSUME IInv, NEW t \in Threads, NEW u \in Threads, NEW where \in {"begin", "run"},
         NewProcess(t, u, where), left \subseteq left',
         \A d \in Descriptors :
           fds[proc[t]][d] \notin {NULL, Named(t)} => <<u, fds[proc[t]][d]>> \in left'
  PROVE  IInv'
<1> USE SetupAssumption DEF IInv
<1>1. /\ st[t] = "run" /\ st[u] = "unborn" /\ st' = [st EXCEPT ![u] = where]
      /\ perf_fd' = [perf_fd EXCEPT ![u] = perf_fd[t]]
      /\ fds' = [fds EXCEPT ![u] = fds[proc[t]]]
      /\ parents' = parents \cup {t} /\ handler' \in {handler, handler \cup {u}}
      /\ closed' = IF proc[t] \in closed THEN closed \cup {u} ELSE closed
      /\ UNCHANGED <<proc, on, notify, fails, killed>>
  BY DEF NewProcess, Goto, Inherited, Fd, Slot
<1>2. /\ \A v \in Threads \ {u} : st'[v] = st[v] /\ perf_fd'[v] = perf_fd[v] /\ Alive(v)' = Alive(v)
      /\ st'[u] = where /\ perf_fd'[u] = perf_fd[t] /\ Alive(t) /\ Alive(u)' /\ t # u
      /\ proc[t] \in Threads
  BY <1>1 DEF TypeOK, Alive, SettingUp
<1>3. proc[u] = u /\ \A v \in Threads \ {u} : proc[v] # u
  BY <1>1 DEF Births
<1>4. /\ fds' \in [Threads -> [Descriptors -> Threads \cup {NULL}]]
      /\ \A p \in Threads, d \in Descriptors :
           fds'[p][d] = IF p = u THEN fds[proc[t]][d] ELSE fds[p][d]
  BY <1>1, <1>2 DEF TypeOK
<1>5. Named(u)' = Named(t) /\ \A v \in Threads \ {u} : Named(v)' = Named(v)
  <2>1. \A v \in Threads : Named(v)' = IF perf_fd'[v] \in Descriptors THEN fds'[proc[v]][perf_fd'[v]] ELSE NULL
    BY <1>1 DEF Named, Fd, Slot
  <2>2. Named(u)' = Named(t)
    BY <1>2, <1>3, <1>4, <2>1 DEF Named, Fd, Slot
  <2>3. ASSUME NEW v \in Threads \ {u} PROVE Named(v)' = Named(v)
    BY <1>2, <1>3, <1>4, <2>1 DEF Named, Fd, Slot, TypeOK
  <2> QED
    BY <2>2, <2>3
<1>6. TypeOK'
  BY <1>1, <1>2, <1>4 DEF TypeOK, SettingUp
<1>7. Births'
  BY <1>1, <1>2, <1>3 DEF Births, TypeOK
<1>8. Openings'
  <2>1. \A p \in Threads, d \in Descriptors : fds'[p][d] # u
    BY <1>1, <1>2, <1>4 DEF Openings
  <2>2. \A v \in Threads \ {u} :
          st[v] \in {"unborn", "begin", "open"} => \A p \in Threads, d \in Descriptors : fds'[p][d] # v
    BY <1>2, <1>4 DEF Openings
  <2> QED
    BY <1>2, <2>1, <2>2 DEF Openings
<1>9. HeldOnce'
  BY <1>2, <1>4 DEF HeldOnce
<1>10. DescriptorsKept'
  <2> SUFFICES ASSUME NEW v \in Threads, Alive(v)', perf_fd'[v] > 0, proc[v] \notin closed'
               PROVE  /\ Named(v)' # NULL /\ (proc[v] # v => Named(v)' = v)
                      /\ \A w \in Threads : Alive(w)' /\ proc[w] = proc[v] /\ w # v => perf_fd'[w] # perf_fd'[v]
    BY <1>1 DEF DescriptorsKept
  <2>1. CASE v = u
    <3>1. proc[t] \notin closed
      BY <1>1, <1>3, <2>1
    <3> QED
      BY <1>2, <1>3, <1>5, <2>1, <3>1 DEF DescriptorsKept
  <2>2. CASE v # u
    BY <1>1, <1>2, <1>3, <1>5, <2>2 DEF DescriptorsKept
  <2> QED
    BY <2>1, <2>2
<1>11. Names'
  <2>1. \A v \in Threads : Exempt(v) => Exempt(v)'
    BY <1>1 DEF Exempt
  <2>2. \A c \in Threads : c = Named(t) => Exempt(c)'
    BY <1>1, <1>2, <2>1, Fds DEF Names, Exempt
  <2> QED
    BY <1>1, <1>2, <1>5, <2>1, <2>2, Fds DEF Names, Installed
<1>12. Progress'
  <2>1. notify[u] = Unset /\ ~Notified(u)
    <3>1. notify[u] = Unset
      BY <1>1 DEF Births
    <3> QED
      BY <3>1 DEF Unset, Notified
  <2> QED
    BY <1>1, <1>2, <1>5, <2>1 DEF Progress, Installed, Notified
<1>13. Handled'
  <2>1. \A v \in Threads : notify[v].to # u
    BY <1>1 DEF Handled
  <2> QED
    BY <1>1, <1>2, <2>1 DEF Handled, TypeOK
<1>14. NoCounterIsLost'
  <2> SUFFICES ASSUME NEW p \in Threads, NEW d \in Descriptors, fds'[p][d] # NULL, p \notin closed',
                      <<p, fds'[p][d]>> \notin left'
               PROVE  \E v \in Threads : Alive(v)' /\ proc[v] = p /\ perf_fd'[v] = d
    BY <1>1 DEF NoCounterIsLost, Fd, Slot
  <2>1. CASE p = u
    <3>1. fds[proc[t]][d] = Named(t) /\ Named(t) # NULL
      BY <1>4, <2>1
    <3>2. perf_fd[t] \in Descriptors /\ Named(t) = fds[proc[t]][perf_fd[t]]
      BY <3>1 DEF Named, Fd, Slot
    <3>3. d = perf_fd[t]
      BY <1>2, <3>1, <3>2 DEF HeldOnce
    <3> QED
      BY <1>2, <1>3, <2>1, <3>3
  <2>2. CASE p # u
    <3>1. PICK v \in Threads : Alive(v) /\ proc[v] = p /\ perf_fd[v] = d
      BY <1>1, <1>4, <2>2 DEF NoCounterIsLost, Fd, Slot
    <3>2. v # u
      BY <1>3, <2>2, <3>1
    <3> QED
      BY <1>2, <3>1, <3>2
  <2> QED
    BY <2>1, <2>2
<1>15. OnlyTheWindowKills'
  BY <1>1 DEF OnlyTheWindowKills
<1> QED
  BY <1>6, <1>7, <1>8, <1>9, <1>10, <1>11, <1>12, <1>13, <1>14, <1>15

LEMMA ForkKeeps ==
  ASSUME IInv, NEW t \in Threads, NEW u \in Threads, Fork(t, u)
  PROVE  IInv'
BY NewProcessKeeps DEF Fork

LEMMA CloneProcessKeeps ==
  ASSUME IInv, NEW t \in Threads, NEW u \in Threads, CloneProcess(t, u)
  PROVE  IInv'
BY NewProcessKeeps DEF CloneProcess

\* A process ends, and with it the counter its last thread names may be disabled.
LEMMA EndKeeps ==
  ASSUME IInv, NEW t \in Threads, Alive(t), EndOf(proc[t]), on' \in {on, on \ {Named(t)}},
         UNCHANGED <<proc, perf_fd, notify, handler, fails, parents, cloned, closed, left>>,
         OnlyTheWindowKills'
  PROVE  IInv'
<1> USE SetupAssumption DEF IInv
<1> DEFINE p == proc[t]
<1>1. /\ p \in Threads
      /\ \A u \in Threads : st'[u] = IF proc[u] = p /\ Alive(u) THEN "ended" ELSE st[u]
      /\ st' \in [Threads -> {"unborn", "run", "ended"} \cup SettingUp]
      /\ fds' \in [Threads -> [Descriptors -> Threads \cup {NULL}]]
      /\ \A q \in Threads, d \in Descriptors : fds'[q][d] = IF q = p THEN NULL ELSE fds[q][d]
  BY DEF EndOf, TypeOK
<1>2. \A u \in Threads : Alive(u)' = (Alive(u) /\ proc[u] # p)
  BY <1>1 DEF Alive, SettingUp
<1>3. \A u \in Threads : Named(u)' \in {NULL, Named(u)} /\ (proc[u] # p => Named(u)' = Named(u))
  BY <1>1 DEF Named, Fd, Slot, TypeOK
<1>4. TypeOK'
  BY <1>1 DEF TypeOK
<1>5. Births'
  BY <1>1 DEF Births, TypeOK, Alive, SettingUp
<1>6. Openings' /\ HeldOnce'
  <2>1. \A u, q \in Threads, d \in Descriptors : fds'[q][d] = u => fds[q][d] = u
    BY <1>1
  <2>2. Openings'
    <3>1. \A u \in Threads : st'[u] \in {"unborn", "begin", "open"} => st'[u] = st[u]
      BY <1>1
    <3> QED
      BY <2>1, <3>1 DEF Openings
  <2>3. HeldOnce'
    BY <1>1 DEF HeldOnce
  <2> QED
    BY <2>2, <2>3
<1>7. DescriptorsKept' /\ Names'
  <2>1. DescriptorsKept'
    BY <1>2, <1>3 DEF DescriptorsKept
  <2>2. Names'
    BY <1>1, <1>2, <1>3 DEF Names, Exempt
  <2> QED
    BY <2>1, <2>2
<1>8. Progress'
  <2> SUFFICES ASSUME NEW u \in Threads, proc[u] \notin closed
               PROVE  /\ st'[u] \in {"begin", "open", "action", "own"} => notify[u] = Unset
                      /\ st'[u] = "signal" => notify[u] = [to |-> u, signal |-> "SIGIO"]
                      /\ st'[u] = "enable" => Notified(u)
                      /\ st'[u] = "run" => notify[u] = Unset \/ Notified(u)
                      /\ st'[u] = "ended" => notify[u].to \in {NULL, u}
                      /\ st'[u] \in Installed \/ (st'[u] = "run" /\ Notified(u)) =>
                           /\ perf_fd[u] > 0 /\ Named(u)' = u
                           /\ u \notin parents => u \in on'
    BY DEF Progress, Notified
  <2>1. CASE proc[u] = p /\ Alive(u)
    <3>1. \/ notify[u] = Unset \/ Notified(u) \/ notify[u] = [to |-> u, signal |-> "SIGIO"]
      BY <2>1 DEF Progress, Alive, SettingUp
    <3>2. notify[u].to \in {NULL, u}
      BY <3>1 DEF Unset, Notified
    <3> QED
      BY <1>1, <2>1, <3>2 DEF Installed
  <2>2. CASE ~(proc[u] = p /\ Alive(u))
    <3>1. st'[u] = st[u]
      BY <1>1, <2>2
    <3>2. st[u] \in Installed \cup {"run"} => Alive(u) /\ proc[u] # p /\ Named(u)' = Named(u)
      BY <1>3, <2>2 DEF Alive, Installed, SettingUp
    <3>3. proc[u] # p /\ u \in on /\ u \notin parents => u \in on'
      BY DEF Names, Exempt
    <3> QED
      BY <3>1, <3>2, <3>3 DEF Progress
  <2> QED
    BY <2>1, <2>2
<1>9. Handled'
  BY <1>1 DEF Handled, TypeOK
<1>10. NoCounterIsLost'
  <2> SUFFICES ASSUME NEW q \in Threads, NEW d \in Descriptors, fds'[q][d] # NULL, q \notin closed,
                      <<q, fds'[q][d]>> \notin left
               PROVE  \E u \in Threads : Alive(u)' /\ proc[u] = q /\ Fd(u) = d
    BY DEF NoCounterIsLost, Fd
  <2>1. q # p /\ fds'[q][d] = fds[q][d]
    BY <1>1
  <2> QED
    BY <1>2, <2>1 DEF NoCounterIsLost
<1> QED
  BY <1>4, <1>5, <1>6, <1>7, <1>8, <1>9, <1>10

LEMMA ExitKeeps ==
  ASSUME IInv, NEW t \in Threads, Exit(t)
  PROVE  IInv'
<1>1. Alive(t) /\ EndOf(proc[t]) /\ on' \in {on, on \ {Named(t)}}
  BY DEF Exit, Alive
<1>2. UNCHANGED <<proc, perf_fd, notify, handler, fails, parents, cloned, closed, left>>
  BY DEF Exit, history
<1>3. OnlyTheWindowKills'
  BY DEF Exit, history, IInv, OnlyTheWindowKills
<1> QED
  BY <1>1, <1>2, <1>3, EndKeeps

\* The thread the signal goes to has installed the handler, and is between its
\* F_SETOWN_EX and F_SETSIG, unless a set-up has failed.
LEMMA OverflowKeeps ==
  ASSUME IInv, NEW t \in Threads, Overflow(t)
  PROVE  IInv'
<1> USE SetupAssumption DEF IInv
<1> DEFINE u == notify[t].to
<1>1. /\ u \in Threads /\ Alive(u) /\ (notify[t].signal = "SIGIO" \/ proc[u] \notin handler)
      /\ killed' = killed \cup {st[u]} /\ EndOf(proc[u])
      /\ UNCHANGED <<proc, perf_fd, on, notify, handler, fails, parents, cloned, closed, left>>
  BY DEF Overflow, Ticks, TypeOK
<1>2. st[u] \in {"signal", "enable", "run"} /\ notify[t].signal = "SIGIO"
  BY <1>1 DEF Handled, Alive, SettingUp
<1>3. closed = {} => st[u] = "signal"
  <2> SUFFICES ASSUME closed = {} PROVE st[u] = "signal"
    OBVIOUS
  <2>1. notify[t] # Unset /\ ~Notified(t)
    BY <1>1, <1>2 DEF Unset, Notified
  <2>2. st[t] # "unborn"
    BY <2>1 DEF Births
  <2>3. st[t] \in {"signal", "ended"}
    BY <2>1, <2>2 DEF Progress, TypeOK, SettingUp
  <2>4. u = t
    <3>1. notify[t] = [to |-> t, signal |-> "SIGIO"] \/ notify[t].to \in {NULL, t}
      BY <2>3 DEF Progress
    <3> QED
      BY <1>1, <3>1
  <2> QED
    BY <1>2, <2>3, <2>4
<1>4. OnlyTheWindowKills'
  BY <1>1, <1>2, <1>3 DEF OnlyTheWindowKills
<1> QED
  BY <1>1, <1>4, EndKeeps

-----------------------------------------------------------------------------
LEMMA NextIInv == IInv /\ [Next]_vars => IInv'
<1> SUFFICES ASSUME IInv, [Next]_vars PROVE IInv'
  OBVIOUS
<1>1. CASE Next
  BY <1>1, BeginKeeps, OpenKeeps, SigactionKeeps, SetOwnerKeeps, SetSignalKeeps, EnableKeeps, FailKeeps,
     ReturnKeeps, PthreadExitKeeps, ExitKeeps, OverflowKeeps, CreateThreadKeeps, ForkKeeps,
     CloneProcessKeeps DEF Next, SetUp
<1>2. CASE UNCHANGED vars
  <2>1. UNCHANGED <<st, proc, perf_fd, fds, on, notify, handler, fails, parents, cloned, closed, left, killed>>
    BY <1>2 DEF vars, kernel, history
  <2>2. \A t \in Threads : Named(t)' = Named(t) /\ Fd(t)' = Fd(t) /\ Alive(t)' = Alive(t)
    BY <2>1 DEF Named, Fd, Alive
  <2>3. TypeOK' /\ Births' /\ Openings' /\ HeldOnce'
    BY <2>1 DEF IInv, TypeOK, Births, Openings, HeldOnce
  <2>4. DescriptorsKept' /\ Names' /\ Handled'
    BY <2>1, <2>2 DEF IInv, DescriptorsKept, Names, Exempt, Handled
  <2>5. Progress'
    BY <2>1, <2>2 DEF IInv, Progress, Notified
  <2>6. NoCounterIsLost' /\ OnlyTheWindowKills'
    BY <2>1, <2>2 DEF IInv, NoCounterIsLost, OnlyTheWindowKills
  <2> QED
    BY <2>3, <2>4, <2>5, <2>6 DEF IInv
<1> QED
  BY <1>1, <1>2

LEMMA IInvHolds == Spec => []IInv
BY InitIInv, NextIInv, PTL DEF Spec

\* The variables keep their types.
THEOREM SetupTypeCorrect == Spec => []TypeOK
BY IInvHolds, PTL DEF IInv

\* A set-up thread goes on ticking (setup_perf_ctrl), unless it has made a
\* process or a set-up has failed in its own.
THEOREM CountersRun == Spec => []CountersKeepRunning
<1>1. IInv => CountersKeepRunning
  <2> SUFFICES ASSUME IInv, NEW t \in Threads, SetUpRan(t), t \notin parents, proc[t] \notin closed
               PROVE  Counting(t)
    BY DEF CountersKeepRunning
  <2>1. Notified(t)
    <3>1. notify[t] = Unset \/ Notified(t)
      BY DEF IInv, Progress, SetUpRan
    <3> QED
      BY <3>1 DEF SetUpRan, Unset
  <2> QED
    BY <2>1 DEF IInv, Progress, SetUpRan, Notified, Counting
<1> QED
  BY <1>1, IInvHolds, PTL

\* Every counter of a process is that of a live thread of it, or one that
\* pthread_exit, fork or clone has left (perf_ctrl_cleanup).
THEOREM CountersAreKept == Spec => []NoCounterIsLost
BY IInvHolds, PTL DEF IInv

\* An overflow ends a process only between F_SETOWN_EX and F_SETSIG, as long as
\* no set-up has failed and closed its descriptor.
THEOREM WindowOnly == Spec => []OnlyTheWindowKills
BY IInvHolds, PTL DEF IInv
=============================================================================
