------------------------ MODULE CommandClientsProofs ------------------------
(***************************************************************************)
(* Theorems about CommandClients, for any threads and any number of        *)
(* descriptors: a thread sends on its own socket, interrupted or not, and  *)
(* no socket is lost but those the C library leaves behind.                *)
(***************************************************************************)
EXTENDS CommandClients, TLAPS

\* The socket Python's client keeps for a thread is open, and the thread lives.
PySocketKept ==
  \A t \in Threads : sock[t] # NULL => t \in live /\ files[sock[t]] = Socket("py", t)

\* So is the one the C library keeps, unless it says that there is none.
CSocketKept ==
  \A t \in Threads :
    socket_fd[t] \notin {0, -1} => t \in live /\ files[socket_fd[t]] = Socket("c", t)

\* A command that opens a socket has found none, and finds none but what the
\* handler has put there since; one that sends has got a socket.  The C library's
\* may be descriptor 0, which CSocketKept says nothing of, or -1.
CallSound(t, l) ==
  LET c == call[t][l]
  IN  c # NULL =>
        /\ t \in live
        /\ l = "handler" => c.lib = "c"
        /\ c.at = "keep" => c.fd = -1 \/ (c.fd \in Descriptors /\ files[c.fd] = Socket(c.lib, t))
        /\ c.at # "send" /\ c.lib = "py" => sock[t] = NULL
        /\ c.at # "send" /\ c.lib = "c" => socket_fd[t] = 0 \/ (l = "program" /\ socket_fd[t] \in crossed \cup {-1})
        /\ c.at = "send" /\ c.lib = "py" => sock[t] # NULL
        /\ c.at = "send" /\ c.lib = "c" /\ socket_fd[t] # -1 => files[socket_fd[t]] = Socket("c", t)
CallsSound == \A t \in Threads, l \in Levels : CallSound(t, l)

IInv == TypeOK /\ PySocketKept /\ CSocketKept /\ CallsSound /\ NoSocketIsLost

-----------------------------------------------------------------------------
\* A socket, an application's file and a free descriptor are told apart.
LEMMA SocketsDiffer ==
  ASSUME NEW lib \in Clients, NEW t \in Threads
  PROVE  /\ Socket(lib, t) \in Sockets /\ Socket(lib, t) # NULL /\ Socket(lib, t) # AppFile
         /\ Socket(lib, t).lib = lib /\ Socket(lib, t).thread = t
         /\ \A l \in Clients, u \in Threads : Socket(l, u) = Socket(lib, t) => l = lib /\ u = t
BY ClientsAssumption DEF Socket, Sockets, AppFile, Clients

LEMMA FilesDiffer ==
  /\ AppFile \notin Sockets /\ NULL \notin Sockets
  /\ 0 \in Descriptors
  /\ \A s \in Sockets : s.lib \in Clients /\ s.thread \in Threads /\ s = Socket(s.lib, s.thread)
BY ClientsAssumption DEF Socket, Sockets, AppFile, Clients, Descriptors

LEMMA BegunIsCall ==
  /\ SetHighNice \in Calls \cup {NULL} /\ Idle \in [Levels -> Calls \cup {NULL}]
  /\ \A lib \in Clients, t \in Threads :
       /\ Begun(lib, t) \in Calls /\ Begun(lib, t).lib = lib
       /\ Begun(lib, t).at = IF Kept(lib, t) = NoSocket(lib) THEN "open" ELSE "send"
BY DEF SetHighNice, Begun, Calls, Clients, Idle, Levels, Slot

\* One command of one thread changes, and all others stay.
SetsCall(t, l, x) == call' = [call EXCEPT ![t][l] = x]
OthersStay(t, l, x) ==
  /\ call' \in [Threads -> [Levels -> Calls \cup {NULL}]] /\ call'[t][l] = x
  /\ \A u \in Threads, m \in Levels : u # t \/ m # l => call'[u][m] = call[u][m]
LEMMA CallChange ==
  ASSUME TypeOK, NEW t \in Threads, NEW l \in Levels, NEW x \in Calls \cup {NULL}, SetsCall(t, l, x)
  PROVE  OthersStay(t, l, x)
BY DEF TypeOK, SetsCall, OthersStay

LEMMA GotoChange ==
  ASSUME TypeOK, NEW t \in Threads, NEW l \in Levels, call[t][l] # NULL,
         NEW at \in {"open", "keep", "send"}, NEW fd \in Descriptors \cup {-1, NULL}, Goto(t, l, at, fd)
  PROVE  LET x == [lib |-> call[t][l].lib, at |-> at, fd |-> fd]
         IN  x \in Calls /\ call' = [call EXCEPT ![t][l] = x]
<1> DEFINE x == [lib |-> call[t][l].lib, at |-> at, fd |-> fd]
<1>1. call[t][l] \in Calls
  BY DEF TypeOK
<1>2. x \in Calls
  BY <1>1 DEF Calls
<1> QED
  BY <1>2 DEF Goto

\* A command stays sound while its thread's sockets and variables stay.
LEMMA SoundStays ==
  ASSUME TypeOK, NEW u \in Threads, NEW m \in Levels, CallSound(u, m),
         call'[u][m] = call[u][m], u \in live => u \in live', sock'[u] = sock[u],
         socket_fd'[u] = socket_fd[u], crossed \subseteq crossed',
         \A e \in Descriptors : files[e] \in Sockets /\ files[e].thread = u => files'[e] = files[e]
  PROVE  CallSound(u, m)'
<1> DEFINE c == call[u][m]
<1>1. CASE c = NULL
  BY <1>1 DEF CallSound
<1>2. CASE c # NULL
  <2>1. c \in Calls /\ c.lib \in Clients /\ socket_fd[u] \in Descriptors \cup {-1}
    BY <1>2 DEF TypeOK, Calls
  <2>2. \A e \in Descriptors, lib \in Clients : files[e] = Socket(lib, u) => files'[e] = Socket(lib, u)
    BY SocketsDiffer
  <2>3. "c" \in Clients
    BY DEF Clients
  <2> QED
    BY <1>2, <2>1, <2>2, <2>3 DEF CallSound
<1> QED
  BY <1>1, <1>2

\* A socket stays in use while its thread's variables stay.
LEMMA UseStays ==
  ASSUME TypeOK, NEW d \in Descriptors, files[d] \in Sockets, files'[d] = files[d], InUse(d),
         LET u == files[d].thread
         IN  u \in live' /\ sock'[u] = sock[u] /\ socket_fd'[u] = socket_fd[u] /\ call'[u] = call[u]
  PROVE  InUse(d)'
BY DEF InUse, Kept

LEMMA InitIInv == Init => IInv
<1> SUFFICES ASSUME Init PROVE IInv
  OBVIOUS
<1>1. PICK t \in Threads :
        /\ live = {t}
        /\ call = [u \in Threads |-> IF u = t THEN [Idle EXCEPT !["program"] = SetHighNice] ELSE Idle]
  BY DEF Init
<1>2. sock = [u \in Threads |-> NULL] /\ socket_fd = [u \in Threads |-> 0]
  BY DEF Init, NoSocket
<1>3. /\ files = [d \in Descriptors |-> NULL] /\ up = TRUE /\ queued = 0
      /\ ended = {} /\ crossed = {}
  BY DEF Init
<1>4. [Idle EXCEPT !["program"] = SetHighNice] \in [Levels -> Calls \cup {NULL}]
  BY BegunIsCall DEF Levels
<1>5. TypeOK
  BY <1>1, <1>2, <1>3, <1>4, BegunIsCall, FilesDiffer, ClientsAssumption DEF TypeOK
<1>6. PySocketKept /\ CSocketKept
  BY <1>2 DEF PySocketKept, CSocketKept
<1>7. CallsSound
  <2> SUFFICES ASSUME NEW u \in Threads, NEW l \in Levels, call[u][l] # NULL PROVE CallSound(u, l)
    BY DEF CallsSound, CallSound
  <2>1. u = t /\ l = "program" /\ call[u][l] = SetHighNice
    BY <1>1 DEF Idle, Levels
  <2>2. call[u][l].at = "open" /\ call[u][l].lib = "c"
    BY <2>1 DEF SetHighNice
  <2> QED
    BY <1>1, <1>2, <2>1, <2>2 DEF CallSound
<1>8. NoSocketIsLost
  BY <1>3, FilesDiffer DEF NoSocketIsLost
<1> QED
  BY <1>5, <1>6, <1>7, <1>8 DEF IInv

-----------------------------------------------------------------------------
(* The threads and their files *)

LEMMA StartKeeps ==
  ASSUME IInv, NEW t \in Threads, Start(t)
  PROVE  IInv'
<1> USE DEF IInv
<1>1. /\ t \notin live /\ live' = live \cup {t}
      /\ UNCHANGED <<sock, socket_fd, files, up, queued, ended, crossed>>
      /\ call' = [call EXCEPT ![t]["program"] = SetHighNice]
  BY DEF Start
<1>2. "program" \in Levels
  BY DEF Levels
<1>3. /\ call' \in [Threads -> [Levels -> Calls \cup {NULL}]] /\ call'[t]["program"] = SetHighNice
      /\ \A u \in Threads, m \in Levels : u # t \/ m # "program" => call'[u][m] = call[u][m]
  <2> DEFINE x == SetHighNice
             l == "program"
  <2>1. x \in Calls \cup {NULL} /\ l \in Levels
    BY <1>2, BegunIsCall
  <2>2. SetsCall(t, l, x)
    BY <1>1 DEF SetsCall
  <2> HIDE DEF x, l
  <2>3. OthersStay(t, l, x)
    BY <2>1, <2>2, CallChange
  <2> QED
    BY <2>3 DEF x, l, OthersStay
<1>4. TypeOK'
  BY <1>1, <1>3 DEF TypeOK
<1>5. PySocketKept' /\ CSocketKept'
  BY <1>1 DEF PySocketKept, CSocketKept
<1>6. sock[t] = NULL /\ socket_fd[t] \in {0, -1}
  BY <1>1 DEF PySocketKept, CSocketKept
<1>7. CallsSound'
  <2> SUFFICES ASSUME NEW u \in Threads, NEW m \in Levels PROVE CallSound(u, m)'
    BY DEF CallsSound
  <2>1. CASE u # t \/ m # "program"
    BY <1>1, <1>3, <2>1, SoundStays DEF CallsSound
  <2>2. CASE u = t /\ m = "program"
    <3>1. SetHighNice # NULL => SetHighNice.at = "open" /\ SetHighNice.lib = "c"
      BY DEF SetHighNice
    <3> QED
      BY <1>1, <1>3, <1>6, <2>2, <3>1 DEF CallSound
  <2> QED
    BY <2>1, <2>2
<1>8. NoSocketIsLost'
  <2> SUFFICES ASSUME NEW d \in Descriptors, files[d] \in Sockets, InUse(d) PROVE InUse(d)'
    BY <1>1 DEF NoSocketIsLost
  <2>1. files[d].thread \in Threads /\ files[d].thread # t
    BY <1>1, FilesDiffer DEF InUse
  <2>2. call'[files[d].thread] = call[files[d].thread]
    BY <1>1, <2>1 DEF TypeOK
  <2> QED
    BY <1>1, <2>2, UseStays DEF InUse
<1> QED
  BY <1>4, <1>5, <1>7, <1>8

LEMMA FilesKeep ==
  ASSUME IInv, OpenFile \/ \E d \in Descriptors : CloseFile(d)
  PROVE  IInv'
<1> USE DEF IInv
<1>1. UNCHANGED <<live, ended, crossed, sock, socket_fd, call, queued, up>>
  BY DEF OpenFile, CloseFile, environment
<1>2. PICK d \in Descriptors :
        /\ files[d] \in {NULL, AppFile}
        /\ \/ files' = [files EXCEPT ![d] = AppFile]
           \/ files' = [files EXCEPT ![d] = NULL]
  BY DEF OpenFile, CloseFile, NextFree, Free
<1>3. /\ files[d] \notin Sockets /\ files'[d] \notin Sockets
      /\ \A e \in Descriptors \ {d} : files'[e] = files[e]
  BY <1>2, FilesDiffer DEF TypeOK
<1>4. TypeOK'
  BY <1>1, <1>2 DEF TypeOK
<1>5. PySocketKept' /\ CSocketKept'
  BY <1>1, <1>3, SocketsDiffer DEF TypeOK, PySocketKept, CSocketKept, Clients
<1>6. CallsSound'
  <2> SUFFICES ASSUME NEW u \in Threads, NEW m \in Levels PROVE CallSound(u, m)'
    BY DEF CallsSound
  <2> QED
    BY <1>1, <1>3, SoundStays DEF CallsSound
<1>7. NoSocketIsLost'
  BY <1>1, <1>3 DEF NoSocketIsLost, InUse, Kept
<1> QED
  BY <1>4, <1>5, <1>6, <1>7

\* A socket of Python's client is closed by its thread, which is at no command.
LEMMA CleanupKeeps ==
  ASSUME IInv, NEW t \in Threads, Cleanup(t)
  PROVE  IInv'
<1> USE DEF IInv
<1>1. /\ UNCHANGED <<live, ended, crossed, socket_fd, call, queued, up>>
      /\ call[t] = Idle /\ sock[t] # NULL /\ sock[t] \in Descriptors
      /\ sock' = [sock EXCEPT ![t] = NULL]
      /\ files' = [d \in Descriptors |-> IF d = sock[t] THEN NULL ELSE files[d]]
  BY DEF Cleanup, Closed, Slot, environment, TypeOK
<1>2. /\ files[sock[t]] = Socket("py", t) /\ files'[sock[t]] = NULL
      /\ \A d \in Descriptors : d # sock[t] => files'[d] = files[d]
      /\ \A u \in Threads \ {t} : sock'[u] = sock[u]
      /\ files[sock[t]].thread = t /\ files[sock[t]].lib = "py"
  BY <1>1, SocketsDiffer DEF PySocketKept, TypeOK, Clients
<1>3. TypeOK'
  BY <1>1 DEF TypeOK
<1>4. PySocketKept' /\ CSocketKept'
  BY <1>1, <1>2, SocketsDiffer DEF PySocketKept, CSocketKept, TypeOK, Clients
<1>5. CallsSound'
  <2> SUFFICES ASSUME NEW u \in Threads, NEW m \in Levels PROVE CallSound(u, m)'
    BY DEF CallsSound
  <2>1. CASE u = t
    BY <1>1, <2>1 DEF CallSound, Idle
  <2>2. CASE u # t
    BY <1>1, <1>2, <2>2, SoundStays DEF CallsSound
  <2> QED
    BY <2>1, <2>2
<1>6. NoSocketIsLost'
  <2> SUFFICES ASSUME NEW d \in Descriptors, files'[d] \in Sockets
               PROVE  InUse(d)' \/ (files'[d].lib = "c" /\ d \in ended' \cup crossed' \cup {0})
    BY DEF NoSocketIsLost
  <2>1. d # sock[t] /\ files'[d] = files[d]
    BY <1>2, FilesDiffer
  <2>2. InUse(d) => InUse(d)'
    BY <1>1, <2>1, FilesDiffer DEF InUse, Kept, TypeOK
  <2> QED
    BY <1>1, <2>1, <2>2 DEF NoSocketIsLost
<1> QED
  BY <1>3, <1>4, <1>5, <1>6

\* A thread that ends closes the socket of Python's client, and leaves the one
\* of the C library behind.
LEMMA EndKeeps ==
  ASSUME IInv, NEW t \in Threads, End(t)
  PROVE  IInv'
<1> USE DEF IInv
<1>1. /\ UNCHANGED <<call, queued, up, crossed>>
      /\ call[t] = Idle /\ live' = live \ {t}
      /\ sock' = [sock EXCEPT ![t] = NULL] /\ socket_fd' = [socket_fd EXCEPT ![t] = 0]
      /\ files' = [d \in Descriptors |-> IF d = sock[t] THEN NULL ELSE files[d]]
      /\ ended' = ended \cup {d \in Descriptors : files[d] = Socket("c", t)}
  BY DEF End
<1>2. /\ sock[t] # NULL => files[sock[t]] = Socket("py", t) /\ files[sock[t]].thread = t
      /\ \A d \in Descriptors : d # sock[t] => files'[d] = files[d]
      /\ \A d \in Descriptors : d = sock[t] => files'[d] = NULL
      /\ \A u \in Threads \ {t} : sock'[u] = sock[u] /\ socket_fd'[u] = socket_fd[u]
  BY <1>1, SocketsDiffer DEF PySocketKept, TypeOK, Clients
<1>3. TypeOK'
  BY <1>1, FilesDiffer DEF TypeOK
<1>4. PySocketKept'
  BY <1>1, <1>2, SocketsDiffer DEF PySocketKept, TypeOK, Clients
<1>5. CSocketKept'
  <2> SUFFICES ASSUME NEW u \in Threads, socket_fd'[u] \notin {0, -1}
               PROVE  u \in live' /\ files'[socket_fd'[u]] = Socket("c", u)
    BY DEF CSocketKept
  <2>1. u # t /\ socket_fd'[u] = socket_fd[u] /\ socket_fd[u] \in Descriptors
    BY <1>1, <1>2 DEF TypeOK
  <2>2. u \in live /\ files[socket_fd[u]] = Socket("c", u)
    BY <2>1 DEF CSocketKept
  <2>3. socket_fd[u] # sock[t]
    BY <1>2, <2>1, <2>2, SocketsDiffer, ClientsAssumption DEF Clients
  <2> QED
    BY <1>1, <1>2, <2>1, <2>2, <2>3
<1>6. CallsSound'
  <2> SUFFICES ASSUME NEW u \in Threads, NEW m \in Levels PROVE CallSound(u, m)'
    BY DEF CallsSound
  <2>1. CASE u = t
    BY <1>1, <2>1 DEF CallSound, Idle
  <2>2. CASE u # t
    <3>1. \A e \in Descriptors : files[e] \in Sockets /\ files[e].thread = u => files'[e] = files[e]
      BY <1>2, <2>2, ClientsAssumption
    <3> QED
      BY <1>1, <1>2, <2>2, <3>1, SoundStays DEF CallsSound
  <2> QED
    BY <2>1, <2>2
<1>7. NoSocketIsLost'
  <2> SUFFICES ASSUME NEW d \in Descriptors, files'[d] \in Sockets
               PROVE  InUse(d)' \/ (files'[d].lib = "c" /\ d \in ended' \cup crossed' \cup {0})
    BY DEF NoSocketIsLost
  <2>1. d # sock[t] /\ files'[d] = files[d]
    BY <1>2, FilesDiffer
  <2>2. InUse(d) /\ files[d].thread # t => InUse(d)'
    BY <1>1, <1>2, <2>1, FilesDiffer DEF InUse, Kept
  <2>3. InUse(d) /\ files[d].thread = t => files[d] = Socket("c", t)
    BY <1>1, <2>1, FilesDiffer DEF InUse, Kept, Clients, Idle
  <2>4. files[d] = Socket("c", t) => files'[d].lib = "c" /\ d \in ended'
    BY <1>1, <2>1, SocketsDiffer DEF Clients
  <2> QED
    BY <1>1, <2>1, <2>2, <2>3, <2>4 DEF NoSocketIsLost
<1> QED
  BY <1>3, <1>4, <1>5, <1>6, <1>7

-----------------------------------------------------------------------------
(* Commands *)

\* A command begins: with what its test has found.
LEMMA BeginKeeps ==
  ASSUME IInv, NEW t \in Threads, NEW l \in Levels, NEW lib \in Clients, Begin(t, l, lib),
         l = "handler" => lib = "c"
  PROVE  IInv'
<1> USE DEF IInv
<1>1. /\ UNCHANGED <<live, ended, crossed, sock, socket_fd, files, queued, up>>
      /\ t \in live /\ call[t][l] = NULL /\ call' = [call EXCEPT ![t][l] = Begun(lib, t)]
  BY DEF Begin, environment
<1>2. /\ call' \in [Threads -> [Levels -> Calls \cup {NULL}]] /\ call'[t][l] = Begun(lib, t)
      /\ \A u \in Threads, m \in Levels : u # t \/ m # l => call'[u][m] = call[u][m]
  <2> DEFINE x == Begun(lib, t)
  <2>1. x \in Calls \cup {NULL}
    BY BegunIsCall
  <2>2. SetsCall(t, l, x)
    BY <1>1 DEF SetsCall
  <2> HIDE DEF x
  <2>3. OthersStay(t, l, x)
    BY <2>1, <2>2, CallChange
  <2> QED
    BY <2>3 DEF x, OthersStay
<1>3. TypeOK' /\ PySocketKept' /\ CSocketKept'
  BY <1>1, <1>2 DEF TypeOK, PySocketKept, CSocketKept
<1>4. CallsSound'
  <2> SUFFICES ASSUME NEW u \in Threads, NEW m \in Levels PROVE CallSound(u, m)'
    BY DEF CallsSound
  <2>1. CASE u # t \/ m # l
    BY <1>1, <1>2, <2>1, SoundStays DEF CallsSound
  <2>2. CASE u = t /\ m = l
    <3>1. call'[t][l].lib = lib /\ call'[t][l].at = IF Kept(lib, t) = NoSocket(lib) THEN "open" ELSE "send"
      BY <1>2, BegunIsCall
    <3>2. socket_fd[t] \notin {0, -1} => files[socket_fd[t]] = Socket("c", t)
      BY DEF CSocketKept
    <3>3. CASE lib = "py"
      BY <1>1, <2>2, <3>1, <3>3 DEF CallSound, Kept, NoSocket
    <3>4. CASE lib = "c"
      BY <1>1, <2>2, <3>1, <3>2, <3>4 DEF CallSound, Kept, NoSocket
    <3> QED
      BY <3>3, <3>4 DEF Clients
  <2> QED
    BY <2>1, <2>2
<1>5. NoSocketIsLost'
  BY <1>1, <1>2, FilesDiffer DEF NoSocketIsLost, InUse, Kept
<1> QED
  BY <1>3, <1>4, <1>5

\* socket() gives the command a descriptor nobody had, or none.
LEMMA OpenKeeps ==
  ASSUME IInv, NEW t \in Threads, NEW l \in Levels, OpenSocket(t, l)
  PROVE  IInv'
<1> USE DEF IInv
<1> DEFINE lib == call[t][l].lib
<1>1. /\ UNCHANGED <<live, ended, crossed, sock, socket_fd, queued, up>>
      /\ call[t][l] # NULL /\ call[t][l].at = "open"
  BY DEF OpenSocket, At, Runs, environment
<1>2. lib \in Clients /\ CallSound(t, l)
  BY <1>1 DEF TypeOK, Calls, CallsSound
<1>3. PICK fd \in Descriptors \cup {-1} :
        /\ Goto(t, l, "keep", fd)
        /\ fd # -1 => files[fd] = NULL /\ files' = [files EXCEPT ![fd] = Socket(lib, t)]
        /\ fd = -1 => files' = files
  <2>1. \A d \in Descriptors : d # -1
    BY ClientsAssumption DEF Descriptors
  <2> QED
    BY <2>1 DEF OpenSocket, NextFree, Free
<1>4. /\ call' \in [Threads -> [Levels -> Calls \cup {NULL}]]
      /\ call'[t][l] = [lib |-> lib, at |-> "keep", fd |-> fd] /\ call'[t][l] \in Calls
      /\ \A u \in Threads, m \in Levels : u # t \/ m # l => call'[u][m] = call[u][m]
  <2> DEFINE x == [lib |-> lib, at |-> "keep", fd |-> fd]
  <2>1. x \in Calls \cup {NULL} /\ SetsCall(t, l, x) /\ x \in Calls
    BY <1>1, <1>3, GotoChange DEF SetsCall
  <2> HIDE DEF x
  <2>2. OthersStay(t, l, x)
    BY <2>1, CallChange
  <2> QED
    BY <2>1, <2>2 DEF OthersStay, x
<1>5. /\ \A e \in Descriptors : e # fd => files'[e] = files[e]
      /\ fd # -1 => fd \in Descriptors /\ files[fd] \notin Sockets /\ files'[fd] = Socket(lib, t)
      /\ \A e \in Descriptors : files[e] \in Sockets => files'[e] = files[e]
  BY <1>3, FilesDiffer DEF TypeOK
<1>6. TypeOK'
  <2>1. files' \in [Descriptors -> Sockets \cup {AppFile, NULL}]
    BY <1>2, <1>3, SocketsDiffer DEF TypeOK
  <2> QED
    BY <1>1, <1>4, <2>1 DEF TypeOK
<1>7. PySocketKept' /\ CSocketKept'
  BY <1>1, <1>5, SocketsDiffer DEF PySocketKept, CSocketKept, TypeOK, Clients
<1>8. CallsSound'
  <2> SUFFICES ASSUME NEW u \in Threads, NEW m \in Levels PROVE CallSound(u, m)'
    BY DEF CallsSound
  <2>1. CASE u # t \/ m # l
    BY <1>1, <1>4, <1>5, <2>1, SoundStays DEF CallsSound
  <2>2. CASE u = t /\ m = l
    <3>1. call'[t][l].lib = lib /\ call'[t][l].at = "keep" /\ call'[t][l].fd = fd
      BY <1>4
    <3> QED
      BY <1>1, <1>2, <1>5, <2>2, <3>1 DEF CallSound
  <2> QED
    BY <2>1, <2>2
<1>9. NoSocketIsLost'
  <2> SUFFICES ASSUME NEW d \in Descriptors, files'[d] \in Sockets
               PROVE  InUse(d)' \/ (files'[d].lib = "c" /\ d \in ended' \cup crossed' \cup {0})
    BY DEF NoSocketIsLost
  <2>1. CASE d = fd
    <3>1. files'[d] = Socket(lib, t) /\ files'[d].thread = t
      BY <1>2, <1>5, <2>1, SocketsDiffer, ClientsAssumption DEF Descriptors
    <3>2. call'[t][l] # NULL /\ call'[t][l].at = "keep" /\ call'[t][l].fd = d
      BY <1>4, <2>1, ClientsAssumption
    <3> QED
      BY <1>1, <1>2, <3>1, <3>2 DEF InUse, CallSound
  <2>2. CASE d # fd
    <3>1. files'[d] = files[d]
      BY <1>5, <2>2
    <3>2. InUse(d) => InUse(d)'
      BY <1>1, <1>4, <3>1, FilesDiffer DEF InUse, Kept
    <3> QED
      BY <1>1, <3>1, <3>2 DEF NoSocketIsLost
  <2> QED
    BY <2>1, <2>2
<1> QED
  BY <1>6, <1>7, <1>8, <1>9


\* What the command has got is kept, in place of whatever is there.
LEMMA KeepKeeps ==
  ASSUME IInv, NEW t \in Threads, NEW l \in Levels, KeepSocket(t, l)
  PROVE  IInv'
<1> USE DEF IInv
<1> DEFINE c == call[t][l]
           x == IF c.fd # -1 THEN [lib |-> c.lib, at |-> "send", fd |-> NULL] ELSE NULL
           got == IF c.fd # -1 THEN c.fd ELSE FailedSocket(c.lib)
<1>1. /\ UNCHANGED <<live, ended, files, queued, up>>
      /\ c # NULL /\ c.at = "keep" /\ (l = "program" => call[t]["handler"] = NULL)
      /\ Keep(c.lib, t, got)
  BY DEF KeepSocket, At, Runs, environment, Slot
<1>2. /\ c \in Calls /\ c.lib \in Clients /\ CallSound(t, l) /\ t \in live
      /\ c.fd = -1 \/ (c.fd \in Descriptors /\ files[c.fd] = Socket(c.lib, t))
      /\ l = "handler" => c.lib = "c"
  BY <1>1 DEF TypeOK, Calls, CallsSound, CallSound
<1>3. crossed \subseteq crossed' /\ crossed' \subseteq Descriptors
      /\ (l = "handler" /\ OpensOne(t) /\ c.fd # -1 => c.fd \in crossed')
  BY <1>2 DEF KeepSocket, TypeOK
<1>4. x \in Calls \cup {NULL} /\ call' = [call EXCEPT ![t][l] = x]
  <2>1. CASE c.fd # -1
    BY <1>1, <1>2, <2>1, GotoChange DEF KeepSocket
  <2>2. CASE c.fd = -1
    BY <2>2 DEF KeepSocket, Returns
  <2> QED
    BY <2>1, <2>2
<1>5. /\ call' \in [Threads -> [Levels -> Calls \cup {NULL}]] /\ call'[t][l] = x
      /\ \A u \in Threads, m \in Levels : u # t \/ m # l => call'[u][m] = call[u][m]
  <2>1. SetsCall(t, l, x)
    BY <1>4 DEF SetsCall
  <2> HIDE DEF x
  <2>2. OthersStay(t, l, x)
    BY <1>4, <2>1, CallChange
  <2> QED
    BY <2>2 DEF OthersStay
<1>6. /\ \A u \in Threads \ {t} : sock'[u] = sock[u] /\ socket_fd'[u] = socket_fd[u]
      /\ c.lib = "py" => sock'[t] = got /\ socket_fd' = socket_fd /\ sock[t] = NULL
      /\ c.lib = "c"  => socket_fd'[t] = got /\ sock' = sock
  BY <1>1, <1>2 DEF Keep, TypeOK, CallSound, Clients
<1>7. TypeOK'
  <2>1. c.lib = "py" => got \in Descriptors \cup {NULL}
    BY <1>2 DEF FailedSocket
  <2>2. c.lib = "c" => got \in Descriptors \cup {-1}
    BY <1>2 DEF FailedSocket
  <2>3. sock' \in [Threads -> Descriptors \cup {NULL}] /\ socket_fd' \in [Threads -> Descriptors \cup {-1}]
    BY <1>1, <1>2, <2>1, <2>2 DEF Keep, TypeOK, Clients
  <2> QED
    BY <1>1, <1>3, <1>5, <2>3 DEF TypeOK
<1>8. PySocketKept' /\ CSocketKept'
  BY <1>1, <1>2, <1>6, ClientsAssumption DEF PySocketKept, CSocketKept, FailedSocket, Clients, Descriptors
<1>9. CallsSound'
  <2> SUFFICES ASSUME NEW u \in Threads, NEW m \in Levels PROVE CallSound(u, m)'
    BY DEF CallsSound
  <2>1. CASE u # t
    BY <1>1, <1>3, <1>5, <1>6, <2>1, SoundStays DEF CallsSound
  <2>2. CASE u = t /\ m = l
    <3>1. CASE c.fd = -1
      BY <1>5, <2>2, <3>1 DEF CallSound
    <3>2. CASE c.fd # -1
      <4>1. call'[t][l].lib = c.lib /\ call'[t][l].at = "send" /\ got = c.fd
        BY <1>5, <3>2
      <4>2. got # NULL
        BY <1>2, <3>2, ClientsAssumption
      <4> QED
        BY <1>1, <1>2, <1>6, <2>2, <3>2, <4>1, <4>2 DEF CallSound
    <3> QED
      BY <3>1, <3>2
  <2>3. CASE u = t /\ m # l
    <3>1. CallSound(t, m) /\ call'[t][m] = call[t][m]
      BY <1>5, <2>3 DEF CallsSound
    <3>2. CASE l = "program"
      <4>1. call[t][m] = NULL
        BY <1>1, <2>3, <3>2 DEF Levels
      <4> QED
        BY <2>3, <3>1, <4>1 DEF CallSound
    <3>3. CASE l = "handler"
      <4>1. m = "program" /\ c.lib = "c"
        BY <1>2, <2>3, <3>3 DEF Levels
      <4>2. socket_fd'[t] = got /\ sock' = sock /\ (got = -1 \/ files[got] = Socket("c", t))
        BY <1>2, <1>6, <4>1 DEF FailedSocket
      <4>3. c.fd # -1 /\ OpensOne(t) => got \in crossed'
        BY <1>3, <3>3
      <4>4. c.fd = -1 => got = -1
        BY <4>1 DEF FailedSocket
      <4>5. call[t][m] # NULL => call[t][m] \in Calls
        BY DEF TypeOK
      <4> QED
        BY <1>1, <2>3, <3>1, <4>1, <4>2, <4>3, <4>4, <4>5 DEF CallSound, OpensOne, Calls
    <3> QED
      BY <3>2, <3>3 DEF Levels
  <2> QED
    BY <2>1, <2>2, <2>3
<1>10. NoSocketIsLost'
  <2> SUFFICES ASSUME NEW d \in Descriptors, files[d] \in Sockets
               PROVE  InUse(d)' \/ (files[d].lib = "c" /\ d \in ended' \cup crossed' \cup {0})
    BY <1>1 DEF NoSocketIsLost
  <2>1. CASE d = c.fd
    <3>1. files[d] = Socket(c.lib, t) /\ c.fd # -1 /\ files[d].lib = c.lib /\ files[d].thread = t
      BY <1>2, <2>1, SocketsDiffer, ClientsAssumption DEF Descriptors
    <3>2. IF c.lib = "py" THEN sock'[t] = d ELSE socket_fd'[t] = d
      BY <1>2, <1>6, <2>1, <3>1 DEF Clients
    <3> QED
      BY <1>1, <1>2, <3>1, <3>2 DEF InUse, Kept
  <2>2. CASE d # c.fd /\ files[d].thread # t
    <3>1. call'[files[d].thread] = call[files[d].thread]
      BY <1>4, <2>2, FilesDiffer DEF TypeOK
    <3> QED
      BY <1>1, <1>3, <1>6, <2>2, <3>1, UseStays, FilesDiffer DEF NoSocketIsLost, InUse
  <2>3. CASE d # c.fd /\ files[d].thread = t
    <3>1. CASE ~ InUse(d)
      BY <1>1, <1>3, <3>1 DEF NoSocketIsLost
    <3>2. CASE \E m \in Levels : call[t][m] # NULL /\ call[t][m].at = "keep" /\ call[t][m].fd = d
      <4>1. PICK m \in Levels : call[t][m] # NULL /\ call[t][m].at = "keep" /\ call[t][m].fd = d
        BY <3>2
      <4>2. m # l
        BY <2>3, <4>1
      <4>3. call'[t][m] = call[t][m]
        BY <1>5, <4>2
      <4> QED
        BY <1>1, <1>2, <2>3, <4>1, <4>3 DEF InUse
    <3>3. CASE InUse(d) /\ Kept(files[d].lib, t) = d
      <4>1. CASE files[d].lib # c.lib
        <5>1. IF files[d].lib = "py" THEN sock'[t] = d ELSE socket_fd'[t] = d
          BY <1>2, <1>6, <3>3, <4>1, FilesDiffer DEF Kept, Clients
        <5> QED
          BY <1>1, <1>2, <2>3, <5>1 DEF InUse, Kept
      <4>2. CASE files[d].lib = c.lib
        <5>1. CASE c.lib = "py"
          BY <1>6, <3>3, <4>2, <5>1, ClientsAssumption DEF Kept
        <5>2. CASE c.lib = "c"
          <6>1. socket_fd[t] = d
            BY <3>3, <4>2, <5>2 DEF Kept
          <6>2. d # -1
            BY ClientsAssumption DEF Descriptors
          <6> QED
            BY <1>1, <1>2, <1>3, <4>2, <5>2, <6>1, <6>2 DEF CallSound
        <5> QED
          BY <1>2, <5>1, <5>2 DEF Clients
      <4> QED
        BY <4>1, <4>2
    <3> QED
      BY <2>3, <3>1, <3>2, <3>3 DEF InUse
  <2> QED
    BY <2>1, <2>2, <2>3
<1> QED
  BY <1>7, <1>8, <1>9, <1>10

LEMMA ReturnKeeps ==
  ASSUME IInv, NEW t \in Threads, NEW l \in Levels, Accept(t, l) \/ Refuse(t, l) \/ TimeOut(t, l)
  PROVE  IInv'
<1> USE DEF IInv
<1>1. /\ UNCHANGED <<live, ended, crossed, sock, socket_fd, files, up>>
      /\ call' = [call EXCEPT ![t][l] = NULL] /\ call[t][l] # NULL /\ call[t][l].at = "send"
      /\ queued' = queued \/ (queued < MaxQueue /\ queued' = queued + 1)
  BY DEF Accept, Refuse, TimeOut, Returns, CanSend, At, Runs, environment
<1>2. /\ call' \in [Threads -> [Levels -> Calls \cup {NULL}]] /\ call'[t][l] = NULL
      /\ \A u \in Threads, m \in Levels : u # t \/ m # l => call'[u][m] = call[u][m]
  <2>1. SetsCall(t, l, NULL)
    BY <1>1 DEF SetsCall
  <2>2. OthersStay(t, l, NULL)
    BY <2>1, CallChange
  <2> QED
    BY <2>2 DEF OthersStay
<1>3. TypeOK'
  <2>1. queued' \in 0 .. MaxQueue
    BY <1>1, ClientsAssumption DEF TypeOK
  <2> QED
    BY <1>1, <1>2, <2>1 DEF TypeOK
<1>4. PySocketKept' /\ CSocketKept'
  BY <1>1 DEF PySocketKept, CSocketKept
<1>5. CallsSound'
  <2> SUFFICES ASSUME NEW u \in Threads, NEW m \in Levels PROVE CallSound(u, m)'
    BY DEF CallsSound
  <2>1. CASE u # t \/ m # l
    BY <1>1, <1>2, <2>1, SoundStays DEF CallsSound
  <2>2. CASE u = t /\ m = l
    BY <1>2, <2>2 DEF CallSound
  <2> QED
    BY <2>1, <2>2
<1>6. NoSocketIsLost'
  <2> SUFFICES ASSUME NEW d \in Descriptors, files[d] \in Sockets, InUse(d) PROVE InUse(d)'
    BY <1>1 DEF NoSocketIsLost
  <2>1. \A m \in Levels : LET k == call[files[d].thread][m]
                          IN  k # NULL /\ k.at = "keep" => call'[files[d].thread][m] = k
    BY <1>1, <1>2, FilesDiffer
  <2> QED
    BY <1>1, <2>1 DEF InUse, Kept
<1> QED
  BY <1>3, <1>4, <1>5, <1>6

\* The daemon's steps only take datagrams away.
LEMMA DaemonKeeps ==
  ASSUME IInv, Receive \/ Turn
  PROVE  IInv'
<1> USE DEF IInv
<1>1. /\ UNCHANGED <<live, ended, crossed, sock, socket_fd, files, call>>
      /\ up' \in BOOLEAN /\ queued' \in 0 .. MaxQueue
  <2>1. CASE Receive
    BY <2>1, ClientsAssumption DEF Receive, environment, TypeOK
  <2>2. CASE Turn
    BY <2>2, ClientsAssumption DEF Turn, TypeOK
  <2> QED
    BY <2>1, <2>2
<1>2. TypeOK'
  BY <1>1 DEF TypeOK
<1>3. PySocketKept' /\ CSocketKept' /\ NoSocketIsLost' /\ CallsSound'
  BY <1>1 DEF PySocketKept, CSocketKept, NoSocketIsLost, InUse, Kept, CallsSound, CallSound
<1> QED
  BY <1>2, <1>3

-----------------------------------------------------------------------------
LEMMA NextIInv == IInv /\ [Next]_vars => IInv'
<1> SUFFICES ASSUME IInv, [Next]_vars PROVE IInv'
  OBVIOUS
<1>1. CASE \E t \in Threads : Start(t) \/ End(t) \/ Cleanup(t)
  BY <1>1, StartKeeps, EndKeeps, CleanupKeeps
<1>2. CASE \E t \in Threads : PyCommand(t) \/ CCommand(t) \/ HandlerLogs(t)
  BY <1>2, BeginKeeps DEF PyCommand, CCommand, HandlerLogs, Clients, Levels
<1>3. CASE \E t \in Threads, l \in Levels : Sends(t, l)
  BY <1>3, OpenKeeps, KeepKeeps, ReturnKeeps DEF Sends
<1>4. CASE OpenFile \/ \E d \in Descriptors : CloseFile(d)
  BY <1>4, FilesKeep
<1>5. CASE UNCHANGED vars
  <2>1. UNCHANGED <<live, sock, socket_fd, files, call, up, queued, ended, crossed>>
    BY <1>5 DEF vars
  <2> QED
    BY <2>1 DEF IInv, TypeOK, PySocketKept, CSocketKept, CallsSound, CallSound, NoSocketIsLost, InUse, Kept
<1> QED
  BY <1>1, <1>2, <1>3, <1>4, <1>5, DaemonKeeps DEF Next

LEMMA IInvHolds == Spec => []IInv
BY InitIInv, NextIInv, PTL DEF Spec

\* The variables keep their types.
THEOREM ClientsTypeCorrect == Spec => []TypeOK
BY IInvHolds, PTL DEF IInv

\* What a thread sends on is the socket it opened (_get_socket,
\* send_command_to_daemon), never a descriptor that has become another's, its
\* handler's commands included.
THEOREM SocketIsOnesOwn == Spec => []SendsOnItsOwnSocket
<1>1. IInv => SendsOnItsOwnSocket
  <2> SUFFICES ASSUME IInv, NEW t \in Threads, NEW l \in Levels, CanSend(t, l), Opened(t, l)
               PROVE  files[Kept(call[t][l].lib, t)] = Socket(call[t][l].lib, t)
    BY DEF SendsOnItsOwnSocket, Slot
  <2>1. call[t][l] # NULL /\ call[t][l].lib \in Clients /\ call[t][l].at = "send" /\ CallSound(t, l)
    BY DEF IInv, TypeOK, CanSend, At, Runs, Calls, CallsSound
  <2>2. CASE call[t][l].lib = "py"
    BY <2>1, <2>2 DEF IInv, CallSound, PySocketKept, Kept
  <2>3. CASE call[t][l].lib = "c"
    BY <2>1, <2>3 DEF IInv, CallSound, Opened, Kept, Slot
  <2> QED
    BY <2>1, <2>2, <2>3 DEF Clients
<1> QED
  BY <1>1, IInvHolds, PTL

\* Every socket is kept by a live thread, but for those the C library loses: with
\* their thread, on descriptor 0, and to the program the handler interrupts.
THEOREM SocketsAreKept == Spec => []NoSocketIsLost
BY IInvHolds, PTL DEF IInv
=============================================================================
