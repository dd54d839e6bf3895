---------------------------- MODULE DaemonProofs ----------------------------
(***************************************************************************)
(* Proofs about the daemon: its variables keep their types, and commands   *)
(* take effect in the order they were accepted, for any daemons, clients,  *)
(* commands and limits.                                                    *)
(***************************************************************************)
EXTENDS Daemon, SequenceTheorems, TLAPS

-----------------------------------------------------------------------------
(* Types *)

States == {"off"} \cup Starting \cup Loop \cup Stopping
Wishes == [bits : SUBSET Events, class : [Threads -> Classes], nice : [Threads -> Int]]

\* A daemon has a datagram in hand just when it handles one; between two system
\* calls, one that sets a nice value.
Requested ==
  \A d \in Daemons : /\ request[d] # NULL <=> st[d] \in {"handle", "nice"}
                     /\ st[d] = "nice" => ForNice(request[d])

\* What a command about scheduling says.
LEMMA SchedulingType ==
  ASSUME NEW m \in Datagrams, IsScheduling(m)
  PROVE  /\ m \in Commands /\ m.tid \in Threads /\ m.priority \in Int
         /\ ForClass(m) => Class(m) \in Classes
<1>1. m \in Commands /\ m.tid \in Threads /\ m.priority \in Int
  BY DaemonAssumption DEF Datagrams, Log, IsScheduling, ForClass, ForNice
<1>2. ASSUME ForClass(m) PROVE Class(m) \in Classes
  BY <1>1, <1>2 DEF Class, Classes
<1> QED
  BY <1>1, <1>2

LEMMA InitType == Init => TypeOK /\ Requested
<1>1. [policy |-> "SCHED_OTHER", rt |-> 0] \in Classes
  BY DEF Classes
<1> QED
  BY <1>1, DaemonAssumption DEF Init, TypeOK, Nothing, Requested

LEMMA AskedType ==
  ASSUME TypeOK, NEW m \in Datagrams
  PROVE  Asked(m) \in Wishes
BY SchedulingType DEF TypeOK, Asked, Wishes, IsScheduling

\* What the history of accepted commands becomes.
LEMMA WantType ==
  ASSUME TypeOK, NEW new \in Wishes, Want(new)
  PROVE  wanted' \in Wishes
BY DEF TypeOK, Want, Wishes

\* A datagram is queued.
LEMMA QueuedType ==
  ASSUME TypeOK, NEW d \in Daemons, NEW m \in Datagrams, Queued(d, m)
  PROVE  queue' \in [Daemons -> Seq(Datagrams)] /\ wanted' \in Wishes
BY AskedType, WantType DEF TypeOK, Queued

\* A sendto.
LEMMA SendtoType ==
  ASSUME TypeOK, NEW c \in Senders, NEW m \in Datagrams, Sendto(c, m)
  PROVE  /\ queue' \in [Daemons -> Seq(Datagrams)] /\ wanted' \in Wishes
         /\ sending' \in [Senders -> [to : Daemons \cup {NULL}, command : Datagrams] \cup {NULL}]
<1>0. Listened => path \in Daemons
  BY DEF Listened, TypeOK
<1>1. CASE UNCHANGED <<queue, sending, wanted>>
  BY <1>1 DEF TypeOK, Wishes
<1>2. CASE Listened /\ Queued(path, m) /\ UNCHANGED sending
  BY <1>0, <1>2, QueuedType DEF TypeOK
<1>3. CASE Listened /\ sending' = [sending EXCEPT ![c] = [to |-> path, command |-> m]] /\ UNCHANGED <<queue, wanted>>
  BY <1>0, <1>3 DEF TypeOK, Wishes
<1> QED
  BY <1>1, <1>2, <1>3 DEF Sendto

\* The history of failures.
LEMMA UnmetType ==
  ASSUME TypeOK, NEW m \in Datagrams, m.tid \in Threads, NEW what \in SUBSET {"class", "nice"},
         Unmet(what, m) \/ \E w \in what : Met(w, m)
  PROVE  unmet' \subseteq {"class", "nice"} \X Threads
<1>1. {<<w, m.tid>> : w \in what} \subseteq {"class", "nice"} \X Threads
  OBVIOUS
<1>2. unmet \subseteq {"class", "nice"} \X Threads
  BY DEF TypeOK
<1>3. CASE Unmet(what, m)
  BY <1>1, <1>2, <1>3 DEF Unmet
<1>4. CASE \E w \in what : Met(w, m)
  <2>1. PICK w \in what : Met(w, m)
    BY <1>4
  <2> QED
    BY <1>2, <2>1 DEF Met
<1> QED
  BY <1>3, <1>4

\* A socket is closed.
LEMMA CloseType ==
  ASSUME TypeOK, NEW d \in Daemons, Close(d)
  PROVE  /\ queue' \in [Daemons -> Seq(Datagrams)] /\ wanted' \in Wishes /\ unmet' = {}
         /\ sending' \in [Senders -> [to : Daemons \cup {NULL}, command : Datagrams] \cup {NULL}]
<1>1. [bits |-> bits \cap Events, class |-> class, nice |-> nice] \in Wishes
  BY DEF TypeOK, Wishes
<1>2. queue' \in [Daemons -> Seq(Datagrams)] /\ wanted' \in Wishes /\ unmet' = {}
  BY <1>1, WantType DEF TypeOK, Close
<1>3. ASSUME NEW c \in Senders, sending[c] # NULL, sending[c].to = d
      PROVE  [sending[c] EXCEPT !.to = NULL] \in [to : Daemons \cup {NULL}, command : Datagrams]
  BY <1>3 DEF TypeOK
<1> QED
  BY <1>2, <1>3 DEF TypeOK, Close

LEMMA NextType == TypeOK /\ Requested /\ [Next]_vars => TypeOK'
<1> SUFFICES ASSUME TypeOK, Requested, [Next]_vars PROVE TypeOK'
  OBVIOUS
<1> USE DEF TypeOK, Goto
<1>1. ASSUME NEW c \in Clients, NEW m \in Commands, Send(c, m) PROVE TypeOK'
  <2>1. c \in Senders /\ m \in Datagrams
    BY DEF Senders, Datagrams
  <2> QED
    BY <1>1, <2>1, SendtoType DEF Send, Wishes, effects
<1>2. ASSUME NEW c \in Senders, Unblock(c) PROVE TypeOK'
  <2>1. sending[c].to \in Daemons \cup {NULL} /\ sending[c].command \in Datagrams
    BY <1>2 DEF Unblock
  <2>2. queue' \in [Daemons -> Seq(Datagrams)] /\ wanted' \in Wishes
    BY <1>2, <2>1, QueuedType DEF Unblock, Wishes
  <2> QED
    BY <1>2, <2>2 DEF Unblock, Wishes, effects
<1>3. ASSUME NEW c \in Clients, TimeOut(c) PROVE TypeOK'
  BY <1>3 DEF TimeOut, history, effects
<1>4. ASSUME NEW d \in Daemons, Start(d) PROVE TypeOK'
  <2>0. [policy |-> "SCHED_OTHER", rt |-> 0] \in Classes
    BY DEF Classes
  <2>1. wanted' \in Wishes
    BY <1>4, <2>0 DEF Start, Wishes, Nothing
  <2> QED
    BY <1>4, <2>1 DEF Start, Wishes, Starting, kernel, effects
<1>5. ASSUME NEW d \in Daemons, Setup(d) PROVE TypeOK'
  <2>1. CASE UnlinkSocket(d)
    BY <2>1 DEF UnlinkSocket, Starting, effects, history
  <2>2. CASE BindSocket(d)
    <3>1. [wanted EXCEPT !.bits = {}] \in Wishes
      BY DEF Wishes
    <3>2. wanted' \in Wishes
      BY <2>2, <3>1, WantType DEF BindSocket, Wishes
    <3> QED
      BY <2>2, <3>2 DEF BindSocket, Starting, effects, Wishes
  <2>3. CASE MapSharedMemory(d)
    BY <2>3 DEF MapSharedMemory, Starting, kernel, effects, history
  <2>4. CASE ClearEvents(d)
    BY <2>4 DEF ClearEvents, ClearedBits, Loop, kernel, scheduling, history
  <2> QED
    BY <1>5, <2>1, <2>2, <2>3, <2>4 DEF Setup
<1>6. ASSUME NEW d \in Daemons, Serve(d) PROVE TypeOK'
  <2>1. CASE Check(d)
    BY <2>1 DEF Check, Loop, Stopping, kernel, effects, history
  <2>2. CASE Receive(d)
    <3>1. Head(queue[d]) \in Datagrams /\ Tail(queue[d]) \in Seq(Datagrams)
      BY <2>2 DEF Receive
    <3> QED
      BY <2>2, <3>1 DEF Receive, Taken, Loop, effects, history
  <2>3. CASE Wait(d)
    BY <2>3 DEF Wait, Loop, kernel, effects, history
  <2>4. CASE Handle(d)
    <3>1. request[d] \in Datagrams
      BY <2>4 DEF Handle, Requested
    <3>2. bits' \subseteq Events \cup {NONE}
      BY <2>4 DEF Handle, NewBits, EventIdx
    <3>3. signals' \in Seq(Datagrams)
      BY <2>4, <3>1 DEF Handle
    <3>4. request' \in [Daemons -> Datagrams \cup {NULL}]
      BY <2>4 DEF Handle, Return
    <3>5. st' \in [Daemons -> {"off"} \cup Starting \cup Loop \cup Stopping]
      BY <2>4 DEF Handle, Return, Loop
    <3> QED
      BY <2>4, <3>2, <3>3, <3>4, <3>5 DEF Handle, kernel, scheduling, history
  <2>7. CASE SetScheduler(d)
    <3> DEFINE m == request[d]
    <3>1. m \in Datagrams /\ m.tid \in Threads /\ Class(m) \in Classes
      BY <2>7, SchedulingType DEF SetScheduler, Requested, IsScheduling
    <3>2. class' \in [Threads -> Classes]
      BY <2>7, <3>1 DEF SetScheduler
    <3>3. unmet' \subseteq {"class", "nice"} \X Threads
      <4> HIDE DEF m
      <4>1. CASE Met("class", m)
        BY <3>1, <4>1, UnmetType, "class" \in {"class"}, {"class"} \in SUBSET {"class", "nice"}
      <4>2. CASE Unmet({"class", "nice"}, m) \/ Unmet({"class"}, m)
        BY <3>1, <4>2, UnmetType
      <4> QED
        BY <2>7, <4>1, <4>2 DEF SetScheduler, m
    <3>4. /\ request' \in [Daemons -> Datagrams \cup {NULL}]
          /\ st' \in [Daemons -> {"off"} \cup Starting \cup Loop \cup Stopping]
      BY <2>7 DEF SetScheduler, Return, Loop
    <3> QED
      BY <2>7, <3>2, <3>3, <3>4 DEF SetScheduler, kernel
  <2>8. CASE SetPriority(d)
    <3> DEFINE m == request[d]
    <3>1. m \in Datagrams /\ m.tid \in Threads /\ m.priority \in Int
      BY <2>8, SchedulingType DEF SetPriority, Requested, IsScheduling, ForNice
    <3>2. nice' \in [Threads -> Int]
      BY <2>8, <3>1 DEF SetPriority
    <3>3. unmet' \subseteq {"class", "nice"} \X Threads
      <4> HIDE DEF m
      <4>1. CASE Met("nice", m)
        BY <3>1, <4>1, UnmetType, "nice" \in {"nice"}, {"nice"} \in SUBSET {"class", "nice"}
      <4>2. CASE Unmet({"nice"}, m)
        BY <3>1, <4>2, UnmetType
      <4> QED
        BY <2>8, <4>1, <4>2 DEF SetPriority, m
    <3>4. /\ request' \in [Daemons -> Datagrams \cup {NULL}]
          /\ st' \in [Daemons -> {"off"} \cup Starting \cup Loop \cup Stopping]
      BY <2>8 DEF SetPriority, Return, Loop
    <3> QED
      BY <2>8, <3>2, <3>3, <3>4 DEF SetPriority, kernel
  <2>5. CASE CloseSocket(d)
    BY <2>5, CloseType DEF CloseSocket, Stopping, effects, Wishes
  <2>6. CASE Cleanup(d)
    BY <2>6 DEF Cleanup, effects, history
  <2> QED
    BY <1>6, <2>1, <2>2, <2>3, <2>4, <2>5, <2>6, <2>7, <2>8 DEF Serve
<1>7. ASSUME NEW d \in Daemons, Terminate(d) PROVE TypeOK'
  BY <1>7 DEF Terminate, Interrupted, Loop, kernel, effects
<1>8. ASSUME NEW d \in Daemons, Crash(d) PROVE TypeOK'
  BY <1>8, CloseType DEF Crash, effects, Wishes
<1>9. ASSUME NEW t \in Threads, TakeSignal(t) PROVE TypeOK'
  <2>1. Head(signals) \in Datagrams /\ Tail(signals) \in Seq(Datagrams)
    BY <1>9 DEF TakeSignal
  <2>2. t \in Senders /\ Log \in Datagrams
    BY DEF Senders, Datagrams
  <2> QED
    BY <1>9, <2>1, <2>2, SendtoType DEF TakeSignal, scheduling, Wishes
<1>10. CASE UNCHANGED vars
  BY <1>10 DEF vars, kernel, effects, history
<1> QED
  BY <1>1, <1>2, <1>3, <1>4, <1>5, <1>6, <1>7, <1>8, <1>9, <1>10 DEF Next

LEMMA NextRequested == TypeOK /\ Requested /\ [Next]_vars => Requested'
<1> SUFFICES ASSUME TypeOK, Requested, [Next]_vars PROVE Requested'
  OBVIOUS
<1> USE DEF TypeOK, Requested, Goto
<1>1. CASE UNCHANGED <<st, request>>
  BY <1>1
<1>2. ASSUME NEW c \in Senders, (\E m \in Commands : Send(c, m)) \/ Unblock(c) \/ TimeOut(c) PROVE Requested'
  BY <1>1, <1>2 DEF Send, Unblock, TimeOut
<1>3. ASSUME NEW d \in Daemons, Start(d) \/ Setup(d) PROVE Requested'
  BY <1>3 DEF Start, Setup, UnlinkSocket, BindSocket, MapSharedMemory, ClearEvents
<1>4. ASSUME NEW d \in Daemons, Serve(d) PROVE Requested'
  <2>1. CASE Receive(d)
    <3>1. Head(queue[d]) \in Datagrams
      BY <2>1 DEF Receive
    <3> QED
      BY <2>1, <3>1, DaemonAssumption DEF Receive
  <2>2. CASE Check(d) \/ Wait(d) \/ CloseSocket(d) \/ Cleanup(d)
    BY <2>2 DEF Check, Wait, CloseSocket, Cleanup
  <2>3. CASE Handle(d) \/ SetPriority(d)
    BY <2>3 DEF Handle, SetPriority, Return
  <2>4. CASE SetScheduler(d)
    <3>1. CASE Return(d)
      BY <3>1 DEF Return
    <3>2. CASE ThenNice(request[d]) /\ Goto(d, "nice") /\ UNCHANGED request
      BY <2>4, <3>2 DEF SetScheduler, ThenNice, ForNice
    <3> QED
      BY <2>4, <3>1, <3>2 DEF SetScheduler
  <2> QED
    BY <1>4, <2>1, <2>2, <2>3, <2>4 DEF Serve
<1>5. ASSUME NEW d \in Daemons, Terminate(d) \/ Crash(d) PROVE Requested'
  BY <1>5 DEF Terminate, Interrupted, Crash
<1>6. CASE (\E t \in Threads : TakeSignal(t)) \/ UNCHANGED vars
  BY <1>1, <1>6 DEF TakeSignal, vars
<1> QED
  BY <1>2, <1>3, <1>4, <1>5, <1>6 DEF Next, Senders

\* The variables keep their types.
THEOREM DaemonTypeCorrect == Spec => []TypeOK
BY InitType, NextType, NextRequested, PTL DEF Spec

-----------------------------------------------------------------------------
(* What the datagrams on their way make of a value                          *)

\* `A` is the commands that set a value, and `v` to what.  The last of them in the
\* queue `q` says what is wanted; or the one in hand, `r`; or the value is it, if
\* the last one took effect (`ok`).
Follows(A, v, q, r, value, want, ok) ==
  /\ \A i \in DOMAIN q : q[i] \in A /\ (\A j \in DOMAIN q : j > i => q[j] \notin A) => want = v[q[i]]
  /\ (\A i \in DOMAIN q : q[i] \notin A) =>
       /\ r \in A => want = v[r]
       /\ r \notin A /\ ok => want = value

\* A command is queued.
LEMMA FollowsQueued ==
  ASSUME NEW A, NEW v, NEW q \in Seq(Datagrams), NEW r, NEW value, NEW want, NEW ok \in BOOLEAN, NEW m \in Datagrams,
         Follows(A, v, q, r, value, want, ok)
  PROVE  Follows(A, v, Append(q, m), r, value, IF m \in A THEN v[m] ELSE want, ok)
<1> DEFINE p == Append(q, m)
<1>1. /\ Len(q) \in Nat /\ DOMAIN q = 1 .. Len(q) /\ DOMAIN p = 1 .. Len(q) + 1
      /\ p[Len(q) + 1] = m /\ \A i \in DOMAIN q : p[i] = q[i]
  OBVIOUS
<1> HIDE DEF p
<1>2. CASE m \in A
  <2>1. ASSUME NEW i \in DOMAIN p, \A j \in DOMAIN p : j > i => p[j] \notin A PROVE i = Len(q) + 1
    BY <1>1, <1>2, <2>1
  <2> QED
    BY <1>1, <1>2, <2>1 DEF Follows, p
<1>3. CASE m \notin A
  <2>1. ASSUME NEW i \in DOMAIN p, p[i] \in A, \A j \in DOMAIN p : j > i => p[j] \notin A
        PROVE  want = v[p[i]]
    <3>1. i \in DOMAIN q /\ p[i] = q[i]
      BY <1>1, <1>3, <2>1
    <3>2. \A j \in DOMAIN q : j > i => q[j] \notin A
      BY <1>1, <2>1
    <3> QED
      BY <2>1, <3>1, <3>2 DEF Follows
  <2>2. ASSUME \A i \in DOMAIN p : p[i] \notin A
        PROVE  (r \in A => want = v[r]) /\ (r \notin A /\ ok => want = value)
    <3>1. \A i \in DOMAIN q : q[i] \notin A
      BY <1>1, <2>2
    <3> QED
      BY <3>1 DEF Follows
  <2> QED
    BY <1>3, <2>1, <2>2 DEF Follows, p
<1> QED
  BY <1>2, <1>3

\* The first datagram is taken in hand.
LEMMA FollowsTaken ==
  ASSUME NEW A, NEW v, NEW q \in Seq(Datagrams), NEW r, r \notin A, NEW value, NEW want, NEW ok \in BOOLEAN, q # <<>>,
         Follows(A, v, q, r, value, want, ok)
  PROVE  Follows(A, v, Tail(q), Head(q), value, want, ok)
<1> DEFINE p == Tail(q)
<1>1. /\ Len(q) \in Nat \ {0} /\ DOMAIN q = 1 .. Len(q) /\ DOMAIN p = 1 .. Len(q) - 1
      /\ Head(q) = q[1] /\ \A i \in DOMAIN p : p[i] = q[i + 1]
  OBVIOUS
<1> HIDE DEF p
<1>2. ASSUME NEW i \in DOMAIN p, p[i] \in A, \A j \in DOMAIN p : j > i => p[j] \notin A
      PROVE  want = v[p[i]]
  <2>1. i + 1 \in DOMAIN q /\ q[i + 1] \in A
    BY <1>1, <1>2
  <2>2. ASSUME NEW j \in DOMAIN q, j > i + 1 PROVE q[j] \notin A
    <3>1. j - 1 \in DOMAIN p /\ j - 1 > i /\ p[j - 1] = q[j]
      BY <1>1, <1>2, <2>2
    <3> QED
      BY <1>2, <3>1
  <2> QED
    BY <1>1, <1>2, <2>1, <2>2 DEF Follows
<1>3. ASSUME \A i \in DOMAIN p : p[i] \notin A
      PROVE  (Head(q) \in A => want = v[Head(q)]) /\ (Head(q) \notin A /\ ok => want = value)
  <2>1. ASSUME NEW j \in DOMAIN q, j > 1 PROVE q[j] \notin A
    <3>1. j - 1 \in DOMAIN p /\ p[j - 1] = q[j]
      BY <1>1, <2>1
    <3> QED
      BY <1>3, <3>1
  <2>2. CASE q[1] \in A
    BY <1>1, <2>1, <2>2 DEF Follows
  <2>3. CASE q[1] \notin A
    BY <1>1, <2>1, <2>3 DEF Follows
  <2> QED
    BY <2>2, <2>3
<1> QED
  BY <1>2, <1>3 DEF Follows, p

\* The datagram in hand takes effect, or fails to.
LEMMA FollowsHandled ==
  ASSUME NEW A, NEW v, NEW q, NEW r, NEW value, NEW want, NEW ok \in BOOLEAN, NULL \notin A,
         Follows(A, v, q, r, value, want, ok),
         NEW new, NEW ok2 \in BOOLEAN,
         r \in A /\ ok2 => new = v[r],
         r \notin A => new = value /\ (ok2 => ok)
  PROVE  Follows(A, v, q, NULL, new, want, ok2)
BY DEF Follows

-----------------------------------------------------------------------------
(* Commands take effect in order *)

\* The commands that set the bit of an event, the policy or the nice value of a
\* thread, and to what.
EventSetters(e) == {m \in Datagrams : m.cmd \in {"apply_event", "cancel_event"} /\ m.name = e}
SetsEvent(e) == [m \in Datagrams |-> IF m.cmd = "apply_event" THEN {e} ELSE {}]
ClassSetters(t) == {m \in Datagrams : ForClass(m) /\ m.tid = t}
SetsClass == [m \in Datagrams |-> Class(m)]
NiceSetters(t) == {m \in Datagrams : ForNice(m) /\ m.tid = t}
SetsNice == [m \in Datagrams |-> m.priority]

\* The bits a daemon serves from: it clears them before it serves.
Base(d) == IF st[d] \in {"shmem", "clear"} THEN {} ELSE bits

\* The datagram in hand, as long as it has a policy to set.
InHand(d) == IF st[d] = "nice" THEN NULL ELSE request[d]

\* One daemon runs.
OneRuns == alone => \A d, e \in Daemons : st[d] # "off" /\ st[e] # "off" => d = e

\* Only a socket that is open has a queue, and blocks senders.
QueuesOpen ==
  /\ \A d \in Daemons : queue[d] # <<>> => Bound(d)
  /\ \A c \in Senders : sending[c] # NULL /\ sending[c].to # NULL => Bound(sending[c].to)

EventsFollow ==
  alone => \A d \in Daemons : Bound(d) => \A e \in Events :
    Follows(EventSetters(e), SetsEvent(e), queue[d], request[d], Base(d) \cap {e}, wanted.bits \cap {e}, TRUE)
ClassesFollow ==
  alone => \A d \in Daemons : Bound(d) => \A t \in Threads :
    Follows(ClassSetters(t), SetsClass, queue[d], InHand(d), class[t], wanted.class[t], <<"class", t>> \notin unmet)
NicesFollow ==
  alone => \A d \in Daemons : Bound(d) => \A t \in Threads :
    Follows(NiceSetters(t), SetsNice, queue[d], request[d], nice[t], wanted.nice[t], <<"nice", t>> \notin unmet)
Follow == EventsFollow /\ ClassesFollow /\ NicesFollow

\* With no socket, the scheduling is what is wanted; the bits are to be cleared.
AtRest ==
  alone /\ (\A d \in Daemons : ~ Bound(d)) => wanted.class = class /\ wanted.nice = nice

OrderInv == Requested /\ OneRuns /\ QueuesOpen /\ Follow /\ AtRest

LEMMA SettersKnown ==
  /\ \A e \in Events : NULL \notin EventSetters(e)
  /\ \A t \in Threads : NULL \notin ClassSetters(t) /\ NULL \notin NiceSetters(t)
BY DaemonAssumption DEF EventSetters, ClassSetters, NiceSetters

\* What an accepted command asks for, event by event and thread by thread.
LEMMA AskedSays ==
  ASSUME TypeOK, NEW m \in Datagrams
  PROVE  /\ \A e \in Events : Asked(m).bits \cap {e} =
              IF m \in EventSetters(e) THEN SetsEvent(e)[m] ELSE wanted.bits \cap {e}
         /\ \A t \in Threads : Asked(m).class[t] =
              IF m \in ClassSetters(t) THEN SetsClass[m] ELSE wanted.class[t]
         /\ \A t \in Threads : Asked(m).nice[t] =
              IF m \in NiceSetters(t) THEN SetsNice[m] ELSE wanted.nice[t]
<1>1. /\ wanted.bits \subseteq Events /\ wanted.class \in [Threads -> Classes]
      /\ wanted.nice \in [Threads -> Int]
      /\ wanted = [bits |-> wanted.bits, class |-> wanted.class, nice |-> wanted.nice]
  BY DEF TypeOK
<1>2. CASE m.cmd = "apply_event"
  <2>1. Asked(m) = [wanted EXCEPT !.bits = @ \cup ({m.name} \cap Events)]
    BY <1>2 DEF Asked, ForClass, ForNice
  <2>2. /\ Asked(m).bits = wanted.bits \cup ({m.name} \cap Events)
        /\ Asked(m).class = wanted.class /\ Asked(m).nice = wanted.nice
    BY <2>1 DEF TypeOK
  <2> QED
    BY <1>2, <2>2 DEF EventSetters, SetsEvent, ClassSetters, NiceSetters, ForClass, ForNice
<1>3. CASE m.cmd = "cancel_event"
  <2>1. Asked(m) = [wanted EXCEPT !.bits = @ \ {m.name}]
    BY <1>3 DEF Asked, ForClass, ForNice
  <2>2. /\ Asked(m).bits = wanted.bits \ {m.name}
        /\ Asked(m).class = wanted.class /\ Asked(m).nice = wanted.nice
    BY <2>1 DEF TypeOK
  <2> QED
    BY <1>3, <2>2 DEF EventSetters, SetsEvent, ClassSetters, NiceSetters, ForClass, ForNice
<1>4. CASE IsScheduling(m)
  <2>1. m.cmd \notin {"apply_event", "cancel_event"} /\ m.tid \in Threads
    BY <1>4, SchedulingType DEF IsScheduling, ForClass, ForNice
  <2>2. CASE ForClass(m) /\ ForNice(m)
    <3>1. Asked(m) = [wanted EXCEPT !.class[m.tid] = Class(m), !.nice[m.tid] = m.priority]
      BY <2>1, <2>2 DEF Asked
    <3>2. /\ Asked(m).bits = wanted.bits /\ Asked(m).class = [wanted.class EXCEPT ![m.tid] = Class(m)]
          /\ Asked(m).nice = [wanted.nice EXCEPT ![m.tid] = m.priority]
      BY <3>1 DEF TypeOK
    <3> QED
      BY <1>1, <2>1, <2>2, <3>2 DEF EventSetters, ClassSetters, NiceSetters, SetsClass, SetsNice
  <2>3. CASE ForClass(m) /\ ~ ForNice(m)
    <3>1. Asked(m) = [wanted EXCEPT !.class[m.tid] = Class(m)]
      BY <2>1, <2>3 DEF Asked
    <3>2. /\ Asked(m).bits = wanted.bits /\ Asked(m).class = [wanted.class EXCEPT ![m.tid] = Class(m)]
          /\ Asked(m).nice = wanted.nice
      BY <3>1 DEF TypeOK
    <3> QED
      BY <1>1, <2>1, <2>3, <3>2 DEF EventSetters, ClassSetters, NiceSetters, SetsClass
  <2>4. CASE ~ ForClass(m) /\ ForNice(m)
    <3>1. Asked(m) = [wanted EXCEPT !.nice[m.tid] = m.priority]
      BY <2>1, <2>4 DEF Asked
    <3>2. /\ Asked(m).bits = wanted.bits /\ Asked(m).class = wanted.class
          /\ Asked(m).nice = [wanted.nice EXCEPT ![m.tid] = m.priority]
      BY <3>1 DEF TypeOK
    <3> QED
      BY <1>1, <2>1, <2>4, <3>2 DEF EventSetters, ClassSetters, NiceSetters, SetsNice
  <2> QED
    BY <1>4, <2>2, <2>3, <2>4 DEF IsScheduling
<1>5. CASE m.cmd \notin {"apply_event", "cancel_event"} /\ ~ IsScheduling(m)
  <2>1. Asked(m) = wanted
    BY <1>5 DEF Asked, IsScheduling
  <2> QED
    BY <1>5, <2>1 DEF EventSetters, ClassSetters, NiceSetters, IsScheduling
<1> QED
  BY <1>2, <1>3, <1>4, <1>5

\* What a command does to the events when it is handled.
LEMMA HandledSays ==
  ASSUME TypeOK, NEW m \in Datagrams
  PROVE  \A e \in Events : NewBits(m) \cap {e} =
           IF m \in EventSetters(e) THEN SetsEvent(e)[m] ELSE bits \cap {e}
BY DaemonAssumption DEF NewBits, EventIdx, EventSetters, SetsEvent

\* A datagram is queued.
LEMMA QueuedOrder ==
  ASSUME TypeOK, OrderInv, NEW d \in Daemons, Bound(d), NEW m \in Datagrams, Queued(d, m),
         UNCHANGED <<st, request, bits, class, nice, unmet, alone>>
  PROVE  Follow' /\ AtRest' /\ (\A e \in Daemons : queue'[e] # <<>> => Bound(e)')
<1>1. \A e \in Daemons : Bound(e)' <=> Bound(e)
  BY DEF Bound
<1>2. AtRest' /\ (\A e \in Daemons : queue'[e] # <<>> => Bound(e)')
  BY <1>1 DEF AtRest, OrderInv, QueuesOpen, Queued, TypeOK
<1>3. ASSUME alone
      PROVE  /\ wanted' = Asked(m) /\ queue'[d] = Append(queue[d], m) /\ queue[d] \in Seq(Datagrams)
             /\ \A e \in Daemons : Bound(e) => e = d
  BY <1>3 DEF Queued, Want, TypeOK, OrderInv, OneRuns, Bound, Loop
<1>4. Base(d)' = Base(d) /\ InHand(d)' = InHand(d)
  BY DEF Base, InHand
<1>5. EventsFollow'
  <2>1. ASSUME alone, NEW e \in Events
        PROVE  Follows(EventSetters(e), SetsEvent(e), queue'[d], request[d], Base(d) \cap {e}, wanted'.bits \cap {e}, TRUE)
    <3>1. Follows(EventSetters(e), SetsEvent(e), queue[d], request[d], Base(d) \cap {e}, wanted.bits \cap {e}, TRUE)
      BY <2>1 DEF OrderInv, Follow, EventsFollow
    <3>2. wanted'.bits \cap {e} = IF m \in EventSetters(e) THEN SetsEvent(e)[m] ELSE wanted.bits \cap {e}
      BY <1>3, <2>1, AskedSays
    <3>3. Follows(EventSetters(e), SetsEvent(e), Append(queue[d], m), request[d], Base(d) \cap {e},
                  IF m \in EventSetters(e) THEN SetsEvent(e)[m] ELSE wanted.bits \cap {e}, TRUE)
      BY <1>3, <2>1, <3>1, FollowsQueued
    <3> QED
      BY <1>3, <2>1, <3>2, <3>3
  <2> QED
    BY <1>1, <1>3, <1>4, <2>1 DEF EventsFollow
<1>6. ClassesFollow'
  <2>1. ASSUME alone, NEW t \in Threads
        PROVE  Follows(ClassSetters(t), SetsClass, queue'[d], InHand(d), class[t], wanted'.class[t], <<"class", t>> \notin unmet)
    <3>1. Follows(ClassSetters(t), SetsClass, queue[d], InHand(d), class[t], wanted.class[t], <<"class", t>> \notin unmet)
      BY <2>1 DEF OrderInv, Follow, ClassesFollow
    <3>2. wanted'.class[t] = IF m \in ClassSetters(t) THEN SetsClass[m] ELSE wanted.class[t]
      BY <1>3, <2>1, AskedSays
    <3>3. Follows(ClassSetters(t), SetsClass, Append(queue[d], m), InHand(d), class[t],
                  IF m \in ClassSetters(t) THEN SetsClass[m] ELSE wanted.class[t], <<"class", t>> \notin unmet)
      BY <1>3, <2>1, <3>1, FollowsQueued
    <3> QED
      BY <1>3, <2>1, <3>2, <3>3
  <2> QED
    BY <1>1, <1>3, <1>4, <2>1 DEF ClassesFollow
<1>7. NicesFollow'
  <2>1. ASSUME alone, NEW t \in Threads
        PROVE  Follows(NiceSetters(t), SetsNice, queue'[d], request[d], nice[t], wanted'.nice[t], <<"nice", t>> \notin unmet)
    <3>1. Follows(NiceSetters(t), SetsNice, queue[d], request[d], nice[t], wanted.nice[t], <<"nice", t>> \notin unmet)
      BY <2>1 DEF OrderInv, Follow, NicesFollow
    <3>2. wanted'.nice[t] = IF m \in NiceSetters(t) THEN SetsNice[m] ELSE wanted.nice[t]
      BY <1>3, <2>1, AskedSays
    <3>3. Follows(NiceSetters(t), SetsNice, Append(queue[d], m), request[d], nice[t],
                  IF m \in NiceSetters(t) THEN SetsNice[m] ELSE wanted.nice[t], <<"nice", t>> \notin unmet)
      BY <1>3, <2>1, <3>1, FollowsQueued
    <3> QED
      BY <1>3, <2>1, <3>2, <3>3
  <2> QED
    BY <1>1, <1>3, <2>1 DEF NicesFollow
<1> QED
  BY <1>2, <1>5, <1>6, <1>7 DEF Follow


\* A daemon's socket is closed, by it or with it.
LEMMA CloseOrder ==
  ASSUME TypeOK, OrderInv, NEW d \in Daemons, NEW where \in {"off", "cleanup"}, st[d] # "off",
         Goto(d, where), Close(d), UNCHANGED <<class, nice, alone>>
  PROVE  OneRuns' /\ QueuesOpen' /\ Follow' /\ AtRest'
<1>1. /\ \A e \in Daemons : e # d => st'[e] = st[e]
      /\ st'[d] = where /\ ~ Bound(d)' /\ \A e \in Daemons : e # d => (Bound(e)' <=> Bound(e))
  BY DEF Goto, Bound, TypeOK, Loop
<1>2. OneRuns'
  BY <1>1 DEF OrderInv, OneRuns
<1>3. alone => \A e \in Daemons : ~ Bound(e)'
  BY <1>1, <1>2 DEF OrderInv, OneRuns, Bound, Loop
<1>4. alone => wanted'.class = class /\ wanted'.nice = nice
  BY DEF Close, Want
<1>5. \A e \in Daemons : queue'[e] # <<>> => Bound(e)'
  BY <1>1 DEF Close, OrderInv, QueuesOpen, TypeOK
<1>6. ASSUME NEW c \in Senders, sending'[c] # NULL, sending'[c].to # NULL PROVE Bound(sending[c].to)'
  <2>1. sending[c] # NULL /\ sending[c] \in [to : Daemons \cup {NULL}, command : Datagrams]
    BY <1>6 DEF Close, TypeOK
  <2>2. sending[c].to # d
    BY <1>6, <2>1 DEF Close
  <2>3. sending'[c] = sending[c]
    BY <2>1, <2>2 DEF Close
  <2>4. sending[c].to \in Daemons /\ Bound(sending[c].to)
    BY <1>6, <2>1, <2>3 DEF OrderInv, QueuesOpen
  <2> QED
    BY <1>1, <2>2, <2>3, <2>4
<1>7. ASSUME NEW c \in Senders, sending'[c] # NULL, sending'[c].to # NULL PROVE sending'[c].to = sending[c].to
  BY <1>7 DEF Close, TypeOK
<1>8. QueuesOpen'
  BY <1>5, <1>6, <1>7 DEF QueuesOpen
<1> QED
  BY <1>2, <1>3, <1>4, <1>8 DEF Follow, EventsFollow, ClassesFollow, NicesFollow, AtRest

\* Steps that leave every socket, its queue and what it says as they are.
LEMMA SameOrder ==
  ASSUME TypeOK, OrderInv, OneRuns', UNCHANGED <<queue, request, class, nice, wanted, unmet, alone>>,
         \A e \in Daemons : Bound(e)' <=> Bound(e),
         \A c \in Senders : sending'[c] \in {sending[c], NULL},
         alone => \A e \in Daemons : Bound(e) => Base(e)' = Base(e) /\ InHand(e)' = InHand(e)
  PROVE  QueuesOpen' /\ Follow' /\ AtRest'
<1>1. \A e \in Daemons : queue'[e] # <<>> => Bound(e)'
  BY DEF OrderInv, QueuesOpen
<1>2. ASSUME NEW c \in Senders, sending'[c] # NULL, sending'[c].to # NULL
      PROVE  sending'[c].to = sending[c].to /\ Bound(sending[c].to)'
  BY <1>2 DEF OrderInv, QueuesOpen, TypeOK
<1>3. EventsFollow'
  BY DEF OrderInv, Follow, EventsFollow
<1>4. ClassesFollow'
  BY DEF OrderInv, Follow, ClassesFollow
<1>5. NicesFollow'
  BY DEF OrderInv, Follow, NicesFollow
<1>6. QueuesOpen'
  BY <1>1, <1>2 DEF QueuesOpen
<1> QED
  BY <1>3, <1>4, <1>5, <1>6 DEF OrderInv, Follow, AtRest

\* A sendto, of a client or of a signal handler.
LEMMA SendtoOrder ==
  ASSUME TypeOK, OrderInv, NEW c \in Senders, NEW m \in Datagrams, Sendto(c, m),
         UNCHANGED <<st, request, bits, class, nice, unmet, alone>>
  PROVE  OneRuns' /\ QueuesOpen' /\ Follow' /\ AtRest'
<1>1. /\ OneRuns' /\ \A e \in Daemons : (Bound(e)' <=> Bound(e)) /\ Base(e)' = Base(e) /\ InHand(e)' = InHand(e)
      /\ Listened => path \in Daemons /\ Bound(path)
  BY DEF Listened, TypeOK, OrderInv, OneRuns, Bound, Base, InHand
<1>2. CASE UNCHANGED <<queue, sending, wanted>>
  BY <1>1, <1>2, SameOrder
<1>3. CASE Listened /\ Queued(path, m) /\ UNCHANGED sending
  <2>1. \A k \in Senders : sending'[k] # NULL /\ sending'[k].to # NULL => Bound(sending[k].to)'
    BY <1>1, <1>3 DEF OrderInv, QueuesOpen, TypeOK
  <2> QED
    BY <1>1, <1>3, <2>1, QueuedOrder DEF QueuesOpen
<1>4. CASE Listened /\ sending' = [sending EXCEPT ![c] = [to |-> path, command |-> m]] /\ UNCHANGED <<queue, wanted>>
  <2>1. ASSUME NEW k \in Senders, sending'[k] # NULL, sending'[k].to # NULL PROVE Bound(sending[k].to)'
    <3>1. CASE k = c
      BY <1>1, <1>4, <3>1 DEF TypeOK
    <3>2. CASE k # c
      BY <1>1, <1>4, <2>1, <3>2 DEF TypeOK, OrderInv, QueuesOpen
    <3> QED
      BY <3>1, <3>2
  <2>2. \A d \in Daemons : queue'[d] # <<>> => Bound(d)'
    BY <1>1, <1>4 DEF OrderInv, QueuesOpen
  <2>3. Follow' /\ AtRest'
    BY <1>1, <1>4 DEF OrderInv, Follow, EventsFollow, ClassesFollow, NicesFollow, AtRest
  <2> QED
    BY <1>1, <2>1, <2>2, <2>3 DEF QueuesOpen
<1> QED
  BY <1>2, <1>3, <1>4 DEF Sendto

\* A daemon handles a datagram, in one step or two.
LEMMA HandlingKeeps ==
  ASSUME TypeOK, OrderInv, NEW d \in Daemons, Handle(d) \/ SetScheduler(d) \/ SetPriority(d)
  PROVE  /\ OneRuns' /\ QueuesOpen' /\ Bound(d) /\ Base(d) = bits /\ Base(d)' = bits'
         /\ UNCHANGED <<queue, wanted, alone>> /\ request[d] \in Datagrams
         /\ request'[d] \in {request[d], NULL}
         /\ \A e \in Daemons : Bound(e)' <=> Bound(e)
         /\ alone => \A e \in Daemons : Bound(e) => e = d
<1>1. st[d] \in {"handle", "nice"} /\ \A e \in Daemons : st'[e] = st[e] \/ (e = d /\ st'[e] \in {"check", "nice"})
  BY DEF Handle, SetScheduler, SetPriority, Return, Goto, TypeOK
<1>2. UNCHANGED <<queue, sending, wanted, alone>>
  BY DEF Handle, SetScheduler, SetPriority, kernel, history
<1>3. request[d] \in Datagrams
  BY <1>1 DEF OrderInv, Requested, TypeOK
<1>4. request'[d] \in {request[d], NULL}
  BY DEF Handle, SetScheduler, SetPriority, Return, TypeOK
<1>5. Bound(d) /\ OneRuns' /\ \A e \in Daemons : Bound(e)' <=> Bound(e)
  BY <1>1, <1>2 DEF OrderInv, OneRuns, Bound, Loop
<1>6. Base(d) = bits /\ Base(d)' = bits'
  BY <1>1 DEF Base
<1>7. QueuesOpen'
  BY <1>2, <1>5 DEF OrderInv, QueuesOpen, TypeOK
<1>8. alone => \A e \in Daemons : Bound(e) => e = d
  BY <1>5 DEF OrderInv, OneRuns, Bound, Loop
<1> QED
  BY <1>2, <1>3, <1>4, <1>5, <1>6, <1>7, <1>8

\* ... and what it says then follows, if it does so for the daemon that handles it.
LEMMA HandlingOrder ==
  ASSUME TypeOK, OrderInv, NEW d \in Daemons, Handle(d) \/ SetScheduler(d) \/ SetPriority(d),
         alone =>
           /\ \A e \in Events :
                Follows(EventSetters(e), SetsEvent(e), queue[d], request'[d], bits' \cap {e}, wanted.bits \cap {e}, TRUE)
           /\ \A t \in Threads :
                /\ Follows(ClassSetters(t), SetsClass, queue[d], InHand(d)', class'[t], wanted.class[t], <<"class", t>> \notin unmet')
                /\ Follows(NiceSetters(t), SetsNice, queue[d], request'[d], nice'[t], wanted.nice[t], <<"nice", t>> \notin unmet')
  PROVE  OneRuns' /\ QueuesOpen' /\ Follow' /\ AtRest'
<1>1. EventsFollow'
  BY HandlingKeeps DEF EventsFollow
<1>2. ClassesFollow'
  BY HandlingKeeps DEF ClassesFollow
<1>3. NicesFollow'
  BY HandlingKeeps DEF NicesFollow
<1> QED
  BY <1>1, <1>2, <1>3, HandlingKeeps DEF Follow, AtRest

\* A command that sets nothing more of a value, or that sets it or fails to.
LEMMA HandleOrder ==
  ASSUME TypeOK, OrderInv, NEW d \in Daemons, Handle(d)
  PROVE  OneRuns' /\ QueuesOpen' /\ Follow' /\ AtRest'
<1> DEFINE m == request[d]
<1>1. /\ m \in Datagrams /\ request'[d] = NULL /\ bits' = NewBits(m) /\ UNCHANGED <<class, nice, unmet>>
      /\ InHand(d) = m /\ InHand(d)' = NULL
      /\ \A t \in Threads : m \notin ClassSetters(t) /\ m \notin NiceSetters(t)
  <2>1. m \in Datagrams
    BY HandlingKeeps
  <2>2. request'[d] = NULL /\ bits' = NewBits(m) /\ UNCHANGED <<class, nice, unmet>>
    BY DEF Handle, Return, TypeOK, scheduling, history
  <2>3. InHand(d) = m /\ InHand(d)' = NULL
    BY <2>2 DEF Handle, Return, Goto, InHand, TypeOK
  <2> QED
    BY <2>1, <2>2, <2>3 DEF Handle, ClassSetters, NiceSetters, IsScheduling
<1>2. Bound(d) /\ Base(d) = bits
  BY HandlingKeeps
<1>3. ASSUME alone, NEW e \in Events
      PROVE  Follows(EventSetters(e), SetsEvent(e), queue[d], request'[d], bits' \cap {e}, wanted.bits \cap {e}, TRUE)
  <2>1. Follows(EventSetters(e), SetsEvent(e), queue[d], m, bits \cap {e}, wanted.bits \cap {e}, TRUE)
    BY <1>2, <1>3 DEF OrderInv, Follow, EventsFollow
  <2>2. NewBits(m) \cap {e} = IF m \in EventSetters(e) THEN SetsEvent(e)[m] ELSE bits \cap {e}
    BY <1>1, <1>3, HandledSays
  <2>3. NULL \notin EventSetters(e)
    BY SettersKnown
  <2> HIDE DEF m
  <2>4. Follows(EventSetters(e), SetsEvent(e), queue[d], NULL, NewBits(m) \cap {e}, wanted.bits \cap {e}, TRUE)
    BY <2>1, <2>2, <2>3, FollowsHandled
  <2> QED
    BY <1>1, <2>4
<1>4. ASSUME alone, NEW t \in Threads
      PROVE  /\ Follows(ClassSetters(t), SetsClass, queue[d], NULL, class[t], wanted.class[t], <<"class", t>> \notin unmet)
             /\ Follows(NiceSetters(t), SetsNice, queue[d], NULL, nice[t], wanted.nice[t], <<"nice", t>> \notin unmet)
  <2>1. /\ Follows(ClassSetters(t), SetsClass, queue[d], m, class[t], wanted.class[t], <<"class", t>> \notin unmet)
        /\ Follows(NiceSetters(t), SetsNice, queue[d], m, nice[t], wanted.nice[t], <<"nice", t>> \notin unmet)
    BY <1>1, <1>2, <1>4 DEF OrderInv, Follow, ClassesFollow, NicesFollow
  <2> HIDE DEF m
  <2> QED
    BY <1>1, <1>4, <2>1, FollowsHandled, SettersKnown
<1> HIDE DEF m
<1> QED
  BY <1>1, <1>3, <1>4, HandlingOrder

\* What the history of failures says of the other threads and values.
LEMMA MetSays ==
  ASSUME alone, NEW m, NEW t
  PROVE  /\ \A w : Met(w, m) => /\ m.tid = t => <<w, t>> \notin unmet'
                                /\ \A x : x # w \/ m.tid # t => (<<x, t>> \in unmet' <=> <<x, t>> \in unmet)
         /\ \A what : Unmet(what, m) =>
              /\ m.tid = t => \A w \in what : <<w, t>> \in unmet'
              /\ \A x : x \notin what \/ m.tid # t => (<<x, t>> \in unmet' <=> <<x, t>> \in unmet)
<1>1. ASSUME NEW w, Met(w, m)
      PROVE  /\ m.tid = t => <<w, t>> \notin unmet'
             /\ \A x : x # w \/ m.tid # t => (<<x, t>> \in unmet' <=> <<x, t>> \in unmet)
  BY <1>1 DEF Met
<1>2. ASSUME NEW what, Unmet(what, m)
      PROVE  /\ m.tid = t => \A w \in what : <<w, t>> \in unmet'
             /\ \A x : x \notin what \/ m.tid # t => (<<x, t>> \in unmet' <=> <<x, t>> \in unmet)
  BY <1>2 DEF Unmet
<1> QED
  BY <1>1, <1>2

LEMMA SetSchedulerOrder ==
  ASSUME TypeOK, OrderInv, NEW d \in Daemons, SetScheduler(d)
  PROVE  OneRuns' /\ QueuesOpen' /\ Follow' /\ AtRest'
<1> DEFINE m == request[d]
<1>1. /\ m \in Datagrams /\ ForClass(m) /\ Bound(d) /\ Base(d) = bits /\ UNCHANGED <<bits, nice>>
      /\ InHand(d) = m /\ InHand(d)' = NULL /\ request'[d] \in {m, NULL}
  <2>1. m \in Datagrams /\ Bound(d) /\ Base(d) = bits /\ request'[d] \in {m, NULL}
    BY HandlingKeeps
  <2>2. InHand(d) = m /\ InHand(d)' = NULL
    BY DEF SetScheduler, Return, Goto, InHand, TypeOK
  <2> QED
    BY <2>1, <2>2 DEF SetScheduler
<1>2. /\ m.cmd = "sched_setscheduler" /\ (ForNice(m) <=> ThenNice(m)) /\ m.tid \in Threads
  BY <1>1, SchedulingType DEF ForClass, ForNice, ThenNice, IsScheduling
<1>3. \/ /\ class' = [class EXCEPT ![m.tid] = Class(m)] /\ Met("class", m)
         /\ request'[d] = IF ForNice(m) THEN m ELSE NULL
      \/ /\ class' = class /\ Unmet(IF ForNice(m) THEN {"class", "nice"} ELSE {"class"}, m)
         /\ request'[d] = NULL
  BY <1>2 DEF SetScheduler, Return, TypeOK
<1>4. ASSUME alone, NEW e \in Events
      PROVE  Follows(EventSetters(e), SetsEvent(e), queue[d], request'[d], bits' \cap {e}, wanted.bits \cap {e}, TRUE)
  <2>1. Follows(EventSetters(e), SetsEvent(e), queue[d], m, bits \cap {e}, wanted.bits \cap {e}, TRUE)
    BY <1>1, <1>4 DEF OrderInv, Follow, EventsFollow
  <2>2. m \notin EventSetters(e) /\ NULL \notin EventSetters(e)
    BY <1>2, SettersKnown DEF EventSetters
  <2> HIDE DEF m
  <2>3. Follows(EventSetters(e), SetsEvent(e), queue[d], NULL, bits \cap {e}, wanted.bits \cap {e}, TRUE)
    BY <2>1, <2>2, FollowsHandled
  <2> QED
    BY <1>1, <2>1, <2>3
<1>5. ASSUME alone, NEW t \in Threads
      PROVE  Follows(ClassSetters(t), SetsClass, queue[d], NULL, class'[t], wanted.class[t], <<"class", t>> \notin unmet')
  <2>1. Follows(ClassSetters(t), SetsClass, queue[d], m, class[t], wanted.class[t], <<"class", t>> \notin unmet)
    BY <1>1, <1>5 DEF OrderInv, Follow, ClassesFollow
  <2>2. /\ NULL \notin ClassSetters(t) /\ (m \in ClassSetters(t) <=> m.tid = t)
        /\ SetsClass[m] = Class(m) /\ class \in [Threads -> Classes]
    BY <1>1, SettersKnown DEF ClassSetters, SetsClass, TypeOK
  <2> HIDE DEF m
  <2>3. m.tid = t /\ <<"class", t>> \notin unmet' => class'[t] = Class(m)
    BY <1>2, <1>3, <1>5, <2>2, MetSays
  <2>4. m.tid # t => class'[t] = class[t] /\ (<<"class", t>> \in unmet' <=> <<"class", t>> \in unmet)
    BY <1>2, <1>3, <1>5, <2>2, MetSays
  <2> QED
    BY <2>1, <2>2, <2>3, <2>4, FollowsHandled
<1>6. ASSUME alone, NEW t \in Threads
      PROVE  Follows(NiceSetters(t), SetsNice, queue[d], request'[d], nice[t], wanted.nice[t], <<"nice", t>> \notin unmet')
  <2>1. Follows(NiceSetters(t), SetsNice, queue[d], m, nice[t], wanted.nice[t], <<"nice", t>> \notin unmet)
    BY <1>1, <1>6 DEF OrderInv, Follow, NicesFollow
  <2>2. NULL \notin NiceSetters(t) /\ (m \in NiceSetters(t) <=> ForNice(m) /\ m.tid = t)
    BY <1>1, SettersKnown DEF NiceSetters
  <2> HIDE DEF m
  <2>3. CASE Met("class", m) /\ request'[d] = IF ForNice(m) THEN m ELSE NULL
    <3>1. <<"nice", t>> \in unmet' <=> <<"nice", t>> \in unmet
      BY <1>6, <2>3, MetSays
    <3>2. CASE ForNice(m)
      BY <2>1, <2>3, <3>1, <3>2
    <3>3. CASE ~ ForNice(m)
      BY <2>1, <2>2, <2>3, <3>1, <3>3, FollowsHandled
    <3> QED
      BY <3>2, <3>3
  <2>4. CASE Unmet(IF ForNice(m) THEN {"class", "nice"} ELSE {"class"}, m) /\ request'[d] = NULL
    <3>1. ForNice(m) /\ m.tid = t => <<"nice", t>> \in unmet'
      BY <1>6, <2>4, MetSays
    <3>2. ~ (ForNice(m) /\ m.tid = t) => (<<"nice", t>> \in unmet' <=> <<"nice", t>> \in unmet)
      BY <1>6, <2>4, MetSays
    <3> QED
      BY <2>1, <2>2, <2>4, <3>1, <3>2, FollowsHandled
  <2> QED
    BY <1>3, <2>3, <2>4
<1> HIDE DEF m
<1> QED
  BY <1>1, <1>4, <1>5, <1>6, HandlingOrder

LEMMA SetPriorityOrder ==
  ASSUME TypeOK, OrderInv, NEW d \in Daemons, SetPriority(d)
  PROVE  OneRuns' /\ QueuesOpen' /\ Follow' /\ AtRest'
<1> DEFINE m == request[d]
<1>1. /\ m \in Datagrams /\ ForNice(m) /\ Bound(d) /\ Base(d) = bits /\ UNCHANGED <<bits, class>>
      /\ request'[d] = NULL /\ InHand(d)' = NULL
      /\ InHand(d) = NULL \/ (InHand(d) = m /\ ~ ForClass(m))
  <2>1. m \in Datagrams /\ Bound(d) /\ Base(d) = bits
    BY HandlingKeeps
  <2>2. request'[d] = NULL /\ InHand(d)' = NULL
    BY DEF SetPriority, Return, Goto, InHand, TypeOK
  <2>3. ForNice(m) /\ (InHand(d) = NULL \/ (InHand(d) = m /\ ~ ForClass(m)))
    BY DEF SetPriority, InHand, ForNice, ForClass, OrderInv, Requested
  <2> QED
    BY <2>1, <2>2, <2>3 DEF SetPriority
<1>2. /\ m.cmd \notin {"apply_event", "cancel_event"} /\ m.tid \in Threads
  BY <1>1, SchedulingType DEF ForClass, ForNice, IsScheduling
<1>3. \/ nice' = [nice EXCEPT ![m.tid] = m.priority] /\ Met("nice", m)
      \/ nice' = nice /\ Unmet({"nice"}, m)
  BY DEF SetPriority
<1>4. ASSUME alone, NEW e \in Events
      PROVE  Follows(EventSetters(e), SetsEvent(e), queue[d], NULL, bits \cap {e}, wanted.bits \cap {e}, TRUE)
  <2>1. Follows(EventSetters(e), SetsEvent(e), queue[d], m, bits \cap {e}, wanted.bits \cap {e}, TRUE)
    BY <1>1, <1>4 DEF OrderInv, Follow, EventsFollow
  <2>2. m \notin EventSetters(e) /\ NULL \notin EventSetters(e)
    BY <1>2, SettersKnown DEF EventSetters
  <2> HIDE DEF m
  <2> QED
    BY <2>1, <2>2, FollowsHandled
<1>5. ASSUME alone, NEW t \in Threads
      PROVE  Follows(ClassSetters(t), SetsClass, queue[d], NULL, class[t], wanted.class[t], <<"class", t>> \notin unmet')
  <2>1. Follows(ClassSetters(t), SetsClass, queue[d], InHand(d), class[t], wanted.class[t], <<"class", t>> \notin unmet)
    BY <1>1, <1>5 DEF OrderInv, Follow, ClassesFollow
  <2>2. NULL \notin ClassSetters(t) /\ InHand(d) \notin ClassSetters(t)
    BY <1>1, SettersKnown DEF ClassSetters
  <2> HIDE DEF m
  <2>3. <<"class", t>> \in unmet' <=> <<"class", t>> \in unmet
    <3>1. "class" # "nice" /\ "class" \notin {"nice"}
      OBVIOUS
    <3>2. CASE Met("nice", m)
      BY <1>5, <3>1, <3>2, MetSays
    <3>3. CASE Unmet({"nice"}, m)
      BY <1>5, <3>1, <3>3, MetSays
    <3> QED
      BY <1>3, <3>2, <3>3
  <2> QED
    BY <2>1, <2>2, <2>3, FollowsHandled
<1>6. ASSUME alone, NEW t \in Threads
      PROVE  Follows(NiceSetters(t), SetsNice, queue[d], NULL, nice'[t], wanted.nice[t], <<"nice", t>> \notin unmet')
  <2>1. Follows(NiceSetters(t), SetsNice, queue[d], m, nice[t], wanted.nice[t], <<"nice", t>> \notin unmet)
    BY <1>1, <1>6 DEF OrderInv, Follow, NicesFollow
  <2>2. /\ NULL \notin NiceSetters(t) /\ (m \in NiceSetters(t) <=> m.tid = t)
        /\ SetsNice[m] = m.priority /\ nice \in [Threads -> Int]
    BY <1>1, SettersKnown DEF NiceSetters, SetsNice, TypeOK
  <2> HIDE DEF m
  <2>3. m.tid = t /\ <<"nice", t>> \notin unmet' => nice'[t] = m.priority
    BY <1>2, <1>3, <1>6, <2>2, MetSays
  <2>4. m.tid # t => nice'[t] = nice[t] /\ (<<"nice", t>> \in unmet' <=> <<"nice", t>> \in unmet)
    BY <1>2, <1>3, <1>6, <2>2, MetSays
  <2> QED
    BY <2>1, <2>2, <2>3, <2>4, FollowsHandled
<1> HIDE DEF m
<1> QED
  BY <1>1, <1>4, <1>5, <1>6, HandlingOrder


LEMMA InitOrder == Init => OrderInv
<1> SUFFICES ASSUME Init PROVE OrderInv
  OBVIOUS
<1>1. \A d \in Daemons : ~ Bound(d)
  BY DEF Init, Bound, Loop
<1>2. wanted.class = class /\ wanted.nice = nice
  BY DEF Init, Nothing
<1> QED
  BY <1>1, <1>2, InitType DEF Init, OrderInv, OneRuns, QueuesOpen, Follow,
     EventsFollow, ClassesFollow, NicesFollow, AtRest

LEMMA NextOrder == TypeOK /\ OrderInv /\ [Next]_vars => OrderInv'
<1> SUFFICES ASSUME TypeOK, OrderInv, [Next]_vars
             PROVE  OneRuns' /\ QueuesOpen' /\ Follow' /\ AtRest'
  BY NextRequested DEF OrderInv
<1>1. ASSUME NEW c \in Senders, NEW m \in Commands, Send(c, m)
      PROVE  OneRuns' /\ QueuesOpen' /\ Follow' /\ AtRest'
  BY <1>1, SendtoOrder DEF Send, Senders, Datagrams, effects
<1>2. ASSUME NEW c \in Senders, Unblock(c) \/ TimeOut(c)
      PROVE  OneRuns' /\ QueuesOpen' /\ Follow' /\ AtRest'
  <2>1. /\ \A d \in Daemons : Bound(d)' <=> Bound(d)
        /\ UNCHANGED <<st, request, bits, class, nice, unmet, alone>> /\ sending' = [sending EXCEPT ![c] = NULL]
        /\ sending[c] # NULL
    BY <1>2 DEF Unblock, TimeOut, Bound, history, effects
  <2>2. OneRuns'
    BY <2>1 DEF OrderInv, OneRuns
  <2>3. \A k \in Senders : sending'[k] \in {sending[k], NULL}
    BY <2>1 DEF TypeOK
  <2>4. \A d \in Daemons : Base(d)' = Base(d) /\ InHand(d)' = InHand(d)
    BY <2>1 DEF Base, InHand
  <2>5. CASE UNCHANGED <<queue, wanted>>
    BY <2>1, <2>2, <2>3, <2>4, <2>5, SameOrder
  <2>6. CASE sending[c].to # NULL /\ Queued(sending[c].to, sending[c].command)
    <3>1. sending[c].to \in Daemons /\ sending[c].command \in Datagrams /\ Bound(sending[c].to)
      BY <2>1, <2>6 DEF TypeOK, OrderInv, QueuesOpen
    <3>2. \A k \in Senders : sending'[k] # NULL /\ sending'[k].to # NULL => Bound(sending[k].to)'
      BY <2>1, <2>3 DEF OrderInv, QueuesOpen, TypeOK
    <3> QED
      BY <2>1, <2>2, <2>6, <3>1, <3>2, QueuedOrder DEF QueuesOpen
  <2> QED
    BY <1>2, <2>5, <2>6 DEF Unblock, TimeOut, history
<1>3. ASSUME NEW d \in Daemons, Start(d)
      PROVE  OneRuns' /\ QueuesOpen' /\ Follow' /\ AtRest'
  <2>1. \A e \in Daemons : Bound(e)' <=> Bound(e)
    BY <1>3 DEF Start, Goto, Bound, TypeOK, Loop
  <2>2. OneRuns'
    BY <1>3 DEF Start, Goto, OneRuns, OrderInv, TypeOK
  <2>3. CASE UNCHANGED <<wanted, unmet, alone>>
    <3>1. \A e \in Daemons : Bound(e) => Base(e)' = Base(e) /\ InHand(e)' = InHand(e)
      BY <1>3 DEF Start, Goto, Base, InHand, Bound, Loop, TypeOK, effects
    <3> QED
      BY <1>3, <2>1, <2>2, <2>3, <3>1, SameOrder DEF Start, kernel, effects
  <2>4. CASE alone' = FALSE
    <3>1. QueuesOpen'
      BY <1>3, <2>1 DEF Start, kernel, OrderInv, QueuesOpen, TypeOK
    <3> QED
      BY <2>2, <2>4, <3>1 DEF Follow, EventsFollow, ClassesFollow, NicesFollow, AtRest
  <2> QED
    BY <1>3, <2>3, <2>4 DEF Start
<1>4. ASSUME NEW d \in Daemons, Setup(d)
      PROVE  OneRuns' /\ QueuesOpen' /\ Follow' /\ AtRest'
  <2>1. st[d] # "off" /\ OneRuns'
    <3>1. st[d] # "off" /\ \A e \in Daemons : e # d => st'[e] = st[e]
      BY <1>4 DEF Setup, UnlinkSocket, BindSocket, MapSharedMemory, ClearEvents, Goto, TypeOK
    <3>2. UNCHANGED alone
      BY <1>4 DEF Setup, UnlinkSocket, BindSocket, MapSharedMemory, ClearEvents, history
    <3> QED
      BY <3>1, <3>2 DEF OneRuns, OrderInv
  <2>2. CASE UnlinkSocket(d) \/ MapSharedMemory(d) \/ (BindSocket(d) /\ path # NULL)
    <3>1. /\ UNCHANGED <<queue, request, class, nice, wanted, unmet, alone, sending, bits>>
          /\ \A e \in Daemons : Bound(e)' <=> Bound(e)
      BY <2>2 DEF UnlinkSocket, MapSharedMemory, BindSocket, Goto, Bound, Loop, TypeOK,
                  kernel, effects, history
    <3>2. \A e \in Daemons : Bound(e) => Base(e)' = Base(e) /\ InHand(e)' = InHand(e)
      BY <2>2, <3>1 DEF UnlinkSocket, MapSharedMemory, BindSocket, Goto, Bound, Base, InHand, Loop, TypeOK
    <3> QED
      BY <2>1, <3>1, <3>2, SameOrder
  <2>3. CASE BindSocket(d) /\ path = NULL
    <3>1. /\ ~ Bound(d) /\ Bound(d)' /\ \A e \in Daemons : e # d => (Bound(e)' <=> Bound(e))
          /\ UNCHANGED <<queue, sending, request, class, nice, unmet, alone>> /\ Base(d)' = {}
          /\ InHand(d)' = request[d]
          /\ Want([wanted EXCEPT !.bits = {}])
      BY <2>3 DEF BindSocket, Goto, Bound, Loop, TypeOK, effects, Base, InHand
    <3>2. QueuesOpen'
      BY <3>1 DEF OrderInv, QueuesOpen, TypeOK
    <3>3. alone => \A e \in Daemons : ~ Bound(e)
      BY <2>1, <3>1 DEF OrderInv, OneRuns, Bound, Loop
    <3>4. queue[d] = <<>> /\ request[d] = NULL
      BY <2>3, <3>1 DEF OrderInv, QueuesOpen, Requested, BindSocket
    <3>5. alone => wanted'.bits = {} /\ wanted'.class = class /\ wanted'.nice = nice
      BY <3>1, <3>3 DEF Want, OrderInv, AtRest, TypeOK
    <3>6. EventsFollow'
      <4>1. ASSUME alone, NEW e \in Events
            PROVE  Follows(EventSetters(e), SetsEvent(e), <<>>, NULL, {} \cap {e}, wanted'.bits \cap {e}, TRUE)
        <5>1. NULL \notin EventSetters(e)
          BY SettersKnown
        <5>2. wanted'.bits \cap {e} = {} \cap {e}
          BY <3>5, <4>1
        <5> QED
          BY <5>1, <5>2 DEF Follows
      <4>2. queue'[d] = <<>> /\ request'[d] = NULL
        BY <3>1, <3>4
      <4> QED
        BY <3>1, <3>3, <4>1, <4>2 DEF EventsFollow
    <3>7. ClassesFollow'
      BY <3>1, <3>3, <3>4, <3>5, SettersKnown DEF ClassesFollow, Follows
    <3>8. NicesFollow'
      BY <3>1, <3>3, <3>4, <3>5, SettersKnown DEF NicesFollow, Follows
    <3> QED
      BY <2>1, <3>1, <3>2, <3>6, <3>7, <3>8 DEF Follow, AtRest
  <2>4. CASE ClearEvents(d)
    <3>1. /\ UNCHANGED <<queue, request, class, nice, wanted, unmet, alone, sending>>
          /\ \A e \in Daemons : Bound(e)' <=> Bound(e)
      BY <2>4 DEF ClearEvents, Goto, Bound, Loop, TypeOK, kernel, scheduling, history
    <3>2. alone => \A e \in Daemons : Bound(e) => e = d
      BY <2>1 DEF OrderInv, OneRuns, Bound, Loop
    <3>3. Base(d)' = Base(d) /\ InHand(d)' = InHand(d)
      BY <2>4 DEF ClearEvents, ClearedBits, Goto, Base, InHand, TypeOK
    <3> QED
      BY <2>1, <3>1, <3>2, <3>3, SameOrder
  <2> QED
    BY <1>4, <2>2, <2>3, <2>4 DEF Setup
<1>5. ASSUME NEW d \in Daemons, Check(d) \/ Wait(d) \/ Cleanup(d) \/ Terminate(d)
      PROVE  OneRuns' /\ QueuesOpen' /\ Follow' /\ AtRest'
  <2>1. OneRuns'
    BY <1>5 DEF Check, Wait, Cleanup, Terminate, Interrupted, Goto, OneRuns, OrderInv, TypeOK, history
  <2>2. UNCHANGED <<queue, request, class, nice, wanted, unmet, alone, sending, bits>>
    BY <1>5 DEF Check, Wait, Cleanup, Terminate, kernel, effects, history
  <2>3. \A e \in Daemons : (Bound(e)' <=> Bound(e)) /\ (Bound(e) => Base(e)' = Base(e) /\ InHand(e)' = InHand(e))
    BY <1>5, <2>2 DEF Check, Wait, Cleanup, Terminate, Interrupted, Goto, Bound, Base, InHand, Loop, TypeOK
  <2> QED
    BY <2>1, <2>2, <2>3, SameOrder
<1>6. ASSUME NEW d \in Daemons, Receive(d)
      PROVE  OneRuns' /\ QueuesOpen' /\ Follow' /\ AtRest'
  <2>1. /\ OneRuns' /\ UNCHANGED <<bits, class, nice, wanted, unmet, alone, sending>> /\ Bound(d)
        /\ \A e \in Daemons : (Bound(e)' <=> Bound(e)) /\ Base(e)' = Base(e)
    BY <1>6 DEF Receive, Goto, OneRuns, OrderInv, Bound, Base, Loop, TypeOK, effects, history
  <2>2. /\ queue[d] \in Seq(Datagrams) /\ queue[d] # <<>> /\ request[d] = NULL
        /\ queue'[d] = Tail(queue[d]) /\ request'[d] = Head(queue[d])
        /\ InHand(d) = NULL /\ InHand(d)' = Head(queue[d])
        /\ \A e \in Daemons : e # d => queue'[e] = queue[e]
    BY <1>6 DEF Receive, Taken, TypeOK, OrderInv, Requested, InHand, Goto
  <2>3. QueuesOpen'
    BY <2>1, <2>2 DEF OrderInv, QueuesOpen, TypeOK
  <2>4. alone => \A e \in Daemons : Bound(e) => e = d
    BY <2>1 DEF OrderInv, OneRuns, Bound, Loop
  <2>5. EventsFollow'
    <3>1. ASSUME alone, NEW e \in Events
          PROVE  Follows(EventSetters(e), SetsEvent(e), queue'[d], request'[d], Base(d) \cap {e}, wanted.bits \cap {e}, TRUE)
      <4>1. Follows(EventSetters(e), SetsEvent(e), queue[d], NULL, Base(d) \cap {e}, wanted.bits \cap {e}, TRUE)
        BY <2>1, <2>2, <3>1 DEF OrderInv, Follow, EventsFollow
      <4> QED
        BY <2>2, <4>1, <3>1, FollowsTaken, SettersKnown
    <3> QED
      BY <2>1, <2>4, <3>1 DEF EventsFollow
  <2>6. ClassesFollow'
    <3>1. ASSUME alone, NEW t \in Threads
          PROVE  Follows(ClassSetters(t), SetsClass, queue'[d], InHand(d)', class[t], wanted.class[t], <<"class", t>> \notin unmet)
      <4>1. Follows(ClassSetters(t), SetsClass, queue[d], NULL, class[t], wanted.class[t], <<"class", t>> \notin unmet)
        BY <2>1, <2>2, <3>1 DEF OrderInv, Follow, ClassesFollow
      <4> QED
        BY <2>2, <4>1, <3>1, FollowsTaken, SettersKnown
    <3> QED
      BY <2>1, <2>4, <3>1 DEF ClassesFollow
  <2>7. NicesFollow'
    <3>1. ASSUME alone, NEW t \in Threads
          PROVE  Follows(NiceSetters(t), SetsNice, queue'[d], request'[d], nice[t], wanted.nice[t], <<"nice", t>> \notin unmet)
      <4>1. Follows(NiceSetters(t), SetsNice, queue[d], NULL, nice[t], wanted.nice[t], <<"nice", t>> \notin unmet)
        BY <2>1, <2>2, <3>1 DEF OrderInv, Follow, NicesFollow
      <4> QED
        BY <2>2, <4>1, <3>1, FollowsTaken, SettersKnown
    <3> QED
      BY <2>1, <2>4, <3>1 DEF NicesFollow
  <2> QED
    BY <2>1, <2>3, <2>5, <2>6, <2>7 DEF Follow, AtRest
<1>7. ASSUME NEW d \in Daemons, Handle(d) \/ SetScheduler(d) \/ SetPriority(d)
      PROVE  OneRuns' /\ QueuesOpen' /\ Follow' /\ AtRest'
  BY <1>7, HandleOrder, SetSchedulerOrder, SetPriorityOrder
<1>8. ASSUME NEW d \in Daemons, CloseSocket(d) \/ Crash(d)
      PROVE  OneRuns' /\ QueuesOpen' /\ Follow' /\ AtRest'
  BY <1>8, CloseOrder DEF CloseSocket, Crash, effects
<1>9. ASSUME NEW t \in Threads, TakeSignal(t)
      PROVE  OneRuns' /\ QueuesOpen' /\ Follow' /\ AtRest'
  <2>1. t \in Senders /\ Log \in Datagrams
    BY DEF Senders, Datagrams
  <2> QED
    BY <1>9, <2>1, SendtoOrder DEF TakeSignal, scheduling
<1>10. CASE UNCHANGED vars
  <2>1. UNCHANGED <<st, queue, request, class, nice, wanted, unmet, alone, sending, bits>>
    BY <1>10 DEF vars, kernel, effects, history
  <2>2. OneRuns' /\ \A e \in Daemons : (Bound(e)' <=> Bound(e)) /\ Base(e)' = Base(e) /\ InHand(e)' = InHand(e)
    BY <2>1 DEF OrderInv, OneRuns, Bound, Base, InHand
  <2> QED
    BY <2>1, <2>2, SameOrder
<1> QED
  BY <1>1, <1>2, <1>3, <1>4, <1>5, <1>6, <1>7, <1>8, <1>9, <1>10 DEF Next, Serve, Senders

LEMMA OrderHolds == TypeOK /\ OrderInv => CommandsTakeEffectInOrder
<1> SUFFICES ASSUME TypeOK, OrderInv, NEW d \in Daemons, alone, st[d] \in {"check", "enter", "recv"}, queue[d] = <<>>
             PROVE  /\ bits \cap Events = wanted.bits
                    /\ \A t \in Threads : /\ class[t] = wanted.class[t] \/ <<"class", t>> \in unmet
                                          /\ nice[t] = wanted.nice[t] \/ <<"nice", t>> \in unmet
  BY DEF CommandsTakeEffectInOrder
<1>1. Bound(d) /\ request[d] = NULL /\ InHand(d) = NULL /\ Base(d) = bits
  BY DEF Bound, Base, InHand, Loop, OrderInv, Requested
<1>2. ASSUME NEW e \in Events PROVE wanted.bits \cap {e} = bits \cap {e}
  <2>1. Follows(EventSetters(e), SetsEvent(e), <<>>, NULL, bits \cap {e}, wanted.bits \cap {e}, TRUE)
    BY <1>1 DEF OrderInv, Follow, EventsFollow
  <2>2. NULL \notin EventSetters(e)
    BY SettersKnown
  <2> QED
    BY <2>1, <2>2 DEF Follows
<1>3. ASSUME NEW t \in Threads
      PROVE  /\ class[t] = wanted.class[t] \/ <<"class", t>> \in unmet
             /\ nice[t] = wanted.nice[t] \/ <<"nice", t>> \in unmet
  <2>1. /\ Follows(ClassSetters(t), SetsClass, <<>>, NULL, class[t], wanted.class[t], <<"class", t>> \notin unmet)
        /\ Follows(NiceSetters(t), SetsNice, <<>>, NULL, nice[t], wanted.nice[t], <<"nice", t>> \notin unmet)
    BY <1>1 DEF OrderInv, Follow, ClassesFollow, NicesFollow
  <2> QED
    BY <2>1, SettersKnown DEF Follows
<1>4. wanted.bits \subseteq Events
  BY DEF TypeOK
<1>5. bits \cap Events = wanted.bits
  BY <1>2, <1>4
<1> QED
  BY <1>3, <1>5

\* A daemon that has worked off its queue has done to the events, and to the policy
\* and the nice value of every thread, what the accepted commands asked for, in
\* their order (server.c, handle_client_request), but for what the last system
\* call about it failed to set: through crashes and restarts, between the two calls
\* of do_sched_setscheduler included, for any daemons, clients, commands and limits.
THEOREM CommandsInOrder == Spec => []CommandsTakeEffectInOrder
BY InitType, NextType, InitOrder, NextOrder, OrderHolds, PTL DEF Spec, OrderInv
=============================================================================
