------------------------------- MODULE HpfShm -------------------------------
(***************************************************************************)
(* Highest priority first through shared memory: the gate that the xsched  *)
(* patch puts before every launch on a GPU queue (xsched.patch).           *)
(*                                                                         *)
(* Each client process has a queue and a launch worker.  It sends events   *)
(* to the server, whose scheduler works out the highest priority of the    *)
(* ready queues of each device and publishes it as min_priority: it stores *)
(* the priority, increments futex_seq and wakes who waits on it.  A worker *)
(* whose priority is below min_priority waits on futex_seq.                *)
(*                                                                         *)
(* What a worker tells of futex_seq is whether it still has the value it   *)
(* loaded (`fresh`), so the counter itself is left out; it would have to   *)
(* wrap between a load and the wait after it for that to differ.  Adding a *)
(* device is one step: only the store of device_id makes its slot visible, *)
(* and the stores after it do not change what Open left there.             *)
(***************************************************************************)
EXTENDS Integers, Sequences, FiniteSets, SequencesExt

CONSTANTS
  Queues,      \* queues, each of a process of its own
  Devices,
  Placements,  \* functions: the device of each queue
  Hinting,     \* queues whose process calls XHintPriority
  Priorities,  \* that it sets
  DEFAULT,     \* PRIORITY_DEFAULT
  MIN,         \* PRIORITY_MIN
  MaxDevices,  \* kMaxDevices
  MaxEvents,   \* bound on the events under way and the hints to be sent
  NULL         \* no slot; no priority; nothing published

\* SetDeviceMinPriority under way: the device, and the steps still to come.
Publications == [on : Devices, steps : Seq({"min", "seq", "wake"})]

ASSUME GateAssumption ==
  /\ Placements \subseteq [Queues -> Devices] /\ Hinting \subseteq Queues
  /\ MIN \in Int /\ DEFAULT \in Int /\ MIN <= DEFAULT
  /\ Priorities \subseteq {p \in Int : MIN <= p}
  /\ \E highest \in Priorities : \A p \in Priorities : p <= highest
  /\ MaxDevices \in Nat /\ MaxEvents \in Nat
  /\ NULL \notin Int /\ NULL \notin Queues /\ NULL \notin Publications

VARIABLES
  device,    \* the device of each queue; never changes
  up,        \* the shared memory has been created
  slots,     \* min_priority of each device that has a slot
  fresh,     \* workers about to wait for which futex_seq still is what they loaded
  mapped,    \* each process: has it mapped the shared memory ("yes"), failed to, or not tried
  pc,        \* where the worker of each queue is
  prio,      \* XQueue::priority_
  asked,     \* the priority the worker is at its gate with, or NULL
  hints,     \* priorities that XHintPriority has set and not sent yet, in the order they were set
  events,    \* from the clients to the server
  status,    \* the scheduler's: queues known, ready and with which priority
  pending,   \* events have been handled since the last Sched
  todo,      \* what Sched has yet to publish, or NULL, for each device
  storing,   \* SetDeviceMinPriority: the device, and what comes next, or NULL
  missed,    \* history: workers whose gate opened between their two loads
  crossed    \* history: queues whose last hint was sent before an earlier one

client == <<mapped, pc, prio, asked, hints, crossed>>
server == <<status, pending, todo, storing>>
vars == <<device, up, slots, fresh, client, events, server, missed>>

Waiting == {"min", "seq", "wait", "asleep"}

-----------------------------------------------------------------------------
Init ==
  /\ device \in Placements
  /\ up = FALSE /\ slots = [d \in Devices |-> NULL] /\ fresh = {}
  /\ mapped = [q \in Queues |-> "untried"] /\ pc = [q \in Queues |-> "gone"]
  /\ prio = [q \in Queues |-> DEFAULT]
  /\ asked = [q \in Queues |-> NULL]
  /\ events = <<>>
  /\ status = [q \in Queues |-> [ready |-> FALSE, prio |-> DEFAULT]]
  /\ pending = FALSE /\ todo = [d \in Devices |-> NULL] /\ storing = NULL
  /\ missed = {}
  /\ hints = [q \in Queues |-> <<>>] /\ crossed = {}

\* HpfShm::Open, for the server.
Open ==
  /\ ~up /\ up' = TRUE
  /\ UNCHANGED <<device, slots, fresh, client, events, server, missed>>

-----------------------------------------------------------------------------
(* A client: its application *)

Goto(q, where) == pc' = [pc EXCEPT ![q] = where]

Room == Len(events) + Cardinality(UNION {{q} \X DOMAIN hints[q] : q \in Queues}) < MaxEvents

SendEvent(e) == events' = Append(events, e)

\* A process starts and creates its queue.
Create(q) ==
  /\ pc[q] = "gone" /\ Room
  /\ Goto(q, "idle")
  /\ SendEvent([of |-> q, kind |-> "create"])
  /\ UNCHANGED <<device, up, slots, fresh, mapped, prio, asked, hints, crossed, server, missed>>

\* A command is submitted to an idle queue.
Submit(q) ==
  /\ pc[q] = "idle" /\ Room
  /\ Goto(q, "loop")
  /\ SendEvent([of |-> q, kind |-> "ready"])
  /\ UNCHANGED <<device, up, slots, fresh, mapped, prio, asked, hints, crossed, server, missed>>

\* XHintPriority, by any thread of the process, sets the priority of the queue ...
HintPriority(q, p) ==
  /\ q \in Hinting /\ pc[q] # "gone" /\ Room
  /\ prio' = [prio EXCEPT ![q] = p]
  /\ hints' = [hints EXCEPT ![q] = Append(@, p)]
  /\ crossed' = crossed \ {q}
  /\ UNCHANGED <<device, up, slots, fresh, mapped, pc, asked, events, server, missed>>

\* ... and then sends the hint: two threads need not send in the order they set.
SendHint(q, i) ==
  /\ SendEvent([of |-> q, kind |-> "hint", prio |-> hints[q][i]])
  /\ hints' = [hints EXCEPT ![q] = RemoveAt(@, i)]
  /\ crossed' = crossed \cup {r \in {q} : i = Len(hints[q]) /\ i > 1}
  /\ UNCHANGED <<device, up, slots, fresh, mapped, pc, prio, asked, server, missed>>

\* The process ends, wherever it is, and with it what it knew; the server hears
\* of it.
Exit(q) ==
  /\ pc[q] # "gone" /\ Room
  /\ Goto(q, "gone")
  /\ mapped' = [mapped EXCEPT ![q] = "untried"]
  /\ prio' = [prio EXCEPT ![q] = DEFAULT] /\ asked' = [asked EXCEPT ![q] = NULL]
  /\ hints' = [hints EXCEPT ![q] = <<>>] /\ crossed' = crossed \ {q}
  /\ fresh' = fresh \ {q} /\ missed' = missed \ {q}
  /\ SendEvent([of |-> q, kind |-> "gone"])
  /\ UNCHANGED <<device, up, slots, server>>

-----------------------------------------------------------------------------
(* A client: its launch worker *)

\* GetProcessHpfShm: the first call decides, once and for all.
Attached(q) == IF mapped[q] # "untried" THEN mapped[q] ELSE IF up THEN "yes" ELSE "no"

\* The loop before a launch, under the worker's lock, which it releases to go
\* to the gate with the priority it has now.  Without shared memory, or a slot,
\* there is no gate.
AskToRun(q) ==
  /\ pc[q] = "loop"
  /\ mapped' = [mapped EXCEPT ![q] = Attached(q)]
  /\ \/ /\ Attached(q) = "yes" /\ slots[device[q]] # NULL
        /\ Goto(q, "min") /\ asked' = [asked EXCEPT ![q] = prio[q]]
     \/ /\ Attached(q) = "no" \/ slots[device[q]] = NULL
        /\ Goto(q, "passed") /\ UNCHANGED asked
  /\ UNCHANGED <<device, up, slots, fresh, prio, hints, crossed, events, server, missed>>

\* WaitUntilCanRun: min_priority is loaded ...
LoadMin(q) ==
  /\ pc[q] = "min"
  /\ \/ /\ asked[q] >= slots[device[q]]
        /\ Goto(q, "passed") /\ asked' = [asked EXCEPT ![q] = NULL]
     \/ /\ asked[q] < slots[device[q]]
        /\ Goto(q, "seq") /\ UNCHANGED asked
  /\ missed' = missed \ {q}
  /\ UNCHANGED <<device, up, slots, fresh, mapped, prio, hints, crossed, events, server>>

\* ... then futex_seq ...
LoadSeq(q) ==
  /\ pc[q] = "seq"
  /\ Goto(q, "wait")
  /\ fresh' = fresh \cup {q}
  /\ UNCHANGED <<device, up, slots, mapped, prio, asked, hints, crossed, events, server, missed>>

\* ... and the worker waits, unless futex_seq has changed meanwhile.
FutexWait(q) ==
  /\ pc[q] = "wait"
  /\ Goto(q, IF q \in fresh THEN "asleep" ELSE "min")
  /\ fresh' = fresh \ {q}
  /\ UNCHANGED <<device, up, slots, mapped, prio, asked, hints, crossed, events, server, missed>>

\* A signal ends the wait.
Interrupted(q) ==
  /\ pc[q] = "asleep"
  /\ Goto(q, "min")
  /\ UNCHANGED <<device, up, slots, fresh, mapped, prio, asked, hints, crossed, events, server, missed>>

\* The worker has its lock again and launches.
Launch(q) ==
  /\ pc[q] = "passed"
  /\ Goto(q, "running")
  /\ UNCHANGED <<device, up, slots, fresh, mapped, prio, asked, hints, crossed, events, server, missed>>

\* The queue has nothing left to do, or launches another command.
Done(q) ==
  /\ pc[q] = "running"
  /\ \/ Room /\ Goto(q, "idle") /\ SendEvent([of |-> q, kind |-> "idle"])
     \/ Goto(q, "loop") /\ UNCHANGED events
  /\ UNCHANGED <<device, up, slots, fresh, mapped, prio, asked, hints, crossed, server, missed>>

-----------------------------------------------------------------------------
(* The server: the thread of LocalScheduler::Worker *)

\* Mutants: the hint of a ready queue is ignored; its priority is lost.
HintedIfIdle(s, p) == IF s.ready THEN s ELSE [s EXCEPT !.prio = p]
HintedLost(s, p) == [s EXCEPT !.prio = NULL]

Hinted(s, p) == [s EXCEPT !.prio = p]

\* What an event says of its queue.
Updated(s, e) ==
  CASE e.kind = "hint"  -> Hinted(s, e.prio)
    [] e.kind = "ready" -> [s EXCEPT !.ready = TRUE]
    [] e.kind = "idle"  -> [s EXCEPT !.ready = FALSE]
    [] e.kind \in {"create", "gone"} -> [ready |-> FALSE, prio |-> DEFAULT]

Scheduling == storing # NULL \/ \E d \in Devices : todo[d] # NULL

HandleEvent ==
  /\ up /\ events # <<>> /\ ~Scheduling
  /\ LET e == Head(events)
     IN  status' = [status EXCEPT ![e.of] = Updated(@, e)]
  /\ events' = Tail(events)
  /\ pending' = TRUE
  /\ UNCHANGED <<device, up, slots, fresh, client, todo, storing, missed>>

\* Mutant: idle queues count.
HighestOfAll(d) ==
  LET on == {q \in Queues : device[q] = d}
  IN  IF on = {} THEN NULL
      ELSE (CHOOSE q \in on : \A r \in on : status[r].prio <= status[q].prio)

\* HpfShmPolicy::Sched: the highest priority of the ready queues of each device
\* that has any.
Highest(d) ==
  LET ready == {q \in Queues : device[q] = d /\ status[q].ready}
  IN  IF ready = {} THEN NULL
      ELSE (CHOOSE q \in ready : \A r \in ready : status[r].prio <= status[q].prio)

Sched ==
  /\ pending /\ ~Scheduling
  /\ pending' = FALSE
  /\ todo' = [d \in Devices |-> IF Highest(d) = NULL THEN NULL ELSE status[Highest(d)].prio]
  /\ UNCHANGED <<device, up, slots, fresh, client, events, status, storing, missed>>

HasRoom == Cardinality({d \in Devices : slots[d] # NULL}) < MaxDevices

\* Mutant: waiters are woken before there is anything new to see.
WokenFirst == <<"wake", "seq", "min">>

\* The steps of SetDeviceMinPriority, in order.
Steps == <<"min", "seq", "wake">>

\* SetDeviceMinPriority finds or adds the slot, or gives up.
Publish(d) ==
  /\ storing = NULL /\ todo[d] # NULL
  /\ \/ /\ slots[d] # NULL \/ HasRoom
        /\ slots' = [slots EXCEPT ![d] = IF @ = NULL THEN MIN - 1 ELSE @]
        /\ storing' = [on |-> d, steps |-> Steps]
        /\ UNCHANGED todo
     \/ /\ slots[d] = NULL /\ ~HasRoom
        /\ todo' = [todo EXCEPT ![d] = NULL]
        /\ UNCHANGED <<slots, storing>>
  /\ UNCHANGED <<device, up, fresh, client, events, status, pending, missed>>

Step(step) ==
  /\ storing # NULL /\ Head(storing.steps) = step
  /\ IF Len(storing.steps) > 1
     THEN storing' = [storing EXCEPT !.steps = Tail(@)] /\ UNCHANGED todo
     ELSE storing' = NULL /\ todo' = [todo EXCEPT ![storing.on] = NULL]
  /\ UNCHANGED <<device, up, events, status, pending>>

StoreMin ==
  /\ Step("min")
  /\ slots' = [slots EXCEPT ![storing.on] = todo[storing.on]]
  /\ UNCHANGED <<fresh, client, missed>>

IncrementSeq ==
  /\ Step("seq")
  /\ LET on == {q \in Queues : device[q] = storing.on}
     IN  /\ fresh' = fresh \ on
         /\ missed' = missed \cup {q \in on : pc[q] = "seq" /\ asked[q] >= slots[storing.on]}
  /\ UNCHANGED <<slots, client>>

FutexWake ==
  /\ Step("wake")
  /\ pc' = [q \in Queues |-> IF pc[q] = "asleep" /\ device[q] = storing.on THEN "min" ELSE pc[q]]
  /\ UNCHANGED <<slots, fresh, mapped, prio, asked, hints, crossed, missed>>

-----------------------------------------------------------------------------
Application(q) ==
  \/ Create(q) \/ Submit(q) \/ Exit(q) \/ Done(q)
  \/ \E p \in Priorities : HintPriority(q, p)
  \/ \E i \in DOMAIN hints[q] : SendHint(q, i)
Worker(q) == AskToRun(q) \/ LoadMin(q) \/ LoadSeq(q) \/ FutexWait(q) \/ Launch(q)
Reschedule == Sched \/ (\E d \in Devices : Publish(d)) \/ StoreMin \/ IncrementSeq \/ FutexWake

Next == Open \/ HandleEvent \/ Reschedule \/ \E q \in Queues : Application(q) \/ Worker(q) \/ Interrupted(q)

Spec == Init /\ [][Next]_vars

\* Threads are scheduled, and the server reschedules however many events there are.
FairSpec ==
  /\ Spec
  /\ WF_vars(Open \/ HandleEvent) /\ WF_vars(Reschedule)
  /\ \A q \in Queues : WF_vars(Worker(q))

-----------------------------------------------------------------------------
(* Properties *)

Event == [of : Queues, kind : {"create", "ready", "idle", "gone"}]
         \cup [of : Queues, kind : {"hint"}, prio : Priorities]

\* The variables keep their types.
TypeOK ==
  /\ device \in [Queues -> Devices]
  /\ up \in BOOLEAN /\ slots \in [Devices -> Int \cup {NULL}]
  /\ fresh \subseteq Queues /\ missed \subseteq Queues
  /\ mapped \in [Queues -> {"untried", "yes", "no"}]
  /\ pc \in [Queues -> {"gone", "idle", "loop", "passed", "running"} \cup Waiting]
  /\ prio \in [Queues -> Int] /\ asked \in [Queues -> Int \cup {NULL}]
  /\ hints \in [Queues -> Seq(Priorities)] /\ crossed \subseteq Queues
  /\ events \in Seq(Event)
  /\ status \in [Queues -> [ready : BOOLEAN, prio : Int]]
  /\ pending \in BOOLEAN /\ todo \in [Devices -> Int \cup {NULL}]
  /\ storing \in Publications \cup {NULL}

Quiet == up /\ events = <<>> /\ ~pending /\ ~Scheduling
Ready(q) == pc[q] \notin {"gone", "idle"}

\* The hints of a queue have been sent, the one set last after the others.
Settled(q) == hints[q] = <<>> /\ q \notin crossed

\* A worker asleep at its gate has to be: whatever was published while it loaded
\* the two words and went to sleep, the gate is closed to it or a wake is on its
\* way.  Only a gate that opened between the two loads goes unnoticed.
SleepersAreOutranked ==
  \A q \in Queues :
    pc[q] = "asleep" /\ q \notin missed =>
      \/ asked[q] < slots[device[q]]
      \/ storing # NULL /\ storing.on = device[q]

\* Once the scheduler has handled the events there are, the gate of a device
\* with ready queues is at the highest of their priorities, as the queues have
\* them now: hints, ready and idle events, and processes that ended or started
\* again, have told it all.  Only a device without a slot has no gate, and only
\* a queue with a hint still to send, or whose last hint was sent before an
\* earlier one, may have another priority than the gate was worked out with.
GateFollowsQueues ==
  Quiet => \A q \in Queues :
    LET d == device[q]
    IN  Ready(q) /\ slots[d] # NULL =>
          /\ Settled(q) => prio[q] <= slots[d]
          /\ \E r \in Queues : device[r] = d /\ Ready(r) /\ (Settled(r) => prio[r] = slots[d])

\* A ready queue that no other of its device outranks is let run, unless its gate
\* opened between its two loads, or its priority has changed while it waits, or
\* the hints of a queue of the device are under way or were sent out of order.
Top(q) ==
  \A r \in Queues : device[r] = device[q] /\ Ready(r) => Settled(r) /\ prio[r] <= prio[q]
TopQueueRuns ==
  \A q \in Queues :
    Ready(q) /\ Top(q) ~>
      ~Ready(q) \/ pc[q] = "running" \/ ~Top(q) \/ q \in missed
      \/ asked[q] \notin {prio[q], NULL}

\* xsched.patch:584: a client may "check if priority can run, else futex_wait
\* until change": with nothing left to publish, and no hints under way or sent
\* out of order, no queue whose priority can run is asleep.
NoneSleepsAtAnOpenGate ==
  Quiet /\ (\A q \in Queues : Settled(q)) =>
    \A q \in Queues : pc[q] = "asleep" => prio[q] < slots[device[q]]
=============================================================================
