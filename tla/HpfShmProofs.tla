---------------------------- MODULE HpfShmProofs ----------------------------
(***************************************************************************)
(* Theorems about HpfShm, for any number of queues, devices, priorities    *)
(* and events under way: no worker sleeps at an open gate but in the known *)
(* case, and the gate follows the queues.                                  *)
(***************************************************************************)
EXTENDS HpfShm, SequenceTheorems, WellFoundedInduction, TLAPS

\* The scheduler knows queues by priorities that were hinted, or the default.
Rated == \A q \in Queues : status[q].prio \in Priorities \cup {DEFAULT}

\* What is being published has a number and a slot.
Remaining == {<<"min", "seq", "wake">>, <<"seq", "wake">>, <<"wake">>}
Publishing ==
  storing # NULL =>
    /\ storing.steps \in Remaining
    /\ todo[storing.on] # NULL /\ slots[storing.on] # NULL

\* Whoever is at a gate asks with a priority, and there is a gate.
AtGate == \A q \in Queues : pc[q] \in Waiting => asked[q] # NULL /\ slots[device[q]] # NULL

\* A gate that is open to a worker past its first load has just been opened, and
\* it will be told: by futex_seq before it waits, by the wake after.
Closed(q) == asked[q] < slots[device[q]]
OpenedNow(q) == storing # NULL /\ storing.on = device[q] /\ Head(storing.steps) = "seq"
OpeningIsTold ==
  \A q \in Queues : q \notin missed =>
    /\ pc[q] = "seq" => Closed(q) \/ OpenedNow(q)
    /\ pc[q] = "wait" /\ q \in fresh => Closed(q) \/ OpenedNow(q)
    /\ pc[q] = "asleep" => Closed(q) \/ (storing # NULL /\ storing.on = device[q])

SleepInv == TypeOK /\ Rated /\ Publishing /\ AtGate /\ OpeningIsTold

-----------------------------------------------------------------------------
\* A set of numbers with an upper bound has a greatest.
LEMMA GreatestExists ==
  ASSUME NEW T \in SUBSET Int, T # {}, NEW bound \in Int, \A t \in T : t <= bound
  PROVE  \E m \in T : \A t \in T : t <= m
<1> DEFINE S == {n \in Nat : bound - n \in T}
<1>1. \A t \in T : bound - t \in S
  <2> SUFFICES ASSUME NEW t \in T PROVE bound - t \in S
    OBVIOUS
  <2>1. t \in Int /\ t <= bound
    OBVIOUS
  <2>2. bound - t \in Nat /\ bound - (bound - t) = t
    BY <2>1
  <2> QED
    BY <2>2
<1>2. S \subseteq Nat /\ S # {}
  BY <1>1
<1>3. PICK x \in S : \A y \in S : ~ (<<y, x>> \in OpToRel(<, Nat))
  <2> HIDE DEF S
  <2> QED
    BY <1>2, NatLessThanWellFounded, WFMin
<1>4. \A y \in S : x <= y
  <2> SUFFICES ASSUME NEW y \in S, y < x PROVE FALSE
    OBVIOUS
  <2>1. <<y, x>> \in OpToRel(<, Nat)
    BY DEF OpToRel
  <2> QED
    BY <1>3, <2>1
<1>5. bound - x \in T
  OBVIOUS
<1>6. \A t \in T : t <= bound - x
  <2> SUFFICES ASSUME NEW t \in T PROVE t <= bound - x
    OBVIOUS
  <2>1. x <= bound - t
    BY <1>1, <1>4
  <2> QED
    BY <2>1
<1> QED
  BY <1>5, <1>6

\* So has what is known of ready queues.
LEMMA HighestIsReady ==
  ASSUME TypeOK, Rated, NEW d \in Devices
  PROVE  LET ready == {q \in Queues : device[q] = d /\ status[q].ready}
         IN  /\ Highest(d) = NULL <=> ready = {}
             /\ ready # {} => /\ Highest(d) \in ready
                              /\ \A r \in ready : status[r].prio <= status[Highest(d)].prio
<1> DEFINE ready == {q \in Queues : device[q] = d /\ status[q].ready}
           T == {n \in Int : \E q \in ready : status[q].prio = n}
<1>1. CASE ready = {}
  BY <1>1 DEF Highest
<1>2. CASE ready # {}
  <2>1. \A q \in ready : status[q].prio \in T
    BY DEF TypeOK
  <2>2. T \in SUBSET Int /\ T # {}
    BY <1>2, <2>1
  <2>3. PICK bound \in Int : \A t \in T : t <= bound
    <3>1. PICK top \in Priorities : \A p \in Priorities : p <= top
      BY GateAssumption
    <3>2. top \in Int /\ DEFAULT \in Int /\ Priorities \subseteq Int
      BY GateAssumption
    <3>3. \A t \in T : t \in Priorities \cup {DEFAULT}
      BY DEF Rated
    <3>4. CASE top <= DEFAULT
      <4>1. \A t \in T : t <= DEFAULT
        BY <3>1, <3>2, <3>3, <3>4
      <4> QED
        BY <3>2, <4>1
    <3>5. CASE DEFAULT <= top
      <4>1. \A t \in T : t <= top
        BY <3>1, <3>2, <3>3, <3>5
      <4> QED
        BY <3>2, <4>1
    <3> QED
      BY <3>2, <3>4, <3>5
  <2>4. PICK m \in T : \A t \in T : t <= m
    BY <2>2, <2>3, GreatestExists
  <2>5. PICK q \in ready : status[q].prio = m
    BY <2>4
  <2>6. \A r \in ready : status[r].prio <= status[q].prio
    BY <2>1, <2>4, <2>5
  <2>7. Highest(d) = CHOOSE x \in ready : \A r \in ready : status[r].prio <= status[x].prio
    BY <1>2 DEF Highest
  <2>8. Highest(d) \in ready /\ \A r \in ready : status[r].prio <= status[Highest(d)].prio
    BY <2>6, <2>7
  <2> QED
    BY <1>2, <2>8, GateAssumption
<1> QED
  BY <1>1, <1>2

-----------------------------------------------------------------------------
(* The sleepers *)

LEMMA InitSleepInv == Init => SleepInv
<1> SUFFICES ASSUME Init PROVE SleepInv
  OBVIOUS
<1>1. device \in [Queues -> Devices] /\ DEFAULT \in Int
  BY GateAssumption DEF Init
<1>2. TypeOK
  <2>1. status \in [Queues -> [ready : BOOLEAN, prio : Int]] /\ prio \in [Queues -> Int]
    BY <1>1 DEF Init
  <2>2. /\ slots \in [Devices -> Int \cup {NULL}] /\ todo \in [Devices -> Int \cup {NULL}]
        /\ asked \in [Queues -> Int \cup {NULL}] /\ storing = NULL /\ events \in Seq(Event)
        /\ hints \in [Queues -> Seq(Priorities)] /\ crossed \subseteq Queues
    BY DEF Init
  <2>3. /\ mapped \in [Queues -> {"untried", "yes", "no"}]
        /\ pc \in [Queues -> {"gone", "idle", "loop", "passed", "running"} \cup Waiting]
    BY DEF Init
  <2> QED
    BY <1>1, <2>1, <2>2, <2>3 DEF Init, TypeOK
<1>3. \A q \in Queues : pc[q] \notin Waiting
  BY DEF Init, Waiting
<1> QED
  BY <1>2, <1>3 DEF Init, SleepInv, Rated, Publishing, AtGate, OpeningIsTold, Waiting

\* How the steps of a publication go on.
LEMMA StepsType ==
  /\ Steps \in Remaining /\ Remaining \subseteq Seq({"min", "seq", "wake"})
  /\ \A s \in Remaining :
       /\ Head(s) = "min" => Len(s) > 1 /\ Tail(s) \in Remaining /\ Head(Tail(s)) = "seq"
       /\ Head(s) = "seq" => Len(s) > 1 /\ Tail(s) \in Remaining /\ Head(Tail(s)) = "wake"
       /\ Head(s) = "wake" => ~ (Len(s) > 1)
<1>1. Steps \in Remaining
  BY DEF Steps, Remaining
<1>2. Remaining \subseteq Seq({"min", "seq", "wake"})
  BY DEF Remaining
<1>3. /\ Head(<<"min", "seq", "wake">>) = "min" /\ Len(<<"min", "seq", "wake">>) = 3
      /\ Tail(<<"min", "seq", "wake">>) = <<"seq", "wake">>
  OBVIOUS
<1>4. /\ Head(<<"seq", "wake">>) = "seq" /\ Len(<<"seq", "wake">>) = 2
      /\ Tail(<<"seq", "wake">>) = <<"wake">>
  OBVIOUS
<1>5. Head(<<"wake">>) = "wake" /\ Len(<<"wake">>) = 1
  OBVIOUS
<1> QED
  BY <1>1, <1>2, <1>3, <1>4, <1>5 DEF Remaining

\* Events are of their queues and priorities.
LEMMA EventTypes ==
  /\ \A q \in Queues, k \in {"create", "ready", "idle", "gone"} : [of |-> q, kind |-> k] \in Event
  /\ \A q \in Queues, p \in Priorities : [of |-> q, kind |-> "hint", prio |-> p] \in Event
  /\ \A e \in Event : e.of \in Queues /\ (e.kind = "hint" => e.prio \in Priorities)
BY DEF Event

LEMMA Sent ==
  ASSUME TypeOK, NEW e \in Event, SendEvent(e)
  PROVE  events' \in Seq(Event)
BY DEF TypeOK, SendEvent

\* What an event makes of a status.
LEMMA UpdatedType ==
  ASSUME NEW e \in Event, NEW s \in [ready : BOOLEAN, prio : Int], s.prio \in Priorities \cup {DEFAULT}
  PROVE  /\ Updated(s, e) \in [ready : BOOLEAN, prio : Int]
         /\ Updated(s, e).prio \in Priorities \cup {DEFAULT}
BY GateAssumption DEF Event, Updated, Hinted

\* A sequence without one of its elements.
LEMMA Removed ==
  ASSUME NEW S, NEW s \in Seq(S), NEW i \in DOMAIN s
  PROVE  /\ RemoveAt(s, i) \in Seq(S) /\ Len(RemoveAt(s, i)) = Len(s) - 1
         /\ i < Len(s) => RemoveAt(s, i)[Len(s) - 1] = s[Len(s)]
<1> DEFINE front == SubSeq(s, 1, i - 1)
           back == SubSeq(s, i + 1, Len(s))
<1>1. i \in 1 .. Len(s) /\ Len(s) \in Nat
  OBVIOUS
<1>2. front \in Seq(S) /\ Len(front) = i - 1
  BY <1>1
<1>3. back \in Seq(S) /\ Len(back) = Len(s) - i
  BY <1>1
<1>4. ASSUME i < Len(s) PROVE back[Len(s) - i] = s[Len(s)]
  <2>1. Len(s) - i \in 1 .. Len(s) - (i + 1) + 1 /\ (i + 1) + (Len(s) - i) - 1 = Len(s)
    <3> DEFINE n == Len(s)
    <3>1. n \in Int /\ i \in Int /\ i < n /\ 1 <= i
      BY <1>1, <1>4
    <3> HIDE DEF n
    <3>2. n - i \in 1 .. n - (i + 1) + 1 /\ (i + 1) + (n - i) - 1 = n
      BY <3>1
    <3> QED
      BY <3>2 DEF n
  <2> QED
    BY <1>1, <2>1
<1> HIDE DEF front, back
<1>5. (front \o back) \in Seq(S) /\ Len(front \o back) = Len(s) - 1
  BY <1>1, <1>2, <1>3
<1>6. i < Len(s) => (front \o back)[Len(s) - 1] = back[Len(s) - i]
  BY <1>1, <1>2, <1>3
<1> QED
  BY <1>4, <1>5, <1>6 DEF RemoveAt, front, back

LEMMA TypeStep == SleepInv /\ [Next]_vars => TypeOK'
<1> SUFFICES ASSUME SleepInv, [Next]_vars PROVE TypeOK'
  OBVIOUS
<1> USE EventTypes DEF SleepInv
<1>1. CASE Open
  BY <1>1 DEF Open, TypeOK, client, server
<1>2. CASE HandleEvent
  <2>1. events # <<>> /\ events \in Seq(Event)
    BY <1>2 DEF HandleEvent, TypeOK
  <2>2. Head(events) \in Event /\ Tail(events) \in Seq(Event)
    BY <2>1
  <2>3. status' \in [Queues -> [ready : BOOLEAN, prio : Int]]
    BY <1>2, <2>2, UpdatedType DEF HandleEvent, TypeOK, Rated
  <2> QED
    BY <1>2, <2>2, <2>3 DEF HandleEvent, TypeOK, client
<1>3. CASE Sched
  <2>1. ASSUME NEW d \in Devices, Highest(d) # NULL
        PROVE  status[Highest(d)].prio \in Int
    BY <2>1, HighestIsReady DEF TypeOK
  <2>2. todo' \in [Devices -> Int \cup {NULL}]
    BY <1>3, <2>1 DEF Sched
  <2> QED
    BY <1>3, <2>2 DEF Sched, TypeOK, client
<1>4. CASE StoreMin
  <2>1. /\ storing \in Publications
        /\ storing.steps \in Remaining
    BY <1>4 DEF StoreMin, Step, TypeOK, Publishing
  <2>2. /\ todo' = todo /\ storing' = [storing EXCEPT !.steps = Tail(@)]
        /\ Tail(storing.steps) \in Remaining
    <3>1. Head(storing.steps) = "min"
      BY <1>4 DEF StoreMin, Step
    <3>2. Len(storing.steps) > 1 /\ Tail(storing.steps) \in Remaining
      BY <2>1, <3>1, StepsType
    <3> QED
      BY <1>4, <3>2 DEF StoreMin, Step
  <2>3. storing' \in Publications
    BY <2>1, <2>2, StepsType DEF Publications
  <2>4. slots' \in [Devices -> Int \cup {NULL}]
    BY <1>4, <2>1 DEF StoreMin, TypeOK
  <2> QED
    BY <1>4, <2>2, <2>3, <2>4 DEF StoreMin, Step, TypeOK, client
<1>5. CASE IncrementSeq
  <2>1. /\ storing \in Publications
        /\ storing.steps \in Remaining
    BY <1>5 DEF IncrementSeq, Step, TypeOK, Publishing
  <2>2. /\ todo' = todo /\ storing' = [storing EXCEPT !.steps = Tail(@)]
        /\ Tail(storing.steps) \in Remaining
    <3>1. Head(storing.steps) = "seq"
      BY <1>5 DEF IncrementSeq, Step
    <3>2. Len(storing.steps) > 1 /\ Tail(storing.steps) \in Remaining
      BY <2>1, <3>1, StepsType
    <3> QED
      BY <1>5, <3>2 DEF IncrementSeq, Step
  <2>3. storing' \in Publications
    BY <2>1, <2>2, StepsType DEF Publications
  <2>4. slots' \in [Devices -> Int \cup {NULL}]
    BY <1>5, <2>1 DEF IncrementSeq, TypeOK
  <2> QED
    BY <1>5, <2>2, <2>3, <2>4 DEF IncrementSeq, Step, TypeOK, client
<1>6. CASE FutexWake
  <2>1. storing.steps \in Remaining /\ Head(storing.steps) = "wake"
    BY <1>6 DEF FutexWake, Step, Publishing
  <2>2. storing' = NULL /\ todo' = [todo EXCEPT ![storing.on] = NULL]
    <3>1. ~ (Len(storing.steps) > 1)
      BY <2>1, StepsType
    <3> QED
      BY <1>6, <3>1 DEF FutexWake, Step
  <2> QED
    BY <1>6, <2>1, <2>2 DEF FutexWake, Step, TypeOK, Waiting
<1>7. ASSUME NEW d \in Devices, Publish(d) PROVE TypeOK'
  <2>1. \/ slots' = [slots EXCEPT ![d] = MIN - 1]
        \/ slots' = [slots EXCEPT ![d] = slots[d]]
        \/ slots' = slots
    BY <1>7 DEF Publish
  <2>2. slots' \in [Devices -> Int \cup {NULL}]
    <3>1. MIN - 1 \in Int
      BY GateAssumption
    <3>2. slots \in [Devices -> Int \cup {NULL}] /\ slots[d] \in Int \cup {NULL}
      BY DEF TypeOK
    <3>3. ASSUME NEW v \in Int \cup {NULL}
          PROVE  [slots EXCEPT ![d] = v] \in [Devices -> Int \cup {NULL}]
      BY <3>2
    <3> QED
      BY <2>1, <3>1, <3>2, <3>3
  <2>3. storing' = storing \/ storing' = [on |-> d, steps |-> Steps]
    BY <1>7 DEF Publish
  <2>4. storing' \in Publications \cup {NULL}
    BY <2>3, StepsType DEF TypeOK, Publications
  <2>5. todo' \in [Devices -> Int \cup {NULL}]
    BY <1>7 DEF Publish, TypeOK
  <2> QED
    BY <1>7, <2>2, <2>4, <2>5 DEF Publish, TypeOK, client
<1>8. ASSUME NEW q \in Queues, Create(q) PROVE TypeOK'
  <2>1. events' \in Seq(Event)
    <3>1. [of |-> q, kind |-> "create"] \in Event
      OBVIOUS
    <3> QED
      BY <1>8, <3>1, Sent DEF Create
  <2> QED
    BY <1>8, <2>1 DEF Create, TypeOK, client, server, Goto, Waiting
<1>9. ASSUME NEW q \in Queues, Submit(q) PROVE TypeOK'
  <2>1. events' \in Seq(Event)
    <3>1. [of |-> q, kind |-> "ready"] \in Event
      OBVIOUS
    <3> QED
      BY <1>9, <3>1, Sent DEF Submit
  <2> QED
    BY <1>9, <2>1 DEF Submit, TypeOK, client, server, Goto, Waiting
<1>10. ASSUME NEW q \in Queues, Exit(q) PROVE TypeOK'
  <2>1. events' \in Seq(Event)
    <3>1. [of |-> q, kind |-> "gone"] \in Event
      OBVIOUS
    <3> QED
      BY <1>10, <3>1, Sent DEF Exit
  <2>2. pc' \in [Queues -> {"gone", "idle", "loop", "passed", "running"} \cup Waiting]
    BY <1>10 DEF Exit, TypeOK, Goto
  <2>3. mapped' \in [Queues -> {"untried", "yes", "no"}]
    BY <1>10 DEF Exit, TypeOK
  <2>4. prio' \in [Queues -> Int] /\ asked' \in [Queues -> Int \cup {NULL}]
    BY <1>10, GateAssumption DEF Exit, TypeOK
  <2>5. hints' \in [Queues -> Seq(Priorities)]
    <3>1. <<>> \in Seq(Priorities)
      OBVIOUS
    <3> QED
      BY <1>10, <3>1 DEF Exit, TypeOK
  <2>6. crossed' \subseteq Queues /\ fresh' \subseteq Queues /\ missed' \subseteq Queues
    BY <1>10 DEF Exit, TypeOK
  <2>7. UNCHANGED <<device, up, slots, status, pending, todo, storing>>
    BY <1>10 DEF Exit, server
  <2> QED
    BY <2>1, <2>2, <2>3, <2>4, <2>5, <2>6, <2>7 DEF TypeOK
<1>11. ASSUME NEW q \in Queues, Done(q) PROVE TypeOK'
  <2>1. events' \in Seq(Event)
    <3>1. [of |-> q, kind |-> "idle"] \in Event
      OBVIOUS
    <3> QED
      BY <1>11, <3>1, Sent DEF Done, TypeOK
  <2> QED
    BY <1>11, <2>1 DEF Done, TypeOK, client, server, Goto, Waiting
<1>12. ASSUME NEW q \in Queues, AskToRun(q) PROVE TypeOK'
  <2>1. pc' \in [Queues -> {"gone", "idle", "loop", "passed", "running"} \cup Waiting]
    BY <1>12 DEF AskToRun, TypeOK, Goto, Waiting
  <2>2. asked' \in [Queues -> Int \cup {NULL}]
    <3>1. prio[q] \in Int /\ asked \in [Queues -> Int \cup {NULL}]
      BY DEF TypeOK
    <3>2. asked' = asked \/ asked' = [asked EXCEPT ![q] = prio[q]]
      BY <1>12 DEF AskToRun
    <3> QED
      BY <3>1, <3>2
  <2>3. mapped' \in [Queues -> {"untried", "yes", "no"}]
    BY <1>12 DEF AskToRun, TypeOK, Attached
  <2>4. UNCHANGED <<device, up, slots, fresh, prio, hints, crossed, events, missed>>
        /\ UNCHANGED <<status, pending, todo, storing>>
    BY <1>12 DEF AskToRun, server
  <2> QED
    BY <2>1, <2>2, <2>3, <2>4 DEF TypeOK
<1>13. ASSUME NEW q \in Queues, LoadMin(q) PROVE TypeOK'
  BY <1>13 DEF LoadMin, TypeOK, client, server, Goto, Waiting
<1>14. ASSUME NEW q \in Queues, LoadSeq(q) PROVE TypeOK'
  BY <1>14 DEF LoadSeq, TypeOK, client, server, Goto, Waiting
<1>15. ASSUME NEW q \in Queues, FutexWait(q) PROVE TypeOK'
  BY <1>15 DEF FutexWait, TypeOK, client, server, Goto, Waiting
<1>16. ASSUME NEW q \in Queues, Launch(q) PROVE TypeOK'
  BY <1>16 DEF Launch, TypeOK, client, server, Goto, Waiting
<1>17. ASSUME NEW q \in Queues, Interrupted(q) PROVE TypeOK'
  BY <1>17 DEF Interrupted, TypeOK, client, server, Goto, Waiting
<1>18. ASSUME NEW q \in Queues, NEW p \in Priorities, HintPriority(q, p) PROVE TypeOK'
  <2>1. p \in Int
    BY GateAssumption
  <2>2. Append(hints[q], p) \in Seq(Priorities)
    BY DEF TypeOK
  <2> QED
    BY <1>18, <2>1, <2>2 DEF HintPriority, TypeOK, server
<1>20. ASSUME NEW q \in Queues, NEW i \in DOMAIN hints[q], SendHint(q, i) PROVE TypeOK'
  <2>1. hints[q] \in Seq(Priorities) /\ hints[q][i] \in Priorities
    BY DEF TypeOK
  <2>2. [of |-> q, kind |-> "hint", prio |-> hints[q][i]] \in Event
    BY <2>1
  <2>3. events' \in Seq(Event)
    BY <1>20, <2>2, Sent DEF SendHint
  <2>4. RemoveAt(hints[q], i) \in Seq(Priorities)
    BY <2>1, Removed
  <2> QED
    BY <1>20, <2>3, <2>4 DEF SendHint, TypeOK, server
<1>19. CASE UNCHANGED vars
  BY <1>19 DEF vars, TypeOK, client, server
<1> QED
  BY <1>1, <1>2, <1>3, <1>4, <1>5, <1>6, <1>7, <1>8, <1>9, <1>10, <1>11, <1>12, <1>13, <1>14, <1>15, <1>16, <1>17, <1>18, <1>19, <1>20 DEF Next, Reschedule, Application, Worker

\* What the steps that are not the server's leave alone.
LEMMA ClientSteps ==
  ASSUME NEW q \in Queues, Application(q) \/ Worker(q) \/ Interrupted(q)
  PROVE  UNCHANGED <<device, up, slots, server>>
BY DEF Application, Worker, Interrupted, Create, Submit, Exit, Done, HintPriority, SendHint, AskToRun, LoadMin,
       LoadSeq, FutexWait, Launch

LEMMA RatedStep == SleepInv /\ [Next]_vars => Rated'
<1> SUFFICES ASSUME SleepInv, [Next]_vars PROVE Rated'
  OBVIOUS
<1>1. CASE HandleEvent
  <2>1. events # <<>> /\ events \in Seq(Event)
    BY <1>1 DEF HandleEvent, SleepInv, TypeOK
  <2>2. Head(events) \in Event
    BY <2>1
  <2> QED
    BY <1>1, <2>2, UpdatedType DEF HandleEvent, SleepInv, TypeOK, Rated
<1>2. CASE UNCHANGED status
  BY <1>2 DEF SleepInv, Rated
<1> QED
  BY <1>1, <1>2, ClientSteps
     DEF Next, Open, Reschedule, Sched, Publish, StoreMin, IncrementSeq, FutexWake, Step, server, vars

\* A step of a publication, and what is then to come.
LEMMA PublishingStep == SleepInv /\ [Next]_vars => Publishing'
<1> SUFFICES ASSUME SleepInv, [Next]_vars PROVE Publishing'
  OBVIOUS
<1> USE DEF SleepInv
<1>1. CASE Sched
  BY <1>1 DEF Sched, Scheduling, Publishing
<1>2. ASSUME NEW d \in Devices, Publish(d) PROVE Publishing'
  <2>1. CASE UNCHANGED storing
    BY <1>2, <2>1 DEF Publish, Publishing
  <2>2. CASE /\ storing' = [on |-> d, steps |-> Steps] /\ todo' = todo
             /\ slots' = [slots EXCEPT ![d] = IF @ = NULL THEN MIN - 1 ELSE @]
    <3>1. todo[d] # NULL
      BY <1>2 DEF Publish
    <3>2. MIN - 1 # NULL
      BY GateAssumption
    <3>3. slots'[d] # NULL
      BY <2>2, <3>2 DEF TypeOK
    <3> QED
      BY <2>2, <3>1, <3>3, StepsType DEF Publishing, TypeOK
  <2> QED
    BY <1>2, <2>1, <2>2 DEF Publish
<1>3. CASE StoreMin
  <2>1. storing # NULL /\ storing.steps \in Remaining /\ Head(storing.steps) = "min"
    BY <1>3 DEF StoreMin, Step, Publishing
  <2>2. storing' = [storing EXCEPT !.steps = Tail(@)] /\ todo' = todo /\ Tail(storing.steps) \in Remaining
    BY <1>3, <2>1, StepsType DEF StoreMin, Step
  <2>3. slots' = [slots EXCEPT ![storing.on] = todo[storing.on]] /\ todo[storing.on] # NULL
    BY <1>3, <2>1 DEF StoreMin, Publishing
  <2>4. storing \in Publications
    BY <2>1 DEF TypeOK
  <2>5. storing'.on = storing.on /\ storing'.steps = Tail(storing.steps) /\ slots'[storing.on] # NULL
    BY <2>2, <2>3, <2>4 DEF TypeOK, Publications
  <2> QED
    BY <2>2, <2>3, <2>5 DEF Publishing
<1>4. CASE IncrementSeq
  <2>1. storing # NULL /\ storing.steps \in Remaining /\ Head(storing.steps) = "seq"
    BY <1>4 DEF IncrementSeq, Step, Publishing
  <2>2. storing' = [storing EXCEPT !.steps = Tail(@)] /\ todo' = todo /\ Tail(storing.steps) \in Remaining
    BY <1>4, <2>1, StepsType DEF IncrementSeq, Step
  <2>3. storing \in Publications
    BY <2>1 DEF TypeOK
  <2>4. storing'.on = storing.on /\ storing'.steps = Tail(storing.steps) /\ slots' = slots
    BY <1>4, <2>2, <2>3 DEF IncrementSeq
  <2> QED
    BY <2>1, <2>2, <2>4 DEF Publishing
<1>5. CASE FutexWake
  <2>1. storing.steps \in Remaining /\ Head(storing.steps) = "wake"
    BY <1>5 DEF FutexWake, Step, Publishing
  <2>2. storing' = NULL
    BY <1>5, <2>1, StepsType DEF FutexWake, Step
  <2> QED
    BY <2>2 DEF Publishing
<1>6. CASE UNCHANGED <<slots, todo, storing>>
  BY <1>6 DEF Publishing
<1> QED
  BY <1>1, <1>2, <1>3, <1>4, <1>5, <1>6, ClientSteps DEF Next, Open, HandleEvent, Reschedule, server, vars

\* A worker at a gate, and what its steps change.
LEMMA AtGateStep == SleepInv /\ [Next]_vars => AtGate'
<1> SUFFICES ASSUME SleepInv, [Next]_vars PROVE AtGate'
  OBVIOUS
<1> USE DEF SleepInv
<1>1. ASSUME NEW q \in Queues, Application(q) \/ Worker(q) \/ Interrupted(q) PROVE AtGate'
  <2>1. UNCHANGED <<device, slots>>
    BY <1>1, ClientSteps
  <2>2. ASSUME NEW r \in Queues, pc'[r] \in Waiting PROVE asked'[r] # NULL /\ slots[device[r]] # NULL
    <3>1. CASE r # q
      <4>1. pc'[r] = pc[r] /\ asked'[r] = asked[r]
        BY <1>1, <3>1
           DEF TypeOK, Application, Worker, Create, Submit, Exit, Done, HintPriority, SendHint, AskToRun, LoadMin,
               LoadSeq, FutexWait, Launch, Interrupted, Goto
      <4> QED
        BY <2>2, <4>1 DEF AtGate
    <3>2. CASE r = q /\ AskToRun(q)
      BY <2>2, <3>2, GateAssumption DEF TypeOK, AskToRun, Goto, Waiting
    <3>3. CASE r = q /\ (LoadMin(q) \/ LoadSeq(q) \/ FutexWait(q) \/ Interrupted(q))
      BY <2>2, <3>3 DEF AtGate, TypeOK, LoadMin, LoadSeq, FutexWait, Interrupted, Goto, Waiting
    <3>4. CASE r = q /\ ((\E p \in Priorities : HintPriority(q, p)) \/ (\E i \in DOMAIN hints[q] : SendHint(q, i)))
      BY <2>2, <3>4 DEF AtGate, HintPriority, SendHint
    <3>5. CASE r = q /\ (Create(q) \/ Submit(q) \/ Exit(q) \/ Done(q) \/ Launch(q))
      BY <2>2, <3>5 DEF TypeOK, Create, Submit, Exit, Done, Launch, Goto, Waiting
    <3> QED
      BY <1>1, <3>1, <3>2, <3>3, <3>4, <3>5 DEF Application, Worker
  <2> QED
    BY <2>1, <2>2 DEF AtGate
<1>2. ASSUME NEW d \in Devices, Publish(d) PROVE AtGate'
  <2>1. \A e \in Devices : slots[e] # NULL => slots'[e] # NULL
    BY <1>2 DEF Publish, TypeOK
  <2> QED
    BY <1>2, <2>1 DEF Publish, AtGate, client, TypeOK
<1>3. CASE StoreMin
  <2>1. storing # NULL
    BY <1>3 DEF StoreMin, Step
  <2>2. \A e \in Devices : slots[e] # NULL => slots'[e] # NULL
    BY <1>3, <2>1 DEF StoreMin, TypeOK, Publishing
  <2> QED
    BY <1>3, <2>2 DEF StoreMin, Step, AtGate, client, TypeOK
<1>4. CASE IncrementSeq
  BY <1>4 DEF IncrementSeq, Step, AtGate, client
<1>5. CASE FutexWake
  BY <1>5 DEF FutexWake, Step, AtGate, Waiting
<1>6. CASE Open \/ HandleEvent \/ Sched \/ UNCHANGED vars
  BY <1>6 DEF Open, HandleEvent, Sched, vars, client, AtGate
<1> QED
  BY <1>1, <1>2, <1>3, <1>4, <1>5, <1>6 DEF Next, Reschedule

\* What happens at a gate that opens.
LEMMA ToldStep == SleepInv /\ [Next]_vars => OpeningIsTold'
<1> SUFFICES ASSUME SleepInv, [Next]_vars PROVE OpeningIsTold'
  OBVIOUS
<1> USE DEF SleepInv
<1>1. ASSUME NEW q \in Queues, Application(q) \/ Worker(q) \/ Interrupted(q) PROVE OpeningIsTold'
  <2>1. UNCHANGED <<device, slots, storing>>
    BY <1>1, ClientSteps DEF server
  <2>2. ASSUME NEW r \in Queues, r # q
        PROVE  /\ pc'[r] = pc[r] /\ asked'[r] = asked[r]
               /\ (r \in fresh' <=> r \in fresh) /\ (r \in missed' <=> r \in missed)
    BY <1>1, <2>2
       DEF TypeOK, Application, Worker, Create, Submit, Exit, Done, HintPriority, SendHint, AskToRun, LoadMin,
           LoadSeq, FutexWait, Launch, Interrupted, Goto
  <2>3. ASSUME q \notin missed'
        PROVE  /\ pc'[q] = "seq" => Closed(q)' \/ OpenedNow(q)'
               /\ pc'[q] = "wait" /\ q \in fresh' => Closed(q)' \/ OpenedNow(q)'
               /\ pc'[q] = "asleep" => Closed(q)' \/ (storing' # NULL /\ storing'.on = device'[q])
    <3>1. CASE LoadMin(q)
      BY <2>1, <3>1 DEF LoadMin, Goto, TypeOK, Closed
    <3>2. CASE LoadSeq(q)
      BY <2>1, <2>3, <3>2 DEF LoadSeq, Goto, TypeOK, Closed, OpenedNow, OpeningIsTold
    <3>3. CASE FutexWait(q)
      BY <2>1, <2>3, <3>3 DEF FutexWait, Goto, TypeOK, Closed, OpenedNow, OpeningIsTold
    <3>4. CASE (\E p \in Priorities : HintPriority(q, p)) \/ (\E i \in DOMAIN hints[q] : SendHint(q, i))
      BY <2>1, <2>3, <3>4 DEF HintPriority, SendHint, Closed, OpenedNow, OpeningIsTold
    <3>5. CASE Create(q) \/ Submit(q) \/ Exit(q) \/ Done(q) \/ Launch(q) \/ AskToRun(q) \/ Interrupted(q)
      BY <3>5 DEF TypeOK, Create, Submit, Exit, Done, Launch, AskToRun, Interrupted, Goto
    <3> QED
      BY <1>1, <3>1, <3>2, <3>3, <3>4, <3>5 DEF Application, Worker
  <2>4. \A r \in Queues : r # q => (Closed(r)' <=> Closed(r)) /\ (OpenedNow(r)' <=> OpenedNow(r))
    BY <2>1, <2>2 DEF Closed, OpenedNow
  <2> QED
    BY <2>1, <2>2, <2>3, <2>4 DEF OpeningIsTold
<1>2. ASSUME NEW d \in Devices, Publish(d) PROVE OpeningIsTold'
  <2>1. ASSUME NEW q \in Queues, pc[q] \in {"seq", "wait", "asleep"} PROVE Closed(q) => Closed(q)'
    <3>1. slots[device[q]] # NULL
      BY <2>1 DEF AtGate, Waiting
    <3>2. slots'[device[q]] = slots[device[q]]
      BY <1>2, <3>1 DEF Publish, TypeOK
    <3> QED
      BY <1>2, <3>2 DEF Publish, client, Closed
  <2> QED
    BY <1>2, <2>1 DEF Publish, client, OpeningIsTold, OpenedNow
<1>3. CASE StoreMin
  <2>1. storing # NULL /\ storing.steps \in Remaining /\ Head(storing.steps) = "min"
    BY <1>3 DEF StoreMin, Step, Publishing
  <2>2. storing' = [storing EXCEPT !.steps = Tail(@)] /\ Head(Tail(storing.steps)) = "seq"
    BY <1>3, <2>1, StepsType DEF StoreMin, Step
  <2>3. storing \in Publications
    BY <2>1 DEF TypeOK
  <2>4. storing'.on = storing.on /\ Head(storing'.steps) = "seq"
    BY <2>2, <2>3 DEF Publications
  <2>5. storing' # NULL
    BY <2>2, <2>3, StepsType, <2>1, GateAssumption DEF Publications
  <2>6. \A q \in Queues : device[q] # storing.on => (Closed(q)' <=> Closed(q))
    BY <1>3 DEF StoreMin, Step, client, Closed, TypeOK
  <2> QED
    BY <1>3, <2>4, <2>5, <2>6 DEF StoreMin, Step, client, OpeningIsTold, OpenedNow
<1>4. CASE IncrementSeq
  <2>1. storing # NULL /\ storing.steps \in Remaining /\ Head(storing.steps) = "seq"
    BY <1>4 DEF IncrementSeq, Step, Publishing
  <2>2. storing' = [storing EXCEPT !.steps = Tail(@)]
    BY <1>4, <2>1, StepsType DEF IncrementSeq, Step
  <2>3. storing'.on = storing.on /\ storing' # NULL
    <3>1. storing \in Publications
      BY <2>1 DEF TypeOK
    <3> QED
      BY <2>2, <3>1, StepsType, <2>1, GateAssumption DEF Publications
  <2>4. \A q \in Queues : (Closed(q)' <=> Closed(q)) /\ pc'[q] = pc[q] /\ device'[q] = device[q]
    BY <1>4 DEF IncrementSeq, Step, client, Closed
  <2>5. ASSUME NEW q \in Queues, q \notin missed', device[q] # storing.on
        PROVE  /\ q \notin missed /\ (q \in fresh' <=> q \in fresh)
               /\ OpenedNow(q) = FALSE
    BY <1>4, <2>5 DEF IncrementSeq, OpenedNow
  <2>6. ASSUME NEW q \in Queues, q \notin missed', device[q] = storing.on
        PROVE  /\ pc[q] = "seq" => Closed(q)
               /\ q \notin fresh'
    <3>1. asked[q] >= slots[device[q]] => pc[q] # "seq"
      BY <1>4, <2>6 DEF IncrementSeq
    <3>2. pc[q] = "seq" => asked[q] \in Int /\ slots[device[q]] \in Int
      BY DEF AtGate, Waiting, TypeOK
    <3> QED
      BY <1>4, <2>6, <3>1, <3>2 DEF IncrementSeq, Closed
  <2> QED
    BY <2>3, <2>4, <2>5, <2>6 DEF OpeningIsTold
<1>5. CASE FutexWake
  <2>1. storing.steps \in Remaining /\ Head(storing.steps) = "wake"
    BY <1>5 DEF FutexWake, Step, Publishing
  <2>2. \A q \in Queues : ~ OpenedNow(q)
    BY <2>1 DEF OpenedNow
  <2>3. \A q \in Queues : (Closed(q)' <=> Closed(q))
    BY <1>5 DEF FutexWake, Step, Closed
  <2>4. \A q \in Queues : pc'[q] = IF pc[q] = "asleep" /\ device[q] = storing.on THEN "min" ELSE pc[q]
    BY <1>5 DEF FutexWake
  <2> QED
    BY <1>5, <2>2, <2>3, <2>4 DEF FutexWake, OpeningIsTold
<1>6. CASE Open \/ HandleEvent \/ Sched \/ UNCHANGED vars
  BY <1>6 DEF Open, HandleEvent, Sched, vars, client, server, OpeningIsTold, Closed, OpenedNow
<1> QED
  BY <1>1, <1>2, <1>3, <1>4, <1>5, <1>6 DEF Next, Reschedule

LEMMA SleepStep == SleepInv /\ [Next]_vars => SleepInv'
BY TypeStep, RatedStep, PublishingStep, AtGateStep, ToldStep DEF SleepInv

\* The variables keep their types.
THEOREM GateTypeCorrect == Spec => []TypeOK
<1>1. SleepInv => TypeOK
  BY DEF SleepInv
<1> QED
  BY <1>1, InitSleepInv, SleepStep, PTL DEF Spec

\* No worker sleeps at a gate that is open to it, unless a wake is on its way or
\* the gate opened between its two loads (xsched.patch:773 and 776), for any
\* queues, devices and priorities.
THEOREM SleepersAreTold == Spec => []SleepersAreOutranked
<1>1. SleepInv => SleepersAreOutranked
  BY DEF SleepInv, OpeningIsTold, Closed, SleepersAreOutranked
<1> QED
  BY <1>1, InitSleepInv, SleepStep, PTL DEF Spec

-----------------------------------------------------------------------------
(* The gate *)

\* The events that say whether a queue is ready, and with which priority.
Telling(q) == {e \in Event : e.of = q /\ e.kind # "hint"}
Rating(q) == {e \in Event : e.of = q /\ e.kind \in {"hint", "create", "gone"}}
RatedAs(e) == IF e.kind = "hint" THEN e.prio ELSE DEFAULT

Silent(s, K) == \A i \in DOMAIN s : s[i] \notin K
LastIn(s, K, i) == i \in DOMAIN s /\ s[i] \in K /\ \A j \in DOMAIN s : j > i => s[j] \notin K

\* What the scheduler knows of a queue, once it has handled the last event under
\* way about it, is what the queue is.
EventsTell ==
  \A q \in Queues :
    /\ Silent(events, Telling(q)) => (status[q].ready <=> Ready(q))
    /\ \A i \in DOMAIN events : LastIn(events, Telling(q), i) => (events[i].kind = "ready" <=> Ready(q))
EventsRate ==
  \A q \in Queues : Settled(q) =>
    /\ Silent(events, Rating(q)) => status[q].prio = prio[q]
    /\ \A i \in DOMAIN events : LastIn(events, Rating(q), i) => RatedAs(events[i]) = prio[q]
StartsAnew == \A q \in Queues : pc[q] = "gone" => prio[q] = DEFAULT

\* Until a hint is sent out of order, the last one to send is the queue's priority.
HintsLast ==
  \A q \in Queues : hints[q] # <<>> /\ q \notin crossed => hints[q][Len(hints[q])] = prio[q]

Informed == EventsTell /\ EventsRate /\ StartsAnew /\ HintsLast

\* Unless there is something to schedule, what is published is the highest
\* priority of the ready queues, or will be.
ReadyOn(d) == {q \in Queues : device[q] = d /\ status[q].ready}
Published ==
  /\ Scheduling => ~pending
  /\ ~pending => \A d \in Devices :
       /\ todo[d] # NULL => ReadyOn(d) # {} /\ todo[d] = status[Highest(d)].prio
       /\ ReadyOn(d) # {} /\ slots[d] # NULL => todo[d] # NULL \/ slots[d] = status[Highest(d)].prio
       /\ storing # NULL /\ storing.on = d /\ Head(storing.steps) # "min" => slots[d] = todo[d]

GateInv == SleepInv /\ Informed /\ Published

LEMMA AppendLast ==
  ASSUME NEW s \in Seq(Event), NEW e \in Event, NEW K
  PROVE  /\ e \in K => /\ ~ Silent(Append(s, e), K)
                       /\ \A i \in DOMAIN Append(s, e) : LastIn(Append(s, e), K, i) => Append(s, e)[i] = e
         /\ e \notin K => /\ Silent(Append(s, e), K) => Silent(s, K)
                          /\ \A i \in DOMAIN Append(s, e) : LastIn(Append(s, e), K, i) =>
                               i \in DOMAIN s /\ LastIn(s, K, i) /\ Append(s, e)[i] = s[i]
<1> DEFINE t == Append(s, e)
<1>1. /\ DOMAIN t = 1 .. Len(s) + 1 /\ DOMAIN s = 1 .. Len(s) /\ Len(s) \in Nat
      /\ t[Len(s) + 1] = e /\ \A i \in 1 .. Len(s) : t[i] = s[i]
  OBVIOUS
<1> HIDE DEF t
<1>2. CASE e \in K
  <2>1. ~ Silent(t, K)
    BY <1>1, <1>2 DEF Silent
  <2>2. ASSUME NEW i \in DOMAIN t, LastIn(t, K, i) PROVE t[i] = e
    BY <1>1, <1>2, <2>2 DEF LastIn
  <2> QED
    BY <1>2, <2>1, <2>2 DEF t
<1>3. CASE e \notin K
  <2>1. Silent(t, K) => Silent(s, K)
    BY <1>1 DEF Silent
  <2>2. ASSUME NEW i \in DOMAIN t, LastIn(t, K, i)
        PROVE  i \in DOMAIN s /\ LastIn(s, K, i) /\ t[i] = s[i]
    BY <1>1, <1>3, <2>2 DEF LastIn
  <2> QED
    BY <1>3, <2>1, <2>2 DEF t
<1> QED
  BY <1>2, <1>3

LEMMA TailLast ==
  ASSUME NEW s \in Seq(Event), s # <<>>, NEW K
  PROVE  /\ Silent(Tail(s), K) => IF Head(s) \in K THEN LastIn(s, K, 1) ELSE Silent(s, K)
         /\ 1 \in DOMAIN s /\ s[1] = Head(s)
         /\ \A i \in DOMAIN Tail(s) : LastIn(Tail(s), K, i) =>
              i + 1 \in DOMAIN s /\ LastIn(s, K, i + 1) /\ Tail(s)[i] = s[i + 1]
<1> DEFINE t == Tail(s)
<1>1. /\ DOMAIN s = 1 .. Len(s) /\ Len(s) \in Nat /\ Len(s) > 0
      /\ DOMAIN t = 1 .. Len(s) - 1 /\ \A i \in 1 .. Len(s) - 1 : t[i] = s[i + 1]
      /\ Head(s) = s[1]
  OBVIOUS
<1> HIDE DEF t
<1>2. \A j \in DOMAIN s : j > 1 => j - 1 \in DOMAIN t /\ t[j - 1] = s[j]
  <2> SUFFICES ASSUME NEW j \in DOMAIN s, j > 1 PROVE j - 1 \in DOMAIN t /\ t[j - 1] = s[j]
    OBVIOUS
  <2>1. j - 1 \in 1 .. Len(s) - 1 /\ (j - 1) + 1 = j
    BY <1>1
  <2> QED
    BY <1>1, <2>1
<1>3. ASSUME Silent(t, K) PROVE IF Head(s) \in K THEN LastIn(s, K, 1) ELSE Silent(s, K)
  <2>1. \A j \in DOMAIN s : j > 1 => s[j] \notin K
    BY <1>2, <1>3 DEF Silent
  <2> QED
    BY <1>1, <2>1 DEF Silent, LastIn
<1>4. ASSUME NEW i \in DOMAIN t, LastIn(t, K, i)
      PROVE  i + 1 \in DOMAIN s /\ LastIn(s, K, i + 1) /\ t[i] = s[i + 1]
  <2>1. i + 1 \in DOMAIN s /\ t[i] = s[i + 1]
    BY <1>1
  <2>2. ASSUME NEW j \in DOMAIN s, j > i + 1 PROVE s[j] \notin K
    <3>1. j - 1 \in DOMAIN t /\ j - 1 > i
      BY <1>1, <1>2, <2>2
    <3> QED
      BY <1>2, <1>4, <2>2, <3>1, <1>1 DEF LastIn
  <2> QED
    BY <1>4, <2>1, <2>2 DEF LastIn
<1> QED
  BY <1>1, <1>3, <1>4 DEF t

\* A queue and the event it sends.
LEMMA SendTells ==
  ASSUME TypeOK, EventsTell, NEW e \in Event, SendEvent(e), status' = status,
         \A r \in Queues : r # e.of => (Ready(r)' <=> Ready(r)),
         IF e.kind = "hint" THEN Ready(e.of)' <=> Ready(e.of) ELSE Ready(e.of)' <=> e.kind = "ready"
  PROVE  EventsTell'
<1>1. events \in Seq(Event) /\ events' = Append(events, e)
  BY DEF TypeOK, SendEvent
<1> SUFFICES ASSUME NEW q \in Queues
             PROVE  /\ Silent(events', Telling(q)) => (status[q].ready <=> Ready(q)')
                    /\ \A i \in DOMAIN events' :
                         LastIn(events', Telling(q), i) => (events'[i].kind = "ready" <=> Ready(q)')
  BY DEF EventsTell, Telling, Silent, LastIn
<1>2. CASE e \in Telling(q)
  <2>1. Ready(q)' <=> e.kind = "ready"
    BY <1>2 DEF Telling
  <2> QED
    BY <1>1, <1>2, <2>1, AppendLast
<1>3. CASE e \notin Telling(q)
  <2>1. Ready(q)' <=> Ready(q)
    BY <1>3 DEF Telling
  <2> QED
    BY <1>1, <1>3, <2>1, AppendLast DEF EventsTell
<1> QED
  BY <1>2, <1>3

LEMMA SendRates ==
  ASSUME TypeOK, EventsRate, NEW e \in Event, SendEvent(e), status' = status,
         \A r \in Queues : r # e.of => prio'[r] = prio[r] /\ (Settled(r)' => Settled(r)),
         Settled(e.of)' => IF e.kind \in {"hint", "create", "gone"} THEN prio'[e.of] = RatedAs(e)
                           ELSE prio'[e.of] = prio[e.of] /\ Settled(e.of)
  PROVE  EventsRate'
<1>1. events \in Seq(Event) /\ events' = Append(events, e)
  BY DEF TypeOK, SendEvent
<1> SUFFICES ASSUME NEW q \in Queues, Settled(q)'
             PROVE  /\ Silent(events', Rating(q)) => status[q].prio = prio'[q]
                    /\ \A i \in DOMAIN events' : LastIn(events', Rating(q), i) => RatedAs(events'[i]) = prio'[q]
  BY DEF EventsRate, Rating, Silent, LastIn, RatedAs
<1>2. CASE e \in Rating(q)
  <2>1. prio'[q] = RatedAs(e)
    BY <1>2 DEF Rating
  <2> QED
    BY <1>1, <1>2, <2>1, AppendLast
<1>3. CASE e \notin Rating(q)
  <2>1. prio'[q] = prio[q] /\ Settled(q)
    BY <1>3 DEF Rating
  <2> QED
    BY <1>1, <1>3, <2>1, AppendLast DEF EventsRate
<1> QED
  BY <1>2, <1>3

\* What a queue does, and what it sends of it.
LEMMA QueueStep ==
  ASSUME SleepInv, Informed, NEW q \in Queues, Application(q) \/ Worker(q) \/ Interrupted(q)
  PROVE  Informed'
<1> USE EventTypes DEF SleepInv, Informed
<1>1. status' = status
  BY ClientSteps DEF server
<1>2. ASSUME NEW e \in Event, SendEvent(e), e.of = q,
             \A r \in Queues : r # q => pc'[r] = pc[r] /\ prio'[r] = prio[r] /\ (Settled(r)' => Settled(r)),
             IF e.kind = "hint" THEN Ready(q)' <=> Ready(q) ELSE Ready(q)' <=> e.kind = "ready",
             Settled(q)' => IF e.kind \in {"hint", "create", "gone"} THEN prio'[q] = RatedAs(e)
                            ELSE prio'[q] = prio[q] /\ Settled(q),
             pc'[q] = "gone" => prio'[q] = DEFAULT, HintsLast'
      PROVE  Informed'
  <2>1. \A r \in Queues : r # q => (Ready(r)' <=> Ready(r))
    BY <1>2 DEF Ready
  <2>2. EventsTell'
    BY <1>1, <1>2, <2>1, SendTells
  <2>3. EventsRate'
    BY <1>1, <1>2, SendRates
  <2>4. StartsAnew'
    BY <1>2 DEF StartsAnew
  <2> QED
    BY <1>2, <2>2, <2>3, <2>4
<1>3. CASE Create(q)
  <2>1. prio[q] = DEFAULT
    BY <1>3 DEF Create, StartsAnew
  <2> DEFINE e == [of |-> q, kind |-> "create"]
  <2>2. e \in Event /\ e.of = q /\ e.kind = "create" /\ SendEvent(e)
    BY <1>3 DEF Create
  <2> QED
    BY <1>2, <1>3, <2>1, <2>2 DEF Create, Goto, TypeOK, Ready, RatedAs, Settled, HintsLast
<1>4. CASE Submit(q)
  <2> DEFINE e == [of |-> q, kind |-> "ready"]
  <2>1. e \in Event /\ e.of = q /\ e.kind = "ready" /\ SendEvent(e)
    BY <1>4 DEF Submit
  <2> QED
    BY <1>2, <1>4, <2>1 DEF Submit, Goto, TypeOK, Ready, Settled, HintsLast
<1>5. CASE Exit(q)
  <2> DEFINE e == [of |-> q, kind |-> "gone"]
  <2>1. e \in Event /\ e.of = q /\ e.kind = "gone" /\ SendEvent(e)
    BY <1>5 DEF Exit
  <2>2. HintsLast'
    BY <1>5 DEF Exit, TypeOK, HintsLast
  <2> QED
    BY <1>2, <1>5, <2>1, <2>2 DEF Exit, Goto, TypeOK, Ready, RatedAs, Settled
<1>6. ASSUME NEW p \in Priorities, HintPriority(q, p) PROVE Informed'
  <2>1. hints'[q] # <<>> /\ hints'[q][Len(hints'[q])] = p /\ prio'[q] = p
    <3>1. hints[q] \in Seq(Priorities) /\ hints'[q] = Append(hints[q], p) /\ prio'[q] = p
      BY <1>6 DEF HintPriority, TypeOK
    <3> QED
      BY <3>1
  <2>2. \A r \in Queues : r # q => prio'[r] = prio[r] /\ hints'[r] = hints[r] /\ (r \in crossed' <=> r \in crossed)
    BY <1>6 DEF HintPriority, TypeOK
  <2>3. UNCHANGED <<events, status, pc>> /\ pc[q] # "gone"
    BY <1>1, <1>6 DEF HintPriority
  <2>4. \A r \in Queues : Settled(r)' => r # q /\ Settled(r)
    BY <2>1, <2>2 DEF Settled
  <2>5. EventsTell' /\ StartsAnew' /\ HintsLast'
    BY <2>1, <2>2, <2>3 DEF EventsTell, StartsAnew, HintsLast, Ready
  <2>6. EventsRate'
    BY <2>2, <2>3, <2>4 DEF EventsRate
  <2> QED
    BY <2>5, <2>6
<1>7. CASE Done(q) /\ pc'[q] = "idle"
  <2> DEFINE e == [of |-> q, kind |-> "idle"]
  <2>1. e \in Event /\ e.of = q /\ e.kind = "idle" /\ SendEvent(e)
    BY <1>7 DEF Done, Goto, TypeOK
  <2> QED
    BY <1>2, <1>7, <2>1 DEF Done, Goto, TypeOK, Ready, Settled, HintsLast
<1>8. CASE (Done(q) /\ pc'[q] # "idle") \/ Worker(q) \/ Interrupted(q)
  <2>1. UNCHANGED <<events, prio, hints, crossed>>
    BY <1>8
       DEF Done, Goto, TypeOK, Worker, AskToRun, LoadMin, LoadSeq, FutexWait, Launch, Interrupted
  <2>2. \A r \in Queues : (Ready(r)' <=> Ready(r)) /\ (pc'[r] = "gone" => pc[r] = "gone")
    BY <1>8
       DEF Done, Goto, TypeOK, Worker, AskToRun, LoadMin, LoadSeq, FutexWait, Launch, Interrupted, Ready
  <2> QED
    BY <1>1, <2>1, <2>2 DEF EventsTell, EventsRate, StartsAnew, HintsLast, Settled
<1>9. ASSUME NEW i \in DOMAIN hints[q], SendHint(q, i) PROVE Informed'
  <2> DEFINE e == [of |-> q, kind |-> "hint", prio |-> hints[q][i]]
             rest == RemoveAt(hints[q], i)
  <2>1. hints[q] \in Seq(Priorities) /\ hints[q][i] \in Priorities /\ i \in 1 .. Len(hints[q])
    BY DEF TypeOK
  <2>2. e \in Event /\ e.of = q /\ e.kind = "hint" /\ e.prio = hints[q][i] /\ SendEvent(e)
    BY <1>9, <2>1 DEF SendHint
  <2>3. /\ rest \in Seq(Priorities) /\ Len(rest) = Len(hints[q]) - 1
        /\ i < Len(hints[q]) => rest[Len(hints[q]) - 1] = hints[q][Len(hints[q])]
    BY <2>1, Removed
  <2> HIDE DEF e, rest
  <2>4. /\ prio' = prio /\ pc' = pc /\ hints' = [hints EXCEPT ![q] = rest]
        /\ crossed' = crossed \cup {r \in {q} : i = Len(hints[q]) /\ i > 1}
    BY <1>9 DEF SendHint, rest
  <2>5. \A r \in Queues : r # q => hints'[r] = hints[r] /\ (r \in crossed' <=> r \in crossed)
    BY <2>4 DEF TypeOK
  <2>6. hints'[q] = rest /\ (q \notin crossed' => q \notin crossed /\ (i < Len(hints[q]) \/ i = 1))
    BY <2>1, <2>4 DEF TypeOK
  <2>7. q \notin crossed' => hints[q][Len(hints[q])] = prio[q]
    <3>1. hints[q] # <<>>
      BY <2>1
    <3> QED
      BY <2>6, <3>1 DEF HintsLast
  <2>8. Settled(q)' => prio[q] = hints[q][i]
    <3> SUFFICES ASSUME Settled(q)' PROVE prio[q] = hints[q][i]
      OBVIOUS
    <3>1. q \notin crossed' /\ rest = <<>>
      BY <2>6 DEF Settled
    <3>2. Len(hints[q]) = 1 /\ i = 1
      BY <2>1, <2>3, <3>1
    <3> QED
      BY <2>7, <3>1, <3>2
  <2>9. HintsLast'
    <3> SUFFICES ASSUME NEW r \in Queues, hints'[r] # <<>>, r \notin crossed'
                 PROVE  hints'[r][Len(hints'[r])] = prio[r]
      BY <2>4 DEF HintsLast
    <3>1. CASE r # q
      BY <2>5, <3>1 DEF HintsLast
    <3>2. CASE r = q
      <4>1. rest # <<>> /\ q \notin crossed'
        BY <2>6, <3>2
      <4>2. Len(rest) # 0
        BY <2>3, <4>1
      <4>3. i < Len(hints[q])
        BY <2>1, <2>3, <2>6, <4>1, <4>2
      <4> QED
        BY <2>3, <2>6, <2>7, <3>2, <4>1, <4>3
    <3> QED
      BY <3>1, <3>2
  <2>10. \A r \in Queues : r # q => (Settled(r)' => Settled(r))
    BY <2>5 DEF Settled
  <2>11. /\ Ready(q)' <=> Ready(q)
         /\ pc'[q] = "gone" => prio'[q] = DEFAULT
    BY <2>4 DEF Ready, StartsAnew
  <2>12. RatedAs(e) = hints[q][i]
    BY <2>2 DEF RatedAs
  <2> QED
    BY <1>2, <2>2, <2>4, <2>8, <2>9, <2>10, <2>11, <2>12
<1> QED
  BY <1>3, <1>4, <1>5, <1>6, <1>7, <1>8, <1>9 DEF Application

\* The scheduler handles an event.
LEMMA HandleStep ==
  ASSUME SleepInv, Informed, HandleEvent
  PROVE  Informed'
<1> USE EventTypes DEF SleepInv, Informed
<1> DEFINE e == Head(events)
<1>1. /\ events \in Seq(Event) /\ events # <<>> /\ e \in Event /\ events' = Tail(events)
      /\ pc' = pc /\ prio' = prio /\ hints' = hints /\ crossed' = crossed
  BY DEF HandleEvent, TypeOK, client
<1>2. status' = [status EXCEPT ![e.of] = Updated(@, e)]
  BY DEF HandleEvent
<1> HIDE DEF e
<1>3. ASSUME NEW q \in Queues PROVE
        /\ e \in Telling(q) => (status'[q].ready <=> e.kind = "ready")
        /\ e \notin Telling(q) => status'[q].ready = status[q].ready
        /\ e \in Rating(q) => status'[q].prio = RatedAs(e)
        /\ e \notin Rating(q) => status'[q].prio = status[q].prio
  <2>1. CASE e.of # q
    BY <1>1, <1>2, <2>1 DEF Telling, Rating, TypeOK
  <2>2. CASE e.of = q
    <3>1. status'[q] = Updated(status[q], e) /\ status[q] \in [ready : BOOLEAN, prio : Int]
      BY <1>2, <2>2 DEF TypeOK
    <3>2. e.kind \in {"create", "ready", "idle", "gone", "hint"}
      BY <1>1 DEF Event
    <3>3. CASE e.kind = "hint"
      BY <1>1, <2>2, <3>1, <3>3 DEF Updated, Hinted, Telling, Rating, RatedAs
    <3>4. CASE e.kind = "ready"
      BY <1>1, <2>2, <3>1, <3>4 DEF Updated, Telling, Rating
    <3>5. CASE e.kind = "idle"
      BY <1>1, <2>2, <3>1, <3>5 DEF Updated, Telling, Rating
    <3>6. CASE e.kind \in {"create", "gone"}
      <4>1. status'[q] = [ready |-> FALSE, prio |-> DEFAULT]
        BY <3>1, <3>6 DEF Updated
      <4>2. e.kind # "ready" /\ e.kind # "hint" /\ e \in Telling(q) /\ e \in Rating(q)
        BY <1>1, <2>2, <3>6 DEF Telling, Rating
      <4>3. ~ status'[q].ready /\ status'[q].prio = DEFAULT
        BY <4>1
      <4>4. RatedAs(e) = DEFAULT
        BY <4>2 DEF RatedAs
      <4> QED
        BY <4>2, <4>3, <4>4
    <3> QED
      BY <3>2, <3>3, <3>4, <3>5, <3>6
  <2> QED
    BY <2>1, <2>2
<1>4. Head(events) = e
  BY DEF e
<1>5. ASSUME NEW q \in Queues
      PROVE  /\ Silent(events', Telling(q)) => (status'[q].ready <=> Ready(q))
             /\ \A i \in DOMAIN events' :
                  LastIn(events', Telling(q), i) => (events'[i].kind = "ready" <=> Ready(q))
  BY <1>1, <1>3, <1>4, TailLast DEF EventsTell
<1>6. ASSUME NEW q \in Queues, Settled(q)
      PROVE  /\ Silent(events', Rating(q)) => status'[q].prio = prio[q]
             /\ \A i \in DOMAIN events' : LastIn(events', Rating(q), i) => RatedAs(events'[i]) = prio[q]
  BY <1>1, <1>3, <1>4, <1>6, TailLast DEF EventsRate
<1>7. EventsTell'
  BY <1>1, <1>5 DEF EventsTell, Telling, Silent, LastIn, Ready
<1>8. EventsRate'
  BY <1>1, <1>6 DEF EventsRate, Rating, Silent, LastIn, RatedAs, Settled
<1> QED
  BY <1>1, <1>7, <1>8 DEF StartsAnew, HintsLast

LEMMA EventsStep == SleepInv /\ Informed /\ [Next]_vars => Informed'
<1> SUFFICES ASSUME SleepInv, Informed, [Next]_vars PROVE Informed'
  OBVIOUS
<1>1. CASE /\ UNCHANGED <<events, status, prio, hints, crossed>>
           /\ \A q \in Queues : (Ready(q)' <=> Ready(q)) /\ (pc'[q] = "gone" => pc[q] = "gone")
  BY <1>1 DEF Informed, EventsTell, EventsRate, StartsAnew, HintsLast, Settled
<1>2. CASE FutexWake
  <2>1. \A q \in Queues : pc'[q] = IF pc[q] = "asleep" /\ device[q] = storing.on THEN "min" ELSE pc[q]
    BY <1>2 DEF FutexWake
  <2> QED
    BY <1>1, <1>2, <2>1 DEF FutexWake, Step, Ready
<1>3. CASE Open \/ Sched \/ (\E d \in Devices : Publish(d)) \/ StoreMin \/ IncrementSeq \/ UNCHANGED vars
  <2>1. UNCHANGED <<events, status, prio, hints, crossed, pc>>
    BY <1>3 DEF Open, Sched, Publish, StoreMin, IncrementSeq, Step, client, server, vars
  <2> QED
    BY <1>1, <2>1 DEF Ready
<1> QED
  BY <1>2, <1>3, HandleStep, QueueStep DEF Next, Reschedule

LEMMA PublishedStep == GateInv /\ [Next]_vars => Published'
<1> SUFFICES ASSUME GateInv, [Next]_vars PROVE Published'
  OBVIOUS
<1> USE DEF GateInv, SleepInv
<1>1. ASSUME UNCHANGED <<device, status>>, NEW d \in Devices
      PROVE  ReadyOn(d)' = ReadyOn(d) /\ Highest(d)' = Highest(d)
  BY <1>1 DEF ReadyOn, Highest
<1>2. CASE UNCHANGED <<device, slots, status, pending, todo, storing>>
  BY <1>1, <1>2 DEF Published, Scheduling
<1>3. CASE HandleEvent
  BY <1>3 DEF HandleEvent, Published, Scheduling
<1>4. CASE Sched
  <2>1. /\ UNCHANGED <<device, status, slots, storing>> /\ storing = NULL
        /\ \A d \in Devices : todo'[d] = IF Highest(d) = NULL THEN NULL ELSE status[Highest(d)].prio
    BY <1>4 DEF Sched, Scheduling
  <2>2. ASSUME NEW d \in Devices
        PROVE  /\ Highest(d) = NULL <=> ReadyOn(d) = {}
               /\ ReadyOn(d) # {} => status[Highest(d)].prio # NULL
    <3>1. Highest(d) = NULL <=> ReadyOn(d) = {}
      BY HighestIsReady DEF ReadyOn
    <3>2. ReadyOn(d) # {} => Highest(d) \in Queues
      BY HighestIsReady DEF ReadyOn
    <3> QED
      BY <3>1, <3>2, GateAssumption DEF TypeOK
  <2>3. pending' = FALSE
    BY <1>4 DEF Sched
  <2> QED
    BY <1>1, <2>1, <2>2, <2>3 DEF Published
<1>5. ASSUME NEW d \in Devices, Publish(d) PROVE Published'
  <2>1. UNCHANGED <<device, status, pending>> /\ todo[d] # NULL /\ storing = NULL /\ pending = FALSE
    BY <1>5 DEF Publish, Published, Scheduling, TypeOK
  <2>2. CASE /\ slots' = [slots EXCEPT ![d] = IF @ = NULL THEN MIN - 1 ELSE @]
             /\ storing' = [on |-> d, steps |-> Steps] /\ todo' = todo
    <3>1. Head(Steps) = "min"
      BY DEF Steps
    <3>2. \A e \in Devices : e # d => slots'[e] = slots[e]
      BY <2>2 DEF TypeOK
    <3> QED
      BY <1>1, <2>1, <2>2, <3>1, <3>2 DEF Published
  <2>3. CASE slots[d] = NULL /\ todo' = [todo EXCEPT ![d] = NULL] /\ UNCHANGED <<slots, storing>>
    BY <1>1, <2>1, <2>3 DEF Published, TypeOK
  <2> QED
    BY <1>5, <2>2, <2>3 DEF Publish
<1>6. CASE StoreMin
  <2>1. storing # NULL /\ storing.steps \in Remaining /\ Head(storing.steps) = "min"
    BY <1>6 DEF StoreMin, Step, Publishing
  <2>2. storing' = [storing EXCEPT !.steps = Tail(@)] /\ todo' = todo /\ UNCHANGED <<device, status, pending>>
    BY <1>6, <2>1, StepsType DEF StoreMin, Step
  <2>3. storing \in Publications /\ storing'.on = storing.on /\ storing.on \in Devices
    BY <2>1, <2>2 DEF TypeOK, Publications
  <2>4. slots' = [slots EXCEPT ![storing.on] = todo[storing.on]] /\ todo[storing.on] # NULL
    BY <1>6, <2>1 DEF StoreMin, Publishing
  <2>5. pending = FALSE
    BY <2>1 DEF Published, Scheduling, TypeOK
  <2> QED
    BY <1>1, <2>2, <2>3, <2>4, <2>5 DEF Published, TypeOK
<1>7. CASE IncrementSeq
  <2>1. storing # NULL /\ storing.steps \in Remaining /\ Head(storing.steps) = "seq"
    BY <1>7 DEF IncrementSeq, Step, Publishing
  <2>2. storing' = [storing EXCEPT !.steps = Tail(@)] /\ todo' = todo /\ UNCHANGED <<device, status, pending, slots>>
    BY <1>7, <2>1, StepsType DEF IncrementSeq, Step
  <2>3. storing'.on = storing.on /\ pending = FALSE
    BY <2>1, <2>2 DEF TypeOK, Publications, Published, Scheduling
  <2> QED
    BY <1>1, <2>1, <2>2, <2>3 DEF Published
<1>8. CASE FutexWake
  <2>1. storing # NULL /\ storing.steps \in Remaining /\ Head(storing.steps) = "wake"
    BY <1>8 DEF FutexWake, Step, Publishing
  <2>2. /\ storing' = NULL /\ todo' = [todo EXCEPT ![storing.on] = NULL]
        /\ UNCHANGED <<device, status, pending, slots>>
    BY <1>8, <2>1, StepsType DEF FutexWake, Step
  <2>3. storing.on \in Devices /\ pending = FALSE
    BY <2>1 DEF TypeOK, Publications, Published, Scheduling
  <2>4. slots[storing.on] = todo[storing.on] /\ todo[storing.on] # NULL
    BY <2>1, <2>3 DEF Published, Publishing
  <2> QED
    BY <1>1, <2>2, <2>3, <2>4 DEF Published, TypeOK
<1>9. CASE \E q \in Queues : Application(q) \/ Worker(q) \/ Interrupted(q)
  BY <1>2, <1>9, ClientSteps DEF server
<1>10. CASE Open \/ UNCHANGED vars
  BY <1>2, <1>10 DEF Open, server, vars
<1> QED
  BY <1>3, <1>4, <1>5, <1>6, <1>7, <1>8, <1>9, <1>10 DEF Next, Reschedule

LEMMA InitGateInv == Init => GateInv
<1> SUFFICES ASSUME Init PROVE GateInv
  OBVIOUS
<1>1. SleepInv
  BY InitSleepInv
<1>2. Informed
  BY DEF Init, Informed, EventsTell, EventsRate, StartsAnew, HintsLast, Ready
<1>3. Published
  <2>1. \A d \in Devices : ReadyOn(d) = {}
    BY DEF Init, ReadyOn
  <2> QED
    BY <2>1 DEF Init, Published
<1> QED
  BY <1>1, <1>2, <1>3 DEF GateInv

LEMMA GateStep == GateInv /\ [Next]_vars => GateInv'
BY SleepStep, EventsStep, PublishedStep DEF GateInv

\* When all is published, the gate is where the queues have it.
LEMMA GateIsAtHighest == GateInv => GateFollowsQueues
<1> SUFFICES ASSUME GateInv, Quiet, NEW q \in Queues, Ready(q), slots[device[q]] # NULL
             PROVE  /\ Settled(q) => prio[q] <= slots[device[q]]
                    /\ \E r \in Queues :
                         device[r] = device[q] /\ Ready(r) /\ (Settled(r) => prio[r] = slots[device[q]])
  BY DEF GateFollowsQueues
<1> USE DEF GateInv, SleepInv, Informed
<1> DEFINE d == device[q]
<1>1. d \in Devices
  BY DEF TypeOK
<1>2. \A r \in Queues : (status[r].ready <=> Ready(r)) /\ (Settled(r) => status[r].prio = prio[r])
  BY DEF Quiet, EventsTell, EventsRate, Silent
<1>3. q \in ReadyOn(d)
  BY <1>2 DEF ReadyOn
<1>4. slots[d] = status[Highest(d)].prio
  BY <1>1, <1>3 DEF Quiet, Scheduling, Published
<1>5. Highest(d) \in ReadyOn(d) /\ status[q].prio <= status[Highest(d)].prio
  BY <1>1, <1>3, HighestIsReady DEF ReadyOn
<1> QED
  BY <1>2, <1>4, <1>5 DEF ReadyOn

\* When the scheduler has handled the events there are, the gate of a device
\* with a slot and ready queues is at the highest of their priorities, as the
\* queues have them (xsched.patch, HpfShmPolicy::Sched), but for queues whose
\* hints are under way or were sent in another order than they were set, for any
\* queues, devices, threads and events under way.
THEOREM GateFollows == Spec => []GateFollowsQueues
BY InitGateInv, GateStep, GateIsAtHighest, PTL DEF Spec
=============================================================================
