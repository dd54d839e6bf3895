-------------------------- MODULE EventTableProofs --------------------------
(* The event contexts, for any table, any events and any levels: what a tick *)
(* chooses among them, that the table is sound, and that it is a map.        *)
EXTENDS EventTable, SequenceTheorems, FiniteSetTheorems, TLAPS

Words == DemandWords \cup {"in_use", "event_idx", "count"}

LEMMA LevelType == ASSUME NEW d \in Demands \cup {None} PROVE Level(d) \in Int
<1>1. CASE d = None BY <1>1 DEF Level
<1>2. CASE d \in Demands
  <2>1. LevelOf[d] \in Nat BY <1>2, TableAssumption
  <2>2. 2 ^ Width \in Int /\ 2 ^ (Width - 1) \in Int
    BY TableAssumption
  <2>3. QED BY <1>2, <2>1, <2>2, TableAssumption DEF Level, Signed
<1>3. QED BY <1>1, <1>2

LEMMA InitTable == Init => TypeOK
  BY TableAssumption DEF Init, TypeOK, Index, Free, Entry

(* A call begins with at most these words to store.                          *)
LEMMA WordsType ==
  /\ <<"policy", "aux", "level">> \in Seq(Words)
  /\ FillWords \in Seq(Words) /\ FreeWords \in Seq(Words)
  BY DEF Words, DemandWords, FillWords, FreeWords

LEMMA StoreType == TypeOK /\ Store => TypeOK'
<1> SUFFICES ASSUME TypeOK, Store PROVE TypeOK'
  OBVIOUS
<1>1. /\ Head(todo) \in Words /\ Tail(todo) \in Seq(Words)
  <2>1. todo \in Seq(Words) /\ todo # <<>> BY DEF TypeOK, Store, Words
  <2>2. QED BY <2>1
<1>2. call \in Calls BY DEF Store, TypeOK
<1>6. ASSUME entries' \in [Index -> Entry], count' \in Nat PROVE TypeOK'
  <2>1. todo' \in Seq(Words) BY <1>1 DEF Store
  <2>2. QED BY <1>6, <2>1 DEF Store, TypeOK, Words
<1>7. count \in Nat BY DEF TypeOK
<1>3. CASE Head(todo) = "count"
  <2>1. count' \in Nat /\ entries' = entries BY <1>3 DEF Store, TypeOK
  <2>2. QED BY <1>6, <2>1 DEF TypeOK
<1>4. CASE Head(todo) # "count"
  <2>1. entries' = [entries EXCEPT ![slot][Head(todo)] = Stored(Head(todo))] /\ count' = count
    BY <1>4 DEF Store
  <2>2. CASE Head(todo) = "in_use"
    <3>1. Stored(Head(todo)) \in BOOLEAN BY <2>2 DEF Stored, DemandWords
    <3>2. entries' \in [Index -> Entry] BY <2>1, <2>2, <3>1 DEF TypeOK, Entry
    <3>3. QED BY <1>6, <1>7, <2>1, <3>2
  <2>3. CASE Head(todo) = "event_idx"
    <3>1. Stored(Head(todo)) \in Events \cup {NONE} BY <1>2, <2>3 DEF Stored, Calls, DemandWords
    <3>2. entries' \in [Index -> Entry] BY <2>1, <2>3, <3>1 DEF TypeOK, Entry
    <3>3. QED BY <1>6, <1>7, <2>1, <3>2
  <2>4. CASE Head(todo) \in DemandWords
    <3>1. Stored(Head(todo)) \in Demands \cup {None}
      BY <1>2, <2>4 DEF Stored, Calls, DemandWords
    <3>2. ASSUME NEW e \in Entry, NEW f \in DemandWords, NEW d \in Demands \cup {None}
          PROVE  [e EXCEPT ![f] = d] \in Entry
      <4>1. CASE f = "policy" BY <4>1 DEF Entry
      <4>2. CASE f = "aux" BY <4>2 DEF Entry
      <4>3. CASE f = "level" BY <4>3 DEF Entry
      <4>4. QED BY <4>1, <4>2, <4>3 DEF DemandWords
    <3>3. ASSUME NEW i \in Index PROVE [entries[i] EXCEPT ![Head(todo)] = Stored(Head(todo))] \in Entry
      <4>1. entries[i] \in Entry BY DEF TypeOK
      <4>2. QED BY <2>4, <3>1, <3>2, <4>1
    <3>4. entries' \in [Index -> Entry]
      <4>1. entries \in [Index -> Entry] BY DEF TypeOK
      <4>2. QED BY <2>1, <3>3, <4>1
    <3>5. QED BY <1>6, <1>7, <2>1, <3>4
  <2>5. QED BY <1>1, <1>4, <2>2, <2>3, <2>4 DEF Words
<1>5. QED BY <1>3, <1>4

LEMMA ScanType == TypeOK /\ (TickBegin \/ TickTest \/ TickEnd) => TypeOK'
<1> SUFFICES ASSUME TypeOK, TickBegin \/ TickTest \/ TickEnd PROVE TypeOK'
  OBVIOUS
<1>1. CASE TickBegin
  BY <1>1, TableAssumption DEF TickBegin, TypeOK
<1>2. CASE TickTest
  <2>1. /\ scan \in [next : 1 .. Slots + 1, highest : Int, chosen : 0 .. Slots]
        /\ scan.next \in 1 .. Slots
    BY <1>2, TableAssumption DEF TickTest, TypeOK
  <2>2. Level(entries[scan.next].level) \in Int
    BY <2>1, LevelType DEF TypeOK, Index, Entry
  <2>3. \/ scan' = [next |-> scan.next + 1, highest |-> Level(entries[scan.next].level),
                    chosen |-> scan.next]
        \/ scan' = [scan EXCEPT !.next = scan.next + 1]
    BY <1>2 DEF TickTest
  <2>4. scan' \in [next : 1 .. Slots + 1, highest : Int, chosen : 0 .. Slots]
    BY <2>1, <2>2, <2>3, TableAssumption
  <2>5. QED BY <1>2, <2>4 DEF TickTest, TypeOK
<1>3. CASE TickEnd BY <1>3 DEF TickEnd, TypeOK
<1>4. QED BY <1>1, <1>2, <1>3

LEMMA NextTable == TypeOK /\ [Next]_vars => TypeOK'
<1> SUFFICES ASSUME TypeOK, [Next]_vars PROVE TypeOK'
  OBVIOUS
<1>1. ASSUME NEW e \in Events, Detach(e) PROVE TypeOK'
  <2>1. CASE Refuse("detach") BY <2>1 DEF Refuse, TypeOK
  <2>2. ASSUME NEW i \in Find(e),
               Begin([op |-> "detach", event |-> e, demand |-> None], i, FreeWords)
        PROVE  TypeOK'
    <3>1. i \in Index BY DEF Find
    <3>2. [op |-> "detach", event |-> e, demand |-> None] \in Calls BY DEF Calls
    <3>3. QED BY <2>2, <3>1, <3>2, WordsType, TableAssumption DEF Begin, TypeOK, Index, Words
  <2>3. QED BY <1>1, <2>1, <2>2 DEF Detach
<1>2. ASSUME NEW e \in Events, NEW d \in Demands, Attach(e, d) PROVE TypeOK'
  <2> DEFINE c == [op |-> "attach", event |-> e, demand |-> d]
  <2>1. c \in Calls BY DEF Calls
  <2>2. CASE Refuse("attach") BY <2>2 DEF Refuse, TypeOK
  <2>3. ASSUME NEW i \in Index, NEW words \in Seq(Words), Begin(c, i, words) PROVE TypeOK'
    BY <2>1, <2>3, TableAssumption DEF Begin, TypeOK, Index, Words
  <2>4. \/ Refuse("attach")
        \/ \E i \in Index : Begin(c, i, FillWords) \/ Begin(c, i, <<"policy", "aux", "level">>)
    BY <1>2 DEF Attach, Find
  <2> HIDE DEF c
  <2>5. QED BY <2>2, <2>3, <2>4, WordsType
<1>3. CASE Store BY <1>3, StoreType
<1>4. CASE Return
  <2>1. call' \in Calls \cup {None} /\ slot' \in 0 .. Slots
    BY <1>4, TableAssumption DEF Return
  <2>2. QED BY <1>4, <2>1 DEF Return, TypeOK
<1>5. ASSUME NEW level \in OwnLevels, SwitchContext(level) PROVE TypeOK'
  <2>1. own' \in Int BY <1>5, TableAssumption DEF SwitchContext
  <2>2. QED BY <1>5, <2>1 DEF SwitchContext, TypeOK
<1>6. ASSUME NEW e \in Events \cup {NONE}, ApplyEvent(e) \/ CancelEvent(e) PROVE TypeOK'
  BY <1>6 DEF ApplyEvent, CancelEvent, SetBits, TypeOK
<1>7. CASE TickBegin \/ TickTest \/ TickEnd BY <1>7, ScanType
<1>8. CASE UNCHANGED vars BY <1>8 DEF vars, TypeOK
<1>9. QED BY <1>1, <1>2, <1>3, <1>4, <1>5, <1>6, <1>7, <1>8 DEF Next

(* The table, the calls and the scan keep their types, whatever interrupts   *)
(* what.                                                                     *)
THEOREM TableTypeCorrect == Spec => []TypeOK
  BY InitTable, NextTable, PTL DEF Spec

-----------------------------------------------------------------------------
(* What a scan has found among the entries it has tested.                    *)
ScanInv ==
  scan # None =>
    /\ bits \subseteq seen /\ scan.highest >= own
    /\ \A i \in Settled :
         i < scan.next /\ entries[i].event_idx \in steady
           => Level(entries[i].level) <= scan.highest
    /\ scan.chosen = 0 => scan.highest = own
    /\ scan.chosen \in Settled =>
         /\ entries[scan.chosen].event_idx \in seen
         /\ scan.highest = Level(entries[scan.chosen].level) /\ scan.highest > own

LEMMA TestKeepsScanInv == TypeOK /\ ScanInv /\ TickTest => ScanInv'
<1> SUFFICES ASSUME TypeOK, ScanInv, TickTest PROVE ScanInv'
  OBVIOUS
<1> DEFINE at == scan.next
           level == Level(entries[at].level)
           on == entries[at].in_use /\ entries[at].event_idx \in bits
<1>1. /\ scan # None /\ at \in 1 .. Slots /\ at \in Index /\ Slots \in Nat
      /\ scan.highest \in Int /\ own \in Int /\ level \in Int
      /\ scan \in [next : 1 .. Slots + 1, highest : Int, chosen : 0 .. Slots]
  <2>1. /\ scan # None
        /\ scan \in [next : 1 .. Slots + 1, highest : Int, chosen : 0 .. Slots]
        /\ at \in 1 .. Slots
    BY TableAssumption DEF TickTest, TypeOK
  <2>2. entries[at].level \in Demands \cup {None} BY <2>1 DEF TypeOK, Index, Entry
  <2>3. QED BY <2>1, <2>2, LevelType, TableAssumption DEF TypeOK, Index
<1>2. UNCHANGED <<entries, own, bits, slot, steady, seen>> /\ Settled' = Settled
  BY DEF TickTest, Settled
<1>3. \A i \in Settled : i \in Index /\ entries[i].in_use /\ Level(entries[i].level) \in Int
  BY LevelType DEF Settled, TypeOK, Entry
<1>4. steady \subseteq bits BY DEF TypeOK
<1>5. CASE on /\ level > scan.highest
  <2>1. scan' = [next |-> at + 1, highest |-> level, chosen |-> at]
    BY <1>5 DEF TickTest, Replaces
  <2>2. scan'.next = at + 1 /\ scan'.highest = level /\ scan'.chosen = at BY <2>1
  <2>3. ASSUME NEW i \in Settled, i < at + 1, entries[i].event_idx \in steady
        PROVE  Level(entries[i].level) <= level
    <3>1. CASE i = at BY <1>1, <3>1
    <3>2. CASE i < at BY <1>1, <1>3, <1>5, <2>3, <3>2 DEF ScanInv
    <3>3. QED BY <1>1, <1>3, <2>3, <3>1, <3>2 DEF Index
  <2>4. bits \subseteq seen /\ level >= own /\ level > own /\ entries[at].event_idx \in seen
    BY <1>1, <1>5 DEF ScanInv
  <2>5. at # 0 BY <1>1
  <2> HIDE DEF at, level, on
  <2>6. QED BY <1>2, <2>2, <2>3, <2>4, <2>5 DEF ScanInv, level
<1>6. CASE ~(on /\ level > scan.highest)
  <2>1. scan' = [scan EXCEPT !.next = at + 1]
    BY <1>6 DEF TickTest, Replaces
  <2>2. scan'.next = at + 1 /\ scan'.highest = scan.highest /\ scan'.chosen = scan.chosen
    BY <1>1, <2>1
  <2>3. ASSUME NEW i \in Settled, i < at + 1, entries[i].event_idx \in steady
        PROVE  Level(entries[i].level) <= scan.highest
    <3>1. CASE i = at BY <1>1, <1>3, <1>4, <1>6, <2>3, <3>1
    <3>2. CASE i < at BY <1>1, <2>3, <3>2 DEF ScanInv
    <3>3. QED BY <1>1, <1>3, <2>3, <3>1, <3>2 DEF Index
  <2> HIDE DEF at, level, on
  <2>4. QED BY <1>1, <1>2, <2>2, <2>3 DEF ScanInv
<1>7. QED BY <1>5, <1>6

LEMMA NextScan == TypeOK /\ ScanInv /\ [Next]_vars => ScanInv'
<1> SUFFICES ASSUME TypeOK, ScanInv, [Next]_vars PROVE ScanInv'
  OBVIOUS
<1>1. CASE scan = None /\ scan' = None BY <1>1 DEF ScanInv
<1>2. CASE TickBegin
  <2>1. /\ scan' = [next |-> 1, highest |-> own, chosen |-> 0]
        /\ seen' = bits /\ UNCHANGED <<entries, own, bits, slot>>
    BY <1>2 DEF TickBegin
  <2>2. \A i \in Settled' : ~(i < 1) BY DEF Settled, Index
  <2>3. 0 \notin Settled' BY DEF Settled, Index
  <2>4. own \in Int BY DEF TypeOK
  <2>5. QED BY <2>1, <2>2, <2>3, <2>4 DEF ScanInv
<1>3. CASE TickTest BY <1>3, TestKeepsScanInv
<1>4. CASE TickEnd BY <1>4 DEF TickEnd, ScanInv
<1>5. ASSUME NEW new, SetBits(new), scan # None PROVE ScanInv'
  <2>1. /\ UNCHANGED <<entries, own, slot, scan>> /\ Settled' = Settled
        /\ bits' = new /\ steady' \subseteq steady /\ seen' = seen \cup new
    BY <1>5 DEF SetBits, Settled
  <2>2. QED BY <1>5, <2>1 DEF ScanInv
<1>6. CASE UNCHANGED vars
  <2>1. Settled' = Settled BY <1>6 DEF vars, Settled
  <2>2. QED BY <1>6, <2>1 DEF vars, ScanInv
<1>7. CASE scan # None /\ (Store \/ Return \/ (\E e \in Events : Detach(e))
              \/ (\E level \in OwnLevels : SwitchContext(level))
              \/ (\E e \in Events, d \in Demands : Attach(e, d)))
  BY <1>7 DEF Store, Return, Detach, SwitchContext, Attach, Idle
<1>8. CASE scan = None /\ (Store \/ Return \/ (\E e \in Events : Detach(e))
              \/ (\E level \in OwnLevels : SwitchContext(level))
              \/ (\E e \in Events, d \in Demands : Attach(e, d))
              \/ (\E e \in Events \cup {NONE} : ApplyEvent(e) \/ CancelEvent(e)))
  <2>1. scan' = None
    BY <1>8 DEF Store, Return, Detach, SwitchContext, Attach, Begin, Refuse,
                ApplyEvent, CancelEvent, SetBits
  <2>2. QED BY <1>8, <2>1 DEF ScanInv
<1>9. QED
  BY <1>2, <1>3, <1>4, <1>5, <1>6, <1>7, <1>8 DEF Next, ApplyEvent, CancelEvent

(* However the daemon changes the events during a scan, and whatever call    *)
(* the tick interrupts, no settled context whose event stays on outranks the *)
(* one the tick chooses, and that one's event was on.                        *)
THEOREM TickChoosesHighest == Spec => []TickPicksHighest
<1>1. Init => ScanInv BY DEF Init, ScanInv
<1>2. TypeOK /\ ScanInv => TickPicksHighest
  <2> SUFFICES ASSUME TypeOK, ScanInv, scan # None, scan.next = Slots + 1
               PROVE  TickPicksHighest
    BY DEF TickPicksHighest
  <2>1. \A i \in Settled : i < scan.next BY TableAssumption DEF Settled, Index
  <2>2. QED BY <2>1 DEF ScanInv, TickPicksHighest
<1>3. QED BY <1>1, <1>2, InitTable, NextTable, NextScan, PTL DEF Spec
-----------------------------------------------------------------------------
(* The words a call has yet to store, and what the others have made of its entry.   *)
Left(words) == {words[k] : k \in DOMAIN words}

AttachTodos ==
  {FillWords,
   <<"event_idx", "policy", "aux", "level", "count">>,
   <<"policy", "aux", "level", "count">>, <<"aux", "level", "count">>,
   <<"level", "count">>, <<"count">>,
   <<"policy", "aux", "level">>, <<"aux", "level">>, <<"level">>, <<>>}
DetachTodos == {FreeWords, <<"event_idx", "count">>, <<"count">>, <<>>}

AttachInHand ==
  /\ call.demand \in Demands /\ todo \in AttachTodos
  /\ entries[slot].in_use <=> "in_use" \notin Left(todo)
  /\ entries[slot].event_idx = IF "event_idx" \in Left(todo) THEN NONE ELSE call.event
  /\ "policy" \notin Left(todo) => entries[slot].policy = call.demand
  /\ "aux" \notin Left(todo) => entries[slot].aux = call.demand
  /\ "level" \notin Left(todo) => entries[slot].level = call.demand

DetachInHand ==
  /\ call.demand = None /\ todo \in DetachTodos
  /\ entries[slot].in_use <=> "in_use" \in Left(todo)
  /\ entries[slot].event_idx = IF "event_idx" \in Left(todo) THEN call.event ELSE NONE

\* The entry of a call, which no other entry shares the event with.
InHand ==
  IF call = None THEN slot = 0
  ELSE /\ slot \in Index
       /\ call.op = "attach" => AttachInHand
       /\ call.op = "detach" => DetachInHand
       /\ \A i \in Settled : entries[i].event_idx # call.event

\* The other entries: whole, of different events, and marked when free.
Whole(i) ==
  /\ entries[i].event_idx # NONE /\ entries[i].policy # None
  /\ entries[i].policy = entries[i].aux /\ entries[i].aux = entries[i].level
Others ==
  /\ \A i \in Settled : Whole(i)
  /\ \A i, j \in Settled : entries[i].event_idx = entries[j].event_idx => i = j
  /\ \A i \in Index \ {slot} : ~ entries[i].in_use => entries[i].event_idx = NONE

\* `count` has, or has not yet, been brought up to the entry in hand.
InHandCounts ==
  /\ call # None
  /\ call.op = "attach" => "count" \notin Left(todo)
  /\ call.op = "detach" => "count" \in Left(todo)
Counted == count = Cardinality(Settled) + (IF InHandCounts THEN 1 ELSE 0)

SoundInv == InHand /\ Others /\ Counted

\* A store takes a word off those left.
LEMMA LeftOf ==
  /\ Left(<<"in_use", "event_idx", "policy", "aux", "level", "count">>) = {"in_use", "event_idx", "policy", "aux", "level", "count"}
  /\ Left(<<"event_idx", "policy", "aux", "level", "count">>) = {"event_idx", "policy", "aux", "level", "count"}
  /\ Left(<<"policy", "aux", "level", "count">>) = {"policy", "aux", "level", "count"}
  /\ Left(<<"aux", "level", "count">>) = {"aux", "level", "count"}
  /\ Left(<<"level", "count">>) = {"level", "count"}
  /\ Left(<<"count">>) = {"count"}
  /\ Left(<<"policy", "aux", "level">>) = {"policy", "aux", "level"}
  /\ Left(<<"aux", "level">>) = {"aux", "level"}
  /\ Left(<<"level">>) = {"level"}
  /\ Left(<<>>) = {}
  /\ Left(<<"in_use", "event_idx", "count">>) = {"in_use", "event_idx", "count"}
  /\ Left(<<"event_idx", "count">>) = {"event_idx", "count"}
<1>1. Left(<<"in_use", "event_idx", "policy", "aux", "level", "count">>) = {"in_use", "event_idx", "policy", "aux", "level", "count"}
  <2>1. DOMAIN <<"in_use", "event_idx", "policy", "aux", "level", "count">> = {1, 2, 3, 4, 5, 6}
    OBVIOUS
  <2> QED
    BY <2>1 DEF Left
<1>2. Left(<<"event_idx", "policy", "aux", "level", "count">>) = {"event_idx", "policy", "aux", "level", "count"}
  <2>1. DOMAIN <<"event_idx", "policy", "aux", "level", "count">> = {1, 2, 3, 4, 5}
    OBVIOUS
  <2> QED
    BY <2>1 DEF Left
<1>3. Left(<<"policy", "aux", "level", "count">>) = {"policy", "aux", "level", "count"}
  <2>1. DOMAIN <<"policy", "aux", "level", "count">> = {1, 2, 3, 4}
    OBVIOUS
  <2> QED
    BY <2>1 DEF Left
<1>4. Left(<<"aux", "level", "count">>) = {"aux", "level", "count"}
  <2>1. DOMAIN <<"aux", "level", "count">> = {1, 2, 3}
    OBVIOUS
  <2> QED
    BY <2>1 DEF Left
<1>5. Left(<<"level", "count">>) = {"level", "count"}
  <2>1. DOMAIN <<"level", "count">> = {1, 2}
    OBVIOUS
  <2> QED
    BY <2>1 DEF Left
<1>6. Left(<<"count">>) = {"count"}
  <2>1. DOMAIN <<"count">> = {1}
    OBVIOUS
  <2> QED
    BY <2>1 DEF Left
<1>7. Left(<<"policy", "aux", "level">>) = {"policy", "aux", "level"}
  <2>1. DOMAIN <<"policy", "aux", "level">> = {1, 2, 3}
    OBVIOUS
  <2> QED
    BY <2>1 DEF Left
<1>8. Left(<<"aux", "level">>) = {"aux", "level"}
  <2>1. DOMAIN <<"aux", "level">> = {1, 2}
    OBVIOUS
  <2> QED
    BY <2>1 DEF Left
<1>9. Left(<<"level">>) = {"level"}
  <2>1. DOMAIN <<"level">> = {1}
    OBVIOUS
  <2> QED
    BY <2>1 DEF Left
<1>10. Left(<<>>) = {}
  BY DEF Left
<1>11. Left(<<"in_use", "event_idx", "count">>) = {"in_use", "event_idx", "count"}
  <2>1. DOMAIN <<"in_use", "event_idx", "count">> = {1, 2, 3}
    OBVIOUS
  <2> QED
    BY <2>1 DEF Left
<1>12. Left(<<"event_idx", "count">>) = {"event_idx", "count"}
  <2>1. DOMAIN <<"event_idx", "count">> = {1, 2}
    OBVIOUS
  <2> QED
    BY <2>1 DEF Left
<1> QED
  BY <1>1, <1>2, <1>3, <1>4, <1>5, <1>6, <1>7, <1>8, <1>9, <1>10, <1>11, <1>12

LEMMA LeftShrinks ==
  ASSUME NEW S \in {AttachTodos, DetachTodos}, NEW t \in S, t # <<>>
  PROVE  /\ Tail(t) \in S /\ Head(t) \in Left(t) /\ Head(t) \in Words
         /\ Left(Tail(t)) = Left(t) \ {Head(t)}
<1>1. ASSUME t = <<"in_use", "event_idx", "policy", "aux", "level", "count">>
      PROVE  /\ Head(t) \in Left(t) /\ Head(t) \in Words /\ Left(Tail(t)) = Left(t) \ {Head(t)}
             /\ Tail(t) \in AttachTodos
  <2>1. Head(t) = "in_use" /\ Tail(t) = <<"event_idx", "policy", "aux", "level", "count">>
    BY <1>1
  <2>2. Left(t) = {"in_use", "event_idx", "policy", "aux", "level", "count"} /\ Left(Tail(t)) = {"event_idx", "policy", "aux", "level", "count"}
    BY <1>1, <2>1, LeftOf
  <2> QED
    BY <2>1, <2>2 DEF Words, DemandWords, AttachTodos, DetachTodos
<1>2. ASSUME t = <<"event_idx", "policy", "aux", "level", "count">>
      PROVE  /\ Head(t) \in Left(t) /\ Head(t) \in Words /\ Left(Tail(t)) = Left(t) \ {Head(t)}
             /\ Tail(t) \in AttachTodos
  <2>1. Head(t) = "event_idx" /\ Tail(t) = <<"policy", "aux", "level", "count">>
    BY <1>2
  <2>2. Left(t) = {"event_idx", "policy", "aux", "level", "count"} /\ Left(Tail(t)) = {"policy", "aux", "level", "count"}
    BY <1>2, <2>1, LeftOf
  <2> QED
    BY <2>1, <2>2 DEF Words, DemandWords, AttachTodos, DetachTodos
<1>3. ASSUME t = <<"policy", "aux", "level", "count">>
      PROVE  /\ Head(t) \in Left(t) /\ Head(t) \in Words /\ Left(Tail(t)) = Left(t) \ {Head(t)}
             /\ Tail(t) \in AttachTodos
  <2>1. Head(t) = "policy" /\ Tail(t) = <<"aux", "level", "count">>
    BY <1>3
  <2>2. Left(t) = {"policy", "aux", "level", "count"} /\ Left(Tail(t)) = {"aux", "level", "count"}
    BY <1>3, <2>1, LeftOf
  <2> QED
    BY <2>1, <2>2 DEF Words, DemandWords, AttachTodos, DetachTodos
<1>4. ASSUME t = <<"aux", "level", "count">>
      PROVE  /\ Head(t) \in Left(t) /\ Head(t) \in Words /\ Left(Tail(t)) = Left(t) \ {Head(t)}
             /\ Tail(t) \in AttachTodos
  <2>1. Head(t) = "aux" /\ Tail(t) = <<"level", "count">>
    BY <1>4
  <2>2. Left(t) = {"aux", "level", "count"} /\ Left(Tail(t)) = {"level", "count"}
    BY <1>4, <2>1, LeftOf
  <2> QED
    BY <2>1, <2>2 DEF Words, DemandWords, AttachTodos, DetachTodos
<1>5. ASSUME t = <<"level", "count">>
      PROVE  /\ Head(t) \in Left(t) /\ Head(t) \in Words /\ Left(Tail(t)) = Left(t) \ {Head(t)}
             /\ Tail(t) \in AttachTodos
  <2>1. Head(t) = "level" /\ Tail(t) = <<"count">>
    BY <1>5
  <2>2. Left(t) = {"level", "count"} /\ Left(Tail(t)) = {"count"}
    BY <1>5, <2>1, LeftOf
  <2> QED
    BY <2>1, <2>2 DEF Words, DemandWords, AttachTodos, DetachTodos
<1>6. ASSUME t = <<"count">>
      PROVE  /\ Head(t) \in Left(t) /\ Head(t) \in Words /\ Left(Tail(t)) = Left(t) \ {Head(t)}
             /\ Tail(t) \in AttachTodos /\ Tail(t) \in DetachTodos
  <2>1. Head(t) = "count" /\ Tail(t) = <<>>
    BY <1>6
  <2>2. Left(t) = {"count"} /\ Left(Tail(t)) = {}
    BY <1>6, <2>1, LeftOf
  <2> QED
    BY <2>1, <2>2 DEF Words, DemandWords, AttachTodos, DetachTodos
<1>7. ASSUME t = <<"policy", "aux", "level">>
      PROVE  /\ Head(t) \in Left(t) /\ Head(t) \in Words /\ Left(Tail(t)) = Left(t) \ {Head(t)}
             /\ Tail(t) \in AttachTodos
  <2>1. Head(t) = "policy" /\ Tail(t) = <<"aux", "level">>
    BY <1>7
  <2>2. Left(t) = {"policy", "aux", "level"} /\ Left(Tail(t)) = {"aux", "level"}
    BY <1>7, <2>1, LeftOf
  <2> QED
    BY <2>1, <2>2 DEF Words, DemandWords, AttachTodos, DetachTodos
<1>8. ASSUME t = <<"aux", "level">>
      PROVE  /\ Head(t) \in Left(t) /\ Head(t) \in Words /\ Left(Tail(t)) = Left(t) \ {Head(t)}
             /\ Tail(t) \in AttachTodos
  <2>1. Head(t) = "aux" /\ Tail(t) = <<"level">>
    BY <1>8
  <2>2. Left(t) = {"aux", "level"} /\ Left(Tail(t)) = {"level"}
    BY <1>8, <2>1, LeftOf
  <2> QED
    BY <2>1, <2>2 DEF Words, DemandWords, AttachTodos, DetachTodos
<1>9. ASSUME t = <<"level">>
      PROVE  /\ Head(t) \in Left(t) /\ Head(t) \in Words /\ Left(Tail(t)) = Left(t) \ {Head(t)}
             /\ Tail(t) \in AttachTodos
  <2>1. Head(t) = "level" /\ Tail(t) = <<>>
    BY <1>9
  <2>2. Left(t) = {"level"} /\ Left(Tail(t)) = {}
    BY <1>9, <2>1, LeftOf
  <2> QED
    BY <2>1, <2>2 DEF Words, DemandWords, AttachTodos, DetachTodos
<1>10. ASSUME t = <<"in_use", "event_idx", "count">>
      PROVE  /\ Head(t) \in Left(t) /\ Head(t) \in Words /\ Left(Tail(t)) = Left(t) \ {Head(t)}
             /\ Tail(t) \in DetachTodos
  <2>1. Head(t) = "in_use" /\ Tail(t) = <<"event_idx", "count">>
    BY <1>10
  <2>2. Left(t) = {"in_use", "event_idx", "count"} /\ Left(Tail(t)) = {"event_idx", "count"}
    BY <1>10, <2>1, LeftOf
  <2> QED
    BY <2>1, <2>2 DEF Words, DemandWords, AttachTodos, DetachTodos
<1>11. ASSUME t = <<"event_idx", "count">>
      PROVE  /\ Head(t) \in Left(t) /\ Head(t) \in Words /\ Left(Tail(t)) = Left(t) \ {Head(t)}
             /\ Tail(t) \in DetachTodos
  <2>1. Head(t) = "event_idx" /\ Tail(t) = <<"count">>
    BY <1>11
  <2>2. Left(t) = {"event_idx", "count"} /\ Left(Tail(t)) = {"count"}
    BY <1>11, <2>1, LeftOf
  <2> QED
    BY <2>1, <2>2 DEF Words, DemandWords, AttachTodos, DetachTodos
<1>12. CASE S = AttachTodos
  BY <1>12, <1>1, <1>2, <1>3, <1>4, <1>5, <1>6, <1>7, <1>8, <1>9 DEF AttachTodos, FillWords
<1>13. CASE S = DetachTodos
  BY <1>13, <1>6, <1>10, <1>11 DEF DetachTodos, FreeWords
<1> QED
  BY <1>12, <1>13

LEMMA SettledType ==
  ASSUME TypeOK
  PROVE  /\ Index = 1 .. Slots /\ IsFiniteSet(Index) /\ Cardinality(Index) = Slots
         /\ IsFiniteSet(Settled) /\ Settled \subseteq Index /\ slot \notin Settled
         /\ Cardinality(Settled) \in Nat /\ Cardinality(Settled) <= Slots
         /\ slot \in Index => Cardinality(Settled) + 1 <= Slots
<1>1. IsFiniteSet(Index) /\ Cardinality(Index) = Slots
  BY TableAssumption, FS_Interval DEF Index
<1>2. Settled \subseteq Index /\ slot \notin Settled
  BY DEF Settled
<1>3. IsFiniteSet(Settled) /\ Cardinality(Settled) \in Nat /\ Cardinality(Settled) <= Slots
  BY <1>1, <1>2, FS_Subset, FS_CardinalityType
<1>4. ASSUME slot \in Index PROVE Cardinality(Settled) + 1 <= Slots
  <2>1. Cardinality(Settled \cup {slot}) = Cardinality(Settled) + 1
    BY <1>2, <1>3, FS_AddElement
  <2>2. Cardinality(Settled \cup {slot}) <= Cardinality(Index)
    BY <1>1, <1>2, <1>4, FS_Subset
  <2> QED
    BY <1>1, <2>1, <2>2
<1> QED
  BY <1>1, <1>2, <1>3, <1>4 DEF Index

\* A call takes the entry `i` in hand.
LEMMA BeginSound ==
  ASSUME TypeOK, SoundInv, call = None, NEW i \in Index, NEW c \in Calls, NEW words, Begin(c, i, words),
         \A j \in Index : entries[j].in_use /\ entries[j].event_idx = c.event => j = i,
         \/ c.op = "attach" /\ c.demand \in Demands /\ entries[i].in_use
              /\ entries[i].event_idx = c.event /\ words = <<"policy", "aux", "level">>
         \/ c.op = "attach" /\ c.demand \in Demands /\ ~ entries[i].in_use /\ words = FillWords
         \/ c.op = "detach" /\ c.demand = None /\ entries[i].in_use
              /\ entries[i].event_idx = c.event /\ words = FreeWords
  PROVE  SoundInv'
<1>1. /\ slot = 0 /\ slot \notin Index /\ count = Cardinality(Settled)
      /\ slot' = i /\ call' = c /\ todo' = words /\ UNCHANGED <<entries, count>>
      /\ c # None
  <2>1. slot = 0 /\ 0 \notin Index
    BY DEF SoundInv, InHand, Index
  <2>2. count = Cardinality(Settled)
    BY SettledType DEF SoundInv, Counted, InHandCounts
  <2>3. c # None
    BY TableAssumption DEF Calls
  <2> QED
    BY <2>1, <2>2, <2>3 DEF Begin
<1>2. Settled' = {j \in Index : j # i /\ entries[j].in_use} /\ Settled = {j \in Index : entries[j].in_use}
  BY <1>1 DEF Settled
<1>3. Settled' = Settled \ {i} /\ (i \in Settled <=> entries[i].in_use)
  BY <1>2
<1>4. Others'
  BY <1>1, <1>3 DEF SoundInv, Others, Whole
<1>5. \A j \in Settled' : entries'[j].event_idx # call'.event
  BY <1>1, <1>2
<1>6. /\ Left(<<"policy", "aux", "level">>) = {"policy", "aux", "level"}
      /\ Left(FillWords) = {"in_use", "event_idx", "policy", "aux", "level", "count"}
      /\ Left(FreeWords) = {"in_use", "event_idx", "count"}
      /\ FillWords \in AttachTodos /\ FreeWords \in DetachTodos
      /\ <<"policy", "aux", "level">> \in AttachTodos
  BY LeftOf DEF FillWords, FreeWords, AttachTodos, DetachTodos
<1>7. /\ entries'[slot'] = entries[i]
      /\ ~ entries[i].in_use => entries[i].event_idx = NONE
  BY <1>1 DEF SoundInv, Others
<1>8. InHand'
  <2>1. c.op = "attach" => AttachInHand'
    BY <1>1, <1>6, <1>7 DEF AttachInHand
  <2>2. c.op = "detach" => DetachInHand'
    BY <1>1, <1>6, <1>7 DEF DetachInHand
  <2> QED
    BY <1>1, <1>5, <2>1, <2>2 DEF InHand
<1>9. Counted'
  <2>1. CASE entries[i].in_use
    <3>1. Cardinality(Settled') = Cardinality(Settled) - 1
      BY <1>3, <2>1, SettledType, FS_RemoveElement
    <3>2. InHandCounts'
      BY <1>1, <1>6, <2>1 DEF InHandCounts
    <3> QED
      BY <1>1, <3>1, <3>2, SettledType DEF Counted
  <2>2. CASE ~ entries[i].in_use
    <3>1. Settled' = Settled
      BY <1>3, <2>2
    <3>2. ~ InHandCounts'
      BY <1>1, <1>6, <2>2 DEF InHandCounts
    <3> QED
      BY <1>1, <3>1, <3>2, SettledType DEF Counted
  <2> QED
    BY <2>1, <2>2
<1> QED
  BY <1>4, <1>8, <1>9 DEF SoundInv

\* One store, of whatever word is next.
LEMMA StoreSound == TypeOK /\ SoundInv /\ Store => SoundInv'
<1> SUFFICES ASSUME TypeOK, SoundInv, Store PROVE SoundInv'
  OBVIOUS
<1> DEFINE w == Head(todo)
<1>1. /\ call # None /\ call \in Calls /\ slot \in Index /\ todo # <<>>
      /\ call' = call /\ slot' = slot /\ todo' = Tail(todo)
      /\ \A i \in Settled : entries[i].event_idx # call.event
  BY DEF Store, TypeOK, SoundInv, InHand
<1>2. /\ call.op = "attach" => AttachInHand
      /\ call.op = "detach" => DetachInHand
      /\ call.op \in {"attach", "detach"}
  BY <1>1 DEF SoundInv, InHand, Calls
<1>3. /\ call.op = "attach" => todo' \in AttachTodos
      /\ call.op = "detach" => todo' \in DetachTodos
      /\ w \in Left(todo) /\ w \in Words /\ Left(todo') = Left(todo) \ {w}
  BY <1>1, <1>2, LeftShrinks DEF AttachInHand, DetachInHand
<1> HIDE DEF w
<1>4. CASE w = "count"
  <2>1. entries' = entries /\ count' = IF call.op = "attach" THEN count + 1
                                       ELSE IF count > 0 THEN count - 1 ELSE count
    BY <1>4 DEF Store, w
  <2>2. Settled' = Settled
    BY <1>1, <2>1 DEF Settled
  <2>3. Others'
    BY <1>1, <2>1, <2>2 DEF SoundInv, Others, Whole
  <2>4. InHand'
    <3>1. call.op = "attach" => AttachInHand'
      BY <1>1, <1>2, <1>3, <1>4, <2>1 DEF AttachInHand
    <3>2. call.op = "detach" => DetachInHand'
      BY <1>1, <1>2, <1>3, <1>4, <2>1 DEF DetachInHand
    <3> QED
      BY <1>1, <2>1, <2>2, <3>1, <3>2 DEF InHand
  <2>5. Counted'
    <3>1. CASE call.op = "attach"
      <4>1. ~ InHandCounts /\ InHandCounts'
        BY <1>1, <1>3, <1>4, <3>1 DEF InHandCounts
      <4> QED
        BY <2>1, <2>2, <3>1, <4>1, SettledType DEF SoundInv, Counted
    <3>2. CASE call.op = "detach"
      <4>1. InHandCounts /\ ~ InHandCounts'
        BY <1>1, <1>3, <1>4, <3>2 DEF InHandCounts
      <4> QED
        BY <2>1, <2>2, <3>2, <4>1, SettledType DEF SoundInv, Counted
    <3> QED
      BY <1>2, <3>1, <3>2
  <2> QED
    BY <2>3, <2>4, <2>5 DEF SoundInv
<1>5. CASE w # "count"
  <2>1. entries' = [entries EXCEPT ![slot][w] = Stored(w)] /\ count' = count
    BY <1>5 DEF Store, w
  <2>2. entries \in [Index -> Entry]
    BY DEF TypeOK
  <2>3. \A i \in Index \ {slot} : entries'[i] = entries[i]
    BY <2>1, <2>2
  <2>4. Settled' = Settled
    BY <1>1, <2>3 DEF Settled
  <2>5. Others'
    <3>1. \A i \in Settled : i \in Index \ {slot}
      BY DEF Settled
    <3> QED
      BY <1>1, <2>3, <2>4, <3>1 DEF SoundInv, Others, Whole
  <2>6. \A i \in Settled' : entries'[i].event_idx # call'.event
    BY <1>1, <2>3, <2>4 DEF Settled
  <2>7. Counted'
    <3>1. InHandCounts' <=> InHandCounts
      BY <1>1, <1>3, <1>5 DEF InHandCounts
    <3> QED
      BY <2>1, <2>4, <3>1 DEF SoundInv, Counted
  <2>8. entries'[slot] = [entries[slot] EXCEPT ![w] = Stored(w)] /\ entries[slot] \in Entry
    BY <1>1, <2>1, <2>2
  <2>9. InHand'
    <3>1. CASE w = "in_use"
      <4> DEFINE v == (call.op = "attach")
      <4>1. Stored(w) = v
        BY <3>1 DEF Stored, DemandWords
      <4> HIDE DEF v
      <4>2. /\ entries'[slot].in_use = v
            /\ entries'[slot].event_idx = entries[slot].event_idx
            /\ entries'[slot].policy = entries[slot].policy
            /\ entries'[slot].aux = entries[slot].aux /\ entries'[slot].level = entries[slot].level
        BY <2>8, <3>1, <4>1 DEF Entry
      <4>3. /\ entries'[slot].in_use = (call.op = "attach")
            /\ entries'[slot].event_idx = entries[slot].event_idx
            /\ entries'[slot].policy = entries[slot].policy
            /\ entries'[slot].aux = entries[slot].aux /\ entries'[slot].level = entries[slot].level
        BY <4>2 DEF v
      <4>4. call.op = "attach" => AttachInHand'
        BY <1>1, <1>2, <1>3, <3>1, <4>3 DEF AttachInHand
      <4>5. call.op = "detach" => DetachInHand'
        BY <1>1, <1>2, <1>3, <3>1, <4>3 DEF DetachInHand
      <4> QED
        BY <1>1, <2>6, <4>4, <4>5 DEF InHand
    <3>2. CASE w = "event_idx"
      <4>1. /\ entries'[slot].event_idx = IF call.op = "attach" THEN call.event ELSE NONE
            /\ entries'[slot].in_use = entries[slot].in_use
            /\ entries'[slot].policy = entries[slot].policy
            /\ entries'[slot].aux = entries[slot].aux /\ entries'[slot].level = entries[slot].level
        <5>1. Stored(w) = IF call.op = "attach" THEN call.event ELSE NONE
          BY <3>2 DEF Stored, DemandWords
        <5> QED
          BY <2>8, <3>2, <5>1 DEF Entry
      <4>2. call.op = "attach" => AttachInHand'
        BY <1>1, <1>2, <1>3, <3>2, <4>1 DEF AttachInHand
      <4>3. call.op = "detach" => DetachInHand'
        BY <1>1, <1>2, <1>3, <3>2, <4>1 DEF DetachInHand
      <4> QED
        BY <1>1, <2>6, <4>2, <4>3 DEF InHand
    <3>3. CASE w \in DemandWords
      <4>1. Stored(w) = call.demand
        BY <3>3 DEF Stored, DemandWords
      <4>2. /\ entries'[slot].event_idx = entries[slot].event_idx
            /\ entries'[slot].in_use = entries[slot].in_use
            /\ entries'[slot].policy = IF w = "policy" THEN call.demand ELSE entries[slot].policy
            /\ entries'[slot].aux = IF w = "aux" THEN call.demand ELSE entries[slot].aux
            /\ entries'[slot].level = IF w = "level" THEN call.demand ELSE entries[slot].level
        <5>1. CASE w = "policy" BY <2>8, <4>1, <5>1 DEF Entry
        <5>2. CASE w = "aux" BY <2>8, <4>1, <5>2 DEF Entry
        <5>3. CASE w = "level" BY <2>8, <4>1, <5>3 DEF Entry
        <5> QED BY <3>3, <5>1, <5>2, <5>3 DEF DemandWords
      <4>3. call.op = "attach" => AttachInHand'
        BY <1>1, <1>2, <1>3, <3>3, <4>2 DEF AttachInHand, DemandWords
      <4>4. call.op = "detach" => DetachInHand'
        BY <1>1, <1>2, <1>3, <3>3, <4>2 DEF DetachInHand, DemandWords
      <4> QED
        BY <1>1, <2>6, <4>3, <4>4 DEF InHand
    <3> QED
      BY <1>3, <1>5, <3>1, <3>2, <3>3 DEF Words
  <2> QED
    BY <2>5, <2>7, <2>9 DEF SoundInv
<1> QED
  BY <1>4, <1>5

\* A call gives its entry back.
LEMMA ReturnSound == TypeOK /\ SoundInv /\ Return => SoundInv'
<1> SUFFICES ASSUME TypeOK, SoundInv, Return PROVE SoundInv'
  OBVIOUS
<1>1. /\ call # None /\ call \in Calls /\ todo = <<>> /\ slot \in Index
      /\ call' = None /\ slot' = 0 /\ UNCHANGED <<entries, count, todo>>
      /\ \A i \in Settled : entries[i].event_idx # call.event
      /\ Left(todo) = {} /\ 0 \notin Index
  BY LeftOf DEF Return, TypeOK, SoundInv, InHand, Index
<1>2. Settled' = {j \in Index : entries[j].in_use} /\ Settled = {j \in Index : j # slot /\ entries[j].in_use}
  BY <1>1 DEF Settled
<1>3. InHand'
  BY <1>1 DEF InHand
<1>4. CASE call.op = "attach"
  <2>1. AttachInHand
    BY <1>1, <1>4 DEF SoundInv, InHand
  <2>2. /\ entries[slot].in_use /\ entries[slot].event_idx = call.event
        /\ entries[slot].policy = call.demand /\ entries[slot].aux = call.demand
        /\ entries[slot].level = call.demand /\ call.demand # None /\ call.event # NONE
    BY <1>1, <2>1, TableAssumption DEF AttachInHand, Calls
  <2>3. Settled' = Settled \cup {slot}
    BY <1>1, <1>2, <2>2
  <2>4. Others'
    <3>1. \A i \in Settled' : Whole(i)'
      BY <1>1, <2>2, <2>3 DEF SoundInv, Others, Whole
    <3>2. \A i, j \in Settled' : entries'[i].event_idx = entries'[j].event_idx => i = j
      BY <1>1, <2>2, <2>3 DEF SoundInv, Others
    <3>3. \A i \in Index : ~ entries'[i].in_use => entries'[i].event_idx = NONE
      BY <1>1, <2>2 DEF SoundInv, Others
    <3> QED
      BY <3>1, <3>2, <3>3 DEF Others
  <2>5. Cardinality(Settled') = Cardinality(Settled) + 1
    BY <2>3, SettledType, FS_AddElement
  <2>6. InHandCounts /\ ~ InHandCounts'
    BY <1>1, <1>4 DEF InHandCounts
  <2>7. Counted'
    BY <1>1, <2>5, <2>6, SettledType DEF SoundInv, Counted
  <2> QED
    BY <1>3, <2>4, <2>7 DEF SoundInv
<1>5. CASE call.op = "detach"
  <2>1. DetachInHand
    BY <1>1, <1>5 DEF SoundInv, InHand
  <2>2. ~ entries[slot].in_use /\ entries[slot].event_idx = NONE
    BY <1>1, <2>1 DEF DetachInHand
  <2>3. Settled' = Settled
    BY <1>1, <1>2, <2>2
  <2>4. Others'
    BY <1>1, <2>2, <2>3 DEF SoundInv, Others, Whole
  <2>5. ~ InHandCounts /\ ~ InHandCounts'
    BY <1>1, <1>5 DEF InHandCounts
  <2>6. Counted'
    BY <1>1, <2>3, <2>5 DEF SoundInv, Counted
  <2> QED
    BY <1>3, <2>4, <2>6 DEF SoundInv
<1> QED
  BY <1>1, <1>4, <1>5 DEF Calls

LEMMA NextSound == TypeOK /\ SoundInv /\ [Next]_vars => SoundInv'
<1> SUFFICES ASSUME TypeOK, SoundInv, [Next]_vars PROVE SoundInv'
  OBVIOUS
<1>1. CASE UNCHANGED <<entries, count, call, slot, todo>>
  <2>1. Settled' = Settled
    BY <1>1 DEF Settled
  <2> QED
    BY <1>1, <2>1
       DEF SoundInv, InHand, AttachInHand, DetachInHand, Others, Whole, Counted, InHandCounts
<1>2. ASSUME Idle, NEW e \in Events, NEW i \in Find(e)
      PROVE  \A j \in Index : entries[j].in_use /\ entries[j].event_idx = e => j = i
  <2>1. slot \notin Index
    BY <1>2 DEF Idle, SoundInv, InHand, Index
  <2> QED
    BY <1>2, <2>1 DEF Find, SoundInv, Others, Settled
<1>3. ASSUME NEW e \in Events, NEW d \in Demands, Attach(e, d) PROVE SoundInv'
  <2> DEFINE c == [op |-> "attach", event |-> e, demand |-> d]
  <2>1. c \in Calls /\ c.op = "attach" /\ c.event = e /\ c.demand = d
    BY DEF Calls
  <2>2. Idle /\ call = None
    BY <1>3 DEF Attach, Idle
  <2>3. ASSUME NEW i \in Find(e), Begin(c, i, <<"policy", "aux", "level">>) PROVE SoundInv'
    <3>1. i \in Index /\ entries[i].in_use /\ entries[i].event_idx = e
      BY DEF Find
    <3> HIDE DEF c
    <3> QED
      BY <1>2, <2>1, <2>2, <2>3, <3>1, BeginSound
  <2>4. ASSUME NEW i \in Index, ~ entries[i].in_use, Find(e) = {}, Begin(c, i, FillWords) PROVE SoundInv'
    <3>1. \A j \in Index : entries[j].in_use /\ entries[j].event_idx = e => j = i
      BY <2>4 DEF Find
    <3> HIDE DEF c
    <3> QED
      BY <2>1, <2>2, <2>4, <3>1, BeginSound
  <2>5. CASE Refuse("attach")
    BY <1>1, <2>5 DEF Refuse
  <2> QED
    BY <1>3, <2>3, <2>4, <2>5 DEF Attach
<1>4. ASSUME NEW e \in Events, Detach(e) PROVE SoundInv'
  <2> DEFINE c == [op |-> "detach", event |-> e, demand |-> None]
  <2>1. c \in Calls /\ c.op = "detach" /\ c.event = e /\ c.demand = None
    BY DEF Calls
  <2>2. Idle /\ call = None
    BY <1>4 DEF Detach, Idle
  <2>3. ASSUME NEW i \in Find(e), Begin(c, i, FreeWords) PROVE SoundInv'
    <3>1. i \in Index /\ entries[i].in_use /\ entries[i].event_idx = e
      BY DEF Find
    <3> HIDE DEF c
    <3> QED
      BY <1>2, <2>1, <2>2, <2>3, <3>1, BeginSound
  <2>4. CASE Refuse("detach")
    BY <1>1, <2>4 DEF Refuse
  <2> QED
    BY <1>4, <2>3, <2>4 DEF Detach
<1>5. CASE (\E level \in OwnLevels : SwitchContext(level)) \/ TickBegin \/ TickTest \/ TickEnd \/ UNCHANGED vars
  BY <1>1, <1>5 DEF SwitchContext, TickBegin, TickTest, TickEnd, vars
<1>6. ASSUME NEW e \in Events \cup {NONE}, ApplyEvent(e) \/ CancelEvent(e) PROVE SoundInv'
  BY <1>1, <1>6 DEF ApplyEvent, CancelEvent, SetBits
<1> QED
  BY <1>3, <1>4, <1>5, <1>6, StoreSound, ReturnSound DEF Next

LEMMA InitSound == Init => SoundInv
<1> SUFFICES ASSUME Init PROVE SoundInv
  OBVIOUS
<1>1. Settled = {}
  BY DEF Init, Settled, Free
<1>2. Cardinality(Settled) = 0
  BY <1>1, FS_EmptySet
<1> QED
  BY <1>1, <1>2 DEF Init, SoundInv, InHand, Others, Counted, InHandCounts, Free

LEMMA TableSound == TypeOK /\ SoundInv => TableIsSound
<1> SUFFICES ASSUME TypeOK, SoundInv PROVE TableIsSound
  OBVIOUS
<1>1. ASSUME NEW i \in Index, NEW j \in Index, entries[i].in_use, entries[j].in_use,
             entries[i].event_idx = entries[j].event_idx
      PROVE  i = j \/ entries[i].event_idx = NONE
  <2>1. CASE i # slot /\ j # slot
    BY <1>1, <2>1 DEF SoundInv, Others, Settled
  <2>2. slot \in Index => entries[slot].event_idx \in {call.event, NONE}
    BY DEF SoundInv, InHand, AttachInHand, DetachInHand, TypeOK, Calls, Index
  <2>3. slot \in Index => \A k \in Settled : entries[k].event_idx \notin {call.event, NONE}
    BY DEF SoundInv, InHand, Others, Whole, Index
  <2> QED
    BY <1>1, <2>1, <2>2, <2>3 DEF Settled
<1>2. call = None => count = Cardinality(Settled)
  BY SettledType DEF SoundInv, Counted, InHandCounts
<1>3. count <= Slots
  <2>1. InHandCounts => slot \in Index
    BY DEF InHandCounts, SoundInv, InHand
  <2> QED
    BY <2>1, SettledType, TableAssumption DEF SoundInv, Counted
<1> QED
  BY <1>1, <1>2, <1>3 DEF TableIsSound, SoundInv, Others, Whole

\* Whatever is attached and detached, store by store (robflex_def.h,
\* robflex_event_table_*), an event has one entry at most, the entries no call is
\* writing are whole, and count counts them: for any table, events and demands.
THEOREM TableStaysSound == Spec => []TableIsSound
BY InitTable, NextTable, InitSound, NextSound, TableSound, PTL DEF Spec

-----------------------------------------------------------------------------
(* The table implements the map *)

\* An event no call is working on has one entry, with a demand, or none.
LEMMA FindOne ==
  ASSUME TypeOK, SoundInv, NEW e \in Events, call = None \/ call.event # e, NEW i \in Find(e)
  PROVE  i \in Settled /\ Find(e) = {i} /\ entries[i].policy \in Demands
<1>1. slot \in Index => entries[slot].event_idx # e
  BY TableAssumption DEF SoundInv, InHand, AttachInHand, DetachInHand, TypeOK, Calls, Index
<1>2. Find(e) \subseteq Settled
  BY <1>1 DEF Find, Settled
<1>3. entries[i].policy # None /\ entries[i].policy \in Demands \cup {None}
  BY <1>2 DEF SoundInv, Others, Whole, TypeOK, Entry, Find
<1> QED
  BY <1>2, <1>3 DEF Find, SoundInv, Others

LEMMA Single == ASSUME NEW S, NEW i, S = {i} PROVE (CHOOSE j \in S : TRUE) = i
OBVIOUS

\* Its demand is that of its entry.
LEMMA DemandFound ==
  ASSUME TypeOK, SoundInv, NEW e \in Events, call = None \/ call.event # e
  PROVE  /\ Find(e) = {} => DemandOf(e) = None
         /\ \A i \in Find(e) : DemandOf(e) = entries[i].policy
<1>1. DemandOf(e) = IF Find(e) = {} THEN None ELSE entries[CHOOSE i \in Find(e) : TRUE].policy
  BY DEF DemandOf
<1>2. ASSUME NEW i \in Find(e) PROVE (CHOOSE j \in Find(e) : TRUE) = i
  BY <1>2, FindOne, Single
<1> QED
  BY <1>1, <1>2

\* The same in the next state.
LEMMA DemandKept ==
  ASSUME TypeOK, SoundInv, NEW e \in Events, call = None \/ call.event # e, call' = None \/ call'.event # e,
         Find(e)' = Find(e), \A i \in Find(e) : entries'[i].policy = entries[i].policy
  PROVE  DemandOf(e)' = DemandOf(e)
<1>1. DemandOf(e)' = IF Find(e) = {} THEN None ELSE entries'[CHOOSE i \in Find(e) : TRUE].policy
  BY DEF DemandOf
<1>2. ASSUME NEW i \in Find(e) PROVE (CHOOSE j \in Find(e) : TRUE) = i
  BY <1>2, FindOne, Single
<1> QED
  BY <1>1, <1>2, DemandFound

\* The map counts as the table does.
LEMMA SameCardinality == ASSUME NEW S PROVE Map!Cardinality(S) = Cardinality(S)
BY DEF Map!Cardinality, Cardinality

\* Between calls there is an entry in use for every event with a demand.
LEMMA AttachedCounted ==
  ASSUME TypeOK, SoundInv, call = None
  PROVE  /\ Map!Attached = {e \in Events : Find(e) # {}}
         /\ Cardinality(Map!Attached) = Cardinality(Settled)
         /\ Settled = {i \in Index : entries[i].in_use}
<1>1. Map!Attached = {e \in Events : Find(e) # {}}
  <2>1. \A e \in Events : Find(e) # {} <=> DemandOf(e) # None
    BY FindOne, DemandFound, TableAssumption
  <2> QED
    BY <2>1 DEF Map!Attached
<1>2. Settled = {i \in Index : entries[i].in_use}
  BY DEF SoundInv, InHand, Settled, Index
<1> DEFINE f == [i \in Settled |-> entries[i].event_idx]
<1>3. \A i \in Settled : entries[i].event_idx \in Events /\ i \in Find(entries[i].event_idx)
  BY <1>2 DEF SoundInv, Others, Whole, TypeOK, Entry, Find
<1>4. f \in Surjection(Settled, {e \in Events : Find(e) # {}})
  <2>1. f \in [Settled -> {e \in Events : Find(e) # {}}]
    BY <1>3
  <2>2. \A e \in {k \in Events : Find(k) # {}} : \E i \in Settled : f[i] = e
    BY <1>2 DEF Find
  <2> QED
    BY <2>1, <2>2 DEF Surjection
<1>5. f \in Injection(Settled, {e \in Events : Find(e) # {}})
  <2>1. \A i, j \in Settled : f[i] = f[j] => i = j
    BY DEF SoundInv, Others
  <2> QED
    BY <1>4, <2>1 DEF Surjection, Injection, IsInjective
<1>6. Cardinality({e \in Events : Find(e) # {}}) = Cardinality(Settled)
  BY <1>4, <1>5, SettledType, FS_Surjection
<1> QED
  BY <1>1, <1>2, <1>6

\* What a step leaves of the map, where the call goes on and the entries it is not
\* working on are left alone.
LEMMA StoreMaps == TypeOK /\ SoundInv /\ SoundInv' /\ TypeOK' /\ Store => UNCHANGED Map!mapVars
<1> SUFFICES ASSUME TypeOK, SoundInv, SoundInv', TypeOK', Store PROVE UNCHANGED Map!mapVars
  OBVIOUS
<1>1. /\ call # None /\ call \in Calls /\ call' = call /\ slot' = slot /\ slot \in Index /\ failed' = failed
      /\ entries \in [Index -> Entry]
  BY DEF Store, TypeOK, SoundInv, InHand
<1>2. \A i \in Index \ {slot} : entries'[i] = entries[i]
  BY <1>1 DEF Store
<1>3. entries[slot].event_idx \in {call.event, NONE} /\ entries'[slot].event_idx \in {call.event, NONE}
  BY <1>1 DEF SoundInv, InHand, AttachInHand, DetachInHand, Calls
<1>4. ASSUME NEW e \in Events PROVE DemandOf(e)' = DemandOf(e)
  <2>1. CASE e = call.event
    BY <1>1, <2>1 DEF DemandOf
  <2>2. CASE e # call.event
    <3>1. Find(e)' = Find(e) /\ slot \notin Find(e) /\ Find(e) \subseteq Index
      BY <1>1, <1>2, <1>3, <2>2, TableAssumption DEF Find
    <3> QED
      BY <1>1, <1>2, <2>2, <3>1, DemandKept
  <2> QED
    BY <2>1, <2>2
<1> QED
  BY <1>1, <1>4 DEF Map!mapVars

\* A call that returns has left in its entry what the map has had since it began.
LEMMA ReturnMaps == TypeOK /\ SoundInv /\ Return => UNCHANGED Map!mapVars
<1> SUFFICES ASSUME TypeOK, SoundInv, Return PROVE UNCHANGED Map!mapVars
  OBVIOUS
<1>1. /\ call # None /\ call \in Calls /\ todo = <<>> /\ slot \in Index /\ Left(todo) = {}
      /\ call' = None /\ entries' = entries /\ failed' = failed
      /\ \A i \in Settled : entries[i].event_idx # call.event
  BY LeftOf DEF Return, TypeOK, SoundInv, InHand
<1>2. ASSUME NEW e \in Events PROVE DemandOf(e)' = DemandOf(e)
  <2>0. Find(e)' = Find(e)
    BY <1>1 DEF Find
  <2>1. CASE e # call.event
    BY <1>1, <2>0, <2>1, DemandKept
  <2>2. CASE e = call.event /\ call.op = "attach"
    <3>1. entries[slot].in_use /\ entries[slot].event_idx = e /\ entries[slot].policy = call.demand
      BY <1>1, <2>2 DEF SoundInv, InHand, AttachInHand
    <3>2. Find(e) = {slot}
      BY <1>1, <2>2, <3>1 DEF Find, Settled
    <3>3. (CHOOSE i \in Find(e) : TRUE) = slot
      BY <3>2, Single
    <3>4. DemandOf(e)' = IF Find(e) = {} THEN None ELSE entries[CHOOSE i \in Find(e) : TRUE].policy
      BY <1>1, <2>0 DEF DemandOf
    <3>5. DemandOf(e) = call.demand
      BY <1>1, <2>2 DEF DemandOf
    <3> QED
      BY <3>1, <3>2, <3>3, <3>4, <3>5
  <2>3. CASE e = call.event /\ call.op = "detach"
    <3>1. ~ entries[slot].in_use /\ call.demand = None
      BY <1>1, <2>3 DEF SoundInv, InHand, DetachInHand
    <3>2. Find(e) = {}
      BY <1>1, <2>3, <3>1 DEF Find, Settled
    <3> QED
      BY <1>1, <2>0, <2>3, <3>1, <3>2 DEF DemandOf
  <2> QED
    BY <1>1, <2>1, <2>2, <2>3 DEF Calls
<1> QED
  BY <1>1, <1>2 DEF Map!mapVars

\* A call that begins does at once what the map is to do.
LEMMA BeginMaps ==
  ASSUME TypeOK, SoundInv, call = None, NEW c \in Calls, NEW i \in Index, NEW words, Begin(c, i, words)
  PROVE  /\ [e \in Events |-> DemandOf(e)]' = [[e \in Events |-> DemandOf(e)] EXCEPT ![c.event] = c.demand]
         /\ failed' = None
<1>1. call' = c /\ entries' = entries /\ failed' = None /\ c # None
  BY TableAssumption DEF Begin, Calls
<1>2. ASSUME NEW e \in Events PROVE DemandOf(e)' = IF e = c.event THEN c.demand ELSE DemandOf(e)
  <2>1. CASE e = c.event
    BY <1>1, <2>1 DEF DemandOf
  <2>2. CASE e # c.event
    <3>1. Find(e)' = Find(e)
      BY <1>1 DEF Find
    <3> QED
      BY <1>1, <2>2, <3>1, DemandKept
  <2> QED
    BY <2>1, <2>2
<1> QED
  BY <1>1, <1>2

LEMMA NextMaps ==
  TypeOK /\ SoundInv /\ TypeOK' /\ SoundInv' /\ [Next]_vars => [Map!MNext]_(Map!mapVars)
<1> SUFFICES ASSUME TypeOK, SoundInv, TypeOK', SoundInv', [Next]_vars PROVE [Map!MNext]_(Map!mapVars)
  OBVIOUS
<1> DEFINE map == [e \in Events |-> DemandOf(e)]
<1>1. CASE UNCHANGED <<entries, call, failed>>
  <2>1. map' = map
    BY <1>1 DEF DemandOf, Find
  <2> QED
    BY <1>1, <2>1 DEF Map!mapVars
<1>2. ASSUME NEW e \in Events, NEW d \in Demands, Attach(e, d) PROVE Map!MNext
  <2> DEFINE c == [op |-> "attach", event |-> e, demand |-> d]
  <2>1. c \in Calls /\ c.event = e /\ c.demand = d /\ call = None
    BY <1>2 DEF Calls, Attach, Idle
  <2>2. /\ Map!Attached = {k \in Events : Find(k) # {}} /\ Cardinality(Map!Attached) = Cardinality(Settled)
        /\ Settled = {i \in Index : entries[i].in_use}
    BY <2>1, AttachedCounted
  <2>3. ASSUME NEW i \in Index, NEW words, Begin(c, i, words), e \in Map!Attached \/ ~ entries[i].in_use
        PROVE  Map!MAttach(e, d)
    <3>1. e \in Map!Attached \/ Cardinality(Map!Attached) < Slots
      <4>1. CASE ~ entries[i].in_use
        <5>1. i \notin Settled
          BY <2>2, <4>1
        <5>2. Settled # Index
          BY <5>1
        <5>3. Cardinality(Settled) # Cardinality(Index)
          BY <5>2, SettledType, FS_Subset
        <5> QED
          BY <2>2, <5>3, SettledType, TableAssumption
      <4> QED
        BY <2>3, <4>1
    <3>2. map' = [map EXCEPT ![e] = d] /\ failed' = None
      <4> HIDE DEF c
      <4> QED
        BY <2>1, <2>3, BeginMaps
    <3> QED
      BY <3>1, <3>2, SameCardinality DEF Map!MAttach
  <2>4. CASE \E i \in Find(e) : Begin(c, i, <<"policy", "aux", "level">>)
    <3>1. PICK i \in Find(e) : Begin(c, i, <<"policy", "aux", "level">>)
      BY <2>4
    <3>2. e \in Map!Attached /\ i \in Index
      BY <2>2, <3>1 DEF Find
    <3> HIDE DEF c
    <3> QED
      BY <2>3, <3>1, <3>2 DEF Map!MNext
  <2>5. CASE \E i \in Index : ~ entries[i].in_use /\ Begin(c, i, FillWords)
    <3> HIDE DEF c
    <3> QED
      BY <2>3, <2>5 DEF Map!MNext
  <2>6. CASE Find(e) = {} /\ {i \in Index : ~ entries[i].in_use} = {} /\ Refuse("attach")
    <3>1. Settled = Index /\ e \notin Map!Attached
      BY <2>2, <2>6
    <3>2. Cardinality(Map!Attached) = Slots
      BY <2>2, <3>1, SettledType
    <3>3. map' = map /\ failed' = "attach"
      BY <2>6 DEF Refuse, DemandOf, Find
    <3> QED
      BY <3>1, <3>2, <3>3, SameCardinality DEF Map!MNext, Map!MAttach
  <2> QED
    BY <1>2, <2>4, <2>5, <2>6 DEF Attach
<1>3. ASSUME NEW e \in Events, Detach(e) PROVE Map!MNext
  <2> DEFINE c == [op |-> "detach", event |-> e, demand |-> None]
  <2>1. c \in Calls /\ c.event = e /\ c.demand = None /\ call = None
    BY <1>3 DEF Calls, Detach, Idle
  <2>2. Map!Attached = {k \in Events : Find(k) # {}}
    BY <2>1, AttachedCounted
  <2>3. CASE \E i \in Find(e) : Begin(c, i, FreeWords)
    <3>1. PICK i \in Find(e) : Begin(c, i, FreeWords)
      BY <2>3
    <3>2. e \in Map!Attached /\ i \in Index
      BY <2>2, <3>1 DEF Find
    <3>3. map' = [map EXCEPT ![e] = None] /\ failed' = None
      <4> HIDE DEF c
      <4> QED
        BY <2>1, <3>1, <3>2, BeginMaps
    <3> QED
      BY <3>2, <3>3 DEF Map!MNext, Map!MDetach
  <2>4. CASE Find(e) = {} /\ Refuse("detach")
    <3>1. map' = map /\ failed' = "detach"
      BY <2>4 DEF Refuse, DemandOf, Find
    <3> QED
      BY <2>2, <2>4, <3>1 DEF Map!MNext, Map!MDetach
  <2> QED
    BY <1>3, <2>3, <2>4 DEF Detach
<1>4. CASE (\E level \in OwnLevels : SwitchContext(level)) \/ TickBegin \/ TickTest \/ TickEnd \/ UNCHANGED vars
  BY <1>1, <1>4 DEF SwitchContext, TickBegin, TickTest, TickEnd, vars
<1>5. ASSUME NEW e \in Events \cup {NONE}, ApplyEvent(e) \/ CancelEvent(e) PROVE [Map!MNext]_(Map!mapVars)
  BY <1>1, <1>5 DEF ApplyEvent, CancelEvent, SetBits
<1> QED
  BY <1>2, <1>3, <1>4, <1>5, StoreMaps, ReturnMaps DEF Next

LEMMA InitMaps == Init => Map!MInit
<1> SUFFICES ASSUME Init PROVE Map!MInit
  OBVIOUS
<1>1. \A e \in Events : Find(e) = {}
  BY DEF Init, Find, Free
<1> QED
  BY <1>1 DEF Init, Map!MInit, DemandOf

\* The table implements a map of limited capacity (robflex_def.h,
\* robflex_event_table_*): a call takes effect as a whole, when it begins, and
\* returns -1 when the map says so, for any table, events and demands.
THEOREM TableImplementsMap == Spec => ImplementsEventMap
<1>1. Spec => [](TypeOK /\ SoundInv)
  BY InitTable, NextTable, InitSound, NextSound, PTL DEF Spec
<1> QED
  BY <1>1, InitMaps, NextMaps, PTL DEF Spec, ImplementsEventMap, Map!MapSpec
=============================================================================
