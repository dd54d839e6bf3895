----------------------------- MODULE EventTable -----------------------------
(***************************************************************************)
(* The event contexts of one thread (event_map, the array build) and the   *)
(* choice a scheduling tick makes among them.                              *)
(*                                                                         *)
(* Three actors meet here.  The program attaches and detaches contexts,    *)
(* store by store and in no critical section.  A tick (handle_tick, in a   *)
(* signal handler) interrupts it between two stores and scans the table;   *)
(* the program stands still meanwhile.  The daemon sets and clears event   *)
(* bits in shared memory at any time, between two tests of a scan too.     *)
(*                                                                         *)
(* A demand is what one attach stores: policy, aux and level together.  A  *)
(* word of an entry is the demand it was stored from.                      *)
(***************************************************************************)
EXTENDS Integers, Sequences, FiniteSets

CONSTANTS
  Events,     \* indices robflex_get_event_idx gives to known names
  NONE,       \* ROBFLEX_EVENT_NONE, the index it gives to any other
  Demands,    \* demands the program attaches
  LevelOf,    \* the level argument of each, a uint32_t
  Slots,      \* ROBFLEX_MAX_LOCAL_EVENT_CTX
  Width,      \* of the level, in bits
  OwnLevels,  \* levels of the contexts the program switches loc_ctx between
  None        \* no demand; no call

\* robflex_event_table_attach and _detach, and what they are given
Calls == [op : {"attach", "detach"}, event : Events, demand : Demands \cup {None}]

ASSUME TableAssumption ==
  /\ NONE \notin Events
  /\ Slots \in Nat /\ Width \in Nat \ {0}
  /\ LevelOf \in [Demands -> Nat]
  /\ \A d \in Demands : LevelOf[d] < 2 ^ Width
  /\ OwnLevels \subseteq Int
  /\ None \notin Demands /\ None \notin Calls

VARIABLES
  entries,   \* event_map.entries
  count,     \* event_map.count
  own,       \* loc_ctx.level
  bits,      \* event_bits: the indices set
  call,      \* the attach or detach under way, or None
  slot,      \* the entry it works on
  todo,      \* the words it has yet to store
  failed,    \* the last call, "attach" or "detach", if it returned -1, or None
  scan,      \* the scan of a tick, or None
  steady,    \* history: the bits set ever since the scan began
  seen       \* history: the bits set at some time since then

vars == <<entries, count, own, bits, call, slot, todo, failed, scan, steady, seen>>

Index == 1 .. Slots
DemandWords == {"policy", "aux", "level"}
Free == [in_use |-> FALSE, event_idx |-> NONE, policy |-> None, aux |-> None, level |-> None]

\* (int)level
Signed(level) == IF level >= 2 ^ (Width - 1) THEN level - 2 ^ Width ELSE level
Level(d) == IF d = None THEN 0 ELSE Signed(LevelOf[d])

-----------------------------------------------------------------------------
\* event_map is zeroed and initialised before the counter is opened.
Init ==
  /\ entries = [i \in Index |-> Free] /\ count = 0
  /\ own = 0 /\ bits = {}
  /\ call = None /\ slot = 0 /\ todo = <<>> /\ failed = None
  /\ scan = None /\ steady = {} /\ seen = {}

\* Mutant: the last entry is not looked at.
FindInAllButLast(e) == {i \in Index \ {Slots} : entries[i].in_use /\ entries[i].event_idx = e}

\* robflex_event_table_find_entry
Find(e) == {i \in Index : entries[i].in_use /\ entries[i].event_idx = e}

\* The stores that fill a free entry, in order.
FillWords == <<"in_use", "event_idx", "policy", "aux", "level", "count">>

\* Mutant: in_use is left alone.
FreeWordsInUse == <<"event_idx", "count">>

\* The stores that free an entry, in order.
FreeWords == <<"in_use", "event_idx", "count">>

Begin(c, i, words) ==
  /\ call' = c /\ slot' = i /\ todo' = words /\ failed' = None
  /\ UNCHANGED <<entries, count, own, bits, scan, steady, seen>>

Refuse(op) ==
  /\ failed' = op
  /\ UNCHANGED <<entries, count, own, bits, call, slot, todo, scan, steady, seen>>

Idle == call = None /\ scan = None

\* robflex_attach_context_for_event of a known event.
Attach(e, d) ==
  LET unused == {i \in Index : ~entries[i].in_use}
      c      == [op |-> "attach", event |-> e, demand |-> d]
  IN  /\ Idle
      /\ \/ \E i \in Find(e) :
              /\ \A j \in Find(e) : i <= j
              /\ Begin(c, i, <<"policy", "aux", "level">>)
         \/ \E i \in unused :
              /\ Find(e) = {} /\ \A j \in unused : i <= j
              /\ Begin(c, i, FillWords)
         \/ Find(e) = {} /\ unused = {} /\ Refuse("attach")

\* robflex_dettach_context_for_event of a known event.
Detach(e) ==
  /\ Idle
  /\ \/ \E i \in Find(e) :
          /\ \A j \in Find(e) : i <= j
          /\ Begin([op |-> "detach", event |-> e, demand |-> None], i, FreeWords)
     \/ Find(e) = {} /\ Refuse("detach")

\* Mutant: event and context swapped.
StoredSwapped(w) ==
  CASE w = "in_use"     -> call.op = "attach"
    [] w = "event_idx"  -> call.demand
    [] w \in DemandWords -> call.event

\* The call gives the word `w` of its entry this value.
Stored(w) ==
  CASE w = "in_use"    -> call.op = "attach"
    [] w = "event_idx" -> IF call.op = "attach" THEN call.event ELSE NONE
    [] w \in DemandWords -> call.demand

\* One store of the call.
Store ==
  /\ call # None /\ scan = None /\ todo # <<>>
  /\ \/ /\ Head(todo) = "count"
        /\ count' = IF call.op = "attach" THEN count + 1
                    ELSE IF count > 0 THEN count - 1 ELSE count
        /\ UNCHANGED entries
     \/ /\ Head(todo) # "count"
        /\ entries' = [entries EXCEPT ![slot][Head(todo)] = Stored(Head(todo))]
        /\ UNCHANGED count
  /\ todo' = Tail(todo)
  /\ UNCHANGED <<own, bits, call, slot, failed, scan, steady, seen>>

Return ==
  /\ call # None /\ scan = None /\ todo = <<>>
  /\ call' = None /\ slot' = 0
  /\ UNCHANGED <<entries, count, own, bits, todo, failed, scan, steady, seen>>

\* robflex_switch_context to a context of another level.
SwitchContext(level) ==
  /\ Idle
  /\ own' = level
  /\ UNCHANGED <<entries, count, bits, call, slot, todo, failed, scan, steady, seen>>

-----------------------------------------------------------------------------
\* The daemon applies or cancels an event; NONE is the index it gives to a name
\* it does not know.
SetBits(new) ==
  /\ bits' = new
  /\ steady' = steady \cap new
  /\ seen' = IF scan = None THEN seen ELSE seen \cup new
  /\ UNCHANGED <<entries, count, own, call, slot, todo, failed, scan>>
ApplyEvent(e)  == e \notin bits /\ SetBits(bits \cup {e})
CancelEvent(e) == e \in bits /\ SetBits(bits \ {e})

-----------------------------------------------------------------------------
\* A tick begins with the thread's own context (entry 0).
TickBegin ==
  /\ scan = None
  /\ scan' = [next |-> 1, highest |-> own, chosen |-> 0]
  /\ steady' = bits /\ seen' = bits
  /\ UNCHANGED <<entries, count, own, bits, call, slot, todo, failed>>

\* Mutant: the level found is not kept.
ReplacesIgnoringLevel(entry) == Level(entry.level) > own

\* The context of `entry`, whose event is on, replaces the one chosen so far.
Replaces(entry) == Level(entry.level) > scan.highest

\* One entry of the scan.
TickTest ==
  /\ scan # None /\ scan.next <= Slots
  /\ LET i == scan.next
         on == entries[i].in_use /\ entries[i].event_idx \in bits
     IN  scan' = IF on /\ Replaces(entries[i])
                 THEN [next |-> i + 1, highest |-> Level(entries[i].level), chosen |-> i]
                 ELSE [scan EXCEPT !.next = i + 1]
  /\ UNCHANGED <<entries, count, own, bits, call, slot, todo, failed, steady, seen>>

\* The tick is handled in the context chosen, and returns.  What it writes
\* there, the balance or the cycles of `aux` (TickPacing and LatencyTick have
\* them), leaves the demand the entry was attached with: that is all a word
\* stands for here.
TickEnd ==
  /\ scan # None /\ scan.next = Slots + 1
  /\ scan' = None /\ steady' = {} /\ seen' = {}
  /\ UNCHANGED <<entries, count, own, bits, call, slot, todo, failed>>

Next ==
  \/ \E e \in Events : Detach(e) \/ \E d \in Demands : Attach(e, d)
  \/ Store \/ Return
  \/ \E level \in OwnLevels : SwitchContext(level)
  \/ \E e \in Events \cup {NONE} : ApplyEvent(e) \/ CancelEvent(e)
  \/ TickBegin \/ TickTest \/ TickEnd

Spec == Init /\ [][Next]_vars

-----------------------------------------------------------------------------
Entry == [in_use : BOOLEAN, event_idx : Events \cup {NONE},
          policy : Demands \cup {None}, aux : Demands \cup {None}, level : Demands \cup {None}]

\* The variables keep their types.
TypeOK ==
  /\ entries \in [Index -> Entry] /\ count \in Nat
  /\ own \in Int /\ bits \subseteq Events \cup {NONE}
  /\ call \in Calls \cup {None} /\ slot \in 0 .. Slots
  /\ todo \in Seq(DemandWords \cup {"in_use", "event_idx", "count"})
  /\ failed \in {"attach", "detach", None}
  /\ scan \in [next : 1 .. Slots + 1, highest : Int, chosen : 0 .. Slots] \cup {None}
  /\ steady \subseteq bits /\ seen \subseteq Events \cup {NONE}

Settled == {i \in Index \ {slot} : entries[i].in_use}

\* Whatever was attached and detached, and wherever a call is, an event has one
\* entry at most (a second one would outlive its detach), an entry that no call
\* is writing has an event and a demand stored by one attach, and
\* `count`, never above the entries there are, counts those in use between calls.
TableIsSound ==
  /\ \A i, j \in Index :
       entries[i].in_use /\ entries[j].in_use /\ entries[i].event_idx = entries[j].event_idx
         => i = j \/ entries[i].event_idx = NONE
  /\ \A i \in Settled :
       /\ entries[i].event_idx # NONE /\ entries[i].policy # None
       /\ entries[i].policy = entries[i].aux /\ entries[i].aux = entries[i].level
  /\ call = None => count = Cardinality(Settled)
  /\ count <= Slots

\* The choice of a tick, at its end: whichever events the daemon applied and
\* cancelled during the scan and whatever call the tick interrupted, it is the
\* thread's own context or one of a higher level whose event was on at some time
\* during the scan (not before or after), and no entry whose event was on
\* throughout has a higher level.  The entry being written is the exception.
TickPicksHighest ==
  scan # None /\ scan.next = Slots + 1 =>
    /\ \A i \in Settled :
         entries[i].event_idx \in steady => Level(entries[i].level) <= scan.highest
    /\ scan.chosen = 0 => scan.highest = own
    /\ scan.chosen \in Settled =>
         /\ entries[scan.chosen].event_idx \in seen
         /\ scan.highest = Level(entries[scan.chosen].level) /\ scan.highest > own

\* The table implements EventMap: a call takes effect as a whole, when it begins.
DemandOf(e) ==
  IF call # None /\ call.event = e THEN call.demand
  ELSE IF Find(e) = {} THEN None ELSE entries[CHOOSE i \in Find(e) : TRUE].policy
Map == INSTANCE EventMap
  WITH Capacity <- Slots, map <- [e \in Events |-> DemandOf(e)]
ImplementsEventMap == Map!MapSpec
=============================================================================
