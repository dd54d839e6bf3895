------------------------ MODULE PythonBindingsProofs ------------------------
(***************************************************************************)
(* Theorems about PythonBindings, for any objects, events and demands: what *)
(* crosses between the two layouts of a context arrives.                   *)
(***************************************************************************)
EXTENDS PythonBindings, WellFoundedInduction, TLAPS

\* Objects, contexts and tables are functions, over the words of their layout.
Tables ==
  /\ heap = [x \in Objects |-> heap[x]] /\ given = [x \in Objects |-> given[x]]
  /\ table = [e \in Events |-> table[e]]

\* An object the library wrote last has kept the first words of the context.
ObjectsKept ==
  \A x \in Objects : heap[x] # NULL /\ given[x].by = "library" =>
    heap[x] = KeptByObject(given[x].context)

IInv == Tables /\ ObjectsKept

-----------------------------------------------------------------------------
\* Policy and union of the library lie within the words of the cdef, and what
\* an object keeps of a context it shows again.
LEMMA FirstWordsSurvive ==
  ASSUME NEW context, NEW w \in {LibPolicy} \cup LibAux
  PROVE  SeenByLib(KeptByObject(context))[w] = context[w]
<1>1. w \in LibWords /\ w \in CdefWords
  BY DEF LibPolicy, LibAux, LibUnion, LibWords, CdefWords, CdefUnion
<1>2. KeptByObject(context) = [v \in CdefWords |-> context[v]]
  BY DEF KeptByObject, Restrict
<1> QED
  BY <1>1, <1>2 DEF SeenByLib

LEMMA InitIInv == Init => IInv
BY DEF Init, IInv, Tables, ObjectsKept

\* Objects that are left alone.
LEMMA SameObjects ==
  ASSUME ObjectsKept, UNCHANGED <<heap, given>> PROVE ObjectsKept'
BY DEF ObjectsKept, KeptByObject, Restrict, CdefWords, CdefUnion

LEMMA AllocKeeps ==
  ASSUME IInv, NEW x \in Objects, Alloc(x) PROVE IInv'
<1> USE DEF IInv
<1>1. Tables'
  BY DEF Tables, Alloc
<1>2. ObjectsKept'
  <2> SUFFICES ASSUME NEW y \in Objects, heap'[y] # NULL, given'[y].by = "library"
               PROVE  heap'[y] = KeptByObject(given'[y].context)
    BY DEF ObjectsKept, KeptByObject, Restrict, CdefWords, CdefUnion
  <2>1. y # x
    BY DEF Alloc, Tables, ByProgram
  <2> QED
    BY <2>1 DEF Alloc, Tables, ObjectsKept
<1> QED
  BY <1>1, <1>2

LEMMA FillKeeps ==
  ASSUME IInv, NEW x \in Objects, NEW d \in Demands, Fill(x, d) PROVE IInv'
<1> USE DEF IInv
<1>1. Tables'
  BY DEF Tables, Fill
<1>2. ObjectsKept'
  <2> SUFFICES ASSUME NEW y \in Objects, heap'[y] # NULL, given'[y].by = "library"
               PROVE  heap'[y] = KeptByObject(given'[y].context)
    BY DEF ObjectsKept, KeptByObject, Restrict, CdefWords, CdefUnion
  <2>1. y # x
    BY DEF Fill, Tables, ByProgram
  <2> QED
    BY <2>1 DEF Fill, Tables, ObjectsKept
<1> QED
  BY <1>1, <1>2

LEMMA SwitchKeeps ==
  ASSUME IInv, NEW new \in Objects, NEW saved \in Objects \cup {NULL}, SwitchContext(new, saved)
  PROVE  IInv'
<1> USE DEF IInv
<1>1. CASE UNCHANGED <<heap, given>>
  <2>1. ObjectsKept'
    BY <1>1, SameObjects
  <2> QED
    BY <1>1, <2>1 DEF Tables, SwitchContext
<1>2. CASE ~UNCHANGED <<heap, given>>
  <2>1. /\ saved \in Objects
        /\ heap' = [heap EXCEPT ![saved] = KeptByObject(loc_ctx)]
        /\ given' = [given EXCEPT ![saved] = ByLibrary(loc_ctx)]
    BY <1>2 DEF SwitchContext
  <2>2. Tables'
    BY <2>1 DEF Tables, SwitchContext
  <2>3. ObjectsKept'
    <3> SUFFICES ASSUME NEW y \in Objects, heap'[y] # NULL, given'[y].by = "library"
                 PROVE  heap'[y] = KeptByObject(given'[y].context)
      BY DEF ObjectsKept, KeptByObject, Restrict, CdefWords, CdefUnion
    <3>1. CASE y = saved
      BY <2>1, <3>1 DEF Tables, ByLibrary
    <3>2. CASE y # saved
      BY <2>1, <3>2 DEF Tables, ObjectsKept
    <3> QED
      BY <3>1, <3>2
  <2> QED
    BY <2>2, <2>3
<1> QED
  BY <1>1, <1>2

LEMMA AttachKeeps ==
  ASSUME IInv, NEW e \in Events, NEW d \in Demands, Attach(e, d) PROVE IInv'
<1> USE DEF IInv
<1>1. Tables'
  BY DEF Tables, Attach
<1>2. ObjectsKept'
  BY SameObjects DEF Attach
<1> QED
  BY <1>1, <1>2

LEMMA DetachKeeps ==
  ASSUME IInv, NEW e \in Events, Detach(e) PROVE IInv'
<1> USE DEF IInv
<1>1. Tables'
  BY DEF Tables, Detach
<1>2. ObjectsKept'
  BY SameObjects DEF Detach
<1> QED
  BY <1>1, <1>2

LEMMA NextIInv == IInv /\ [Next]_vars => IInv'
<1> SUFFICES ASSUME IInv, [Next]_vars PROVE IInv'
  OBVIOUS
<1>1. CASE UNCHANGED <<heap, given, table>>
  BY <1>1, SameObjects DEF IInv, Tables
<1>2. CASE \E x \in Objects : Alloc(x)
  BY <1>2, AllocKeeps
<1>3. CASE \E x \in Objects, d \in Demands : Fill(x, d)
  BY <1>3, FillKeeps
<1>4. CASE \E new \in Objects, saved \in Objects \cup {NULL} : SwitchContext(new, saved)
  BY <1>4, SwitchKeeps
<1>5. CASE \E e \in Events : Detach(e) \/ (\E d \in Demands : Attach(e, d))
  BY <1>5, AttachKeeps, DetachKeeps
<1> QED
  BY <1>1, <1>2, <1>3, <1>4, <1>5 DEF Next, vars, Import, SetDemand, ShotOnLatency, LogMessage

LEMMA IInvHolds == Spec => []IInv
BY InitIInv, NextIInv, PTL DEF Spec

-----------------------------------------------------------------------------
\* A context saved by the library and switched to again brings the policy and the
\* whole demand back (pmu_tick_api.py:230), for any number of objects.
THEOREM SavedDemandsSurvive == Spec => []SavedDemandSurvives
<1>1. IInv => SavedDemandSurvives
  BY FirstWordsSurvive DEF IInv, ObjectsKept, SavedDemandSurvives
<1> QED
  BY <1>1, IInvHolds, PTL

-----------------------------------------------------------------------------
(* The types *)

\* A list has a first member of any kind it has at all.
LEMMA FirstExists ==
  ASSUME NEW S \in SUBSET Nat, S # {}
  PROVE  \E i \in S : \A j \in S : i <= j
<1>1. PICK i \in S : \A j \in S : ~ (<<j, i>> \in OpToRel(<, Nat))
  BY NatLessThanWellFounded, WFMin
<1>2. ASSUME NEW j \in S, j < i PROVE FALSE
  <2>1. <<j, i>> \in OpToRel(<, Nat)
    BY <1>2 DEF OpToRel
  <2> QED
    BY <1>1, <2>1
<1> QED
  BY <1>2

\* The import ends with one of the candidates, or with none.
LEMMA ImportPicksAPath ==
  ASSUME NEW loadable, Import(loadable) PROVE lib' \in Range(Paths) \cup {NULL, "none"}
<1>1. CASE Candidates(loadable) = {}
  BY <1>1 DEF Import
<1>2. CASE Candidates(loadable) # {}
  <2>1. Candidates(loadable) \subseteq DOMAIN Paths /\ DOMAIN Paths \subseteq Nat
    BY PathsAssumption DEF Candidates
  <2>2. \E i \in Candidates(loadable) : \A j \in Candidates(loadable) : i <= j
    BY <1>2, <2>1, FirstExists
  <2>3. PICK i \in DOMAIN Paths : lib' = Paths[i]
    BY <1>2, <2>1, <2>2 DEF Import
  <2> QED
    BY <2>3 DEF Range
<1> QED
  BY <1>1, <1>2

\* The parts of TypeOK, and the invariant that carries them: Tables makes of heap
\* and table functions that an EXCEPT changes at one place only.
LibType == lib \in Range(Paths) \cup {NULL, "none"} /\ alive \in BOOLEAN
HeapType == \A x \in Objects : heap[x] # NULL => IsContext(heap[x], CdefWords)
TableType ==
  /\ IsContext(loc_ctx, LibWords)
  /\ \A e \in Events : table[e] # NULL => IsContext(table[e], LibWords)
TypeInv == Tables /\ LibType /\ HeapType /\ TableType

LEMMA InitTypeInv == Init => TypeInv
<1> SUFFICES ASSUME Init PROVE TypeInv
  OBVIOUS
<1>1. Tables
  BY InitIInv DEF IInv
<1>2. alive \in BOOLEAN
  <2>1. alive = TRUE
    BY DEF Init
  <2> QED
    BY <2>1
<1> QED
  BY <1>1, <1>2 DEF Init, TypeInv, LibType, HeapType, TableType, IsContext, Zero

LEMMA SameLib == ASSUME LibType, UNCHANGED <<lib, alive>> PROVE LibType'
BY DEF LibType
LEMMA SameHeap == ASSUME HeapType, UNCHANGED heap PROVE HeapType'
BY DEF HeapType, IsContext, CdefWords, CdefUnion
LEMMA SameContexts == ASSUME TableType, UNCHANGED <<loc_ctx, table>> PROVE TableType'
BY DEF TableType, IsContext, LibWords

\* An object that is made or written has the words of the cdef.
LEMMA ObjectWritten ==
  ASSUME Tables, HeapType, NEW x, NEW object, DOMAIN object = CdefWords,
         heap' = [heap EXCEPT ![x] = object]
  PROVE  HeapType'
<1> SUFFICES ASSUME NEW y \in Objects, heap'[y] # NULL PROVE DOMAIN heap'[y] = CdefWords
  BY DEF HeapType, IsContext, CdefWords, CdefUnion
<1>1. CASE y = x
  BY <1>1 DEF Tables
<1>2. CASE y # x
  BY <1>2 DEF Tables, HeapType, IsContext
<1> QED
  BY <1>1, <1>2

LEMMA NextTables == ASSUME IInv, [Next]_vars PROVE Tables'
BY NextIInv DEF IInv

LEMMA NextLibType ==
  ASSUME LibType, [Next]_vars PROVE LibType'
<1>1. CASE \E loadable : Import(loadable)
  BY <1>1, ImportPicksAPath DEF LibType, Import
<1>2. CASE lib' = lib /\ alive' \in BOOLEAN
  BY <1>2 DEF LibType
<1>3. CASE UNCHANGED <<lib, alive>>
  BY <1>3, SameLib
<1>4. ASSUME NEW new, NEW saved, SwitchContext(new, saved)
      PROVE  UNCHANGED <<lib, alive>> \/ (lib' = lib /\ alive' \in BOOLEAN)
  BY <1>4, Zenon DEF SwitchContext
<1>5. ASSUME ShotOnLatency PROVE lib' = lib /\ alive' \in BOOLEAN
  BY <1>5, Zenon DEF ShotOnLatency
<1>6. ASSUME NEW x, NEW d, Alloc(x) \/ Fill(x, d) PROVE UNCHANGED <<lib, alive>>
  BY <1>6 DEF Alloc, Fill
<1>7. ASSUME NEW e, NEW d, Attach(e, d) \/ Detach(e) PROVE UNCHANGED <<lib, alive>>
  BY <1>7 DEF Attach, Detach
<1>8. ASSUME NEW d, SetDemand(d) PROVE UNCHANGED <<lib, alive>>
  BY <1>8 DEF SetDemand
<1>9. ASSUME NEW client, NEW text, NEW args, LogMessage(client, text, args)
      PROVE  UNCHANGED <<lib, alive>>
  BY <1>9 DEF LogMessage
<1>10. ASSUME vars' = vars PROVE UNCHANGED <<lib, alive>>
  BY <1>10 DEF vars
<1> QED
  BY <1>1, <1>2, <1>3, <1>4, <1>5, <1>6, <1>7, <1>8, <1>9, <1>10, Zenon DEF Next

LEMMA NextHeapType ==
  ASSUME Tables, HeapType, [Next]_vars PROVE HeapType'
<1>1. ASSUME NEW x, Alloc(x) PROVE HeapType'
  <2> DEFINE fresh == [w \in CdefWords |-> 0]
  <2>1. heap' = [heap EXCEPT ![x] = fresh]
    BY <1>1 DEF Alloc
  <2>2. DOMAIN fresh = CdefWords
    OBVIOUS
  <2> HIDE DEF fresh
  <2> QED
    BY <2>1, <2>2, ObjectWritten
<1>2. ASSUME NEW x, NEW d, Fill(x, d) PROVE HeapType'
  <2> DEFINE filled == [w \in CdefWords |-> CASE w = CdefPolicy -> d.policy
                                             [] w \in CdefAux -> d.aux[w - 1]
                                             [] OTHER -> heap[x][w]]
  <2>1. heap' = [heap EXCEPT ![x] = filled]
    BY <1>2 DEF Fill
  <2>2. DOMAIN filled = CdefWords
    OBVIOUS
  <2> HIDE DEF filled
  <2> QED
    BY <2>1, <2>2, ObjectWritten
<1>3. ASSUME NEW new, NEW saved, SwitchContext(new, saved) PROVE HeapType'
  <2>1. CASE UNCHANGED heap
    BY <2>1, SameHeap
  <2>2. CASE heap' = [heap EXCEPT ![saved] = KeptByObject(loc_ctx)]
    <3>1. DOMAIN KeptByObject(loc_ctx) = CdefWords
      BY DEF KeptByObject, Restrict
    <3> QED
      BY <2>2, <3>1, ObjectWritten
  <2> QED
    BY <1>3, <2>1, <2>2 DEF SwitchContext
<1>4. CASE UNCHANGED heap
  BY <1>4, SameHeap
<1> QED
  BY <1>1, <1>2, <1>3, <1>4
     DEF Next, vars, Import, SetDemand, ShotOnLatency, Attach, Detach, LogMessage

LEMMA NextTableType ==
  ASSUME Tables, TableType, [Next]_vars PROVE TableType'
<1>1. CASE UNCHANGED <<loc_ctx, table>>
  BY <1>1, SameContexts
<1>2. ASSUME UNCHANGED table, DOMAIN loc_ctx' = LibWords PROVE TableType'
  BY <1>2 DEF TableType, IsContext, LibWords
<1>3. ASSUME NEW d, SetDemand(d) PROVE UNCHANGED table /\ DOMAIN loc_ctx' = LibWords
  BY <1>3 DEF SetDemand
<1>4. ASSUME NEW new, NEW saved, SwitchContext(new, saved)
      PROVE  UNCHANGED table /\ DOMAIN loc_ctx' = LibWords
  BY <1>4 DEF SwitchContext, SeenByLib
<1>5. ASSUME NEW e, NEW context, UNCHANGED loc_ctx, context # NULL => DOMAIN context = LibWords,
             table' = [table EXCEPT ![e] = context]
      PROVE  TableType'
  <2>1. ASSUME NEW f \in Events, table'[f] # NULL
        PROVE  DOMAIN table'[f] = LibWords
    <3>1. CASE f = e
      BY <1>5, <2>1, <3>1 DEF Tables
    <3>2. CASE f # e
      BY <1>5, <2>1, <3>2 DEF Tables, TableType, IsContext
    <3> QED
      BY <3>1, <3>2
  <2> QED
    BY <1>5, <2>1 DEF TableType, IsContext, LibWords
<1>6. ASSUME NEW e, NEW d \in Demands, Attach(e, d) PROVE TableType'
  BY <1>5, <1>6 DEF Attach
<1>7. ASSUME NEW e, Detach(e) PROVE TableType'
  BY <1>5, <1>7 DEF Detach
<1> QED
  BY <1>1, <1>2, <1>3, <1>4, <1>6, <1>7
     DEF Next, vars, Import, ShotOnLatency, Alloc, Fill, LogMessage

\* The variables keep their types: one of the candidates is loaded or none
\* (pmu_tick_api.py:91), a context of the program has the words of the cdef, one
\* of the library all of them.
THEOREM TypeCorrect == Spec => []TypeOK
<1>1. IInv /\ TypeInv /\ [Next]_vars => TypeInv'
  BY NextTables, NextLibType, NextHeapType, NextTableType DEF TypeInv
<1>2. TypeInv => TypeOK
  BY DEF TypeInv, LibType, HeapType, TableType, TypeOK
<1> QED
  BY <1>1, <1>2, InitTypeInv, IInvHolds, PTL DEF Spec


-----------------------------------------------------------------------------
(* The log *)

\* A text: one the program logs, or one of those formatted.
Written(text) ==
  /\ text \in [chars : Nat, wide : Nat, directives : Nat, doubled : Nat, single : Nat, braces : Nat]
  /\ text.doubled <= text.chars

\* The last message is one the program logged, and what became of it is what its
\* way makes of it.
LogInv ==
  log # NULL =>
    /\ log.client \in {"py", "c"} /\ Written(log.text) /\ log.args \in Nat
    /\ log.logged = Logged(log.client, log.text, log.args)

\* Formatting raises an exception or makes a text again.
LEMMA FormattedIsWritten ==
  ASSUME NEW client, NEW text, NEW args, Written(text), Formatted(client, text, args) # Raised
  PROVE  Written(Formatted(client, text, args))
<1>1. ASSUME Percented(text, args) # Raised PROVE Written(Percented(text, args))
  <2>1. Percented(text, args) =
          [chars |-> text.chars - text.doubled, wide |-> text.wide, directives |-> 0,
           doubled |-> 0, single |-> text.doubled, braces |-> text.braces]
    BY <1>1 DEF Percented, Written
  <2>2. text.chars - text.doubled \in Nat /\ 0 <= text.chars - text.doubled
    BY DEF Written
  <2>3. Percented(text, args) \in [chars : Nat, wide : Nat, directives : Nat, doubled : Nat,
                                   single : Nat, braces : Nat]
    BY <2>1, <2>2 DEF Written
  <2>4. Percented(text, args).doubled = 0 /\ Percented(text, args).chars = text.chars - text.doubled
    BY <2>1 DEF Written
  <2> QED
    BY <2>2, <2>3, <2>4 DEF Written
<1>2. ASSUME Braced(text, args) # Raised PROVE Written(Braced(text, args))
  <2>1. Braced(text, args) = [text EXCEPT !.braces = 0]
    BY <1>2 DEF Braced
  <2> QED
    BY <2>1 DEF Written
<1>3. \/ Formatted(client, text, args) = text
      \/ Formatted(client, text, args) = Percented(text, args)
      \/ Formatted(client, text, args) = Braced(text, args)
  BY DEF Formatted, FormattedByApi, FormattedByTick
<1> QED
  BY <1>1, <1>2, <1>3

\* The Python client sends a text whole, or one the daemon has no room for.
LEMMA PythonSendsWhole ==
  ASSUME NEW text, Written(text), text # Raised
  PROVE  Sent("py", text) = IF TooLong("py", text) THEN NULL ELSE text
<1>1. Sent("py", text) = Received("py", CutByPython(text))
  BY DEF Sent
<1>2. CASE text.chars > 1024
  <2> DEFINE cut == [text EXCEPT !.chars = 1024]
  <2>1. CutByPython(text) = cut /\ cut.chars = 1024 /\ cut.wide = text.wide
    BY <1>2 DEF CutByPython, Written
  <2>2. Bytes("py", cut) > 255
    BY <2>1, LogAssumption DEF Bytes, Written
  <2>3. TooLong("py", text)
    BY <1>2, LogAssumption DEF TooLong, Room, Written
  <2> QED
    BY <1>1, <2>1, <2>2, <2>3, LogAssumption DEF Received, Bytes, Written
<1>3. CASE ~(text.chars > 1024)
  <2>1. CutByPython(text) = text
    BY <1>3 DEF CutByPython
  <2>2. Bytes("py", text) <= 255 <=> ~TooLong("py", text)
    BY LogAssumption DEF Bytes, TooLong, Room, Written
  <2> QED
    BY <1>1, <2>1, <2>2 DEF Received
<1> QED
  BY <1>2, <1>3

\* The C library sends a text without percent signs whole, or one the daemon has
\* no room for: what it cuts is beyond it.
LEMMA LibrarySendsWhole ==
  ASSUME NEW text, Written(text), text # Raised, Signs(text) = 0
  PROVE  Sent("c", text) = IF TooLong("c", text) THEN NULL ELSE text
<1>1. text.directives = 0 /\ text.single = 0 /\ text.doubled = 0
  <2>1. text.directives \in Nat /\ text.single \in Nat /\ text.doubled \in Nat
    BY DEF Written
  <2>2. text.directives + text.doubled + text.single = 0
    BY DEF Signs
  <2> QED
    BY <2>1, <2>2
<1>2. Printed(text) = text
  <2>1. Printed(text) = [text EXCEPT !.chars = @ - text.doubled, !.doubled = 0, !.single = text.doubled]
    BY <1>1 DEF Printed
  <2>2. text.chars - 0 = text.chars
    BY DEF Written
  <2> QED
    BY <1>1, <2>1, <2>2 DEF Written
<1>3. text # Unforeseen
  <2>1. text.chars # -1 /\ Unforeseen.chars = -1
    BY DEF Written, Unforeseen
  <2> QED
    BY <2>1
<1>4. Sent("c", text) = Received("c", text)
  BY <1>2, <1>3 DEF Sent
<1>5. Bytes("c", text) <= 255 <=> ~TooLong("c", text)
  BY LogAssumption DEF Bytes, CutByC, TooLong, Room, Written
<1> QED
  BY <1>4, <1>5 DEF Received

\* What is sent, by either client.
LEMMA SentWhole ==
  ASSUME NEW client \in {"py", "c"}, NEW wanted, wanted # Raised => Written(wanted)
  PROVE  \/ wanted = Raised /\ Sent(client, wanted) = Raised
         \/ client = "c" /\ wanted # Raised /\ Signs(wanted) > 0
         \/ wanted # Raised /\ Sent(client, wanted) = IF TooLong(client, wanted) THEN NULL ELSE wanted
<1>1. CASE wanted = Raised
  BY <1>1 DEF Sent
<1>2. CASE wanted # Raised /\ client = "py"
  BY <1>2, PythonSendsWhole
<1>3. CASE wanted # Raised /\ client = "c" /\ Signs(wanted) = 0
  BY <1>3, LibrarySendsWhole
<1>4. CASE wanted # Raised /\ client = "c" /\ Signs(wanted) # 0
  <2>1. wanted.directives \in Nat /\ wanted.single \in Nat /\ wanted.doubled \in Nat
    BY <1>4 DEF Written
  <2>2. Signs(wanted) \in Nat
    BY <2>1 DEF Signs
  <2> QED
    BY <1>4, <2>2
<1> QED
  BY <1>1, <1>2, <1>3, <1>4

LEMMA LogInvIsWhole == LogInv => LogsArriveWhole
<1> SUFFICES ASSUME LogInv, log # NULL PROVE ArrivesWhole(log) \/ FormattedTwice(log)
  BY DEF LogsArriveWhole
<1> DEFINE wanted == Formatted(log.client, log.text, log.args)
<1>1. log.logged = Sent(log.client, wanted) /\ log.client \in {"py", "c"}
  BY DEF LogInv, Logged
<1>2. wanted # Raised => Written(wanted)
  BY FormattedIsWritten DEF LogInv
<1>3. \/ wanted = Raised /\ Sent(log.client, wanted) = Raised
      \/ log.client = "c" /\ wanted # Raised /\ Signs(wanted) > 0
      \/ /\ wanted # Raised
         /\ Sent(log.client, wanted) = IF TooLong(log.client, wanted) THEN NULL ELSE wanted
  <2> HIDE DEF wanted
  <2> QED
    BY <1>1, <1>2, SentWhole
<1> QED
  BY <1>1, <1>3 DEF ArrivesWhole, FormattedTwice

LEMMA NextLogInv == LogInv /\ [Next]_vars => LogInv'
<1> SUFFICES ASSUME LogInv, [Next]_vars PROVE LogInv'
  OBVIOUS
<1>1. CASE UNCHANGED log \/ log' = NULL
  BY <1>1 DEF LogInv
<1>2. ASSUME NEW client \in {"py", "c"}, NEW text \in Texts, NEW args \in 0 .. MaxArgs,
             LogMessage(client, text, args)
      PROVE  LogInv'
  <2>1. Written(text) /\ args \in Nat
    BY TextsAssumption DEF Written
  <2>2. log' = [client |-> client, text |-> text, args |-> args,
                logged |-> Logged(client, text, args)]
    BY <1>2 DEF LogMessage
  <2> QED
    BY <2>1, <2>2 DEF LogInv
<1> QED
  BY <1>1, <1>2
     DEF Next, vars, Import, SetDemand, ShotOnLatency, Alloc, Fill, SwitchContext, Attach, Detach

\* The daemon logs the text the program formatted, as it is, or drops it for its
\* length, or it never leaves the program (pmu_tick_api.py:145, robflex_api.py:101);
\* only one with percent signs that goes through the C library may become
\* anything. For texts of any length and datagrams of any overhead.
THEOREM LogsArrive == Spec => []LogsArriveWhole
<1>1. Init => LogInv
  BY DEF Init, LogInv
<1> QED
  BY <1>1, NextLogInv, LogInvIsWhole, PTL DEF Spec
=============================================================================
