--------------------------- MODULE PythonBindings ---------------------------
(***************************************************************************)
(* What the declarations of python/pmu_tick_api.py make of the C library   *)
(* they describe.  cffi lays out a LocalContext as the cdef says; the      *)
(* library was compiled with another layout (inc/robflex_def.h):           *)
(*                                                                         *)
(*   word     0        1       2 .. 5        6       7                     *)
(*   cdef     flags    policy  union         cycles  average               *)
(*   word     0        1 .. 7        8       9       10                    *)
(*   library  policy   union         level   cycles  average               *)
(*                                                                         *)
(* (words of eight bytes; `flags` are in_critical and n_signal_pendings,   *)
(* by now variables of the library).  A context that crosses by pointer is *)
(* read and written past its end, one that crosses by value (the union of  *)
(* robflex_attach_context_for_event) is read past its end.                 *)
(***************************************************************************)
EXTENDS LogText, Sequences, Functions

CONSTANTS
  Paths,      \* _lib_candidates, in order; NULL where ROBFLEX_LIB is not set
  Objects,    \* contexts of the Python program
  Events,     \* names the library knows
  Demands,    \* [policy, aux, level]: what the program asks for
  Texts,      \* texts it logs
  MaxArgs,    \* bound on their arguments
  JUNK        \* the contents of memory that is not the caller's

\* An object of the program has room for the four words of LatencyDemand.
ASSUME DemandsAssumption == \A d \in Demands : DOMAIN d.aux = 1 .. 4

\* The candidates are a list.
ASSUME PathsAssumption == Paths \in Seq(Range(Paths))

\* A doubled percent sign is among the characters of its text.
ASSUME TextsAssumption ==
  /\ Texts \subseteq [chars : Nat, wide : Nat, directives : Nat, doubled : Nat, single : Nat, braces : Nat]
  /\ \A t \in Texts : 2 * t.doubled <= t.chars

VARIABLES
  lib,      \* the library loaded, NULL before, "none" after a failed import
  alive,    \* the process has survived what was written past an object
  heap,     \* the LocalContext objects the program has allocated
  loc_ctx,  \* the context of the thread, in the library
  table,    \* the contexts the library holds for events
  log,      \* history: the last message logged, and what became of it
  given     \* history: what each object was last given, by the program or the library

vars == <<lib, alive, heap, loc_ctx, table, log, given>>

-----------------------------------------------------------------------------
(* The two layouts *)

LibWords == 0 .. 10
Zero == [w \in LibWords |-> 0]

\* Mutant: the cdef leaves out used_ncycle, too.
ShorterUnion == 3

\* The words of the union in the cdef (LatencyDemand) and in the library.
CdefUnion == 4
LibUnion  == 7

CdefWords == 0 .. CdefUnion + 3

\* Where the cdef and the library have the policy, the union and the level (the
\* cdef has none).
CdefPolicy == 1
CdefAux == 2 .. CdefUnion + 1
LibPolicy == 0
LibAux == 1 .. LibUnion
LibLevel == LibUnion + 1

\* Mutant: an object keeps what is written past its end.
KeptWhole(context) == context

\* An object as the library sees it, and what an object keeps of a context.
SeenByLib(object) == [w \in LibWords |-> IF w \in DOMAIN object THEN object[w] ELSE JUNK]
KeptByObject(context) == Restrict(context, CdefWords)

\* The union of a demand as it arrives by value.
UnionByValue(aux) == [i \in 1 .. LibUnion |-> IF i <= CdefUnion THEN aux[i] ELSE JUNK]

-----------------------------------------------------------------------------
Init ==
  /\ lib = NULL /\ alive = TRUE
  /\ heap = [x \in Objects |-> NULL] /\ given = heap
  /\ loc_ctx = Zero
  /\ table = [e \in Events |-> NULL]
  /\ log = NULL

\* _load_lib, when the module is imported: the first candidate that is set and
\* can be loaded, or an OSError that ends the import.
Candidates(loadable) == {i \in DOMAIN Paths : Paths[i] # NULL /\ Paths[i] \in loadable}
Import(loadable) ==
  /\ lib = NULL
  /\ lib' = IF Candidates(loadable) = {} THEN "none"
            ELSE Paths[CHOOSE i \in Candidates(loadable) : \A j \in Candidates(loadable) : i <= j]
  /\ UNCHANGED <<alive, heap, loc_ctx, table, log, given>>

Imported == lib \notin {NULL, "none"} /\ alive

\* robflex_init_local_context and the calls of robflex_set_..., whose arguments
\* are integers: the library writes its context in its own layout.
SetDemand(d) ==
  /\ Imported
  /\ loc_ctx' = [w \in LibWords |-> CASE w = LibPolicy -> d.policy
                                      [] w \in DOMAIN d.aux -> d.aux[w]
                                      [] OTHER -> loc_ctx[w]]
  /\ log' = NULL
  /\ UNCHANGED <<lib, alive, heap, table, given>>

\* robflex_shot_on_latency is declared to return an int: the library stores the
\* struct it returns at an address nobody gave it.  Here as in SwitchContext, a
\* store that is not the caller's ends the process or hits nothing the program
\* looks into: an object lies alone in its block, so the words past its end are
\* the allocator's.  A process that such a store ends later is one that is alive
\* until then.
ShotOnLatency ==
  /\ Imported
  /\ alive' \in BOOLEAN
  /\ log' = NULL
  /\ UNCHANGED <<lib, heap, loc_ctx, table, given>>

ByProgram      == [by |-> "program"]
ByLibrary(ctx) == [by |-> "library", context |-> ctx]

\* localcontext_alloc
Alloc(x) ==
  /\ Imported /\ heap[x] = NULL
  /\ heap' = [heap EXCEPT ![x] = [w \in CdefWords |-> 0]]
  /\ given' = [given EXCEPT ![x] = ByProgram]
  /\ log' = NULL
  /\ UNCHANGED <<lib, alive, loc_ctx, table>>

\* The program assigns the policy and the members of the union of an object.
Fill(x, d) ==
  /\ Imported /\ heap[x] # NULL
  /\ heap' = [heap EXCEPT ![x] = [w \in CdefWords |-> CASE w = CdefPolicy -> d.policy
                                                        [] w \in CdefAux -> d.aux[w - 1]
                                                        [] OTHER -> heap[x][w]]]
  /\ given' = [given EXCEPT ![x] = ByProgram]
  /\ log' = NULL
  /\ UNCHANGED <<lib, alive, loc_ctx, table>>

\* robflex_switch_context.  NULL stands for ffi.NULL; None, the default, is
\* refused by cffi, and nothing is called.
SwitchContext(new, saved) ==
  /\ Imported /\ heap[new] # NULL
  /\ loc_ctx' = SeenByLib(heap[new])
  /\ \/ /\ saved = NULL
        /\ UNCHANGED <<alive, heap, given>>
     \/ /\ saved # NULL /\ heap[saved] # NULL
        /\ alive' \in BOOLEAN
        /\ heap' = [heap EXCEPT ![saved] = KeptByObject(loc_ctx)]
        /\ given' = [given EXCEPT ![saved] = ByLibrary(loc_ctx)]
  /\ log' = NULL
  /\ UNCHANGED <<lib, table>>

\* robflex_attach_context_for_event and robflex_dettach_context_for_event: the
\* other members of the context the library makes are zero.
Attach(e, d) ==
  /\ Imported
  /\ table' = [table EXCEPT ![e] = [w \in LibWords |-> CASE w = LibPolicy -> d.policy
                                                         [] w \in LibAux -> UnionByValue(d.aux)[w]
                                                         [] w = LibLevel -> d.level
                                                         [] OTHER -> 0]]
  /\ log' = NULL
  /\ UNCHANGED <<lib, alive, heap, loc_ctx, given>>

Detach(e) ==
  /\ Imported /\ table[e] # NULL
  /\ table' = [table EXCEPT ![e] = NULL]
  /\ log' = NULL
  /\ UNCHANGED <<lib, alive, heap, loc_ctx, given>>

\* robflex_log_message, by either client; the daemon takes the datagram.
LogMessage(client, text, args) ==
  /\ Imported
  /\ log' = [client |-> client, text |-> text, args |-> args, logged |-> Logged(client, text, args)]
  /\ UNCHANGED <<lib, alive, heap, loc_ctx, table, given>>

Next ==
  \/ \E loadable \in SUBSET (Range(Paths) \ {NULL}) : Import(loadable)
  \/ \E d \in Demands : SetDemand(d)
  \/ ShotOnLatency
  \/ \E x \in Objects : Alloc(x) \/ (\E d \in Demands : Fill(x, d))
  \/ \E new \in Objects, saved \in Objects \cup {NULL} : SwitchContext(new, saved)
  \/ \E e \in Events : Detach(e) \/ (\E d \in Demands : Attach(e, d))
  \/ \E client \in {"py", "c"}, text \in Texts, args \in 0 .. MaxArgs : LogMessage(client, text, args)

Spec == Init /\ [][Next]_vars

-----------------------------------------------------------------------------
(* Properties *)

\* The variables keep their types: a context of the program has the words of the
\* cdef, one of the library all of them.
IsContext(c, words) == DOMAIN c = words
TypeOK ==
  /\ lib \in Range(Paths) \cup {NULL, "none"} /\ alive \in BOOLEAN
  /\ \A x \in Objects : heap[x] # NULL => IsContext(heap[x], CdefWords)
  /\ IsContext(loc_ctx, LibWords)
  /\ \A e \in Events : table[e] # NULL => IsContext(table[e], LibWords)

\* A context the program never looks into, but only has saved and switched to
\* again, brings the policy and the whole demand back, through saves over it
\* and over others: the words the cdef lacks (level and statistics) are all
\* that is lost.
SavedDemandSurvives ==
  \A x \in Objects : heap[x] # NULL /\ given[x].by = "library" =>
    \A w \in {LibPolicy} \cup LibAux : SeenByLib(heap[x])[w] = given[x].context[w]

Room == 255 - Overhead
TooLong(client, text) ==
  text.chars + (IF client = "py" THEN 5 ELSE 2) * text.wide > Room
Signs(text) == text.directives + text.doubled + text.single

\* What becomes of the last message is what its text deserves: the exception of
\* formatting it, nothing for one too long, the text as formatted otherwise.
ArrivesWhole(l) ==
  LET wanted == Formatted(l.client, l.text, l.args)
  IN  l.logged = CASE wanted = Raised -> Raised
                   [] wanted # Raised /\ TooLong(l.client, wanted) -> NULL
                   [] OTHER -> wanted

\* A formatted text with percent signs left that the C library formats again.
FormattedTwice(l) ==
  LET wanted == Formatted(l.client, l.text, l.args)
  IN  l.client = "c" /\ wanted # Raised /\ Signs(wanted) > 0

\* The daemon logs the text the program formatted, as it is, or drops it for
\* its length, or it never leaves the program (robflex_api.py:101,
\* pmu_tick_api.py:145); only what is formatted twice may become anything.
LogsArriveWhole == log # NULL => ArrivesWhole(log) \/ FormattedTwice(log)

\* What pmu_tick_api.py:146 says of its messages, "vsnprintf-safe": they reach the
\* daemon as formatted in Python, whatever is in them. They do not: the text is the
\* format of the vsnprintf of robflex_api.c:79.
LogsAreSafe == log # NULL => ArrivesWhole(log)
=============================================================================
