---------------------------- MODULE LocalContext ----------------------------
(***************************************************************************)
(* One thread of an application that runs under librobonix.so: how the     *)
(* calls of robflex_api.c change its loc_ctx, and the two real-time        *)
(* signals that interrupt them:                                            *)
(*                                                                         *)
(*   PERF_SIGNAL     the cycle counter overflowed: a scheduling tick, run  *)
(*                   at once (instruction_interrupt_handler) or, when      *)
(*                   in_critical is set, counted in n_signal_pendings and  *)
(*                   run by the call when it leaves its critical section;  *)
(*   CPI_SET_SIGNAL  the daemon forwards a new time slice, stored at once. *)
(*                                                                         *)
(* A handler runs on the thread it interrupts: while it is active the      *)
(* program does not step, and between any two steps of the program (or of  *)
(* a tick the program itself runs while draining) a handler may run.  Each *)
(* call is cut at the steps a handler can tell apart.                      *)
(***************************************************************************)
EXTENDS ContextCalls

CONSTANTS
  Disciplined,  \* TRUE: a call is made in the policy it expects
  MaxCalls,     \* bound on the calls made
  MaxSignals    \* bound on the PERF_SIGNALs delivered

ASSUME BoundsAssumption ==
  /\ Disciplined \in BOOLEAN
  /\ MaxCalls \in Nat /\ MaxSignals \in Nat

VARIABLES
  loc_ctx,             \* __thread LocalContext loc_ctx
  in_critical,         \* __thread atomic_int in_critical
  n_signal_pendings,   \* __thread atomic_int n_signal_pendings
  blocked,             \* PERF_SIGNAL is in the thread's signal mask
  pc, call, todo,      \* where the program is in the call it makes
  backup,              \* loc_ctx when the call entered
  bufs,                \* the application's LocalContext objects
  frames,              \* ticks being handled, the innermost last
  calls, signals,      \* counters behind the bounds
  handled              \* history: how many ticks have been handled

vars == <<loc_ctx, in_critical, n_signal_pendings, blocked, pc, call, todo,
          backup, bufs, frames, calls, signals, handled>>

-----------------------------------------------------------------------------
(* The calls, assignment by assignment *)

\* Mutant: the context switch forgets in_critical.
SwitchUnprotected == AllOps \ {"set_as_immediate", "switch_context_block", "switch_context"}

\* The calls that defer ticks; all but set_as_immediate, and the switch that
\* blocks the signal instead.
CriticalOps == AllOps \ {"set_as_immediate", "switch_context_block"}

\* The words a call assigns, in order ...
Writes(c) ==
  CASE c.op \in {"set_cycles_for_tick", "clear_time_budget", "chained_from_latency"} -> <<"w1">>
    [] c.op = "set_time_for_throttle" -> <<"w0", "w1">>
    [] c.op = "set_as_latency_flick"  -> <<"policy", "w0", "w1">>
    [] c.op = "set_as_immediate"      -> <<"policy">>
    [] c.op = "shot_on_latency"       -> <<"cleared">>
    [] c.op = "add_runcycle"          -> <<>>
    [] c.op \in SwitchOps             -> <<"policy", "w0", "w1", "cleared">>

\* ... those it assigns after it has drained the deferred ticks ...
PostWrites(c) == IF c.op = "shot_on_latency" THEN <<"w1">> ELSE <<>>

\* ... and the value the call `c`, the n-th, gives the word `f`.
Value(c, n, f) ==
  CASE c.op \in SwitchOps -> bufs[c.new][f]
    [] c.op = "set_time_for_throttle" /\ f = "w0" -> [as |-> "norm", v |-> c.slice]
    [] c.op = "set_as_latency_flick" /\ f = "w0"  -> [as |-> "lat", v |-> 0]
    [] c.op \in {"set_as_latency_flick", "chained_from_latency", "shot_on_latency"} /\ f = "w1"
         -> StartTime(n)
    [] c.op \in {"set_cycles_for_tick", "set_time_for_throttle", "clear_time_budget"} /\ f = "w1"
         -> NoBudget
    [] c.op = "shot_on_latency" /\ f = "cleared" -> n
    [] c.op = "set_as_immediate"     -> "IMMEDIATE"
    [] c.op = "set_as_latency_flick" /\ f = "policy" -> "LATENCY_ORIENTED"

-----------------------------------------------------------------------------
(* setup_perf_ctrl initialises the context before it opens the counter: no   *)
(* signal is delivered yet.                                                  *)
Init ==
  /\ \E mode \in Modes : loc_ctx = InitialContext(mode)
  /\ in_critical = 0 /\ n_signal_pendings = 0 /\ blocked = FALSE
  /\ pc = "app" /\ call = NULL /\ todo = <<>>
  /\ backup = loc_ctx
  /\ bufs \in [Buffers -> InitCtxs]
  /\ frames = <<>>
  /\ calls = 0 /\ signals = 0 /\ handled = 0

-----------------------------------------------------------------------------
(* The program.  It runs only when no tick is being handled. *)

Running == frames = <<>>

Enter(c) ==
  /\ pc = "app" /\ Running /\ calls < MaxCalls
  /\ Disciplined => InPolicy(c, loc_ctx)
  /\ calls' = calls + 1
  /\ call' = c
  /\ backup' = loc_ctx
  /\ pc' = "write"
  /\ todo' = IF Refused(c, loc_ctx) THEN <<>> ELSE Writes(c)
  /\ in_critical' = IF c.op \in CriticalOps THEN 1 ELSE in_critical
  /\ blocked' = (c.op = "switch_context_block")
  /\ UNCHANGED <<loc_ctx, n_signal_pendings, bufs, frames, signals, handled>>

\* One assignment to loc_ctx.
Write ==
  /\ pc \in {"write", "post"} /\ Running /\ todo # <<>>
  /\ loc_ctx' = [loc_ctx EXCEPT ![Head(todo)] = Value(call, calls, Head(todo))]
  /\ todo' = Tail(todo)
  /\ UNCHANGED <<in_critical, n_signal_pendings, blocked, pc, call, backup, bufs,
                 frames, calls, signals, handled>>

\* The end of the protected part: in_critical is cleared, the signal unblocked.
Leave ==
  /\ pc = "write" /\ Running /\ todo = <<>>
  /\ in_critical' = 0
  /\ blocked' = FALSE
  /\ pc' = IF call.op \in CriticalOps THEN "drain" ELSE "post"
  /\ UNCHANGED <<loc_ctx, n_signal_pendings, call, todo, backup, bufs, frames,
                 calls, signals, handled>>

Tick(where) == [where |-> where, ctx |-> loc_ctx]

\* Mutant: the draining loop may be left with ticks pending.
DrainSkipped == TRUE

\* while (atomic_exchange(&n_signal_pendings, 0)) handle_tick();
Drained == n_signal_pendings = 0

DrainTick ==
  /\ pc = "drain" /\ Running /\ n_signal_pendings > 0
  /\ n_signal_pendings' = 0
  /\ frames' = <<Tick("drain")>>
  /\ UNCHANGED <<loc_ctx, in_critical, blocked, pc, call, todo, backup, bufs,
                 calls, signals, handled>>

DrainDone ==
  /\ pc = "drain" /\ Running /\ Drained
  /\ pc' = "post"
  /\ todo' = IF Refused(call, backup) THEN <<>> ELSE PostWrites(call)
  /\ UNCHANGED <<loc_ctx, in_critical, n_signal_pendings, blocked, call, backup,
                 bufs, frames, calls, signals, handled>>

\* The call returns; a switch first copies its backup to *saved_context.
Return ==
  /\ pc = "post" /\ Running /\ todo = <<>>
  /\ bufs' = IF call.op \in SwitchOps /\ call.saved # NULL
             THEN [bufs EXCEPT ![call.saved] = backup] ELSE bufs
  /\ pc' = "app" /\ call' = NULL
  /\ UNCHANGED <<loc_ctx, in_critical, n_signal_pendings, blocked, todo, backup,
                 frames, calls, signals, handled>>

-----------------------------------------------------------------------------
(* The signals *)

\* Mutant: the handler does not mask its own signal (SA_NODEFER).
NeverMasked == FALSE

InHandler == \E i \in DOMAIN frames : frames[i].where = "handler"

\* instruction_interrupt_handler; PERF_SIGNAL is masked while it runs.
PerfSignal ==
  /\ ~blocked /\ ~InHandler /\ signals < MaxSignals
  /\ signals' = signals + 1
  /\ \/ /\ in_critical = 1
        /\ n_signal_pendings' = n_signal_pendings + 1
        /\ UNCHANGED frames
     \/ /\ in_critical = 0
        /\ frames' = Append(frames, Tick("handler"))
        /\ UNCHANGED n_signal_pendings
  /\ UNCHANGED <<loc_ctx, in_critical, blocked, pc, call, todo, backup, bufs, calls, handled>>

\* Mutant: the tick is taken from the budget it should be added to.
ChargedBackwards == [loc_ctx EXCEPT !.w1 = [as |-> "norm", v |-> @.v - 1]]

\* A tick stores to time_budgets, in whatever context is then in use.
Charged == [loc_ctx EXCEPT !.w1 = [as |-> "norm", v |-> @.v + 1]]

\* The innermost handle_tick returns.
TickEnd ==
  /\ frames # <<>>
  /\ LET tick == frames[Len(frames)]
     IN  loc_ctx' = IF tick.ctx.policy \in Norm THEN Charged ELSE loc_ctx
  /\ frames' = SubSeq(frames, 1, Len(frames) - 1)
  /\ handled' = handled + 1
  /\ UNCHANGED <<in_critical, n_signal_pendings, blocked, pc, call, todo, backup,
                 bufs, calls, signals>>

\* cpi_set_interrupt_handler: not deferred by in_critical, not masked.
CpiSignal(v) ==
  /\ loc_ctx' = [loc_ctx EXCEPT !.w0 = [as |-> "cpi", v |-> v]]
  /\ UNCHANGED <<in_critical, n_signal_pendings, blocked, pc, call, todo, backup,
                 bufs, frames, calls, signals, handled>>

-----------------------------------------------------------------------------
Program == (\E c \in Call : Enter(c)) \/ Write \/ Leave \/ DrainTick \/ DrainDone \/ Return

Next == Program \/ PerfSignal \/ TickEnd \/ (\E v \in CpiValues : CpiSignal(v))

\* The thread is scheduled: a call it has begun goes on and a tick returns.
Fairness == WF_vars(Write \/ Leave \/ DrainTick \/ DrainDone \/ Return) /\ WF_vars(TickEnd)

Spec == Init /\ [][Next]_vars
FairSpec == Spec /\ Fairness

-----------------------------------------------------------------------------
(* Properties *)

\* The variables keep their types.
TypeOK ==
  /\ loc_ctx \in Context /\ backup \in Context
  /\ in_critical \in {0, 1} /\ n_signal_pendings \in Nat
  /\ blocked \in BOOLEAN
  /\ pc \in {"app", "write", "drain", "post"}
  /\ call \in Call \cup {NULL}
  /\ todo \in Seq({"policy", "w0", "w1", "cleared"})
  /\ bufs \in [Buffers -> Context]
  /\ frames \in Seq([where : {"drain", "handler"}, ctx : Context])
  /\ calls \in Nat /\ signals \in Nat /\ handled \in Nat

\* A tick deferred by a critical section (dym_hook.c:276, "handle the tick
\* later") has been handled before the call returns: the application never
\* goes on with one left behind.
NoTickLeftBehind == pc = "app" => n_signal_pendings = 0

\* A tick never acts on half a context: the policy it dispatches on and the
\* two words of the union it then reads belong together, wherever in a call,
\* or in the copy of a context switch, its signal arrived.  A time slice the
\* daemon's signal has stored belongs to no policy and is put up with in each.
Whole(x) ==
  /\ x.policy \in Norm => x.w0.as \in {"norm", "cpi"} /\ x.w1.as = "norm"
  /\ x.policy = "LATENCY_ORIENTED" => x.w0.as \in {"lat", "cpi"} /\ x.w1.as = "lat"
TicksSeeWholeContext == \A i \in DOMAIN frames : Whole(frames[i].ctx)

\* Handlers nest at most once, in a tick the program is draining, so the stack
\* of the interrupted thread is bounded and only a drained tick is interrupted.
NestingIsBounded ==
  /\ Len(frames) <= 2
  /\ Len(frames) = 2 => pc = "drain" /\ frames[1].where = "drain"

\* A deferred tick is handled: the call goes on to drain it, even when handlers
\* keep interrupting the draining.
DeferredTickRuns == n_signal_pendings > 0 ~> \E i \in DOMAIN frames : frames[i].where = "drain"

\* The calls implement AtomicContext: with ticks (and new slices) arriving at
\* any step, every call still takes effect at once, at its first assignment (a
\* switch when it makes its backup), and a context switched out holds the ticks
\* of the time it was in use.  What shot_on_latency assigns after the ticks it
\* drains counts as assigned before them: in its policy no tick reads it.
NotBegun == pc = "write" /\ todo # <<>> /\ todo = Writes(call) /\ call.op \notin SwitchOps
Begun    == pc = "write" /\ ~NotBegun
Owed(f) ==
  \/ pc \in {"write", "post"} /\ \E i \in DOMAIN todo : todo[i] = f
  \/ /\ pc \in {"write", "drain"} /\ ~Refused(call, backup)
     /\ \E i \in DOMAIN PostWrites(call) : PostWrites(call)[i] = f
Assigned(f) == IF ~NotBegun /\ Owed(f) THEN Value(call, calls, f) ELSE loc_ctx[f]
Stored ==
  IF (Begun \/ pc \in {"drain", "post"}) /\ call.op \in SwitchOps /\ call.saved # NULL
  THEN [bufs EXCEPT ![call.saved] = backup] ELSE bufs
Atomic == INSTANCE AtomicContext
  WITH ctx    <- [f \in DOMAIN loc_ctx |-> Assigned(f)],
       saved  <- Stored,
       called <- IF NotBegun THEN calls - 1 ELSE calls,
       ticked <- handled
CallsAreAtomic == Atomic!ASpec
=============================================================================
