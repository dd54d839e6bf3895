---------------------------- MODULE AtomicContext ---------------------------
(***************************************************************************)
(* What the calls of robflex_api.c promise the application: each takes     *)
(* effect at once, and a scheduling tick comes before a call or after it.  *)
(* A tick goes to the budget of the context in use, once, so what a        *)
(* context switched out and in again holds are the ticks of the time it    *)
(* was in use, no more and no fewer.                                       *)
(***************************************************************************)
EXTENDS ContextCalls

VARIABLES
  ctx,    \* the context in use
  saved,  \* the LocalContext objects
  called, \* how many calls have been made
  ticked  \* how many ticks have been handled

absVars == <<ctx, saved, called, ticked>>

\* The context in use once `c`, the n-th call, has been made in context `x`.
Effect(c, n, x) ==
  IF Refused(c, x) \/ c.op = "add_runcycle" THEN x
  ELSE CASE c.op \in {"set_cycles_for_tick", "clear_time_budget"} -> [x EXCEPT !.w1 = NoBudget]
         [] c.op = "set_time_for_throttle" ->
              [x EXCEPT !.w0 = [as |-> "norm", v |-> c.slice], !.w1 = NoBudget]
         [] c.op = "set_as_immediate" -> [x EXCEPT !.policy = "IMMEDIATE"]
         [] c.op = "set_as_latency_flick" ->
              [x EXCEPT !.policy = "LATENCY_ORIENTED", !.w0 = [as |-> "lat", v |-> 0],
                        !.w1 = StartTime(n)]
         [] c.op = "chained_from_latency" -> [x EXCEPT !.w1 = StartTime(n)]
         [] c.op = "shot_on_latency" -> [x EXCEPT !.cleared = n, !.w1 = StartTime(n)]
         [] c.op \in SwitchOps -> saved[c.new]

AInit ==
  /\ \E mode \in Modes : ctx = InitialContext(mode)
  /\ saved \in [Buffers -> InitCtxs]
  /\ called = 0 /\ ticked = 0

Do(c) ==
  /\ called' = called + 1
  /\ ctx' = Effect(c, called + 1, ctx)
  /\ saved' = IF c.op \in SwitchOps /\ c.saved # NULL
              THEN [saved EXCEPT ![c.saved] = ctx] ELSE saved
  /\ UNCHANGED ticked

ATick ==
  /\ ticked' = ticked + 1
  /\ ctx' = IF ctx.policy \in Norm THEN [ctx EXCEPT !.w1 = [as |-> "norm", v |-> @.v + 1]] ELSE ctx
  /\ UNCHANGED <<saved, called>>

\* A new time slice from the daemon, whatever the policy: it is stored in the
\* context in use, or lost (a step that changes nothing) when a call replaces
\* that word.
ACpi(v) ==
  /\ ctx' = [ctx EXCEPT !.w0 = [as |-> "cpi", v |-> v]]
  /\ UNCHANGED <<saved, called, ticked>>

ANext == ATick \/ (\E c \in Call : Do(c)) \/ (\E v \in CpiValues : ACpi(v))

ASpec == AInit /\ [][ANext]_absVars
=============================================================================
