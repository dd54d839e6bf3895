----------------------------- MODULE TickPacing -----------------------------
(***************************************************************************)
(* The arithmetic of pacing: what a scheduling tick (handle_tick) does to  *)
(* the budget of the context in use and to the time of the thread.  Each   *)
(* tick earns the context one time slice and costs it the time that has    *)
(* passed; a positive balance is slept off.  Calls and ticks are atomic    *)
(* here (LocalContext shows that the calls are), but for a tick that is    *)
(* interrupted by another: the two share past, now and diff.               *)
(*                                                                         *)
(* Time is in abstract units.  Only differences of the clock matter:       *)
(* `since` is the time since `past`, when the last paced tick ended.       *)
(*                                                                         *)
(* History: a window of ticks, opened at the end of a tick, and `lead`,    *)
(* the time the ticks of the window were worth minus the time it took.     *)
(* It is kept until `cut`: a sleep that was due was cut short or left out. *)
(***************************************************************************)
EXTENDS Integers

CONSTANTS
  Buffers,   \* LocalContext objects of the application
  NoContext, \* the NULL saved_context of robflex_switch_context
  Slices,    \* time slices a context may ask for
  Modes,     \* policies of the first context and of those objects
  MaxRun,    \* bound on `since`
  MaxOver,   \* bound on how late a sleep may return
  Wakes,     \* TRUE: a sleep may be cut short (idle waker, another signal)
  Mapped,    \* TRUE: g_shmem_data is mapped
  MaxLead    \* a window ends with a tick that makes `lead` leave 0 .. MaxLead:
             \* a window that begins there is ahead of one that is behind

ASSUME PacingAssumption ==
  /\ Slices \subseteq Nat /\ NoContext \notin Buffers
  /\ Modes \subseteq {"YIELDING", "PREDETERMINED", "IMMEDIATE"}
  /\ MaxRun \in Nat /\ MaxOver \in Nat /\ MaxLead \in Nat
  /\ Wakes \in BOOLEAN /\ Mapped \in BOOLEAN

VARIABLES
  ctx,       \* loc_ctx: policy, time_slice_ns, time_budgets
  bufs,      \* the application's LocalContext objects
  since,     \* now - past
  avg,       \* avg_timecost_ns
  woken,     \* the last tick's sleep was cut short, or it was interrupted by a tick
  lead,      \* history: what the window has gained
  cut        \* history: some sleep was shorter than its tick asked for, or some
             \* tick interrupted by another

vars == <<ctx, bufs, since, avg, woken, lead, cut>>

Norm == {"YIELDING", "PREDETERMINED"}
Least(a, b) == IF a < b THEN a ELSE b
Most(a, b)  == IF a > b THEN a ELSE b

\* Mutant: the time a thread did not use is kept for twice as long.
ClampedWide(b, slice) == Most(-(slice * 10), Least(slice * 5, b))

\* The budget is kept within five slices, either way.
Clamped(b, slice) == Most(-(slice * 5), Least(slice * 5, b))

\* Mutant: the new sample is weighed against the old average.
AvgDrift(old, sample) == (sample - old * 9) \div 10

\* avg_timecost_ns, a moving average.
NewAvg(old, sample) == (old * 9 + sample) \div 10

-----------------------------------------------------------------------------
Init ==
  /\ \E slice \in Slices, mode \in Modes :
       ctx = [policy |-> mode, slice |-> slice, budget |-> 0]
  /\ bufs \in [Buffers -> [policy : Modes, slice : Slices, budget : {0}]]
  /\ since = 0 /\ avg = ctx.slice /\ woken = FALSE
  /\ lead = 0 /\ cut = FALSE

\* History: the window goes on with `change`, or a new one begins at `start`.
Measured(change) == lead' = IF cut THEN 0 ELSE lead + change
Opened(start)    == lead' = IF cut THEN 0 ELSE start

\* The program runs, or waits for a CPU.
Run(d) ==
  /\ since + d <= MaxRun
  /\ since' = since + d
  /\ Measured(-d)
  /\ UNCHANGED <<ctx, bufs, avg, woken, cut>>

\* What a tick worth `earned`, that took `yield` of the `due` time, does to
\* the history.
Window(earned, yield, due) ==
  /\ cut' = (cut \/ yield < due)
  /\ \/ /\ ~cut' /\ lead + earned - yield \in 0 .. MaxLead
        /\ lead' = lead + earned - yield
     \/ lead' = 0

\* How long a tick that wants to sleep `want` may take.
Sleeps(want) == (IF Wakes THEN 0 ELSE want) .. (want + MaxOver)

\* Mutant: nothing is slept off.
SleepNothing(balance, slice) == 0

\* What a positive balance asks to sleep: one slice at most.
SleepTime(balance, slice) == Least(balance, slice)

\* handle_tick_vsleep.  Without the shared memory there is no futex to sleep
\* on and the tick only keeps the account.
TickVsleep ==
  LET balance == ctx.budget + ctx.slice - since
      due     == IF balance > 0 THEN SleepTime(balance, ctx.slice) ELSE 0
      want    == IF Mapped THEN due ELSE 0
  IN  \E yield \in Sleeps(want) :
        /\ ctx' = [ctx EXCEPT !.budget = Clamped(balance - yield, ctx.slice)]
        /\ woken' = (yield < want)
        /\ Window(ctx.slice, yield, due)

\* handle_tick_yielding.  On a busy system it gives up the CPU for the time
\* others need; on an idle one it leaves the CPU it did not use to the budget.
\* The comparison in max(0, ...) is unsigned, so it never raises a negative
\* balance to 0.
TickYielding ==
  LET balance == ctx.budget + ctx.slice - since
  IN  \E busy \in {"IDLE", "MODERATE", "HIGH"} :
      \E yield \in 0 .. MaxOver :
        LET kept == IF balance > 0 /\ busy = "IDLE" THEN balance + avg - ctx.slice ELSE balance
        IN  /\ ctx' = [ctx EXCEPT !.budget = Clamped(kept - yield, ctx.slice)]
            /\ woken' = FALSE
            /\ Window(ctx.slice, yield, 0)

\* What a tick may be worth to the context: its slice, or, if it leaves the CPU
\* to others, the time it usually takes.
Earnings == {ctx.slice} \cup (IF ctx.policy = "PREDETERMINED" THEN {avg} ELSE {})

\* A tick that is being drained, and the tick that interrupts it
\* (NestingIsBounded: there is no other).  The outer one writes its budget
\* last, so the inner one's update is lost; and as the inner one has moved past
\* and now, the outer one counts as cost some part of the time since the last
\* tick, the sleeps of both included: which part depends on where it was
\* interrupted.
NestedTick ==
  /\ ctx.policy \in Norm /\ since > 0
  /\ \E earned \in Earnings :
     \E cost \in 0 .. since + 2 * (ctx.slice + MaxOver) :
       ctx' = [ctx EXCEPT !.budget = Clamped(ctx.budget + earned - cost, ctx.slice)]
  /\ avg' \in {NewAvg(NewAvg(avg, inner), outer) : inner, outer \in 0 .. since}
  /\ since' = 0 /\ woken' = TRUE
  /\ cut' = TRUE /\ lead' = 0
  /\ UNCHANGED bufs

\* The policies handle_tick dispatches on here; PREDETERMINED is handled by
\* handle_tick_yielding (handle_tick_predetermined is never called).
Paced ==
  /\ ctx.policy \in Norm
  /\ \/ ctx.policy = "YIELDING" /\ TickVsleep
     \/ ctx.policy = "PREDETERMINED" /\ TickYielding
  /\ since' = 0
  /\ avg' = NewAvg(avg, since)
  /\ UNCHANGED bufs

\* handle_tick_immediate leaves everything alone, `past` included.
Unpaced == ctx.policy = "IMMEDIATE" /\ UNCHANGED vars

\* The counter overflows only after the thread has run.
Tick == since > 0 /\ (Paced \/ Unpaced)

\* set_time_for_throttle, set_cycles_for_tick and clear_time_budget restart
\* the account but not the clock: `past` is still the end of the last tick,
\* and the window is taken to begin there.
Restart(slice) ==
  /\ ctx.policy \in Norm
  /\ ctx' = [ctx EXCEPT !.slice = slice, !.budget = 0]
  /\ Opened(-since)
  /\ UNCHANGED <<bufs, since, avg, woken, cut>>

SetAsImmediate ==
  /\ ctx' = [ctx EXCEPT !.policy = "IMMEDIATE"]
  /\ UNCHANGED <<bufs, since, avg, woken, lead, cut>>

\* robflex_switch_context: the account is switched, the clock is not.  The old
\* account is saved in any object, the new one's included, or nowhere.
SwitchContext(new, saved) ==
  /\ ctx' = bufs[new]
  /\ bufs' = IF saved = NoContext THEN bufs ELSE [bufs EXCEPT ![saved] = ctx]
  /\ Opened(-since)
  /\ UNCHANGED <<since, avg, woken, cut>>

Next ==
  \/ \E d \in 1 .. MaxRun : Run(d)
  \/ Tick
  \/ NestedTick
  \/ \E slice \in Slices : Restart(slice)
  \/ SetAsImmediate
  \/ \E new \in Buffers, saved \in Buffers \cup {NoContext} : SwitchContext(new, saved)

Spec == Init /\ [][Next]_vars

\* A thread that keeps running overflows its counter.
FairSpec == Spec /\ WF_vars(\E d \in 1 .. MaxRun : Run(d)) /\ SF_vars(Tick)

-----------------------------------------------------------------------------
Account == [policy : {"YIELDING", "PREDETERMINED", "IMMEDIATE"}, slice : Nat, budget : Int]

\* The variables keep their types.
TypeOK ==
  /\ ctx \in Account /\ bufs \in [Buffers -> Account]
  /\ since \in Nat /\ avg \in Nat /\ woken \in BOOLEAN
  /\ lead \in Int /\ cut \in BOOLEAN

\* A thread paced by handle_tick_vsleep, whose sleeps are not cut short, is
\* never ahead of its slices by more than the five slices the clamp of
\* time_budgets lets it save up, over any number of ticks, whatever it did
\* before: switching contexts, asking for other slices and being late in
\* waking up included.
BurstBound == ~cut /\ ctx.policy = "YIELDING" => lead <= 5 * ctx.slice

\* ... and no tick leaves a balance to sleep off, in the context in use or in
\* one switched out: a sleep is always for the tick that sleeps.
Owes(x) == x.policy = "YIELDING" /\ x.budget > 0
NothingOwed == ~cut => ~Owes(ctx) /\ \A b \in Buffers : ~Owes(bufs[b])

\* However large a balance cut sleeps have left, a tick that sleeps as long as it
\* asks to ends with none, or with a smaller one than it found: the account of a
\* thread that runs on never gains on its sleeps.
DebtShrinks ==
  [][Tick /\ ctx.policy = "YIELDING" /\ Mapped /\ ~woken'
       => ctx'.budget <= 0 \/ ctx'.budget < ctx.budget]_vars

\* A switch that does not multiply a debt: it leaves no copy of the positive
\* balance it switches in.
TakesOver == \E new \in Buffers, saved \in Buffers \cup {NoContext} :
  SwitchContext(new, saved) /\ (bufs[new].budget <= 0 \/ saved = new)
Switched  == \E new \in Buffers, saved \in Buffers \cup {NoContext} : SwitchContext(new, saved)

\* A thread whose sleeps were cut short, or whose ticks were interrupted by
\* ticks, is paced again once they no longer are: the balance it ran up, in
\* whichever contexts, is worked off, and in the end no tick leaves one.  But a
\* context in debt that is switched in over and over without being saved is
\* in debt each time.
DebtIsPaidOff ==
  /\ <>[](~woken /\ ctx.policy = "YIELDING")
  /\ <>[][Switched => TakesOver]_vars
  => <>[][Tick => ctx'.budget <= 0]_vars
=============================================================================
