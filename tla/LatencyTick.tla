----------------------------- MODULE LatencyTick ----------------------------
(***************************************************************************)
(* Latency pacing: a LATENCY_ORIENTED context goes round after round, each *)
(* with a deadline target_lat after its start.  A tick sleeps as long as   *)
(* one slice of cycles may take, if the cycles the round is expected to    *)
(* need (hist_ncycle) share evenly what is left of its time; lat_bias      *)
(* moves the deadline by what an earlier stage has left over.              *)
(*                                                                         *)
(* The handler mixes signed and unsigned words, of Width bits here (64 in  *)
(* the code): U and S are a number as an unsigned and a signed word.  Time *)
(* is relative: `elapsed` is now - start_time, `sincePast` is now - past.      *)
(***************************************************************************)
EXTENDS Integers

CONSTANTS
  Width,       \* of a word
  Slice,       \* get_instr_slice(): cycles between two ticks
  Margin,      \* the 1000000 ns a sleep falls short, and is at least
  Demands,     \* [lat, base]: what set_as_latency_flick is asked for
  Feedbacks,   \* [target, used, percent]: chains from an earlier stage
  RunTimes,    \* times the thread runs for
  Runcycles,   \* arguments of add_runcycle
  MaxElapsed,  \* bound on the time of a round
  MaxUsed,     \* bound on the cycles of a round
  NULL         \* no sleep

ASSUME LatencyAssumption ==
  /\ Width \in Nat \ {0} /\ Slice \in Nat \ {0} /\ Margin \in Nat
  /\ MaxElapsed \in Nat /\ MaxUsed \in Nat
  /\ RunTimes \subseteq Nat /\ Runcycles \subseteq Nat

VARIABLES
  ld,         \* loc_ctx.aux.lat: target_lat, hist_ncycle, used_ncycle, lat_bias
  elapsed,    \* now - start_time
  sincePast,  \* now - past
  restarting, \* shot_on_latency has cleared the cycles, and not restarted the time
  nap         \* history: the sleep the last tick asked for, and what for

latencyVars == <<ld, elapsed, sincePast, restarting, nap>>

Word == 2 ^ Width
U(x) == x % Word

\* Mutant: a signed word is taken for an unsigned one.
Unsigned(x) == x % Word

S(x) == IF U(x) < Word \div 2 THEN U(x) ELSE U(x) - Word

\* Division of C: towards 0.
Quotient(a, b) == IF a < 0 THEN -((-a) \div b) ELSE a \div b

\* What Width bits can tell apart has two halves.
ASSUME WordAssumption == Word \in Nat \ {0} /\ Word = 2 * (Word \div 2)

\* Demands and feedback are words; times and cycles stay so far below a word's
\* limits that a sum of two is one (2^63 ns are 292 years).
ASSUME RangeAssumption ==
  /\ MaxElapsed + Margin <= Word \div 2 /\ MaxUsed + Slice < Word
  /\ \A d \in Demands : d.lat \in 0 .. Word - 1 /\ d.base \in 0 .. Word - 1 - Slice
  /\ \A f \in Feedbacks :
       Quotient((f.target - f.used) * f.percent, 100) \in -(Word \div 2) .. Word \div 2 - 1

-----------------------------------------------------------------------------
(* A thread has just been set up: it becomes latency-oriented, or is so from   *)
(* ROBFLEX_RUNMODE, in a context whose first round began with the clock.       *)
LatencyInit ==
  /\ \E d \in Demands :
       \/ ld = [target |-> d.lat, hist |-> d.base, used |-> 0, bias |-> 0] /\ elapsed = 0
       \/ ld = [target |-> d.lat, hist |-> 0, used |-> 0, bias |-> 0] /\ elapsed = MaxElapsed
  /\ sincePast = 0 /\ restarting = FALSE /\ nap = NULL

Bounded(time) == IF time > MaxElapsed THEN MaxElapsed ELSE time

\* The thread runs, or waits for a CPU.
RunFor(d) ==
  /\ elapsed + d <= MaxElapsed
  /\ elapsed' = elapsed + d /\ sincePast' = Bounded(sincePast + d)
  /\ nap' = NULL
  /\ UNCHANGED <<ld, restarting>>

-----------------------------------------------------------------------------
(* handle_tick_latency_oriented *)

\* target_lat > -lat_bias ? target_lat + lat_bias : 0, compared unsigned.
TargetLat == IF ld.target > U(-ld.bias) THEN U(ld.target + ld.bias) ELSE 0
RestTime  == S(S(TargetLat) - elapsed)

\* Mutant: the slice that has just ended is not counted as still to run.
RestWithoutSlice == S(ld.hist - ld.used)

RestNcycle == S(ld.hist - ld.used + Slice)

\* rest_time is multiplied and divided as an unsigned word.
PeriodAssume == S(U(RestTime * Slice) \div RestNcycle - Margin)
SleepNs      == IF RestNcycle > 0 THEN S(PeriodAssume - sincePast) ELSE 0

\* The deadline of the round, as the bias is meant, and what is left until then.
Deadline == IF ld.target + ld.bias > 0 THEN ld.target + ld.bias ELSE 0
Nap == [asked |-> SleepNs, left |-> Deadline - elapsed, cycles |-> ld.hist - ld.used, slack |-> ld.bias]

\* The futex wait ends when it is over, or earlier: the idle waker and every
\* signal end it.  What passes MaxElapsed is cut off.
TickLatencyOriented ==
  /\ ld.used + Slice <= MaxUsed
  /\ ld' = [ld EXCEPT !.used = @ + Slice]
  /\ \/ /\ SleepNs > Margin
        /\ \E slept \in 0 .. Bounded(SleepNs) : elapsed' = Bounded(elapsed + slept)
        /\ nap' = Nap
     \/ /\ SleepNs <= Margin
        /\ UNCHANGED elapsed
        /\ nap' = NULL
  /\ sincePast' = 0
  /\ UNCHANGED restarting

-----------------------------------------------------------------------------
(* The calls *)

\* robflex_set_as_latency_flick: used_ncycle and lat_bias stay as they are.
SetAsLatencyFlick(d) ==
  /\ ~restarting
  /\ ld' = [ld EXCEPT !.target = d.lat, !.hist = d.base]
  /\ elapsed' = 0 /\ nap' = NULL
  /\ UNCHANGED <<sincePast, restarting>>

AddRuncycle(n) ==
  /\ ~restarting /\ ld.used + n <= MaxUsed
  /\ ld' = [ld EXCEPT !.used = @ + n]
  /\ nap' = NULL
  /\ UNCHANGED <<elapsed, sincePast, restarting>>

\* Mutant: the mean is rounded up.
MeanAbove(a, b) == (a + b + 1) \div 2

\* hist_ncycle*0.5 + used_ncycle*0.5, cut to an integer.
Mean(a, b) == (a + b) \div 2

\* robflex_shot_on_latency ends a round: the estimate learns from it.  The ticks
\* deferred so far, and any that come, still belong to the old start time ...
ShotOnLatency ==
  /\ ~restarting
  /\ ld' = [ld EXCEPT !.hist = Mean(@, ld.used), !.used = 0]
  /\ restarting' = TRUE /\ nap' = NULL
  /\ UNCHANGED <<elapsed, sincePast>>

\* ... until the time is restarted.
RestartTime ==
  /\ restarting
  /\ elapsed' = 0 /\ restarting' = FALSE /\ nap' = NULL
  /\ UNCHANGED <<ld, sincePast>>

\* robflex_chained_from_latency, with what an earlier stage's shot returned.
ChainedFromLatency(f) ==
  /\ ~restarting
  /\ ld' = [ld EXCEPT !.bias = Quotient((f.target - f.used) * f.percent, 100)]
  /\ elapsed' = 0 /\ nap' = NULL
  /\ UNCHANGED <<sincePast, restarting>>

-----------------------------------------------------------------------------
SetAnew == \E d \in Demands : SetAsLatencyFlick(d)

LatencyNext ==
  \/ \E d \in RunTimes : RunFor(d)
  \/ TickLatencyOriented
  \/ SetAnew
  \/ \E n \in Runcycles : AddRuncycle(n)
  \/ ShotOnLatency
  \/ RestartTime
  \/ \E f \in Feedbacks : ChainedFromLatency(f)

LatencySpec == LatencyInit /\ [][LatencyNext]_latencyVars

\* The thread is scheduled.
FairLatencySpec == LatencySpec /\ WF_latencyVars(RestartTime)

-----------------------------------------------------------------------------
\* The variables keep their types: in bounds, every word is one.
LatencyTypeOK ==
  /\ ld.target \in 0 .. Word - 1 /\ ld.hist \in 0 .. Word - 1 /\ ld.used \in 0 .. MaxUsed
  /\ ld.bias \in -(Word \div 2) .. Word \div 2 - 1
  /\ elapsed \in 0 .. MaxElapsed /\ sincePast \in 0 .. MaxElapsed
  /\ restarting \in BOOLEAN
  /\ nap # NULL => nap.asked \in Margin + 1 .. Word \div 2 - 1

\* inc/robflex_def.h:114, "run to meet the latency meeting": before the deadline,
\* a tick sleeps no longer than the share of its slice in what is left, so that
\* the cycles still expected keep theirs and, while a round uses no more cycles
\* than expected, no sleep makes it late; whatever rounds, restarts and feedback
\* came before.  Two cases are left out, and miss it: a round already late, and
\* one with slack from an earlier stage.  Both make the time left a negative
\* number, which is multiplied and divided as an unsigned one.
SleepsWithinDeadline ==
  nap # NULL /\ nap.left >= 0 /\ nap.slack <= 0 =>
    /\ nap.asked * (nap.cycles + Slice) <= nap.left * Slice
    /\ nap.cycles >= 0 => nap.asked <= nap.left

\* The estimate learns: rounds that need the same number of cycles, time and again,
\* bring it to that number, or one below it, from wherever it was.
EstimateSettles ==
  \A n \in 0 .. MaxUsed :
    /\ []<><<ShotOnLatency>>_latencyVars
    /\ <>[][ShotOnLatency => ld.used = n]_latencyVars
    /\ <>[][~SetAnew]_latencyVars
    => <>[](ld.hist \in {n - 1, n})
=============================================================================
