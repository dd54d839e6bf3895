---------------------------- MODULE ContextCalls ----------------------------
(***************************************************************************)
(* What a thread keeps about its own pacing (the LocalContext of           *)
(* inc/robflex_def.h) and the calls of inc/robflex_api.h that change it.   *)
(* Shared by the specification of what the calls promise (AtomicContext)   *)
(* and by the model of how they do it (LocalContext).                      *)
(*                                                                         *)
(* The union uAuxData overlays YieldDemand ("norm") and LatencyDemand      *)
(* ("lat"):                                                                *)
(*   w0   time_slice_ns | target_lat        w1   time_budgets | start_time *)
(* A word is [as, v]: which member wrote it last (for w0, "cpi" is the     *)
(* daemon's signal, which writes time_slice_ns whatever the policy), and   *)
(* what.  As time_budgets, w1.v is the number of ticks that have stored to *)
(* it since it was last set; what they add up to, nested ticks included,   *)
(* is TickPacing's.  start_time, and `cleared` (when used_ncycle was last  *)
(* zeroed), are the number of the call that wrote them.  Words that calls  *)
(* write inside critical sections only and nothing else here reads         *)
(* (hist_ncycle, lat_bias, the totals) are left out.                       *)
(***************************************************************************)
EXTENDS Integers, Sequences

CONSTANTS
  Buffers,   \* LocalContext objects of the application
  InitCtxs,  \* what those objects hold before the first call
  Modes,     \* ROBFLEX_RUNMODE: the policy of the first loc_ctx
  Ops,       \* the calls the application makes
  Slices,    \* arguments of robflex_set_time_for_throttle
  CpiValues, \* slices a CPI_SET_SIGNAL may carry
  NULL       \* no saved_context; no call

Norm == {"YIELDING", "PREDETERMINED"}
Policies == Norm \cup {"IMMEDIATE", "LATENCY_ORIENTED", "BY_HANDLER"}
Members == {"norm", "lat", "cpi"}

Context ==
  [policy  : Policies,
   w0      : [as : Members, v : Nat],
   w1      : [as : Members, v : Nat],
   cleared : Nat]

AllOps == {"set_cycles_for_tick", "set_time_for_throttle", "shot_on_latency",
           "clear_time_budget", "set_as_latency_flick", "set_as_immediate",
           "add_runcycle", "chained_from_latency",
           "switch_context", "switch_context_block"}

ASSUME ContextAssumption ==
  /\ InitCtxs \subseteq Context
  /\ Modes \subseteq Policies
  /\ Ops \subseteq AllOps
  /\ Slices \subseteq Nat /\ CpiValues \subseteq Nat
  /\ NULL \notin Buffers

SwitchOps == {"switch_context", "switch_context_block"}

Call == [op : Ops \ (SwitchOps \cup {"set_time_for_throttle"})]
        \cup [op : Ops \cap {"set_time_for_throttle"}, slice : Slices]
        \cup [op : Ops \cap SwitchOps, new : Buffers, saved : Buffers \cup {NULL}]

\* The policy checks some calls begin with; a refused call changes nothing.
Refused(c, x) ==
  \/ c.op \in {"set_cycles_for_tick", "set_time_for_throttle"} /\ x.policy \notin Norm
  \/ c.op = "shot_on_latency" /\ x.policy # "LATENCY_ORIENTED"

\* What other calls expect of the policy they find, and never check.
InPolicy(c, x) ==
  /\ c.op = "clear_time_budget" => x.policy \in Norm
  /\ c.op \in {"add_runcycle", "chained_from_latency"} => x.policy = "LATENCY_ORIENTED"

NoBudget     == [as |-> "norm", v |-> 0]
StartTime(n) == [as |-> "lat", v |-> n]

\* robflex_init_local_context: the default slice and no budget, whatever the
\* policy.
InitialContext(mode) ==
  [policy |-> mode, w0 |-> [as |-> "norm", v |-> 0], w1 |-> NoBudget, cleared |-> 0]
=============================================================================
