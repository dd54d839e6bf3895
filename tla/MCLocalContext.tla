--------------------------- MODULE MCLocalContext ---------------------------
(* Instances of LocalContext for TLC: the contexts the application prepares, *)
(* and the calls of each run.                                                *)
EXTENDS LocalContext

NormContext == InitialContext("YIELDING")
LatencyContext ==
  [policy |-> "LATENCY_ORIENTED", w0 |-> [as |-> "lat", v |-> 0], w1 |-> StartTime(0), cleared |-> 0]

MCInitCtxs == {NormContext, LatencyContext}
MCModes == {"YIELDING", "IMMEDIATE"}
MCOps == AllOps
=============================================================================
