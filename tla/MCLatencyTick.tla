---------------------------- MODULE MCLatencyTick ---------------------------
(* Demands and feedback of the instance of LatencyTick for TLC.              *)
EXTENDS LatencyTick

\* A round of a few slices, expected right, short or long, and one so long that
\* the product of time and slice overflows a word.
MCDemands == {[lat |-> 12, base |-> 4], [lat |-> 12, base |-> 9], [lat |-> 100, base |-> 6]}

\* An earlier stage that was late, and one that was early.
MCFeedbacks ==
  {[target |-> 6, used |-> 13, percent |-> 50], [target |-> 9, used |-> 3, percent |-> 50]}
=============================================================================
