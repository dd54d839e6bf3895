---------------------------- MODULE MCEventTable ----------------------------
(* Instances of EventTable for TLC: demands are numbers, and the level of a  *)
(* demand is that number.  The events are interchangeable.                   *)
EXTENDS EventTable, TLC

MCLevelOf == [d \in Demands |-> d]
\* Below level 6, which is stored as -2, and above it.
MCOwnLevels == {0, -3}
MCSymmetry == Permutations(Events)
=============================================================================
