------------------------------ MODULE EventMap ------------------------------
(***************************************************************************)
(* What the event contexts of a thread promise: a map from events to the   *)
(* demand (policy, aux, level) last attached for each, of limited          *)
(* capacity.  Attaching for an event that has a demand replaces it,        *)
(* whatever the room left; an attach the map has no room for, and a detach *)
(* of an event without a demand, return -1 and change nothing.             *)
(***************************************************************************)
EXTENDS Integers, FiniteSets

CONSTANTS Events, Demands, Capacity, None

VARIABLES
  map,   \* the demand attached for each event, or None
  failed \* the last call, "attach" or "detach", if it returned -1, or None

mapVars == <<map, failed>>

Attached == {e \in Events : map[e] # None}

MInit == map = [e \in Events |-> None] /\ failed = None

MAttach(e, d) ==
  \/ /\ e \in Attached \/ Cardinality(Attached) < Capacity
     /\ map' = [map EXCEPT ![e] = d] /\ failed' = None
  \/ /\ e \notin Attached /\ Cardinality(Attached) = Capacity
     /\ failed' = "attach" /\ UNCHANGED map

MDetach(e) ==
  \/ e \in Attached /\ map' = [map EXCEPT ![e] = None] /\ failed' = None
  \/ e \notin Attached /\ failed' = "detach" /\ UNCHANGED map

MNext == \E e \in Events : MDetach(e) \/ \E d \in Demands : MAttach(e, d)

MapSpec == MInit /\ [][MNext]_mapVars
=============================================================================
