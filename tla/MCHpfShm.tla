------------------------------ MODULE MCHpfShm ------------------------------
(* Instances of HpfShm for TLC: the queues share a device, or do not.  Which *)
(* device and which queue it is makes no difference.                         *)
EXTENDS HpfShm, TLC

CONSTANTS q1, q2, d1, d2

MCPriorities == {-1, 0}
MCLowest == -1

MCShared == {q1 :> d1 @@ q2 :> d1}
MCPlacements == MCShared \cup {q1 :> d1 @@ q2 :> d2}
=============================================================================
