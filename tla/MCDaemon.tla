------------------------------ MODULE MCDaemon ------------------------------
(* Instances of Daemon for TLC: the commands the clients of each run send.   *)
EXTENDS Daemon

Apply(name)  == [cmd |-> "apply_event", name |-> name]
Cancel(name) == [cmd |-> "cancel_event", name |-> name]
Slice(t)     == [cmd |-> "update_ctrl_time_cost", tid |-> t]
Nice(t)      == [cmd |-> "set_priority", tid |-> t, priority |-> 5]
Other(t)     == [cmd |-> "sched_setscheduler", tid |-> t, policy |-> "SCHED_OTHER", priority |-> 0]
Fifo(t)      == [cmd |-> "sched_setscheduler", tid |-> t, policy |-> "SCHED_FIFO", priority |-> 50]

MCEventCommands == {Apply(e) : e \in Events} \cup {Cancel(e) : e \in Events} \cup {Apply("typo")}
MCOrderCommands == MCEventCommands \cup {Nice(t) : t \in Threads} \cup {Other(1), Fifo(1)}
MCSliceCommands == {Slice(t) : t \in Threads}
=============================================================================
