-------------------------- MODULE MCCommandClients --------------------------
(* The instance of CommandClients for TLC: two threads of a preloaded        *)
(* process, three descriptors, a socket of the daemon that holds a datagram. *)
EXTENDS CommandClients

MCThreads == {1, 2}
MCFiles == 3
=============================================================================
