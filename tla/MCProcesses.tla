---------------------------- MODULE MCProcesses ----------------------------
(* Processes with few threads, spaces and pages, for TLC. *)
EXTENDS Processes

CONSTANTS t1, t2, t3, t4

=============================================================================
