-------------------------- MODULE MCMonitorClients --------------------------
(* MonitorClients with four threads around one lock and one condition. *)
EXTENDS MonitorClients, TLC

CONSTANTS t1, t2, t3, t4, la, ca

TheLock == ca :> la
=============================================================================
