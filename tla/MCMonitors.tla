----------------------------- MODULE MCMonitors -----------------------------
(* Monitors with a few threads, locks and conditions, for TLC. *)
EXTENDS Monitors, TLC

CONSTANTS t1, t2, t3, t4

\* The threads other than main() are interchangeable.
Symmetry == Permutations(Threads \ {Main}) \cup Permutations(Locks)
            \cup Permutations(Conds)
=============================================================================
