---------------------------- MODULE MCCondTable ----------------------------
(* CondTable with small tables, for TLC. *)
EXTENDS CondTable, TLC

CONSTANTS t1, t2, t3

\* The threads other than main() are interchangeable.
Symmetry == Permutations(Threads \ {Main})
=============================================================================
