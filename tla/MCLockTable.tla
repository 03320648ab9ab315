---------------------------- MODULE MCLockTable ----------------------------
(* LockTable with one lock, for TLC. *)
EXTENDS LockTable

CONSTANTS t1, t2, t3

\* The indices the program passes.
OneLockAndBeyond == {-1, 0, 1}
=============================================================================
