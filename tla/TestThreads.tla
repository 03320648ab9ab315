---------------------------- MODULE TestThreads ----------------------------
(* What the test suite of threads/threadtest.cc works with: a thread for    *)
(* every function it forks, and the objects of the five tests.              *)
EXTENDS Naturals, Functions

CONSTANT Waiters    \* t3_waiter's and t4_waiter's: 5 in the code

ASSUME WaitersAssumption == Waiters \in Nat \ {0}

One(function) == <<function, 1>>
Each(function) == [i \in 1 .. Waiters |-> <<function, i>>]

SuiteThreads ==
  {One(f) : f \in {"TestSuite", "t1_t1", "t1_t2", "t1_t3", "t2_t1", "t2_t2",
                   "t3_signaller", "t4_signaller", "t5_t1", "t5_t2"}}
  \cup Range(Each("t3_waiter")) \cup Range(Each("t4_waiter"))

SuiteLocks == {"t1_l1", "t2_l1", "t3_l1", "t4_l1", "t5_l1", "t5_l2"}
SuiteConds == {"t2_c1", "t3_c1", "t4_c1", "t5_c1"}
SuiteSems == {"t1_s1", "t1_s2", "t1_s3", "t1_done", "t2_s1", "t2_done",
              "t3_s1", "t3_done", "t4_s1", "t4_done", "t5_s1"}

=============================================================================
