----------------------------- MODULE TestSuite -----------------------------
(***************************************************************************)
(* The tests of Lock and Condition in threads/threadtest.cc and, the same  *)
(* but for what they print, in Part 1 of properTestfile.cc, as programs of *)
(* kernel threads over the locks, conditions and semaphores of             *)
(* threads/synch.cc.  A program is the sequence of calls its thread makes; *)
(* place is how many of them the thread has begun.  A time slice may end   *)
(* before every call and inside Broadcast.  The threads, locks, conditions *)
(* and semaphores are those of TestThreads.                                *)
(***************************************************************************)
EXTENDS Monitors, Semaphores, SequencesExt, TestThreads

CONSTANT MaxSlices   \* bound: time slices

VARIABLES
  place,      \* the calls each thread has begun
  slices      \* how many time slices have ended

suiteVars == <<schedVars, monitorVars, semVars, place, slices>>

----------------------------------------------------------------------------
\* The calls.
Call(name, object) == <<[call |-> name, on |-> object, with |-> NoLock]>>
CallWith(name, cond, lock) == <<[call |-> name, on |-> cond, with |-> lock]>>
Repeat(n, calls) == FlattenSeq([i \in 1 .. n |-> calls])
Forked(threads) == [i \in DOMAIN threads |-> [call |-> "Fork", on |-> threads[i], with |-> NoLock]]

\* lock is held while the calls are made.
Holding(lock, calls) == Call("Acquire", lock) \o calls \o Call("Release", lock)

Test1(function) ==
  CASE function = "t1_t1" -> Holding("t1_l1", Call("V", "t1_s1") \o Call("P", "t1_s3"))
                               \o Call("V", "t1_done")
    [] function = "t1_t2" -> Call("P", "t1_s1") \o Call("V", "t1_s2")
                               \o Holding("t1_l1", << >>) \o Call("V", "t1_done")
    [] function = "t1_t3" -> Call("P", "t1_s2") \o Call("V", "t1_s3")
                               \o Repeat(3, Call("Release", "t1_l1"))

Test2(function) ==
  CASE function = "t2_t1" -> Holding("t2_l1", CallWith("Signal", "t2_c1", "t2_l1"))
                               \o Call("V", "t2_s1") \o Call("V", "t2_done")
    [] function = "t2_t2" -> Call("P", "t2_s1")
                               \o Holding("t2_l1", CallWith("Wait", "t2_c1", "t2_l1"))

Test3(function) ==
  CASE function = "t3_waiter" ->
         Holding("t3_l1", Call("V", "t3_s1") \o CallWith("Wait", "t3_c1", "t3_l1"))
           \o Call("V", "t3_done")
    [] function = "t3_signaller" ->
         Repeat(Waiters, Call("P", "t3_s1"))
           \o Holding("t3_l1", CallWith("Signal", "t3_c1", "t3_l1")) \o Call("V", "t3_done")

Test4(function) ==
  CASE function = "t4_waiter" ->
         Holding("t4_l1", Call("V", "t4_s1") \o CallWith("Wait", "t4_c1", "t4_l1"))
           \o Call("V", "t4_done")
    [] function = "t4_signaller" ->
         Repeat(Waiters, Call("P", "t4_s1"))
           \o Holding("t4_l1", CallWith("Broadcast", "t4_c1", "t4_l1")) \o Call("V", "t4_done")

Test5(function) ==
  CASE function = "t5_t1" ->
         Holding("t5_l1", Call("V", "t5_s1") \o CallWith("Wait", "t5_c1", "t5_l1"))
    [] function = "t5_t2" ->
         Call("P", "t5_s1")
           \o Holding("t5_l1", Holding("t5_l2", CallWith("Signal", "t5_c1", "t5_l2")))

RunsTests ==
  Forked(<<One("t1_t1"), One("t1_t2"), One("t1_t3")>>) \o Repeat(2, Call("P", "t1_done"))
  \o Forked(<<One("t2_t1"), One("t2_t2")>>) \o Call("P", "t2_done")
  \o Forked(Append(Each("t3_waiter"), One("t3_signaller"))) \o Repeat(2, Call("P", "t3_done"))
  \o Forked(Append(Each("t4_waiter"), One("t4_signaller")))
  \o Repeat(Waiters + 1, Call("P", "t4_done"))
  \o Forked(<<One("t5_t1"), One("t5_t2")>>)

Program(t) ==
  CASE t[1] = "TestSuite" -> RunsTests
    [] t[1] \in {"t1_t1", "t1_t2", "t1_t3"} -> Test1(t[1])
    [] t[1] \in {"t2_t1", "t2_t2"} -> Test2(t[1])
    [] t[1] \in {"t3_waiter", "t3_signaller"} -> Test3(t[1])
    [] t[1] \in {"t4_waiter", "t4_signaller"} -> Test4(t[1])
    [] t[1] \in {"t5_t1", "t5_t2"} -> Test5(t[1])

SuiteInit ==
  /\ MonitorInit
  /\ SemInit
  /\ place = [t \in Threads |-> 0]
  /\ slices = 0

----------------------------------------------------------------------------
\* currentThread is between two calls, of which there are some left.
Between == At("run") /\ inP[currentThread] = NoSem
HasReturned(t) == place[t] = Len(Program(t))
NextCall == Program(currentThread)[place[currentThread] + 1]
Object == NextCall.on

Begin(name) ==
  /\ Between /\ ~HasReturned(currentThread)
  /\ NextCall.call = name
  /\ place' = [place EXCEPT ![currentThread] = @ + 1]
  /\ UNCHANGED slices

MonitorCall ==
  /\ \/ Begin("Acquire") /\ Acquire(Object)
     \/ Begin("Release") /\ Release(Object)
     \/ Begin("Wait") /\ Wait(Object, NextCall.with)
     \/ Begin("Signal") /\ Signal(Object, NextCall.with)
     \/ Begin("Broadcast") /\ Broadcast(Object, NextCall.with)
     \/ Begin("Fork") /\ Fork(Object)
  /\ UNCHANGED semVars

SemCall ==
  /\ \/ Begin("P") /\ DoP(Object)
     \/ Begin("V") /\ DoV(Object) /\ UNCHANGED pending
  /\ UNCHANGED monitorVars

\* The call a thread is in goes on, or its function returns.
GoesOn ==
  /\ \/ AcquireReturn
     \/ WaitReacquire
     \/ BroadcastSignal
     \/ BroadcastReturn
     \/ HasReturned(currentThread) /\ Between /\ Finish
  /\ UNCHANGED <<semVars, place, slices>>

PGoesOn == PResume /\ UNCHANGED <<monitorVars, place, slices>>

TimeSlice ==
  /\ slices < MaxSlices
  /\ Between \/ At("Broadcast")
  /\ SchedYield
  /\ slices' = slices + 1
  /\ UNCHANGED <<monitorVars, semVars, place>>

SuiteEnds == SchedIdle /\ UNCHANGED <<monitorVars, semVars, place, slices>>

SuiteNext ==
  \/ MonitorCall
  \/ SemCall
  \/ GoesOn
  \/ PGoesOn
  \/ TimeSlice
  \/ SuiteEnds

----------------------------------------------------------------------------
\* A thread that is about to give up a lock it took has it: "a thread trying to
\* release a lock it does not hold does not work" (threadtest.cc:342).
NobodyTookTheLock ==
  \A t \in Threads \ {One("t1_t3")} :
    pc[t] = "run" /\ inP[t] = NoSem /\ ~HasReturned(t) =>
      LET c == Program(t)[place[t] + 1]
      IN  c.call = "Release" => lockOwner[c.on] = t

\* The suite comes out as its comments say: signals are not stored (t2_t2 never
\* completes), Signal wakes one thread (one t3_waiter) and Broadcast all, and a
\* signal with another lock wakes nobody (t5_t1 never completes).
SuiteComesOut ==
  /\ NobodyTookTheLock
  /\ halted =>
       LET waiting == {t \in Threads : pc[t] = "Wait"}
           stranded == waiting \ Range(Each("t3_waiter"))
       IN  /\ stranded = {One("t2_t2"), One("t5_t1")}
           /\ Cardinality(waiting \cap Range(Each("t3_waiter"))) = Waiters - 1
           /\ \A t \in Threads \ waiting : pc[t] = "finished"

=============================================================================
