--------------------------- MODULE MonitorsProofs ---------------------------
(***************************************************************************)
(* IInv is an inductive invariant of Monitors.  The first part says what a *)
(* context switch does to the ready list and to the statuses, whoever asks *)
(* for it: the facts that the proofs about the other modules over the      *)
(* dispatcher take from here too.  The second part treats each operation   *)
(* in a lemma of its own; those that switch threads take what happens to   *)
(* the ready list from the first and show what happens to the lock and     *)
(* condition queues.                                                       *)
(***************************************************************************)
EXTENDS Monitors, Functions, SequenceTheorems, TLAPS

----------------------------------------------------------------------------
(***************************************************************************)
(* What Append, Head and Tail do to the members of a queue of the kernel   *)
(* (threads/list.cc): Range(q) is the set of its members, IsInjective(q)   *)
(* says that it holds none twice.                                          *)
(***************************************************************************)
\* List::Append adds its argument to the members, and keeps the queue free of
\* repetitions when the argument is new.
LEMMA QueueAppend ==
  ASSUME NEW S, NEW q \in Seq(S), NEW e \in S
  PROVE  /\ Append(q, e) \in Seq(S)
         /\ Append(q, e) # << >>
         /\ Range(Append(q, e)) = Range(q) \cup {e}
         /\ IsInjective(q) /\ e \notin Range(q) => IsInjective(Append(q, e))
<1> DEFINE r == Append(q, e)
<1>1. /\ r \in Seq(S)
      /\ Len(r) = Len(q) + 1
      /\ \A i \in 1..Len(q) : r[i] = q[i]
      /\ r[Len(q) + 1] = e
  BY AppendProperties
<1>2. /\ DOMAIN r = 1..(Len(q) + 1)
      /\ DOMAIN q = 1..Len(q)
      /\ Len(q) \in Nat
  BY <1>1, LenProperties
<1>3. Range(r) = Range(q) \cup {e}
  BY <1>1, <1>2 DEF Range
<1>4. ASSUME IsInjective(q), e \notin Range(q)  PROVE IsInjective(r)
  BY <1>1, <1>2, <1>4 DEF Range, IsInjective
<1> QED BY <1>1, <1>2, <1>3, <1>4

\* List::Remove takes the first member out, and only that one when the queue
\* is free of repetitions.
LEMMA QueueRemove ==
  ASSUME NEW S, NEW q \in Seq(S), q # << >>
  PROVE  /\ Head(q) \in S
         /\ Tail(q) \in Seq(S)
         /\ Head(q) \in Range(q)
         /\ IsInjective(q) => /\ IsInjective(Tail(q))
                              /\ Range(Tail(q)) = Range(q) \ {Head(q)}
<1> DEFINE r == Tail(q)
<1>1. /\ r \in Seq(S)
      /\ Len(r) = Len(q) - 1
      /\ \A i \in 1..Len(r) : r[i] = q[i + 1]
      /\ Head(q) \in S
  BY HeadTailProperties
<1>2. /\ DOMAIN r = 1..Len(r)
      /\ DOMAIN q = 1..Len(q)
      /\ Len(q) \in Nat \ {0}
  BY <1>1, LenProperties, EmptySeq
<1>3. Head(q) = q[1]
  OBVIOUS
<1>4. Head(q) \in Range(q)
  BY <1>2, <1>3 DEF Range
<1>5. ASSUME IsInjective(q)  PROVE IsInjective(r)
  BY <1>1, <1>2, <1>5 DEF IsInjective
<1>6. ASSUME IsInjective(q)  PROVE Range(r) = Range(q) \ {Head(q)}
  <2>1. Range(r) \subseteq Range(q) \ {Head(q)}
    BY <1>1, <1>2, <1>3, <1>6 DEF Range, IsInjective
  <2>2. ASSUME NEW x \in Range(q) \ {Head(q)}  PROVE x \in Range(r)
    <3>1. PICK i \in 1..Len(q) : x = q[i]
      BY <1>2 DEF Range
    <3>2. i # 1
      BY <3>1, <1>3
    <3>3. i - 1 \in 1..Len(r) /\ r[i - 1] = x
      BY <3>1, <3>2, <1>1, <1>2
    <3> QED BY <3>3, <1>2 DEF Range
  <2> QED BY <2>1, <2>2
<1> QED BY <1>1, <1>4, <1>5, <1>6

\* List::IsEmpty: a queue is empty when it has no members.
LEMMA QueueEmpty ==
  ASSUME NEW S, NEW q \in Seq(S)
  PROVE  /\ q = << >> <=> Range(q) = {}
         /\ Range(q) \subseteq S
<1>1. /\ DOMAIN q = 1..Len(q)
      /\ Len(q) \in Nat
      /\ q # << >> => Len(q) \in Nat \ {0}
      /\ \A i \in 1..Len(q) : q[i] \in S
  BY LenProperties, EmptySeq, ElementOfSeq
<1>2. q = << >> => Range(q) = {}
  BY DEF Range
<1>3. q # << >> => q[1] \in Range(q)
  BY <1>1 DEF Range
<1>4. Range(q) \subseteq S
  BY <1>1 DEF Range
<1> QED BY <1>2, <1>3, <1>4

\* The empty queue, with which every queue of the kernel starts.
LEMMA QueueInit ==
  ASSUME NEW S
  PROVE  << >> \in Seq(S) /\ Range(<< >>) = {} /\ IsInjective(<< >>)
BY DEF Range, IsInjective

----------------------------------------------------------------------------
(***************************************************************************)
(* The dispatcher.                                                         *)
(***************************************************************************)
\* rl holds exactly the threads that st says are ready, each once.
ReadyListOK(rl, st) ==
  /\ rl \in Seq(Threads)
  /\ st \in [Threads -> ThreadStatus]
  /\ IsInjective(rl)
  /\ \A t \in Threads : st[t] = "READY" <=> t \in Range(rl)

\* At most the current thread is marked as running.
OneRunning(cur, st) == \A t \in Threads : st[t] = "RUNNING" => t = cur

\* Scheduler::Run of a thread that rl and st no longer list as ready: that
\* thread becomes the current one, no other changes, and only the carcass can
\* be freed.
LEMMA RunSwitches ==
  ASSUME SchedTypeOK,
         NEW next \in Threads, NEW rl, NEW st,
         NEW carcass \in Threads \cup {NoThread},
         rl \in Seq(Threads), IsInjective(rl),
         st \in [Threads -> ThreadStatus],
         \A t \in Threads \ {next} : st[t] = "READY" <=> t \in Range(rl),
         next \notin Range(rl),
         \A t \in Threads : st[t] # "RUNNING",
         Run(next, rl, st, carcass)
  PROVE  /\ SchedTypeOK'
         /\ currentThread' = next
         /\ ReadyListOK(readyList', status')
         /\ OneRunning(currentThread', status')
         /\ \A t \in Threads \ {next} : status'[t] = st[t]
         /\ status'[next] = "RUNNING"
         /\ deleted' \cup {threadToBeDestroyed'} \subseteq deleted \cup {carcass, NoThread}
BY ThreadsAssumption DEF SchedTypeOK, ThreadStatus, Run, ReadyListOK, OneRunning

\* Thread::Sleep: the current thread is blocked, and no other thread blocks
\* or wakes.
LEMMA SleepSwitches ==
  ASSUME SchedTypeOK,
         NEW rl, NEW st, NEW carcass \in Threads \cup {NoThread},
         ReadyListOK(rl, st), OneRunning(currentThread, st),
         st[currentThread] = "RUNNING",
         Sleep(rl, st, carcass)
  PROVE  /\ SchedTypeOK'
         /\ ReadyListOK(readyList', status')
         /\ OneRunning(currentThread', status')
         /\ \A t \in Threads :
              status'[t] = "BLOCKED" <=> st[t] = "BLOCKED" \/ t = currentThread
         /\ deleted' \cup {threadToBeDestroyed'} \subseteq deleted \cup {carcass, NoThread}
<1> DEFINE blocked == [st EXCEPT ![currentThread] = "BLOCKED"]
<1>1. /\ currentThread \in Threads
      /\ currentThread \notin Range(rl)
      /\ blocked \in [Threads -> ThreadStatus]
      /\ blocked[currentThread] = "BLOCKED"
      /\ \A t \in Threads \ {currentThread} : blocked[t] = st[t]
      /\ \A t \in Threads : blocked[t] # "RUNNING"
  BY DEF SchedTypeOK, ReadyListOK, OneRunning, ThreadStatus
<1>2. CASE rl # << >>
  <2>1. /\ Head(rl) \in Threads
        /\ Tail(rl) \in Seq(Threads)
        /\ IsInjective(Tail(rl))
        /\ Head(rl) \in Range(rl)
        /\ Range(Tail(rl)) = Range(rl) \ {Head(rl)}
    BY <1>2, QueueRemove DEF ReadyListOK
  <2>2. Run(Head(rl), Tail(rl), blocked, carcass)
    BY <1>2 DEF Sleep
  <2>3. \A t \in Threads \ {Head(rl)} : blocked[t] = "READY" <=> t \in Range(Tail(rl))
    BY <1>1, <2>1 DEF ReadyListOK
  <2>4. /\ SchedTypeOK'
        /\ ReadyListOK(readyList', status')
        /\ OneRunning(currentThread', status')
        /\ \A t \in Threads \ {Head(rl)} : status'[t] = blocked[t]
        /\ status'[Head(rl)] = "RUNNING"
        /\ deleted' \cup {threadToBeDestroyed'} \subseteq deleted \cup {carcass, NoThread}
    <3> HIDE DEF blocked
    <3> QED BY <1>1, <2>1, <2>2, <2>3, RunSwitches
  <2>5. st[Head(rl)] = "READY" /\ Head(rl) # currentThread
    BY <1>1, <2>1 DEF ReadyListOK
  <2> QED BY <1>1, <2>4, <2>5
<1>3. CASE rl = << >>
  BY <1>1, <1>3 DEF Sleep, SchedTypeOK, ReadyListOK, OneRunning
<1> QED BY <1>2, <1>3

\* Thread::Yield: nobody blocks or wakes.
LEMMA YieldSwitches ==
  ASSUME SchedTypeOK,
         ReadyListOK(readyList, status), OneRunning(currentThread, status),
         status[currentThread] = "RUNNING",
         SchedYield
  PROVE  /\ SchedTypeOK'
         /\ ReadyListOK(readyList', status')
         /\ OneRunning(currentThread', status')
         /\ \A t \in Threads : status'[t] = "BLOCKED" <=> status[t] = "BLOCKED"
         /\ deleted' \cup {threadToBeDestroyed'}
              \subseteq deleted \cup {threadToBeDestroyed, NoThread}
<1> DEFINE next == Head(readyList)
           rl == Append(Tail(readyList), currentThread)
           st == [status EXCEPT ![currentThread] = "READY"]
<1>1. /\ next \in Threads
      /\ Tail(readyList) \in Seq(Threads)
      /\ IsInjective(Tail(readyList))
      /\ next \in Range(readyList)
      /\ Range(Tail(readyList)) = Range(readyList) \ {next}
  BY QueueRemove DEF ReadyListOK, SchedYield
<1>2. currentThread \in Threads /\ currentThread \notin Range(readyList)
  BY DEF SchedTypeOK, ReadyListOK
<1>3. /\ rl \in Seq(Threads)
      /\ IsInjective(rl)
      /\ Range(rl) = (Range(readyList) \ {next}) \cup {currentThread}
  <2>1. currentThread \notin Range(Tail(readyList))
    BY <1>1, <1>2
  <2>2. /\ rl \in Seq(Threads)
        /\ IsInjective(rl)
        /\ Range(rl) = Range(Tail(readyList)) \cup {currentThread}
    <3> DEFINE rest == Tail(readyList)
    <3>1. rest \in Seq(Threads) /\ IsInjective(rest) /\ currentThread \notin Range(rest)
      BY <1>1, <2>1
    <3> HIDE DEF rest
    <3>2. /\ Append(rest, currentThread) \in Seq(Threads)
          /\ IsInjective(Append(rest, currentThread))
          /\ Range(Append(rest, currentThread)) = Range(rest) \cup {currentThread}
      BY <1>2, <3>1, QueueAppend
    <3> QED BY <3>2 DEF rest
  <2> QED BY <1>1, <2>2
<1>4. /\ st \in [Threads -> ThreadStatus]
      /\ st[currentThread] = "READY"
      /\ \A t \in Threads \ {currentThread} : st[t] = status[t]
      /\ \A t \in Threads : st[t] # "RUNNING"
  BY <1>2 DEF ReadyListOK, OneRunning, ThreadStatus
<1>5. \A t \in Threads \ {next} : st[t] = "READY" <=> t \in Range(rl)
  BY <1>2, <1>3, <1>4 DEF ReadyListOK
<1>6. next \notin Range(rl) /\ status[next] = "READY" /\ next # currentThread
  BY <1>1, <1>2, <1>3 DEF ReadyListOK
<1>7. Run(next, rl, st, threadToBeDestroyed)
  BY DEF SchedYield
<1>8. /\ SchedTypeOK'
      /\ ReadyListOK(readyList', status')
      /\ OneRunning(currentThread', status')
      /\ \A t \in Threads \ {next} : status'[t] = st[t]
      /\ status'[next] = "RUNNING"
      /\ deleted' \cup {threadToBeDestroyed'}
           \subseteq deleted \cup {threadToBeDestroyed, NoThread}
  <2> HIDE DEF next, rl, st
  <2>1. threadToBeDestroyed \in Threads \cup {NoThread}
    BY DEF SchedTypeOK
  <2> QED BY <1>1, <1>3, <1>4, <1>5, <1>6, <1>7, <2>1, RunSwitches
<1> QED BY <1>4, <1>6, <1>8

\* Scheduler::ReadyToRun of a thread that is not ready yet.
LEMMA ReadyToRunAdds ==
  ASSUME NEW rl, NEW st, ReadyListOK(rl, st),
         NEW t \in Threads, st[t] # "READY"
  PROVE  ReadyListOK(Append(rl, t), [st EXCEPT ![t] = "READY"])
<1>1. t \notin Range(rl)
  BY DEF ReadyListOK
<1>2. /\ Append(rl, t) \in Seq(Threads)
      /\ IsInjective(Append(rl, t))
      /\ Range(Append(rl, t)) = Range(rl) \cup {t}
  BY <1>1, QueueAppend DEF ReadyListOK
<1> QED BY <1>2 DEF ReadyListOK, ThreadStatus

----------------------------------------------------------------------------
USE ThreadsAssumption, MonitorsAssumption

\* What IInv says of the dispatcher, in the form the first part uses.
LEMMA DispatcherFacts ==
  ASSUME IInv
  PROVE  /\ SchedTypeOK
         /\ currentThread \in Threads
         /\ ReadyListOK(readyList, status)
         /\ OneRunning(currentThread, status)
BY DEF IInv, TypeOK, SchedTypeOK, EveryThreadInItsPlace, QueuesDistinct,
       ReadyListOK, OneRunning

\* A thread that executes outside Sleep is in no queue.
LEMMA ExecutingInNoQueue ==
  ASSUME IInv, Processing
  PROVE  /\ currentThread \notin Range(readyList)
         /\ \A l \in Locks : currentThread \notin Range(lockQueue[l])
         /\ \A c \in Conds : currentThread \notin Range(condQueue[c])
BY DispatcherFacts DEF IInv, EveryThreadInItsPlace, BlockedAt, Processing

\* The queues hold threads.
LEMMA QueuesHoldThreads ==
  ASSUME IInv
  PROVE  /\ \A l \in Locks : Range(lockQueue[l]) \subseteq Threads
         /\ \A c \in Conds : Range(condQueue[c]) \subseteq Threads
BY QueueEmpty DEF IInv, TypeOK

\* Steps that change neither queues nor statuses, and move the current thread
\* from one place of its code to another: the part of IInv about places.
LEMMA FreeMove ==
  ASSUME IInv, Processing, NEW place \in PC \ {"finished"},
         NEW l \in Locks \cup {NoLock}, NEW c \in Conds \cup {NoCond},
         Goto(place, l, c),
         place \in {"Acquire", "Wait", "Broadcast"} => l \in Locks,
         place \in {"Wait", "Broadcast"} => c \in Conds,
         pc[currentThread] # "finished",
         UNCHANGED schedVars, UNCHANGED lockQueue, UNCHANGED condQueue,
         UNCHANGED waitingLock,
         lockStatus' \in [Locks -> {"FREE", "BUSY"}],
         lockOwner' \in [Locks -> Threads \cup {NoThread}]
  PROVE  TypeOK' /\ EveryThreadInItsPlace' /\ ConditionsConsistent'
         /\ CarcassesAreFinished'
<1> USE DispatcherFacts
<1>1. TypeOK'
  BY DEF IInv, TypeOK, SchedTypeOK, Goto, PC, schedVars
<1>2. \A t \in Threads : \A p \in PC : BlockedAt(t, p)' <=> BlockedAt(t, p)
  BY DEF IInv, TypeOK, Goto, schedVars, BlockedAt, Processing
<1>3. \A t \in Threads : status[t] = "BLOCKED" =>
        pc'[t] = pc[t] /\ argLock'[t] = argLock[t] /\ argCond'[t] = argCond[t]
  BY DEF IInv, TypeOK, Goto, Processing
<1>4. EveryThreadInItsPlace'
  BY <1>2, <1>3 DEF IInv, EveryThreadInItsPlace, QueuesDistinct, BlockedAt, schedVars, PC
<1>5. ConditionsConsistent'
  <2>1. ASSUME NEW d \in Conds, NEW t \in Range(condQueue[d])
        PROVE  argLock'[t] = waitingLock[d]
    <3>1. t \in Threads /\ status[t] = "BLOCKED"
      BY QueuesHoldThreads DEF IInv, EveryThreadInItsPlace, BlockedAt
    <3>2. argLock[t] = waitingLock[d]
      BY DEF IInv, ConditionsConsistent
    <3> QED BY <1>3, <3>1, <3>2
  <2> QED BY <2>1 DEF IInv, ConditionsConsistent
<1>6. CarcassesAreFinished'
  BY <1>3 DEF IInv, CarcassesAreFinished, schedVars, TypeOK, SchedTypeOK
<1> QED BY <1>1, <1>4, <1>5, <1>6

----------------------------------------------------------------------------
(***************************************************************************)
(* Lock::Acquire.                                                          *)
(***************************************************************************)
\* Acquire, called by a thread or at the end of Wait, keeps IInv: the thread
\* takes a lock nobody owns, or joins the end of the queue of its owner.
LEMMA AcquireKeepsIInv ==
  ASSUME IInv, Processing, NEW l \in Locks,
         pc[currentThread] \in {"run", "Wait"},
         DoAcquire(l), UNCHANGED condVars
  PROVE  IInv'
<1> USE DispatcherFacts
<1>1. CASE lockOwner[l] = currentThread /\ Return /\ UNCHANGED <<schedVars, lockVars>>
  <2>1. TypeOK' /\ EveryThreadInItsPlace' /\ ConditionsConsistent' /\ CarcassesAreFinished'
    BY <1>1, FreeMove DEF Return, PC, lockVars, condVars, IInv, TypeOK
  <2>2. LocksConsistent'
    BY <1>1 DEF IInv, TypeOK, LocksConsistent, Return, Goto, lockVars, schedVars
  <2> QED BY <2>1, <2>2 DEF IInv
<1>2. CASE /\ lockOwner[l] # currentThread
           /\ lockStatus[l] = "FREE"
           /\ lockStatus' = [lockStatus EXCEPT ![l] = "BUSY"]
           /\ lockOwner' = [lockOwner EXCEPT ![l] = currentThread]
           /\ Return
           /\ UNCHANGED <<schedVars, lockQueue>>
  <2>1. TypeOK' /\ EveryThreadInItsPlace' /\ ConditionsConsistent' /\ CarcassesAreFinished'
    <3>1. /\ lockStatus' \in [Locks -> {"FREE", "BUSY"}]
          /\ lockOwner' \in [Locks -> Threads \cup {NoThread}]
      BY <1>2 DEF IInv, TypeOK
    <3> QED BY <1>2, <3>1, FreeMove DEF Return, PC, condVars
  <2>2. LocksConsistent'
    <3>1. lockOwner[l] = NoThread /\ lockQueue[l] = << >> /\ Range(lockQueue[l]) = {}
      BY <1>2, QueueInit DEF IInv, LocksConsistent
    <3>2. \A k \in Locks :
            /\ lockStatus'[k] = "FREE" <=> lockOwner'[k] = NoThread
            /\ lockStatus'[k] = "FREE" => lockQueue'[k] = << >>
            /\ lockOwner'[k] \notin Range(lockQueue'[k])
      BY <1>2, <3>1 DEF IInv, TypeOK, LocksConsistent
    <3>3. \A t \in Threads :
            /\ pc'[t] = "Acquire" /\ status'[t] # "BLOCKED" => lockOwner'[argLock'[t]] = t
            /\ pc'[t] = "Wait" => lockOwner'[argLock'[t]] # t
      BY <1>2, <3>1 DEF IInv, TypeOK, LocksConsistent, Return, Goto, schedVars
    <3> QED BY <3>2, <3>3 DEF LocksConsistent
  <2> QED BY <2>1, <2>2 DEF IInv
<1>3. CASE /\ lockOwner[l] # currentThread
           /\ lockStatus[l] = "BUSY"
           /\ lockQueue' = [lockQueue EXCEPT ![l] = Append(@, currentThread)]
           /\ Goto("Acquire", l, NoCond)
           /\ Sleep(readyList, status, threadToBeDestroyed)
           /\ UNCHANGED <<lockStatus, lockOwner>>
  <2>1. /\ SchedTypeOK'
        /\ ReadyListOK(readyList', status')
        /\ OneRunning(currentThread', status')
        /\ \A t \in Threads :
             status'[t] = "BLOCKED" <=> status[t] = "BLOCKED" \/ t = currentThread
        /\ deleted' \cup {threadToBeDestroyed'}
             \subseteq deleted \cup {threadToBeDestroyed, NoThread}
    <3>1. status[currentThread] = "RUNNING" /\ threadToBeDestroyed \in Threads \cup {NoThread}
      BY DEF Processing, SchedTypeOK
    <3> QED BY <1>3, <3>1, SleepSwitches
  <2>2. /\ lockQueue[l] \in Seq(Threads)
        /\ lockQueue'[l] = Append(lockQueue[l], currentThread)
        /\ lockQueue'[l] \in Seq(Threads)
        /\ IsInjective(lockQueue'[l])
        /\ Range(lockQueue'[l]) = Range(lockQueue[l]) \cup {currentThread}
        /\ \A k \in Locks \ {l} : lockQueue'[k] = lockQueue[k]
    <3>1. lockQueue[l] \in Seq(Threads) /\ IsInjective(lockQueue[l])
          /\ lockQueue'[l] = Append(lockQueue[l], currentThread)
          /\ \A k \in Locks \ {l} : lockQueue'[k] = lockQueue[k]
      BY <1>3 DEF IInv, TypeOK, EveryThreadInItsPlace, QueuesDistinct
    <3>2. currentThread \notin Range(lockQueue[l])
      BY ExecutingInNoQueue
    <3> QED BY <3>1, <3>2, QueueAppend
  <2>3. /\ pc' = [pc EXCEPT ![currentThread] = "Acquire"]
        /\ argLock' = [argLock EXCEPT ![currentThread] = l]
        /\ argCond' = [argCond EXCEPT ![currentThread] = NoCond]
    BY <1>3 DEF Goto
  <2>4. TypeOK'
    BY <1>3, <2>1, <2>2, <2>3 DEF IInv, TypeOK, PC, condVars
  <2>5. EveryThreadInItsPlace'
    <3>1. QueuesDistinct'
      BY <2>1, <2>2 DEF IInv, EveryThreadInItsPlace, QueuesDistinct, ReadyListOK, condVars
    <3>2. ASSUME NEW t \in Threads
          PROVE  /\ status'[t] = "READY" <=> t \in Range(readyList')
                 /\ status'[t] = "RUNNING" => t = currentThread'
                 /\ status'[t] = "BLOCKED" => pc'[t] \in {"Acquire", "Wait", "finished"}
      BY <2>1, <2>3 DEF IInv, TypeOK, EveryThreadInItsPlace, ReadyListOK, OneRunning
    <3>3. ASSUME NEW t \in Threads, NEW k \in Locks
          PROVE  t \in Range(lockQueue'[k]) <=> BlockedAt(t, "Acquire")' /\ argLock'[t] = k
      <4>1. t \in Range(lockQueue[k]) <=> BlockedAt(t, "Acquire") /\ argLock[t] = k
        BY DEF IInv, EveryThreadInItsPlace
      <4>2. t \in Range(lockQueue'[k])
              <=> t \in Range(lockQueue[k]) \/ (t = currentThread /\ k = l)
        BY <2>2
      <4>3. currentThread \notin Range(lockQueue[k])
        BY ExecutingInNoQueue
      <4>4. /\ pc'[t] = IF t = currentThread THEN "Acquire" ELSE pc[t]
            /\ argLock'[t] = IF t = currentThread THEN l ELSE argLock[t]
        BY <2>3 DEF IInv, TypeOK
      <4> QED BY <2>1, <4>1, <4>2, <4>3, <4>4 DEF BlockedAt
    <3>4. ASSUME NEW t \in Threads, NEW c \in Conds
          PROVE  t \in Range(condQueue'[c]) <=> BlockedAt(t, "Wait")' /\ argCond'[t] = c
      BY <2>1, <2>3, ExecutingInNoQueue
         DEF IInv, TypeOK, EveryThreadInItsPlace, BlockedAt, condVars
    <3> QED BY <3>1, <3>2, <3>3, <3>4 DEF EveryThreadInItsPlace
  <2>6. LocksConsistent'
    <3>1. lockStatus' = lockStatus /\ lockOwner' = lockOwner
      BY <1>3
    <3>2. \A k \in Locks :
            /\ lockStatus[k] = "FREE" <=> lockOwner[k] = NoThread
            /\ lockStatus[k] = "FREE" => lockQueue[k] = << >>
            /\ lockOwner[k] \notin Range(lockQueue[k])
      BY DEF IInv, LocksConsistent
    <3>3. \A k \in Locks :
            /\ lockStatus'[k] = "FREE" <=> lockOwner'[k] = NoThread
            /\ lockStatus'[k] = "FREE" => lockQueue'[k] = << >>
            /\ lockOwner'[k] \notin Range(lockQueue'[k])
      BY <1>3, <2>2, <3>1, <3>2
    <3>4. ASSUME NEW t \in Threads
          PROVE  /\ pc'[t] = "Acquire" /\ status'[t] # "BLOCKED" => lockOwner'[argLock'[t]] = t
                 /\ pc'[t] = "Wait" => lockOwner'[argLock'[t]] # t
      <4>1. /\ pc[t] = "Acquire" /\ status[t] # "BLOCKED" => lockOwner[argLock[t]] = t
            /\ pc[t] = "Wait" => lockOwner[argLock[t]] # t
        BY DEF IInv, LocksConsistent
      <4>2. /\ pc'[t] = IF t = currentThread THEN "Acquire" ELSE pc[t]
            /\ argLock'[t] = IF t = currentThread THEN l ELSE argLock[t]
        BY <2>3 DEF IInv, TypeOK
      <4> QED BY <2>1, <3>1, <4>1, <4>2
    <3> QED BY <3>3, <3>4 DEF LocksConsistent
  <2>7. ConditionsConsistent'
    BY <2>3, ExecutingInNoQueue, QueuesHoldThreads
       DEF IInv, TypeOK, ConditionsConsistent, condVars
  <2>8. CarcassesAreFinished'
    BY <2>1, <2>3 DEF IInv, TypeOK, SchedTypeOK, CarcassesAreFinished
  <2> QED BY <2>4, <2>5, <2>6, <2>7, <2>8 DEF IInv
<1> QED BY <1>1, <1>2, <1>3 DEF DoAcquire

----------------------------------------------------------------------------
(***************************************************************************)
(* Lock::Release, alone and inside Wait.                                   *)
(***************************************************************************)
\* Release, before the caller goes on: the lock's own state stays
\* consistent, the head of its queue, if the lock is handed over, is ready
\* and owns it, and the caller does not own the lock any more.
LEMMA ReleaseEffect ==
  ASSUME IInv, Processing, NEW l \in Locks, DoRelease(l)
  PROVE  /\ lockStatus' \in [Locks -> {"FREE", "BUSY"}]
         /\ lockOwner' \in [Locks -> Threads \cup {NoThread}]
         /\ lockQueue' \in [Locks -> Seq(Threads)]
         /\ ReadyListOK(ReleasedReady(l), ReleasedStatus(l))
         /\ OneRunning(currentThread, ReleasedStatus(l))
         /\ ReleasedStatus(l)[currentThread] = "RUNNING"
         /\ lockOwner'[l] # currentThread
         /\ \A k \in Locks :
              /\ IsInjective(lockQueue'[k])
              /\ lockStatus'[k] = "FREE" <=> lockOwner'[k] = NoThread
              /\ lockStatus'[k] = "FREE" => lockQueue'[k] = << >>
              /\ lockOwner'[k] \notin Range(lockQueue'[k])
         /\ \A t \in Threads : \A k \in Locks :
              /\ t \in Range(lockQueue'[k])
                   <=> t \in Range(lockQueue[k]) /\ ReleasedStatus(l)[t] = "BLOCKED"
              /\ lockOwner[k] = t => lockOwner'[k] = t \/ t = currentThread
              /\ lockOwner'[k] = t => lockOwner[k] = t \/ pc[t] = "Acquire"
         /\ \A t \in Threads :
              /\ ReleasedStatus(l)[t] = "BLOCKED" => status[t] = "BLOCKED"
              /\ status[t] = "BLOCKED" /\ ReleasedStatus(l)[t] # "BLOCKED"
                   => pc[t] = "Acquire" /\ lockOwner'[argLock[t]] = t
<1> USE DispatcherFacts
<1>0. status[currentThread] = "RUNNING"
  BY DEF Processing
<1>1. CASE HandsOver(l)
  <2> DEFINE h == Head(lockQueue[l])
  <2>1. /\ lockQueue[l] \in Seq(Threads)
        /\ lockQueue[l] # << >>
        /\ lockOwner[l] = currentThread
        /\ IsInjective(lockQueue[l])
    BY <1>1 DEF HandsOver, IInv, TypeOK, EveryThreadInItsPlace, QueuesDistinct
  <2>2. /\ h \in Threads
        /\ h \in Range(lockQueue[l])
        /\ Tail(lockQueue[l]) \in Seq(Threads)
        /\ IsInjective(Tail(lockQueue[l]))
        /\ Range(Tail(lockQueue[l])) = Range(lockQueue[l]) \ {h}
    BY <2>1, QueueRemove
  <2>3. /\ lockOwner' = [lockOwner EXCEPT ![l] = h]
        /\ lockQueue' = [lockQueue EXCEPT ![l] = Tail(@)]
        /\ lockStatus' = lockStatus
    BY <1>1, <2>1 DEF DoRelease
  <2>4. status[h] = "BLOCKED" /\ pc[h] = "Acquire" /\ argLock[h] = l
    BY <2>2 DEF IInv, EveryThreadInItsPlace, BlockedAt
  <2>5. /\ ReleasedReady(l) = Append(readyList, h)
        /\ ReleasedStatus(l) = [status EXCEPT ![h] = "READY"]
    BY <1>1 DEF ReleasedReady, ReleasedStatus
  <2> HIDE DEF h
  <2>6. ReadyListOK(ReleasedReady(l), ReleasedStatus(l))
    <3>1. ReadyListOK(readyList, status) /\ status[h] # "READY"
      BY <2>4
    <3>2. ReadyListOK(Append(readyList, h), [status EXCEPT ![h] = "READY"])
      BY <2>2, <3>1, ReadyToRunAdds
    <3> QED BY <2>5, <3>2
  <2>7. \A t \in Threads : ReleasedStatus(l)[t] = IF t = h THEN "READY" ELSE status[t]
    BY <2>2, <2>5 DEF SchedTypeOK
  <2>8. OneRunning(currentThread, ReleasedStatus(l))
        /\ ReleasedStatus(l)[currentThread] = "RUNNING"
    BY <1>0, <2>4, <2>7 DEF OneRunning
  <2>9. /\ lockQueue'[l] = Tail(lockQueue[l])
        /\ lockOwner'[l] = h
        /\ \A k \in Locks \ {l} : lockQueue'[k] = lockQueue[k] /\ lockOwner'[k] = lockOwner[k]
        /\ lockQueue' \in [Locks -> Seq(Threads)]
        /\ lockOwner' \in [Locks -> Threads \cup {NoThread}]
        /\ lockStatus' \in [Locks -> {"FREE", "BUSY"}]
    BY <2>2, <2>3 DEF IInv, TypeOK
  <2>10. h # currentThread
    BY <1>0, <2>4
  <2>11. ASSUME NEW k \in Locks
         PROVE  /\ IsInjective(lockQueue'[k])
                /\ lockStatus'[k] = "FREE" <=> lockOwner'[k] = NoThread
                /\ lockStatus'[k] = "FREE" => lockQueue'[k] = << >>
                /\ lockOwner'[k] \notin Range(lockQueue'[k])
    <3>1. CASE k = l
      BY <2>1, <2>2, <2>3, <2>9, <3>1 DEF IInv, LocksConsistent
    <3>2. CASE k # l
      BY <2>3, <2>9, <3>2 DEF IInv, LocksConsistent, EveryThreadInItsPlace, QueuesDistinct
    <3> QED BY <3>1, <3>2
  <2>12. ASSUME NEW t \in Threads, NEW k \in Locks
         PROVE  /\ t \in Range(lockQueue'[k])
                     <=> t \in Range(lockQueue[k]) /\ ReleasedStatus(l)[t] = "BLOCKED"
                /\ lockOwner[k] = t => lockOwner'[k] = t \/ t = currentThread
                /\ lockOwner'[k] = t => lockOwner[k] = t \/ pc[t] = "Acquire"
    <3>1. t \in Range(lockQueue[k]) => status[t] = "BLOCKED" /\ argLock[t] = k
      BY DEF IInv, EveryThreadInItsPlace, BlockedAt
    <3>2. CASE k = l
      BY <2>1, <2>2, <2>4, <2>7, <2>9, <3>1, <3>2
    <3>3. CASE k # l
      BY <2>4, <2>7, <2>9, <3>1, <3>3
    <3> QED BY <3>2, <3>3
  <2>13. \A t \in Threads :
           /\ ReleasedStatus(l)[t] = "BLOCKED" => status[t] = "BLOCKED"
           /\ status[t] = "BLOCKED" /\ ReleasedStatus(l)[t] # "BLOCKED"
                => pc[t] = "Acquire" /\ lockOwner'[argLock[t]] = t
    BY <2>4, <2>7, <2>9
  <2>14. lockOwner'[l] # currentThread
    BY <2>9, <2>10
  <2> QED BY <2>6, <2>8, <2>9, <2>11, <2>12, <2>13, <2>14
<1>2. CASE ~HandsOver(l)
  <2>1. ReleasedReady(l) = readyList /\ ReleasedStatus(l) = status
    BY <1>2 DEF ReleasedReady, ReleasedStatus
  <2>2. \A t \in Threads : \A k \in Locks : t \in Range(lockQueue[k]) => status[t] = "BLOCKED"
    BY DEF IInv, EveryThreadInItsPlace, BlockedAt
  <2>3. CASE lockOwner[l] # currentThread /\ UNCHANGED lockVars
    BY <1>0, <2>1, <2>2, <2>3
       DEF lockVars, IInv, TypeOK, LocksConsistent, EveryThreadInItsPlace, QueuesDistinct
  <2>4. CASE /\ lockOwner[l] = currentThread
             /\ lockQueue[l] = << >>
             /\ lockStatus' = [lockStatus EXCEPT ![l] = "FREE"]
             /\ lockOwner' = [lockOwner EXCEPT ![l] = NoThread]
             /\ UNCHANGED lockQueue
    <3>1. /\ lockStatus' \in [Locks -> {"FREE", "BUSY"}]
          /\ lockOwner' \in [Locks -> Threads \cup {NoThread}]
          /\ lockQueue' \in [Locks -> Seq(Threads)]
          /\ lockStatus'[l] = "FREE" /\ lockOwner'[l] = NoThread
          /\ \A k \in Locks \ {l} :
               lockStatus'[k] = lockStatus[k] /\ lockOwner'[k] = lockOwner[k]
      BY <2>4 DEF IInv, TypeOK
    <3>2. \A k \in Locks :
            /\ IsInjective(lockQueue'[k])
            /\ lockStatus'[k] = "FREE" <=> lockOwner'[k] = NoThread
            /\ lockStatus'[k] = "FREE" => lockQueue'[k] = << >>
            /\ lockOwner'[k] \notin Range(lockQueue'[k])
      BY <2>4, <3>1, QueueInit
         DEF IInv, LocksConsistent, EveryThreadInItsPlace, QueuesDistinct
    <3>3. currentThread # NoThread
      BY DEF SchedTypeOK
    <3> QED BY <1>0, <2>1, <2>2, <2>4, <3>1, <3>2, <3>3
  <2> QED BY <1>2, <2>3, <2>4 DEF DoRelease
<1> QED BY <1>1, <1>2

\* Release as an operation of its own.
LEMMA ReleaseKeepsIInv ==
  ASSUME IInv, NEW l \in Locks, Release(l)
  PROVE  IInv'
<1>1. /\ Processing
      /\ pc[currentThread] = "run"
      /\ DoRelease(l)
      /\ readyList' = ReleasedReady(l)
      /\ status' = ReleasedStatus(l)
      /\ UNCHANGED <<currentThread, threadToBeDestroyed, started, deleted, halted>>
      /\ UNCHANGED condVars
      /\ UNCHANGED pcVars
  BY DEF Release, At
<1>2. /\ lockStatus' \in [Locks -> {"FREE", "BUSY"}]
      /\ lockOwner' \in [Locks -> Threads \cup {NoThread}]
      /\ lockQueue' \in [Locks -> Seq(Threads)]
      /\ ReadyListOK(readyList', status')
      /\ OneRunning(currentThread', status')
      /\ \A k \in Locks :
           /\ IsInjective(lockQueue'[k])
           /\ lockStatus'[k] = "FREE" <=> lockOwner'[k] = NoThread
           /\ lockStatus'[k] = "FREE" => lockQueue'[k] = << >>
           /\ lockOwner'[k] \notin Range(lockQueue'[k])
      /\ \A t \in Threads : \A k \in Locks :
           /\ t \in Range(lockQueue'[k])
                <=> t \in Range(lockQueue[k]) /\ status'[t] = "BLOCKED"
           /\ lockOwner[k] = t => lockOwner'[k] = t \/ t = currentThread
           /\ lockOwner'[k] = t => lockOwner[k] = t \/ pc[t] = "Acquire"
      /\ \A t \in Threads :
           /\ status'[t] = "BLOCKED" => status[t] = "BLOCKED"
           /\ status[t] = "BLOCKED" /\ status'[t] # "BLOCKED"
                => pc[t] = "Acquire" /\ lockOwner'[argLock[t]] = t
  BY <1>1, ReleaseEffect
<1>3. TypeOK'
  BY <1>1, <1>2 DEF IInv, TypeOK, SchedTypeOK, ReadyListOK, condVars, pcVars
<1>4. EveryThreadInItsPlace'
  BY <1>1, <1>2 DEF IInv, TypeOK, EveryThreadInItsPlace, QueuesDistinct, BlockedAt,
                    ReadyListOK, OneRunning, condVars, pcVars
<1>5. LocksConsistent'
  <2>1. ASSUME NEW t \in Threads, pc[t] = "Acquire", status'[t] # "BLOCKED"
        PROVE  lockOwner'[argLock[t]] = t
    <3>1. argLock[t] \in Locks /\ t # currentThread
      BY <1>1, <2>1 DEF IInv, TypeOK
    <3>2. CASE status[t] = "BLOCKED"
      BY <1>2, <2>1, <3>2
    <3>3. CASE status[t] # "BLOCKED"
      BY <1>2, <2>1, <3>1, <3>3 DEF IInv, LocksConsistent
    <3> QED BY <3>2, <3>3
  <2>2. ASSUME NEW t \in Threads, pc[t] = "Wait"
        PROVE  lockOwner'[argLock[t]] # t
    BY <1>2, <2>2 DEF IInv, TypeOK, LocksConsistent
  <2> QED BY <1>1, <1>2, <2>1, <2>2 DEF LocksConsistent, pcVars
<1>6. ConditionsConsistent' /\ CarcassesAreFinished'
  BY <1>1, <1>2, QueuesHoldThreads
     DEF IInv, TypeOK, SchedTypeOK, ConditionsConsistent, CarcassesAreFinished,
         condVars, pcVars
<1> QED BY <1>3, <1>4, <1>5, <1>6 DEF IInv

----------------------------------------------------------------------------
(***************************************************************************)
(* Condition::Wait: the caller joins the queue of the condition, gives up  *)
(* the lock and blocks, in one step.                                       *)
(***************************************************************************)
LEMMA WaitKeepsIInv ==
  ASSUME IInv, NEW c \in Conds, NEW l \in Locks \cup {NoLock}, Wait(c, l)
  PROVE  IInv'
<1> USE DispatcherFacts
<1>1. /\ Processing
      /\ pc[currentThread] = "run"
      /\ l \in Locks
      /\ waitingLock[c] \in {NoLock, l}
      /\ waitingLock' = [waitingLock EXCEPT ![c] = l]
      /\ condQueue' = [condQueue EXCEPT ![c] = Append(@, currentThread)]
      /\ DoRelease(l)
      /\ pc' = [pc EXCEPT ![currentThread] = "Wait"]
      /\ argLock' = [argLock EXCEPT ![currentThread] = l]
      /\ argCond' = [argCond EXCEPT ![currentThread] = c]
      /\ Sleep(ReleasedReady(l), ReleasedStatus(l), threadToBeDestroyed)
  BY DEF Wait, At, AcceptsWaiter, Goto
<1> DEFINE rl == ReleasedReady(l)
           st == ReleasedStatus(l)
<1>2. /\ lockStatus' \in [Locks -> {"FREE", "BUSY"}]
      /\ lockOwner' \in [Locks -> Threads \cup {NoThread}]
      /\ lockQueue' \in [Locks -> Seq(Threads)]
      /\ lockOwner'[l] # currentThread
      /\ \A k \in Locks :
           /\ IsInjective(lockQueue'[k])
           /\ lockStatus'[k] = "FREE" <=> lockOwner'[k] = NoThread
           /\ lockStatus'[k] = "FREE" => lockQueue'[k] = << >>
           /\ lockOwner'[k] \notin Range(lockQueue'[k])
      /\ \A t \in Threads : \A k \in Locks :
           /\ t \in Range(lockQueue'[k]) <=> t \in Range(lockQueue[k]) /\ st[t] = "BLOCKED"
           /\ lockOwner[k] = t => lockOwner'[k] = t \/ t = currentThread
           /\ lockOwner'[k] = t => lockOwner[k] = t \/ pc[t] = "Acquire"
      /\ \A t \in Threads :
           /\ st[t] = "BLOCKED" => status[t] = "BLOCKED"
           /\ status[t] = "BLOCKED" /\ st[t] # "BLOCKED"
                => pc[t] = "Acquire" /\ lockOwner'[argLock[t]] = t
  BY <1>1, ReleaseEffect
<1>3. ReadyListOK(rl, st) /\ OneRunning(currentThread, st) /\ st[currentThread] = "RUNNING"
  BY <1>1, ReleaseEffect
<1>4. /\ SchedTypeOK'
      /\ ReadyListOK(readyList', status')
      /\ OneRunning(currentThread', status')
      /\ \A t \in Threads : status'[t] = "BLOCKED" <=> st[t] = "BLOCKED" \/ t = currentThread
      /\ deleted' \cup {threadToBeDestroyed'}
           \subseteq deleted \cup {threadToBeDestroyed, NoThread}
  <2>1. threadToBeDestroyed \in Threads \cup {NoThread}
    BY DEF SchedTypeOK
  <2>2. Sleep(rl, st, threadToBeDestroyed)
    BY <1>1
  <2> HIDE DEF rl, st
  <2> QED BY <1>3, <2>1, <2>2, SleepSwitches
<1> HIDE DEF rl, st
<1>5. /\ condQueue'[c] \in Seq(Threads)
      /\ condQueue'[c] # << >>
      /\ IsInjective(condQueue'[c])
      /\ Range(condQueue'[c]) = Range(condQueue[c]) \cup {currentThread}
      /\ \A d \in Conds \ {c} : condQueue'[d] = condQueue[d]
  <2>1. /\ condQueue[c] \in Seq(Threads) /\ IsInjective(condQueue[c])
        /\ condQueue'[c] = Append(condQueue[c], currentThread)
        /\ \A d \in Conds \ {c} : condQueue'[d] = condQueue[d]
    BY <1>1 DEF IInv, TypeOK, EveryThreadInItsPlace, QueuesDistinct
  <2>2. currentThread \notin Range(condQueue[c])
    BY <1>1, ExecutingInNoQueue
  <2> QED BY <2>1, <2>2, QueueAppend
<1>6. \A t \in Threads :
        /\ pc'[t] = IF t = currentThread THEN "Wait" ELSE pc[t]
        /\ argLock'[t] = IF t = currentThread THEN l ELSE argLock[t]
        /\ argCond'[t] = IF t = currentThread THEN c ELSE argCond[t]
  BY <1>1 DEF IInv, TypeOK
<1>7. TypeOK'
  BY <1>1, <1>2, <1>4, <1>5, <1>6 DEF IInv, TypeOK, PC
<1>8. EveryThreadInItsPlace'
  <2>1. QueuesDistinct'
    BY <1>2, <1>4, <1>5 DEF IInv, EveryThreadInItsPlace, QueuesDistinct, ReadyListOK
  <2>2. ASSUME NEW t \in Threads
        PROVE  /\ status'[t] = "READY" <=> t \in Range(readyList')
               /\ status'[t] = "RUNNING" => t = currentThread'
               /\ status'[t] = "BLOCKED" => pc'[t] \in {"Acquire", "Wait", "finished"}
    BY <1>2, <1>4, <1>6 DEF IInv, EveryThreadInItsPlace, ReadyListOK, OneRunning
  <2>3. ASSUME NEW t \in Threads, NEW k \in Locks
        PROVE  t \in Range(lockQueue'[k]) <=> BlockedAt(t, "Acquire")' /\ argLock'[t] = k
    <3>1. t \in Range(lockQueue[k]) <=> BlockedAt(t, "Acquire") /\ argLock[t] = k
      BY DEF IInv, EveryThreadInItsPlace
    <3> QED BY <1>1, <1>2, <1>3, <1>4, <1>6, <3>1 DEF BlockedAt
  <2>4. ASSUME NEW t \in Threads, NEW d \in Conds
        PROVE  t \in Range(condQueue'[d]) <=> BlockedAt(t, "Wait")' /\ argCond'[t] = d
    <3>1. t \in Range(condQueue[d]) <=> BlockedAt(t, "Wait") /\ argCond[t] = d
      BY DEF IInv, EveryThreadInItsPlace
    <3>2. t \in Range(condQueue'[d])
            <=> t \in Range(condQueue[d]) \/ (t = currentThread /\ d = c)
      BY <1>5
    <3>3. currentThread \notin Range(condQueue[d])
      BY <1>1, ExecutingInNoQueue
    <3> QED BY <1>2, <1>4, <1>6, <3>1, <3>2, <3>3 DEF BlockedAt
  <2> QED BY <2>1, <2>2, <2>3, <2>4 DEF EveryThreadInItsPlace
<1>9. LocksConsistent'
  <2>1. ASSUME NEW t \in Threads
        PROVE  /\ pc'[t] = "Acquire" /\ status'[t] # "BLOCKED" => lockOwner'[argLock'[t]] = t
               /\ pc'[t] = "Wait" => lockOwner'[argLock'[t]] # t
    <3>1. CASE t = currentThread
      BY <1>2, <1>6, <3>1
    <3>2. CASE t # currentThread
      <4>1. pc'[t] = pc[t] /\ argLock'[t] = argLock[t]
            /\ (pc[t] \in {"Acquire", "Wait"} => argLock[t] \in Locks)
        BY <1>6, <3>2 DEF IInv, TypeOK
      <4>2. ASSUME pc[t] = "Acquire", status'[t] # "BLOCKED"
            PROVE  lockOwner'[argLock[t]] = t
        <5>1. st[t] # "BLOCKED"
          BY <1>4, <4>2
        <5>2. CASE status[t] = "BLOCKED"
          BY <1>2, <5>1, <5>2
        <5>3. CASE status[t] # "BLOCKED"
          BY <1>2, <3>2, <4>1, <4>2, <5>3 DEF IInv, LocksConsistent
        <5> QED BY <5>2, <5>3
      <4>3. pc[t] = "Wait" => lockOwner'[argLock[t]] # t
        BY <1>2, <4>1 DEF IInv, LocksConsistent
      <4> QED BY <4>1, <4>2, <4>3
    <3> QED BY <3>1, <3>2
  <2> QED BY <1>2, <2>1 DEF LocksConsistent
<1>10. ConditionsConsistent'
  <2>1. /\ waitingLock'[c] = l /\ l # NoLock
        /\ \A d \in Conds \ {c} : waitingLock'[d] = waitingLock[d]
    BY <1>1 DEF IInv, TypeOK
  <2>2. \A t \in Range(condQueue[c]) : argLock[t] = l
    BY <1>1, QueueInit DEF IInv, ConditionsConsistent
  <2>3. ASSUME NEW d \in Conds, NEW t \in Range(condQueue'[d])
        PROVE  argLock'[t] = waitingLock'[d]
    <3>1. t \in Threads
      BY <1>5, QueuesHoldThreads
    <3>2. CASE t = currentThread
      <4>1. d = c
        BY <1>1, <1>5, <3>2, ExecutingInNoQueue
      <4> QED BY <1>6, <2>1, <3>1, <3>2, <4>1
    <3>3. CASE t # currentThread
      <4>1. t \in Range(condQueue[d]) /\ argLock'[t] = argLock[t]
        BY <1>5, <1>6, <3>1, <3>3
      <4> QED BY <2>1, <2>2, <4>1 DEF IInv, ConditionsConsistent
    <3> QED BY <3>2, <3>3
  <2>4. \A d \in Conds : waitingLock'[d] = NoLock <=> condQueue'[d] = << >>
    BY <1>5, <2>1 DEF IInv, ConditionsConsistent
  <2> QED BY <2>3, <2>4 DEF ConditionsConsistent
<1>11. CarcassesAreFinished'
  <2>1. ASSUME NEW t \in deleted' \cup ({threadToBeDestroyed'} \ {NoThread})
        PROVE  pc'[t] = "finished" /\ status'[t] = "BLOCKED"
    <3>1. /\ t \in Threads
          /\ pc[t] = "finished"
          /\ status[t] = "BLOCKED"
      BY <1>4 DEF IInv, TypeOK, SchedTypeOK, CarcassesAreFinished
    <3>2. st[t] = "BLOCKED" /\ t # currentThread
      BY <1>1, <1>2, <3>1
    <3> QED BY <1>4, <1>6, <3>1, <3>2
  <2> QED BY <2>1 DEF CarcassesAreFinished
<1> QED BY <1>7, <1>8, <1>9, <1>10, <1>11 DEF IInv

----------------------------------------------------------------------------
(***************************************************************************)
(* Condition::Signal, alone and in the loop of Broadcast.                  *)
(***************************************************************************)
LEMMA SignalKeepsIInv ==
  ASSUME IInv, Processing, NEW c \in Conds, NEW l, DoSignal(c, l),
         UNCHANGED lockVars, UNCHANGED pcVars
  PROVE  IInv'
<1> USE DispatcherFacts
<1>1. CASE Wakes(c, l)
  <2> DEFINE h == Head(condQueue[c])
  <2>1. /\ condQueue[c] \in Seq(Threads)
        /\ condQueue[c] # << >>
        /\ IsInjective(condQueue[c])
    BY <1>1 DEF Wakes, IInv, TypeOK, EveryThreadInItsPlace, QueuesDistinct
  <2>2. /\ h \in Threads
        /\ h \in Range(condQueue[c])
        /\ Tail(condQueue[c]) \in Seq(Threads)
        /\ IsInjective(Tail(condQueue[c]))
        /\ Range(Tail(condQueue[c])) = Range(condQueue[c]) \ {h}
    BY <2>1, QueueRemove
  <2>3. /\ condQueue' = [condQueue EXCEPT ![c] = Tail(@)]
        /\ waitingLock' = [waitingLock EXCEPT
                             ![c] = IF Tail(condQueue[c]) = << >> THEN NoLock ELSE @]
        /\ status' = [status EXCEPT ![h] = "READY"]
        /\ readyList' = Append(readyList, h)
        /\ UNCHANGED <<currentThread, threadToBeDestroyed, started, deleted, halted>>
    BY <1>1 DEF DoSignal, ReadyToRun
  <2>4. status[h] = "BLOCKED" /\ pc[h] = "Wait" /\ argCond[h] = c
    BY <2>2 DEF IInv, EveryThreadInItsPlace, BlockedAt
  <2> HIDE DEF h
  <2>5. ReadyListOK(readyList', status')
    <3>1. ReadyListOK(readyList, status) /\ status[h] # "READY"
      BY <2>4
    <3>2. ReadyListOK(Append(readyList, h), [status EXCEPT ![h] = "READY"])
      BY <2>2, <3>1, ReadyToRunAdds
    <3> QED BY <2>3, <3>2
  <2>6. \A t \in Threads : status'[t] = IF t = h THEN "READY" ELSE status[t]
    BY <2>2, <2>3 DEF SchedTypeOK
  <2>7. /\ condQueue'[c] = Tail(condQueue[c])
        /\ \A d \in Conds \ {c} :
             condQueue'[d] = condQueue[d] /\ waitingLock'[d] = waitingLock[d]
        /\ waitingLock'[c] = IF Tail(condQueue[c]) = << >> THEN NoLock ELSE waitingLock[c]
        /\ waitingLock' \in [Conds -> Locks \cup {NoLock}]
        /\ condQueue' \in [Conds -> Seq(Threads)]
    BY <2>2, <2>3 DEF IInv, TypeOK
  <2>8. TypeOK'
    BY <2>3, <2>5, <2>7 DEF IInv, TypeOK, SchedTypeOK, ReadyListOK, lockVars, pcVars
  <2>9. EveryThreadInItsPlace'
    <3>1. QueuesDistinct'
      <4>1. \A d \in Conds : IsInjective(condQueue'[d])
        <5>1. \A d \in Conds : IsInjective(condQueue[d])
          BY DEF IInv, EveryThreadInItsPlace, QueuesDistinct
        <5> QED BY <2>2, <2>7, <5>1
      <4>2. lockQueue' = lockQueue
        BY DEF lockVars
      <4> QED BY <2>5, <4>1, <4>2
              DEF IInv, EveryThreadInItsPlace, QueuesDistinct, ReadyListOK
    <3>2. ASSUME NEW t \in Threads
          PROVE  /\ status'[t] = "READY" <=> t \in Range(readyList')
                 /\ status'[t] = "RUNNING" => t = currentThread'
                 /\ status'[t] = "BLOCKED" => pc'[t] \in {"Acquire", "Wait", "finished"}
      BY <2>3, <2>5, <2>6 DEF IInv, EveryThreadInItsPlace, ReadyListOK, pcVars
    <3>3. ASSUME NEW t \in Threads, NEW k \in Locks
          PROVE  t \in Range(lockQueue'[k]) <=> BlockedAt(t, "Acquire")' /\ argLock'[t] = k
      BY <2>4, <2>6 DEF IInv, EveryThreadInItsPlace, BlockedAt, lockVars, pcVars
    <3>4. ASSUME NEW t \in Threads, NEW d \in Conds
          PROVE  t \in Range(condQueue'[d]) <=> BlockedAt(t, "Wait")' /\ argCond'[t] = d
      <4>1. t \in Range(condQueue[d]) <=> BlockedAt(t, "Wait") /\ argCond[t] = d
        BY DEF IInv, EveryThreadInItsPlace
      <4>2. t \in Range(condQueue'[d]) <=> t \in Range(condQueue[d]) /\ ~(t = h /\ d = c)
        BY <2>2, <2>7
      <4> QED BY <2>4, <2>6, <4>1, <4>2 DEF BlockedAt, pcVars
    <3> QED BY <3>1, <3>2, <3>3, <3>4 DEF EveryThreadInItsPlace
  <2>10. LocksConsistent'
    BY <2>4, <2>6 DEF IInv, LocksConsistent, lockVars, pcVars
  <2>11. ConditionsConsistent'
    <3>1. ASSUME NEW d \in Conds, NEW t \in Range(condQueue'[d])
          PROVE  argLock'[t] = waitingLock'[d]
      <4>1. CASE d = c
        <5>1. Tail(condQueue[c]) # << >>
          BY <2>7, <4>1, QueueInit
        <5>2. t \in Range(condQueue[c])
          BY <2>2, <2>7, <4>1
        <5> QED BY <2>7, <4>1, <5>1, <5>2 DEF IInv, ConditionsConsistent, pcVars
      <4>2. CASE d # c
        BY <2>7, <4>2 DEF IInv, ConditionsConsistent, pcVars
      <4> QED BY <4>1, <4>2
    <3>2. \A d \in Conds : waitingLock'[d] = NoLock <=> condQueue'[d] = << >>
      BY <2>1, <2>7 DEF IInv, ConditionsConsistent
    <3> QED BY <3>1, <3>2 DEF ConditionsConsistent
  <2>12. CarcassesAreFinished'
    BY <2>3, <2>4, <2>6 DEF IInv, TypeOK, SchedTypeOK, CarcassesAreFinished, pcVars
  <2> QED BY <2>8, <2>9, <2>10, <2>11, <2>12 DEF IInv
<1>2. CASE ~Wakes(c, l)
  <2>1. UNCHANGED vars
    BY <1>2 DEF DoSignal, vars, monitorVars
  <2> QED BY <2>1 DEF vars, monitorVars, schedVars, lockVars, condVars, pcVars,
                      IInv, TypeOK, SchedTypeOK, EveryThreadInItsPlace, QueuesDistinct,
                      LocksConsistent, ConditionsConsistent, CarcassesAreFinished, BlockedAt
<1> QED BY <1>1, <1>2

----------------------------------------------------------------------------
(***************************************************************************)
(* The thread operations.                                                  *)
(***************************************************************************)
\* Thread::Fork: the new thread joins the ready list.
LEMMA ForkKeepsIInv ==
  ASSUME IInv, NEW n \in Threads, Fork(n)
  PROVE  IInv'
<1> USE DispatcherFacts
<1>1. /\ status[n] = "JUST_CREATED"
      /\ status' = [status EXCEPT ![n] = "READY"]
      /\ readyList' = Append(readyList, n)
      /\ UNCHANGED <<currentThread, threadToBeDestroyed, started, deleted, halted>>
      /\ UNCHANGED <<lockVars, condVars, pcVars>>
  BY DEF Fork, SchedFork, ReadyToRun, monitorVars
<1>2. ReadyListOK(readyList', status')
  <2>1. ReadyListOK(Append(readyList, n), [status EXCEPT ![n] = "READY"])
    BY <1>1, ReadyToRunAdds
  <2> QED BY <1>1, <2>1
<1>3. \A t \in Threads : status'[t] = IF t = n THEN "READY" ELSE status[t]
  BY <1>1 DEF SchedTypeOK
<1>4. TypeOK'
  BY <1>1, <1>2 DEF IInv, TypeOK, SchedTypeOK, ReadyListOK, lockVars, condVars, pcVars
<1>5. EveryThreadInItsPlace'
  BY <1>1, <1>2, <1>3
     DEF IInv, EveryThreadInItsPlace, QueuesDistinct, BlockedAt, ReadyListOK,
         lockVars, condVars, pcVars
<1>6. LocksConsistent' /\ ConditionsConsistent'
  BY <1>1, <1>3 DEF IInv, LocksConsistent, ConditionsConsistent, lockVars, condVars, pcVars
<1>7. CarcassesAreFinished'
  BY <1>1, <1>3 DEF IInv, TypeOK, SchedTypeOK, CarcassesAreFinished, pcVars
<1> QED BY <1>4, <1>5, <1>6, <1>7 DEF IInv

\* Thread::Yield: the processor changes hands, nothing else does.
LEMMA YieldKeepsIInv ==
  ASSUME IInv, Yield
  PROVE  IInv'
<1>1. /\ SchedTypeOK'
      /\ ReadyListOK(readyList', status')
      /\ OneRunning(currentThread', status')
      /\ \A t \in Threads : status'[t] = "BLOCKED" <=> status[t] = "BLOCKED"
      /\ deleted' \cup {threadToBeDestroyed'}
           \subseteq deleted \cup {threadToBeDestroyed, NoThread}
  BY DispatcherFacts, YieldSwitches DEF Yield, At, Processing
<1>2. UNCHANGED <<lockVars, condVars, pcVars>>
  BY DEF Yield, monitorVars
<1>3. TypeOK'
  BY <1>1, <1>2 DEF IInv, TypeOK, lockVars, condVars, pcVars
<1>4. EveryThreadInItsPlace'
  BY <1>1, <1>2 DEF IInv, EveryThreadInItsPlace, QueuesDistinct, BlockedAt, ReadyListOK,
                    OneRunning, lockVars, condVars, pcVars
<1>5. LocksConsistent' /\ ConditionsConsistent'
  BY <1>1, <1>2 DEF IInv, LocksConsistent, ConditionsConsistent, lockVars, condVars, pcVars
<1>6. CarcassesAreFinished'
  BY <1>1, <1>2 DEF IInv, TypeOK, SchedTypeOK, CarcassesAreFinished, pcVars
<1> QED BY <1>3, <1>4, <1>5, <1>6 DEF IInv

\* Thread::Finish: the thread blocks in no queue, and is the next carcass.
LEMMA FinishKeepsIInv ==
  ASSUME IInv, Finish
  PROVE  IInv'
<1> USE DispatcherFacts
<1>1. /\ status[currentThread] = "RUNNING"
      /\ pc[currentThread] = "run"
      /\ Sleep(readyList, status, currentThread)
      /\ UNCHANGED <<lockVars, condVars>>
  BY DEF Finish, At, Processing, SchedFinish
<1>2. \A t \in Threads :
        /\ pc'[t] = IF t = currentThread THEN "finished" ELSE pc[t]
        /\ t # currentThread => argLock'[t] = argLock[t] /\ argCond'[t] = argCond[t]
  BY DEF Finish, Goto, IInv, TypeOK
<1>3. /\ SchedTypeOK'
      /\ ReadyListOK(readyList', status')
      /\ OneRunning(currentThread', status')
      /\ \A t \in Threads :
           status'[t] = "BLOCKED" <=> status[t] = "BLOCKED" \/ t = currentThread
      /\ deleted' \cup {threadToBeDestroyed'}
           \subseteq deleted \cup {currentThread, NoThread}
  BY <1>1, SleepSwitches
<1>4. TypeOK'
  BY <1>1, <1>2, <1>3 DEF IInv, TypeOK, Finish, Goto, PC, lockVars, condVars
<1>5. EveryThreadInItsPlace'
  <2>1. QueuesDistinct'
    BY <1>1, <1>3 DEF IInv, EveryThreadInItsPlace, QueuesDistinct, ReadyListOK,
                      lockVars, condVars
  <2>2. ASSUME NEW t \in Threads
        PROVE  /\ status'[t] = "READY" <=> t \in Range(readyList')
               /\ status'[t] = "RUNNING" => t = currentThread'
               /\ status'[t] = "BLOCKED" => pc'[t] \in {"Acquire", "Wait", "finished"}
    BY <1>2, <1>3 DEF IInv, EveryThreadInItsPlace, ReadyListOK, OneRunning
  <2>3. ASSUME NEW t \in Threads, NEW k \in Locks
        PROVE  t \in Range(lockQueue'[k]) <=> BlockedAt(t, "Acquire")' /\ argLock'[t] = k
    BY <1>1, <1>2, <1>3 DEF IInv, EveryThreadInItsPlace, BlockedAt, lockVars
  <2>4. ASSUME NEW t \in Threads, NEW c \in Conds
        PROVE  t \in Range(condQueue'[c]) <=> BlockedAt(t, "Wait")' /\ argCond'[t] = c
    BY <1>1, <1>2, <1>3 DEF IInv, EveryThreadInItsPlace, BlockedAt, condVars
  <2> QED BY <2>1, <2>2, <2>3, <2>4 DEF EveryThreadInItsPlace
<1>6. LocksConsistent'
  BY <1>1, <1>2, <1>3 DEF IInv, LocksConsistent, lockVars
<1>7. ConditionsConsistent'
  BY <1>1, <1>2, QueuesHoldThreads
     DEF IInv, ConditionsConsistent, EveryThreadInItsPlace, BlockedAt, condVars
<1>8. CarcassesAreFinished'
  BY <1>2, <1>3 DEF IInv, TypeOK, SchedTypeOK, CarcassesAreFinished
<1> QED BY <1>4, <1>5, <1>6, <1>7, <1>8 DEF IInv

----------------------------------------------------------------------------
(***************************************************************************)
(* What the users of the locks need to know of Acquire and Release.        *)
(***************************************************************************)
\* Lock::Acquire returns as the owner of a lock that nobody else owned, or
\* leaves the caller asleep in it; no other lock and no other thread moves.
LEMMA AcquireMoves ==
  ASSUME IInv, Processing, NEW l \in Locks, DoAcquire(l)
  PROVE  /\ currentThread \in Threads
         /\ \A t \in Threads \ {currentThread} :
              pc'[t] = pc[t] /\ argLock'[t] = argLock[t] /\ argCond'[t] = argCond[t]
         /\ \A k \in Locks \ {l} :
              lockOwner'[k] = lockOwner[k] /\ lockStatus'[k] = lockStatus[k]
         /\ lockStatus'[l] = "BUSY"
         /\ \/ /\ pc'[currentThread] = "run"
               /\ lockOwner'[l] = currentThread
               /\ lockOwner[l] \in {currentThread, NoThread}
            \/ /\ pc'[currentThread] = "Acquire"
               /\ argLock'[currentThread] = l
               /\ lockOwner'[l] = lockOwner[l]
               /\ lockOwner[l] # currentThread
<1> DEFINE cur == currentThread
<1>1. cur \in Threads /\ TypeOK
  BY DispatcherFacts DEF IInv
<1>2. ASSUME NEW place, NEW k, NEW c, Goto(place, k, c)
      PROVE  /\ pc'[cur] = place /\ argLock'[cur] = k
             /\ \A t \in Threads \ {cur} :
                  pc'[t] = pc[t] /\ argLock'[t] = argLock[t] /\ argCond'[t] = argCond[t]
  BY <1>1, <1>2 DEF Goto, TypeOK
<1>3. CASE lockOwner[l] = cur /\ Return /\ UNCHANGED lockVars
  <2>1. lockStatus[l] = "BUSY"
    BY <1>1, <1>3 DEF IInv, TypeOK, LocksConsistent
  <2> QED BY <1>1, <1>2, <1>3, <2>1 DEF Return, lockVars
<1>4. CASE /\ lockStatus[l] = "FREE" /\ Return
           /\ lockStatus' = [lockStatus EXCEPT ![l] = "BUSY"]
           /\ lockOwner' = [lockOwner EXCEPT ![l] = cur]
  <2>1. lockOwner[l] = NoThread
    BY <1>4 DEF IInv, LocksConsistent
  <2>2. /\ lockOwner'[l] = cur /\ lockStatus'[l] = "BUSY"
        /\ \A k \in Locks \ {l} :
             lockOwner'[k] = lockOwner[k] /\ lockStatus'[k] = lockStatus[k]
    BY <1>1, <1>4 DEF TypeOK
  <2> QED BY <1>1, <1>2, <1>4, <2>1, <2>2 DEF Return
<1>5. CASE /\ lockOwner[l] # cur /\ lockStatus[l] = "BUSY"
           /\ Goto("Acquire", l, NoCond) /\ UNCHANGED <<lockStatus, lockOwner>>
  BY <1>1, <1>2, <1>5
<1> QED BY <1>3, <1>4, <1>5 DEF DoAcquire

\* Lock::Release takes the lock from nobody but its caller, and gives it to
\* nobody but a thread that sleeps in Acquire of it; no other lock changes.
LEMMA ReleaseMoves ==
  ASSUME IInv, Processing, NEW l \in Locks, DoRelease(l)
  PROVE  /\ \A k \in Locks \ {l} :
              lockOwner'[k] = lockOwner[k] /\ lockStatus'[k] = lockStatus[k]
         /\ lockOwner'[l] # currentThread
         /\ lockStatus'[l] = "BUSY" => lockStatus[l] = "BUSY"
         /\ \A t \in Threads :
              /\ lockOwner[l] = t => lockOwner'[l] = t \/ t = currentThread
              /\ lockOwner'[l] = t => \/ lockOwner[l] = t
                                      \/ pc[t] = "Acquire" /\ argLock[t] = l
<1>1. currentThread \in Threads /\ TypeOK
  BY DispatcherFacts DEF IInv
<1>2. CASE lockOwner[l] # currentThread /\ UNCHANGED lockVars
  BY <1>2 DEF lockVars
<1>3. CASE HandsOver(l)
  <2> DEFINE h == Head(lockQueue[l])
  <2>1. h \in Range(lockQueue[l]) /\ h \in Threads
    BY <1>1, <1>3, QueueRemove DEF HandsOver, TypeOK
  <2>2. pc[h] = "Acquire" /\ argLock[h] = l /\ status[h] = "BLOCKED"
    BY <2>1 DEF IInv, EveryThreadInItsPlace, BlockedAt
  <2>3. lockOwner' = [lockOwner EXCEPT ![l] = h] /\ lockStatus' = lockStatus
    BY <1>3 DEF DoRelease, HandsOver
  <2>4. h # currentThread
    BY <2>2 DEF Processing
  <2>5. lockOwner'[l] = h /\ \A k \in Locks \ {l} : lockOwner'[k] = lockOwner[k]
    BY <1>1, <2>3 DEF TypeOK
  <2>6. lockOwner[l] = currentThread
    BY <1>3 DEF HandsOver
  <2> HIDE DEF h
  <2> QED BY <1>1, <2>1, <2>2, <2>3, <2>4, <2>5, <2>6
<1>4. CASE /\ lockOwner[l] = currentThread
           /\ lockStatus' = [lockStatus EXCEPT ![l] = "FREE"]
           /\ lockOwner' = [lockOwner EXCEPT ![l] = NoThread]
  <2>1. /\ lockOwner'[l] = NoThread /\ lockStatus'[l] = "FREE"
        /\ \A k \in Locks \ {l} :
             lockOwner'[k] = lockOwner[k] /\ lockStatus'[k] = lockStatus[k]
    BY <1>1, <1>4 DEF TypeOK
  <2> QED BY <1>1, <1>4, <2>1
<1> QED BY <1>2, <1>3, <1>4 DEF DoRelease

----------------------------------------------------------------------------
(***************************************************************************)
(* The theorems.                                                           *)
(***************************************************************************)
\* IInv is about vars only.
LEMMA StutterKeepsIInv ==
  ASSUME IInv, UNCHANGED vars
  PROVE  IInv'
BY DEF vars, monitorVars, schedVars, lockVars, condVars, pcVars,
       IInv, TypeOK, SchedTypeOK, EveryThreadInItsPlace, QueuesDistinct,
       LocksConsistent, ConditionsConsistent, CarcassesAreFinished, BlockedAt

\* Interrupt::Halt, called from anywhere, only stops the machine.
LEMMA HaltKeepsIInv ==
  ASSUME IInv, halted' = TRUE,
         UNCHANGED <<currentThread, status, readyList, threadToBeDestroyed, started, deleted>>,
         UNCHANGED monitorVars
  PROVE  IInv'
BY DEF monitorVars, lockVars, condVars, pcVars,
       IInv, TypeOK, SchedTypeOK, EveryThreadInItsPlace, QueuesDistinct,
       LocksConsistent, ConditionsConsistent, CarcassesAreFinished, BlockedAt

\* A step that only moves the current thread inside its code, all queues,
\* statuses and locks staying as they are.
LEMMA MoveKeepsIInv ==
  ASSUME IInv, Processing, NEW place \in {"run", "Broadcast"},
         NEW l \in Locks \cup {NoLock}, NEW c \in Conds \cup {NoCond},
         Goto(place, l, c),
         place = "Broadcast" => l \in Locks /\ c \in Conds,
         pc[currentThread] # "finished",
         UNCHANGED <<schedVars, lockVars, condVars>>
  PROVE  IInv'
<1>1. TypeOK' /\ EveryThreadInItsPlace' /\ ConditionsConsistent' /\ CarcassesAreFinished'
  BY FreeMove DEF PC, lockVars, condVars, IInv, TypeOK
<1>2. LocksConsistent'
  BY DispatcherFacts DEF IInv, TypeOK, LocksConsistent, Goto, lockVars, schedVars
<1> QED BY <1>1, <1>2 DEF IInv

\* Initially only main() exists, and every queue is empty.
LEMMA InitIInv == MonitorInit => IInv
<1> SUFFICES ASSUME MonitorInit  PROVE IInv
  OBVIOUS
<1> USE DEF MonitorInit, SchedInit
<1>1. << >> \in Seq(Threads) /\ Range(<< >>) = {} /\ IsInjective(<< >>)
  BY QueueInit
<1>2. TypeOK
  <2>1. SchedTypeOK
    BY <1>1 DEF SchedTypeOK, ThreadStatus
  <2>2. /\ lockQueue \in [Locks -> Seq(Threads)]
        /\ condQueue \in [Conds -> Seq(Threads)]
    BY <1>1
  <2> QED BY <2>1, <2>2 DEF TypeOK, PC
<1>3. QueuesDistinct
  BY <1>1 DEF QueuesDistinct
<1>4. EveryThreadInItsPlace
  BY <1>1, <1>3 DEF EveryThreadInItsPlace, BlockedAt
<1>5. LocksConsistent /\ ConditionsConsistent
  BY <1>1 DEF LocksConsistent, ConditionsConsistent
<1>6. CarcassesAreFinished
  BY DEF CarcassesAreFinished
<1> QED BY <1>2, <1>4, <1>5, <1>6 DEF IInv

\* Every operation of every thread keeps the invariant.
LEMMA NextKeepsIInv == IInv /\ [Next]_vars => IInv'
<1> SUFFICES ASSUME IInv, [Next]_vars  PROVE IInv'
  OBVIOUS
<1> USE DispatcherFacts
<1>1. ASSUME NEW t \in Threads, Fork(t)  PROVE IInv'
  BY <1>1, ForkKeepsIInv
<1>2. CASE Yield
  BY <1>2, YieldKeepsIInv
<1>3. CASE Finish
  BY <1>3, FinishKeepsIInv
<1>4. CASE Idle
  BY <1>4, HaltKeepsIInv DEF Idle, SchedIdle
<1>5. ASSUME NEW l \in Locks, Acquire(l)  PROVE IInv'
  BY <1>5, AcquireKeepsIInv DEF Acquire, At
<1>6. ASSUME NEW l \in Locks, Release(l)  PROVE IInv'
  BY <1>6, ReleaseKeepsIInv
<1>7. CASE AcquireReturn
  <2>1. /\ Processing
        /\ pc[currentThread] = "Acquire"
        /\ Goto("run", NoLock, NoCond)
        /\ UNCHANGED <<schedVars, lockVars, condVars>>
    BY <1>7 DEF AcquireReturn, At, Return
  <2> QED BY <2>1, MoveKeepsIInv
<1>8. ASSUME NEW c \in Conds, NEW l \in LockArgs, Wait(c, l)  PROVE IInv'
  BY <1>8, WaitKeepsIInv DEF LockArgs
<1>9. ASSUME NEW c \in Conds, NEW l \in LockArgs, WaitRefused(c, l)  PROVE IInv'
  BY <1>9, StutterKeepsIInv DEF WaitRefused
<1>10. CASE WaitReacquire
  <2>1. argLock[currentThread] \in Locks
    BY <1>10 DEF WaitReacquire, At, IInv, TypeOK
  <2> QED BY <1>10, <2>1, AcquireKeepsIInv DEF WaitReacquire, At
<1>11. ASSUME NEW c \in Conds, NEW l \in LockArgs, Signal(c, l)  PROVE IInv'
  BY <1>11, SignalKeepsIInv DEF Signal, At
<1>12. ASSUME NEW c \in Conds, NEW l \in LockArgs, Broadcast(c, l)  PROVE IInv'
  <2>1. /\ Processing
        /\ pc[currentThread] = "run"
        /\ UNCHANGED <<schedVars, lockVars, condVars>>
    BY <1>12 DEF Broadcast, At
  <2>2. CASE l # NoLock /\ Goto("Broadcast", l, c)
    BY <2>1, <2>2, MoveKeepsIInv DEF LockArgs
  <2>3. CASE UNCHANGED pcVars
    BY <2>1, <2>3, StutterKeepsIInv DEF vars, monitorVars
  <2> QED BY <1>12, <2>2, <2>3 DEF Broadcast
<1>13. CASE BroadcastSignal
  <2>1. argCond[currentThread] \in Conds
    BY <1>13 DEF BroadcastSignal, At, IInv, TypeOK
  <2> QED BY <1>13, <2>1, SignalKeepsIInv DEF BroadcastSignal, At
<1>14. CASE BroadcastReturn
  <2>1. /\ Processing
        /\ pc[currentThread] = "Broadcast"
        /\ Goto("run", NoLock, NoCond)
        /\ UNCHANGED <<schedVars, lockVars, condVars>>
    BY <1>14 DEF BroadcastReturn, At, Return
  <2> QED BY <2>1, MoveKeepsIInv
<1>15. CASE UNCHANGED vars
  BY <1>15, StutterKeepsIInv
<1>16. CASE Stopped
  BY <1>16, StutterKeepsIInv DEF Stopped
<1> QED
  BY <1>1, <1>2, <1>3, <1>4, <1>5, <1>6, <1>7, <1>8, <1>9, <1>10, <1>11, <1>12,
     <1>13, <1>14, <1>15, <1>16 DEF Next

\* Whatever the threads call, with whatever arguments: no thread is lost,
\* duplicated or freed while it can still run, and locks and conditions stay
\* consistent with their queues.
THEOREM Invariance == Spec => []IInv
<1>1. MonitorInit => IInv
  BY InitIInv
<1>2. IInv /\ [Next]_vars => IInv'
  BY NextKeepsIInv
<1> QED BY <1>1, <1>2, PTL DEF Spec

\* The variables keep the types the operations of synch.cc rely on.
THEOREM TypeCorrect == Spec => []TypeOK
<1>1. IInv => TypeOK
  BY DEF IInv
<1> QED BY <1>1, Invariance, PTL

\* A thread is always in the one queue its status and its operation name
\* (scheduler.cc ReadyToRun, synch.cc Acquire, Wait and Signal).
THEOREM ThreadsInTheirPlaces == Spec => []EveryThreadInItsPlace
<1>1. IInv => EveryThreadInItsPlace
  BY DEF IInv
<1> QED BY <1>1, Invariance, PTL

\* A thread that comes back from Lock::Acquire owns the lock, and a lock is
\* free exactly when it has no owner, in which case nobody waits for it.
THEOREM LocksStayConsistent == Spec => []LocksConsistent
<1>1. IInv => LocksConsistent
  BY DEF IInv
<1> QED BY <1>1, Invariance, PTL

\* waitingLock of a condition names the lock of all its waiters.
THEOREM ConditionsStayConsistent == Spec => []ConditionsConsistent
<1>1. IInv => ConditionsConsistent
  BY DEF IInv
<1> QED BY <1>1, Invariance, PTL

\* Both at once, as the run of Monitors checks them: whatever the threads do,
\* owners, queues and remembered locks agree (synch.cc:119, :147, :188, :221).
THEOREM MonitorsStayConsistent == Spec => []MonitorsConsistent
<1>1. LocksConsistent /\ ConditionsConsistent => MonitorsConsistent
  BY DEF MonitorsConsistent
<1> QED BY <1>1, LocksStayConsistent, ConditionsStayConsistent, PTL

\* Scheduler::Run never deletes a thread that can be dispatched again.
THEOREM OnlyFinishedThreadsAreFreed == Spec => []CarcassesAreFinished
<1>1. IInv => CarcassesAreFinished
  BY DEF IInv
<1> QED BY <1>1, Invariance, PTL

\* Only its owner gives a lock away, and to the first waiter: the owner of a
\* lock changes in Acquire of a free lock and in Release, nowhere else.
THEOREM LocksGoToTheFirstWaiter == Spec => LockHandedOverInOrder
<1>1. ASSUME IInv, [Next]_vars  PROVE [HandOver]_vars
  <2> SUFFICES ASSUME NEW l \in Locks, lockOwner'[l] # lockOwner[l], Next
               PROVE  IF lockOwner[l] = NoThread
                        THEN lockOwner'[l] = currentThread
                        ELSE /\ lockOwner[l] = currentThread
                             /\ lockOwner'[l] = IF lockQueue[l] = << >>
                                                  THEN NoThread
                                                  ELSE Head(lockQueue[l])
    BY <1>1 DEF HandOver
  <2> USE DEF IInv, TypeOK
  <2>1. ASSUME NEW k \in Locks, DoAcquire(k)
        PROVE  lockOwner[l] = NoThread /\ lockOwner'[l] = currentThread
    <3>1. lockOwner[k] # currentThread /\ lockStatus[k] = "FREE"
          /\ lockOwner' = [lockOwner EXCEPT ![k] = currentThread]
      BY <2>1 DEF DoAcquire, lockVars
    <3>2. k = l
      BY <3>1, <1>1
    <3> QED BY <1>1, <3>1, <3>2 DEF LocksConsistent
  <2>2. ASSUME NEW k \in Locks, DoRelease(k)
        PROVE  /\ lockOwner[l] = currentThread
               /\ lockOwner'[l] = IF lockQueue[l] = << >> THEN NoThread
                                                         ELSE Head(lockQueue[l])
    <3>1. lockOwner[k] = currentThread
      BY <2>2 DEF DoRelease, lockVars, HandsOver
    <3>2. CASE lockQueue[k] # << >> /\ lockOwner' = [lockOwner EXCEPT ![k] = Head(lockQueue[k])]
      BY <1>1, <3>1, <3>2
    <3>3. CASE lockQueue[k] = << >> /\ lockOwner' = [lockOwner EXCEPT ![k] = NoThread]
      BY <1>1, <3>1, <3>3
    <3> QED BY <2>2, <3>1, <3>2, <3>3 DEF DoRelease, lockVars, HandsOver
  <2>3. currentThread # NoThread
    BY <1>1, DispatcherFacts
  <2>4. CASE \E k \in Locks : Acquire(k)
    BY <2>1, <2>4 DEF Acquire
  <2>5. CASE WaitReacquire
    <3>1. argLock[currentThread] \in Locks
      BY <1>1, <2>5, DispatcherFacts DEF WaitReacquire, At
    <3> QED BY <2>1, <2>5, <3>1 DEF WaitReacquire
  <2>6. CASE \E k \in Locks : Release(k)
    BY <2>2, <2>3, <2>6 DEF Release
  <2>7. CASE \E c \in Conds, k \in LockArgs : Wait(c, k)
    <3>1. PICK k \in Locks : DoRelease(k)
      BY <2>7 DEF Wait, AcceptsWaiter, LockArgs
    <3> QED BY <2>2, <2>3, <3>1
  <2>8. CASE ~(\/ \E k \in Locks : Acquire(k) \/ Release(k)
               \/ WaitReacquire
               \/ \E c \in Conds, k \in LockArgs : Wait(c, k))
    <3>1. lockOwner' = lockOwner
      BY <2>8 DEF Next, Fork, Yield, Finish, Idle, Stopped, AcquireReturn, WaitRefused,
                  Signal, Broadcast, BroadcastSignal, BroadcastReturn,
                  vars, monitorVars, lockVars
    <3> QED BY <3>1
  <2> QED BY <2>4, <2>5, <2>6, <2>7, <2>8
<1> QED BY <1>1, Invariance, PTL DEF Spec, LockHandedOverInOrder

=============================================================================
