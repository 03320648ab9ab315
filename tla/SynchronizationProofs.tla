----------------------- MODULE SynchronizationProofs -----------------------
(***************************************************************************)
(* What the clients of the dispatcher and of the monitors may rely on:     *)
(* semaphores keep their units and lose no wakeup, and a SynchList         *)
(* excludes its users from each other and forgets no item, for any number  *)
(* of threads, semaphores, items and calls.                                *)
(***************************************************************************)
EXTENDS Semaphores, SynchLists, MonitorsProofs, FiniteSetTheorems

----------------------------------------------------------------------------
(***************************************************************************)
(* Semaphores (threads/synch.cc): built on the dispatcher alone.           *)
(***************************************************************************)
\* A thread is in the queue of a semaphore, once, while it sleeps in P.
QueuesOK ==
  \A s \in Sems :
    /\ IsInjective(semQueue[s])
    /\ \A t \in Threads : t \in Range(semQueue[s]) <=> inP[t] = s /\ status[t] = "BLOCKED"

\* While threads sleep on a semaphore, woken ones come for all its units.
UnitsHaveTakers ==
  \A s \in Sems : semQueue[s] # << >> => semValue[s] <= Cardinality(WokenFor(s))

SemInv ==
  /\ SemTypeOK
  /\ ReadyListOK(readyList, status)
  /\ OneRunning(currentThread, status)
  /\ QueuesOK
  /\ \A s \in Sems : semValue[s] = InitialValue[s] + posted[s] - taken[s]
  /\ UnitsHaveTakers

\* The value and the two counts of a semaphore are natural numbers.
LEMMA UnitsCounted ==
  ASSUME SemInv
  PROVE  \A s \in Sems :
           /\ {semValue[s], InitialValue[s], posted[s], taken[s]} \subseteq Nat
           /\ semValue[s] = InitialValue[s] + posted[s] - taken[s]
BY SemaphoresAssumption DEF SemInv, SemTypeOK

\* The semaphores as they are made, with Main running.
LEMMA SemInitInv == SemInit => SemInv
<1> SUFFICES ASSUME SemInit PROVE SemInv
  OBVIOUS
<1> USE ThreadsAssumption, SemaphoresAssumption DEF SemInit, SchedInit
<1>1. << >> \in Seq(Threads) /\ Range(<< >>) = {} /\ IsInjective(<< >>)
  BY QueueInit
<1>2. SchedTypeOK
  BY <1>1 DEF SchedTypeOK, ThreadStatus
<1>3. SemTypeOK
  BY <1>1, <1>2 DEF SemTypeOK
<1>4. ReadyListOK(readyList, status) /\ OneRunning(currentThread, status)
  BY <1>1 DEF ReadyListOK, OneRunning, ThreadStatus
<1>5. QueuesOK
  BY <1>1 DEF QueuesOK
<1>6. UnitsHaveTakers
  BY DEF UnitsHaveTakers
<1>7. \A s \in Sems : semValue[s] = InitialValue[s] + posted[s] - taken[s]
  OBVIOUS
<1> QED BY <1>3, <1>4, <1>5, <1>6, <1>7 DEF SemInv

\* A step of the dispatcher, after which the threads inside P sleep or do not
\* sleep as before.
LEMMA DispatchInv ==
  ASSUME SemInv, SchedTypeOK', ReadyListOK(readyList', status'), OneRunning(currentThread', status'),
         UNCHANGED semVars,
         \A t \in Threads : inP[t] # NoSem => (status'[t] = "BLOCKED" <=> status[t] = "BLOCKED")
  PROVE  SemInv'
<1>1. SemTypeOK'
  BY DEF SemInv, SemTypeOK, semVars
<1>2. \A s \in Sems, t \in Threads :
        inP[t] = s => (status'[t] = "BLOCKED" <=> status[t] = "BLOCKED")
  BY SemaphoresAssumption
<1>3. QueuesOK'
  BY <1>2 DEF SemInv, QueuesOK, semVars
<1>4. \A s \in Sems : WokenFor(s)' = WokenFor(s)
  BY <1>2 DEF WokenFor, semVars
<1>5. UnitsHaveTakers'
  BY <1>4 DEF SemInv, UnitsHaveTakers, semVars
<1> QED BY <1>1, <1>3, <1>5 DEF SemInv, semVars

\* Every thread that counts is one of finitely many.
LEMMA WokenIsFinite ==
  ASSUME IsFiniteSet(Threads), NEW s
  PROVE  IsFiniteSet(WokenFor(s)) /\ Cardinality(WokenFor(s)) \in Nat
BY FS_Subset, FS_CardinalityType DEF WokenFor

\* P takes a unit; if it had slept, one woken thread less will come.
LEMMA TakeInv ==
  ASSUME IsFiniteSet(Threads), SemInv, NEW s \in Sems,
         Processing, inP[currentThread] \in {NoSem, s},
         semValue[s] # 0,
         semValue' = [semValue EXCEPT ![s] = @ - 1],
         taken' = [taken EXCEPT ![s] = @ + 1],
         inP' = [inP EXCEPT ![currentThread] = NoSem],
         UNCHANGED <<schedVars, semQueue, pending, posted>>
  PROVE  SemInv'
<1> USE SemaphoresAssumption DEF SemInv
<1>1. /\ currentThread \in Threads /\ status[currentThread] = "RUNNING"
      /\ status' = status
  BY DEF Processing, SemTypeOK, SchedTypeOK, schedVars
<1>2. \A t \in Threads : inP'[t] = IF t = currentThread THEN NoSem ELSE inP[t]
  BY <1>1 DEF SemTypeOK
<1>3. SchedTypeOK' /\ ReadyListOK(readyList', status') /\ OneRunning(currentThread', status')
  BY DEF SemTypeOK, SchedTypeOK, ReadyListOK, OneRunning, schedVars
<1>4. SemTypeOK'
  BY <1>1, <1>3 DEF SemTypeOK
<1>5. QueuesOK'
  BY <1>1, <1>2 DEF QueuesOK
<1>6. \A r \in Sems : semValue'[r] = InitialValue[r] + posted'[r] - taken'[r]
  <2>1. \A r \in Sems :
          {semValue[r], InitialValue[r], posted[r], taken[r]} \subseteq Nat
            /\ semValue[r] = InitialValue[r] + posted[r] - taken[r]
    BY UnitsCounted
  <2>2. semValue \in [Sems -> Nat] /\ taken \in [Sems -> Nat] /\ posted' = posted
    BY DEF SemTypeOK
  <2> HIDE DEF SemInv
  <2>3. \A r \in Sems : /\ semValue'[r] = IF r = s THEN semValue[r] - 1 ELSE semValue[r]
                        /\ taken'[r] = IF r = s THEN taken[r] + 1 ELSE taken[r]
    BY <2>2
  <2> QED BY <2>1, <2>2, <2>3
<1>7. UnitsHaveTakers'
  <2> SUFFICES ASSUME NEW r \in Sems, semQueue[r] # << >>
               PROVE  semValue'[r] <= Cardinality(WokenFor(r)')
    BY DEF UnitsHaveTakers
  <2>1. semValue[r] <= Cardinality(WokenFor(r)) /\ semValue[r] \in Nat
    BY DEF UnitsHaveTakers, SemTypeOK
  <2>2. CASE r # s
    <3>1. WokenFor(r)' = WokenFor(r)
      BY <1>1, <1>2, <2>2 DEF WokenFor
    <3> QED BY <2>1, <2>2, <3>1 DEF SemTypeOK
  <2>3. CASE r = s
    <3>1. WokenFor(s)' = WokenFor(s) \ {currentThread}
      BY <1>1, <1>2 DEF WokenFor
    <3>2. /\ IsFiniteSet(WokenFor(s)) /\ Cardinality(WokenFor(s)) \in Nat
          /\ Cardinality(WokenFor(s) \ {currentThread}) \in
               {Cardinality(WokenFor(s)), Cardinality(WokenFor(s)) - 1}
      BY WokenIsFinite, FS_RemoveElement
    <3>3. semValue'[s] = semValue[s] - 1
      BY DEF SemTypeOK
    <3> QED BY <2>1, <2>3, <3>1, <3>2, <3>3
  <2> QED BY <2>2, <2>3
<1> QED BY <1>3, <1>4, <1>5, <1>6, <1>7

\* P finds no unit and sleeps in the queue.
LEMMA PSleepsInv ==
  ASSUME IsFiniteSet(Threads), SemInv, NEW s \in Sems,
         Processing, inP[currentThread] \in {NoSem, s},
         semValue[s] = 0,
         semQueue' = [semQueue EXCEPT ![s] = Append(@, currentThread)],
         inP' = [inP EXCEPT ![currentThread] = s],
         Sleep(readyList, status, threadToBeDestroyed),
         UNCHANGED <<semValue, pending, posted, taken>>
  PROVE  SemInv'
<1> USE SemaphoresAssumption DEF SemInv
<1>1. /\ currentThread \in Threads /\ status[currentThread] = "RUNNING"
      /\ SchedTypeOK
  BY DEF Processing, SemTypeOK, SchedTypeOK
<1>2. /\ SchedTypeOK'
      /\ ReadyListOK(readyList', status')
      /\ OneRunning(currentThread', status')
      /\ \A t \in Threads :
           status'[t] = "BLOCKED" <=> status[t] = "BLOCKED" \/ t = currentThread
  <2>1. threadToBeDestroyed \in Threads \cup {NoThread}
    BY <1>1 DEF SchedTypeOK
  <2> QED BY <1>1, <2>1, SleepSwitches
<1>3. \A t \in Threads : inP'[t] = IF t = currentThread THEN s ELSE inP[t]
  BY <1>1 DEF SemTypeOK
<1>4. currentThread \notin Range(semQueue[s])
  BY <1>1 DEF QueuesOK
<1>5. /\ semQueue[s] \in Seq(Threads)
      /\ Append(semQueue[s], currentThread) \in Seq(Threads)
      /\ Range(Append(semQueue[s], currentThread)) = Range(semQueue[s]) \cup {currentThread}
      /\ IsInjective(Append(semQueue[s], currentThread))
  <2>1. semQueue[s] \in Seq(Threads) /\ IsInjective(semQueue[s])
    BY DEF SemTypeOK, QueuesOK
  <2> QED BY <1>1, <1>4, <2>1, QueueAppend
<1>6. \A r \in Sems : semQueue'[r] = IF r = s THEN Append(semQueue[s], currentThread) ELSE semQueue[r]
  BY DEF SemTypeOK
<1>7. SemTypeOK'
  BY <1>1, <1>2, <1>5 DEF SemTypeOK
<1>8. QueuesOK'
  BY <1>1, <1>2, <1>3, <1>5, <1>6 DEF QueuesOK
<1>9. UnitsHaveTakers'
  <2> SUFFICES ASSUME NEW r \in Sems, semQueue'[r] # << >>
               PROVE  semValue[r] <= Cardinality(WokenFor(r)')
    BY DEF UnitsHaveTakers
  <2>1. CASE r # s
    <3>1. WokenFor(r)' = WokenFor(r)
      BY <1>2, <1>3, <2>1 DEF WokenFor
    <3> QED BY <1>6, <2>1, <3>1 DEF UnitsHaveTakers
  <2>2. CASE r = s
    <3>1. WokenFor(s)' \in SUBSET Threads
      BY DEF WokenFor
    <3>2. Cardinality(WokenFor(s)') \in Nat
      BY <3>1, FS_Subset, FS_CardinalityType
    <3> QED BY <2>2, <3>2
  <2> QED BY <2>1, <2>2
<1> QED BY <1>2, <1>7, <1>8, <1>9

\* One test of the loop in P, the first or one after a sleep.
LEMMA DoPInv ==
  ASSUME IsFiniteSet(Threads), SemInv, NEW s \in Sems,
         Processing, inP[currentThread] \in {NoSem, s}, DoP(s)
  PROVE  SemInv'
BY TakeInv, PSleepsInv DEF DoP

\* V adds a unit and wakes the first sleeper, who will come for it.
LEMMA DoVInv ==
  ASSUME IsFiniteSet(Threads), SemInv, NEW s \in Sems, DoV(s), pending' \in [Sems -> Nat]
  PROVE  SemInv'
<1> USE SemaphoresAssumption DEF SemInv
<1>1. /\ \A r \in Sems : semValue'[r] = IF r = s THEN semValue[s] + 1 ELSE semValue[r]
      /\ \A r \in Sems : posted'[r] = IF r = s THEN posted[s] + 1 ELSE posted[r]
      /\ semValue' \in [Sems -> Nat] /\ posted' \in [Sems -> Nat]
      /\ inP' = inP /\ taken' = taken
  BY DEF DoV, SemTypeOK
<1>2. \A r \in Sems : semValue'[r] = InitialValue[r] + posted'[r] - taken'[r]
  <2>1. \A r \in Sems :
          {semValue[r], InitialValue[r], posted[r], taken[r]} \subseteq Nat
            /\ semValue[r] = InitialValue[r] + posted[r] - taken[r]
    BY UnitsCounted
  <2> HIDE DEF SemInv
  <2> QED BY <1>1, <2>1
<1>3. CASE semQueue[s] = << >>
  <2>1. schedVars' = schedVars /\ semQueue' = semQueue
    BY <1>3 DEF DoV
  <2>2. SemTypeOK'
    BY <1>1, <2>1 DEF SemTypeOK, SchedTypeOK, schedVars
  <2>3. ReadyListOK(readyList', status') /\ OneRunning(currentThread', status') /\ QueuesOK'
    BY <1>1, <2>1 DEF ReadyListOK, OneRunning, QueuesOK, schedVars
  <2>4. UnitsHaveTakers'
    <3>1. \A r \in Sems : WokenFor(r)' = WokenFor(r)
      BY <1>1, <2>1 DEF WokenFor, schedVars
    <3> QED BY <1>1, <1>3, <2>1, <3>1 DEF UnitsHaveTakers
  <2> QED BY <1>2, <2>2, <2>3, <2>4
<1>4. CASE semQueue[s] # << >>
  <2> DEFINE h == Head(semQueue[s])
  <2>1. ReadyToRun(h) /\ semQueue' = [semQueue EXCEPT ![s] = Tail(@)]
    BY <1>4 DEF DoV
  <2>2. /\ h \in Threads
        /\ Tail(semQueue[s]) \in Seq(Threads)
        /\ h \in Range(semQueue[s])
        /\ IsInjective(Tail(semQueue[s]))
        /\ Range(Tail(semQueue[s])) = Range(semQueue[s]) \ {h}
    <3>1. semQueue[s] \in Seq(Threads) /\ IsInjective(semQueue[s])
      BY DEF SemTypeOK, QueuesOK
    <3> QED BY <1>4, <3>1, QueueRemove
  <2>3. inP[h] = s /\ status[h] = "BLOCKED"
    BY <2>2 DEF QueuesOK
  <2> HIDE DEF h
  <2>4. /\ status' = [status EXCEPT ![h] = "READY"]
        /\ readyList' = Append(readyList, h)
        /\ UNCHANGED <<currentThread, threadToBeDestroyed, started, deleted, halted>>
    BY <2>1 DEF ReadyToRun
  <2>5. ReadyListOK(readyList', status')
    BY <2>2, <2>3, <2>4, ReadyToRunAdds
  <2>6. \A t \in Threads : status'[t] = IF t = h THEN "READY" ELSE status[t]
    BY <2>4 DEF SemTypeOK, SchedTypeOK
  <2>7. OneRunning(currentThread', status')
    BY <2>4, <2>6 DEF OneRunning
  <2>8. SchedTypeOK'
    BY <2>4, <2>5 DEF SemTypeOK, SchedTypeOK, ReadyListOK
  <2>9. \A r \in Sems : semQueue'[r] = IF r = s THEN Tail(semQueue[s]) ELSE semQueue[r]
    BY <2>1 DEF SemTypeOK
  <2>10. SemTypeOK'
    BY <1>1, <2>1, <2>2, <2>8 DEF SemTypeOK
  <2>11. QueuesOK'
    <3> SUFFICES ASSUME NEW r \in Sems
                 PROVE  /\ IsInjective(semQueue'[r])
                        /\ \A t \in Threads : t \in Range(semQueue'[r])
                                                 <=> inP[t] = r /\ status'[t] = "BLOCKED"
      BY <1>1 DEF QueuesOK
    <3>1. /\ IsInjective(semQueue[r])
          /\ \A t \in Threads : t \in Range(semQueue[r]) <=> inP[t] = r /\ status[t] = "BLOCKED"
      BY DEF QueuesOK
    <3> HIDE DEF SemInv
    <3>2. CASE r = s
      BY <2>2, <2>6, <2>9, <3>1, <3>2
    <3>3. CASE r # s
      BY <2>2, <2>3, <2>6, <2>9, <3>1, <3>3
    <3> QED BY <3>2, <3>3
  <2>12. UnitsHaveTakers'
    <3> SUFFICES ASSUME NEW r \in Sems, semQueue'[r] # << >>
                 PROVE  semValue'[r] <= Cardinality(WokenFor(r)')
      BY DEF UnitsHaveTakers
    <3>1. CASE r # s
      <4>1. WokenFor(r)' = WokenFor(r)
        <5>1. \A t \in Threads : inP'[t] = r /\ status'[t] # "BLOCKED" <=> inP[t] = r /\ status[t] # "BLOCKED"
          BY <1>1, <2>3, <2>6, <3>1, Zenon
        <5> QED BY <5>1, Zenon DEF WokenFor
      <4> QED BY <1>1, <2>9, <3>1, <4>1 DEF UnitsHaveTakers
    <3>2. CASE r = s
      <4>1. WokenFor(s)' = WokenFor(s) \cup {h} /\ h \notin WokenFor(s)
        BY <1>1, <2>2, <2>3, <2>6 DEF WokenFor
      <4>2. /\ Cardinality(WokenFor(s)) \in Nat
            /\ Cardinality(WokenFor(s) \cup {h}) = Cardinality(WokenFor(s)) + 1
        BY <4>1, WokenIsFinite, FS_AddElement
      <4>3. semValue[s] <= Cardinality(WokenFor(s)) /\ semValue[s] \in Nat
        BY <1>4 DEF UnitsHaveTakers, SemTypeOK
      <4> QED BY <1>1, <3>2, <4>1, <4>2, <4>3
    <3> QED BY <3>1, <3>2
  <2> QED BY <1>2, <2>5, <2>7, <2>10, <2>11, <2>12
<1> QED BY <1>3, <1>4

\* Every step of the system keeps the invariant.
LEMMA SemStepInv ==
  ASSUME IsFiniteSet(Threads), SemInv, [SemNext]_semAllVars
  PROVE  SemInv'
<1> USE SemaphoresAssumption DEF SemInv
<1>1. SchedTypeOK /\ inP \in [Threads -> Sems \cup {NoSem}] /\ pending \in [Sems -> Nat]
  BY DEF SemTypeOK
<1>2. threadToBeDestroyed \in Threads \cup {NoThread} /\ currentThread \in Threads
  BY <1>1 DEF SchedTypeOK
<1>3. ASSUME NEW s \in Sems, P(s) PROVE SemInv'
  BY <1>3, DoPInv DEF P, Outside
<1>4. ASSUME PResume PROVE SemInv'
  <2>1. inP[currentThread] \in Sems
    BY <1>1, <1>2, <1>4 DEF PResume
  <2> QED BY <1>4, <2>1, DoPInv DEF PResume
<1>5. ASSUME NEW s \in Sems, V(s) PROVE SemInv'
  BY <1>1, <1>5, DoVInv DEF V
<1>6. ASSUME NEW s \in Sems, Handler(s) PROVE SemInv'
  <2>1. pending' \in [Sems -> Nat]
    BY <1>1, <1>6 DEF Handler
  <2> QED BY <1>6, <2>1, DoVInv DEF Handler
<1>7. ASSUME NEW t \in Threads, SemFork(t) PROVE SemInv'
  <2>1. /\ status[t] = "JUST_CREATED" /\ semVars' = semVars
        /\ status' = [status EXCEPT ![t] = "READY"]
        /\ readyList' = Append(readyList, t)
        /\ UNCHANGED <<currentThread, threadToBeDestroyed, started, deleted, halted>>
    BY <1>7 DEF SemFork, SchedFork, ReadyToRun
  <2>2. ReadyListOK(readyList', status')
    BY <2>1, ReadyToRunAdds
  <2>3. \A u \in Threads : status'[u] = IF u = t THEN "READY" ELSE status[u]
    BY <1>1, <2>1 DEF SchedTypeOK
  <2>4. SchedTypeOK' /\ OneRunning(currentThread', status')
    BY <1>1, <2>1, <2>2, <2>3 DEF SchedTypeOK, OneRunning, ReadyListOK
  <2>5. \A u \in Threads : status'[u] = "BLOCKED" <=> status[u] = "BLOCKED"
    BY <2>1, <2>3
  <2> QED BY <2>1, <2>2, <2>4, <2>5, DispatchInv
<1>8. ASSUME SemYield PROVE SemInv'
  <2>1. status[currentThread] = "RUNNING" /\ SchedYield /\ semVars' = semVars
    BY <1>8 DEF SemYield, Outside, Processing
  <2>2. /\ SchedTypeOK'
        /\ ReadyListOK(readyList', status')
        /\ OneRunning(currentThread', status')
        /\ \A t \in Threads : status'[t] = "BLOCKED" <=> status[t] = "BLOCKED"
    BY <1>1, <2>1, YieldSwitches
  <2> QED BY <2>1, <2>2, DispatchInv
<1>9. ASSUME SemFinish PROVE SemInv'
  <2>1. /\ status[currentThread] = "RUNNING" /\ inP[currentThread] = NoSem
        /\ Sleep(readyList, status, currentThread) /\ semVars' = semVars
    BY <1>9 DEF SemFinish, SchedFinish, Outside, Processing
  <2>2. /\ SchedTypeOK'
        /\ ReadyListOK(readyList', status')
        /\ OneRunning(currentThread', status')
        /\ \A t \in Threads :
             status'[t] = "BLOCKED" <=> status[t] = "BLOCKED" \/ t = currentThread
    BY <1>1, <1>2, <2>1, SleepSwitches
  <2> QED BY <2>1, <2>2, DispatchInv
<1>10. ASSUME SemWake PROVE SemInv'
  <2> DEFINE next == Head(readyList)
  <2>1. /\ status[currentThread] # "RUNNING" /\ readyList # << >> /\ semVars' = semVars
        /\ Run(next, Tail(readyList), status, threadToBeDestroyed)
    BY <1>10 DEF SemWake, SchedWake, Idling
  <2>2. /\ next \in Threads
        /\ Tail(readyList) \in Seq(Threads)
        /\ IsInjective(Tail(readyList))
        /\ next \in Range(readyList)
        /\ Range(Tail(readyList)) = Range(readyList) \ {next}
    BY <2>1, QueueRemove DEF ReadyListOK
  <2>3. /\ \A t \in Threads : status[t] # "RUNNING"
        /\ \A t \in Threads \ {next} : status[t] = "READY" <=> t \in Range(Tail(readyList))
        /\ next \notin Range(Tail(readyList))
        /\ status[next] = "READY"
        /\ status \in [Threads -> ThreadStatus]
    BY <2>1, <2>2 DEF OneRunning, ReadyListOK
  <2>4. /\ SchedTypeOK'
        /\ ReadyListOK(readyList', status')
        /\ OneRunning(currentThread', status')
        /\ \A t \in Threads \ {next} : status'[t] = status[t]
        /\ status'[next] = "RUNNING"
    <3> DEFINE rest == Tail(readyList)
    <3>1. rest \in Seq(Threads) /\ IsInjective(rest) /\ next \notin Range(rest)
      BY <2>2, <2>3
    <3>2. \A t \in Threads \ {next} : status[t] = "READY" <=> t \in Range(rest)
      BY <2>3
    <3>3. Run(next, rest, status, threadToBeDestroyed)
      BY <2>1
    <3> HIDE DEF next, rest
    <3> QED BY <1>1, <1>2, <2>2, <2>3, <3>1, <3>2, <3>3, RunSwitches
  <2>5. \A t \in Threads : status'[t] = "BLOCKED" <=> status[t] = "BLOCKED"
    BY <2>3, <2>4
  <2> QED BY <2>1, <2>4, <2>5, DispatchInv
<1>11. ASSUME SemIdle PROVE SemInv'
  <2>1. /\ UNCHANGED <<currentThread, status, readyList, threadToBeDestroyed, started, deleted>>
        /\ halted' \in BOOLEAN /\ semVars' = semVars
    BY <1>11 DEF SemIdle, SchedIdle
  <2>2. SchedTypeOK'
    BY <1>1, <2>1 DEF SchedTypeOK
  <2> QED BY <2>1, <2>2, DispatchInv
<1>12. ASSUME UNCHANGED semAllVars PROVE SemInv'
  <2>1. SchedTypeOK' /\ semVars' = semVars /\ UNCHANGED <<currentThread, status, readyList>>
    BY <1>1, <1>12 DEF semAllVars, schedVars, SchedTypeOK
  <2> QED BY <2>1, DispatchInv
<1> QED BY <1>3, <1>4, <1>5, <1>6, <1>7, <1>8, <1>9, <1>10, <1>11, <1>12
        DEF SemNext, SemStopped

\* "semaphore value, always >= 0" (threads/synch.h:49): for every number of
\* threads and semaphores the value is what V has added and P has not taken.
THEOREM NoUnitIsLost ==
  ASSUME IsFiniteSet(Threads)
  PROVE  SemSpec => []UnitsAreConserved
<1>1. SemInv /\ [SemNext]_semAllVars => SemInv'
  BY SemStepInv
<1>2. SemInv => UnitsAreConserved
  BY DEF SemInv, UnitsAreConserved, SemTypeOK
<1> QED BY <1>1, <1>2, SemInitInv, PTL DEF SemSpec

\* P and V lose no wakeup, interrupt handlers and the idle machine included
\* (threads/synch.cc:60-98): a sleeper is where V finds it, and while one sleeps
\* the units of its semaphore are those that woken threads come for.
THEOREM NoWakeupIsLost ==
  ASSUME IsFiniteSet(Threads)
  PROVE  SemSpec => []NoLostWakeup
<1>1. SemInv /\ [SemNext]_semAllVars => SemInv'
  BY SemStepInv
<1>2. SemInv => NoLostWakeup
  BY DEF SemInv, NoLostWakeup, SleepersAreQueued, ReadyListOK, QueuesOK, UnitsHaveTakers
<1> QED BY <1>1, <1>2, SemInitInv, PTL DEF SemSpec

----------------------------------------------------------------------------
(***************************************************************************)
(* The SynchList (threads/synchlist.cc).  What its lock and its condition  *)
(* do is taken from MonitorsProofs: a step of the list is one of Monitors. *)
(***************************************************************************)
USE SynchListsAssumption

\* Where a thread is in a monitor operation, as far as its list operation says.
PlacesAgree ==
  \A t \in Threads :
    /\ pc[t] # "Broadcast"
    /\ pc[t] \in {"Acquire", "Wait"} => argLock[t] = lock
    /\ pc[t] = "Wait" => at[t] = "Remove" /\ argCond[t] = listEmpty
    /\ pc[t] = "finished" => at[t] = "out"

\* Who works on the list owns its lock.
WorkersOwnTheLock ==
  \A t \in Threads : InCriticalSection(t) => lockOwner[lock] = t

ItemsHaveRemovers ==
  condQueue[listEmpty] # << >> => Len(list) <= Cardinality(ActiveRemovers)

ListInv ==
  /\ IInv
  /\ ListTypeOK
  /\ PlacesAgree
  /\ WorkersOwnTheLock
  /\ ItemsHaveRemovers

----------------------------------------------------------------------------
\* A new list, before anybody uses it.
LEMMA ListInitInv == ListInit => ListInv
<1> SUFFICES ASSUME ListInit PROVE ListInv
  OBVIOUS
<1> USE DEF ListInit
<1>1. IInv
  BY InitIInv
<1>2. ListTypeOK
  BY <1>1 DEF IInv, ListTypeOK, Place
<1>3. PlacesAgree /\ WorkersOwnTheLock
  BY DEF MonitorInit, PlacesAgree, WorkersOwnTheLock, InCriticalSection
<1>4. ItemsHaveRemovers
  BY DEF MonitorInit, ItemsHaveRemovers
<1> QED BY <1>1, <1>2, <1>3, <1>4 DEF ListInv

\* Every step of the list is one of its lock and its condition, or none.
LEMMA ListStepIsMonitorStep == [ListNext]_allVars => [Next]_vars
<1> USE DEF Next, LockArgs
<1>1. ASSUME Begin("Append") \/ Begin("Remove") \/ Begin("Mapcar") PROVE Next
  BY <1>1 DEF Begin
<1>2. ASSUME AppendItem PROVE Next
  BY <1>2 DEF AppendItem
<1>3. ASSUME WaitForItem PROVE Next
  BY <1>3 DEF WaitForItem
<1>4. ASSUME TakeItem \/ End PROVE Next
  BY <1>4 DEF TakeItem, End
<1>5. ASSUME Kernel PROVE Next
  BY <1>5 DEF Kernel
<1>6. ASSUME NoItemLeft \/ ListStopped \/ UNCHANGED allVars PROVE UNCHANGED vars
  BY <1>6 DEF NoItemLeft, ListStopped, allVars
<1> HIDE DEF Next, LockArgs
<1> QED BY <1>1, <1>2, <1>3, <1>4, <1>5, <1>6
        DEF ListNext, BeginAppend, BeginRemove, BeginMapcar

\* What ListInv says of the thread that executes.
LEMMA CurrentFacts ==
  ASSUME ListInv, At("run")
  PROVE  /\ currentThread \in Threads
         /\ pc[currentThread] = "run"
         /\ currentThread \notin Range(condQueue[listEmpty])
         /\ at[currentThread] # "out" => lockOwner[lock] = currentThread
         /\ \A t \in Threads \ {currentThread} :
              at[currentThread] # "out" => ~InCriticalSection(t)
BY DispatcherFacts, ExecutingInNoQueue
   DEF ListInv, At, WorkersOwnTheLock, InCriticalSection

\* The sleepers are removers, and wait with the lock of the list.
LEMMA SleeperFacts ==
  ASSUME ListInv
  PROVE  /\ condQueue[listEmpty] \in Seq(Threads)
         /\ IsInjective(condQueue[listEmpty])
         /\ \A t \in Range(condQueue[listEmpty]) : t \in Threads /\ at[t] = "Remove" /\ pc[t] = "Wait"
         /\ condQueue[listEmpty] # << >> => waitingLock[listEmpty] = lock
<1>1. /\ condQueue[listEmpty] \in Seq(Threads)
      /\ IsInjective(condQueue[listEmpty])
      /\ Range(condQueue[listEmpty]) \subseteq Threads
  BY QueuesHoldThreads DEF ListInv, IInv, TypeOK, EveryThreadInItsPlace, QueuesDistinct
<1>2. \A t \in Range(condQueue[listEmpty]) : at[t] = "Remove" /\ pc[t] = "Wait" /\ argLock[t] = lock
  BY <1>1 DEF ListInv, IInv, EveryThreadInItsPlace, BlockedAt, PlacesAgree
<1>3. ASSUME condQueue[listEmpty] # << >> PROVE waitingLock[listEmpty] = lock
  <2>1. Range(condQueue[listEmpty]) # {}
    BY <1>1, <1>3, QueueEmpty
  <2>2. PICK t \in Range(condQueue[listEmpty]) : argLock[t] = waitingLock[listEmpty]
    BY <2>1 DEF ListInv, IInv, ConditionsConsistent
  <2> QED BY <1>2, <2>2
<1> QED BY <1>1, <1>2, <1>3

\* The removers that do not sleep are finitely many.
LEMMA RemoversAreFinite ==
  ASSUME IsFiniteSet(Threads)
  PROVE  IsFiniteSet(ActiveRemovers) /\ Cardinality(ActiveRemovers) \in Nat
BY FS_Subset, FS_CardinalityType DEF ActiveRemovers

----------------------------------------------------------------------------
\* What Lock::Acquire does when the current thread calls it for the list.
LEMMA LockIsAcquired ==
  ASSUME ListInv, Processing, DoAcquire(lock)
  PROVE  /\ currentThread \in Threads
         /\ \A t \in Threads \ {currentThread} :
              pc'[t] = pc[t] /\ argLock'[t] = argLock[t] /\ argCond'[t] = argCond[t]
         /\ \/ /\ pc'[currentThread] = "run"
               /\ lockOwner'[lock] = currentThread
               /\ lockOwner[lock] \in {currentThread, NoThread}
            \/ /\ pc'[currentThread] = "Acquire"
               /\ argLock'[currentThread] = lock
               /\ lockOwner'[lock] = lockOwner[lock]
BY AcquireMoves DEF ListInv

\* The lock excludes whoever calls Acquire until he owns it.
LEMMA AcquirerWorksAsOwner ==
  ASSUME ListInv, Processing, DoAcquire(lock),
         \A t \in Threads \ {currentThread} : at'[t] = at[t]
  PROVE  WorkersOwnTheLock'
<1> DEFINE cur == currentThread
<1>1. ASSUME NEW t \in Threads \ {cur}, at'[t] # "out", pc'[t] = "run"
      PROVE  lockOwner'[lock] = t
  <2>1. at[t] # "out" /\ pc[t] = "run"
    BY <1>1, LockIsAcquired
  <2>2. lockOwner[lock] = t
    BY <1>1, <2>1 DEF ListInv, WorkersOwnTheLock, InCriticalSection
  <2>3. lockOwner[lock] \notin {cur, NoThread}
    BY <1>1, <2>2, ThreadsAssumption
  <2> QED BY <2>2, <2>3, LockIsAcquired
<1>2. pc'[cur] = "run" => lockOwner'[lock] = cur
  BY LockIsAcquired
<1> QED BY <1>1, <1>2 DEF WorkersOwnTheLock, InCriticalSection

\* The places stay in agreement when the others stay where they are.
LEMMA OthersKeepTheirPlaces ==
  ASSUME ListInv, NEW cur \in Threads,
         \A t \in Threads \ {cur} :
           pc'[t] = pc[t] /\ argLock'[t] = argLock[t] /\ argCond'[t] = argCond[t] /\ at'[t] = at[t],
         /\ pc'[cur] # "Broadcast"
         /\ pc'[cur] \in {"Acquire", "Wait"} => argLock'[cur] = lock
         /\ pc'[cur] = "Wait" => at'[cur] = "Remove" /\ argCond'[cur] = listEmpty
         /\ pc'[cur] = "finished" => at'[cur] = "out"
  PROVE  PlacesAgree'
BY DEF ListInv, PlacesAgree

\* The places of the operations a step that enters one changes.
LEMMA Enters ==
  ASSUME ListTypeOK, currentThread \in Threads, NEW place \in Place, Enter(place)
  PROVE  /\ at' \in [Threads -> Place]
         /\ at'[currentThread] = place
         /\ \A t \in Threads \ {currentThread} : at'[t] = at[t]
BY DEF ListTypeOK, Enter

\* More removers awake, no more items: the items still have removers.
LEMMA MoreRemovers ==
  ASSUME IsFiniteSet(Threads), ListInv, UNCHANGED <<condQueue, list>>,
         ActiveRemovers \subseteq ActiveRemovers'
  PROVE  ItemsHaveRemovers'
<1>1. ActiveRemovers' \subseteq Threads
  BY DEF ActiveRemovers
<1>2. IsFiniteSet(ActiveRemovers') /\ Cardinality(ActiveRemovers') \in Nat
  BY <1>1, FS_Subset, FS_CardinalityType
<1>3. Cardinality(ActiveRemovers) <= Cardinality(ActiveRemovers')
  BY <1>2, FS_Subset
<1>4. Cardinality(ActiveRemovers) \in Nat /\ Len(list) \in Nat
  BY RemoversAreFinite DEF ListInv, ListTypeOK
<1> QED BY <1>2, <1>3, <1>4 DEF ListInv, ItemsHaveRemovers

----------------------------------------------------------------------------
\* lock->Acquire() at the beginning of an operation.
LEMMA BeginKeepsListInv ==
  ASSUME IsFiniteSet(Threads), ListInv, IInv', NEW place \in Place \ {"out"}, Begin(place)
  PROVE  ListInv'
<1> DEFINE cur == currentThread
<1>1. /\ Processing /\ DoAcquire(lock) /\ Enter(place)
      /\ UNCHANGED <<list, removed, appended, condQueue>>
      /\ at[cur] = "out"
  BY DEF Begin, In, Acquire, At, condVars
<1>2. /\ cur \in Threads
      /\ at' \in [Threads -> Place] /\ at'[cur] = place
      /\ \A t \in Threads \ {cur} : at'[t] = at[t]
  BY <1>1, Enters, LockIsAcquired DEF ListInv
<1>3. ListTypeOK'
  BY <1>1, <1>2 DEF ListInv, IInv, ListTypeOK
<1>4. PlacesAgree'
  BY <1>1, <1>2, LockIsAcquired, OthersKeepTheirPlaces
<1>5. WorkersOwnTheLock'
  BY <1>1, <1>2, AcquirerWorksAsOwner
<1>6. ItemsHaveRemovers'
  BY <1>1, <1>2, MoreRemovers DEF ActiveRemovers
<1> QED BY <1>3, <1>4, <1>5, <1>6 DEF ListInv

\* list->Append(item); listEmpty->Signal(lock): the item that comes has the
\* sleeper that Signal wakes.
LEMMA AppendKeepsListInv ==
  ASSUME IsFiniteSet(Threads), ListInv, IInv', AppendItem
  PROVE  ListInv'
<1> DEFINE cur == currentThread
           Q == condQueue[listEmpty]
<1>1. /\ At("run") /\ at[cur] = "Append" /\ Enter("Signalled")
      /\ appended < MaxItems /\ appended' = appended + 1
      /\ list' = Append(list, appended + 1)
      /\ DoSignal(listEmpty, lock)
      /\ UNCHANGED <<removed, lockOwner, pc, argLock, argCond>>
  BY DEF AppendItem, In, Signal, lockVars, pcVars
<1>2. /\ cur \in Threads /\ pc[cur] = "run" /\ cur \notin Range(Q)
      /\ lockOwner[lock] = cur
      /\ \A t \in Threads \ {cur} : at[t] # "out" => ~InCriticalSection(t)
  BY <1>1, CurrentFacts
<1>3. /\ at' \in [Threads -> Place] /\ at'[cur] = "Signalled"
      /\ \A t \in Threads \ {cur} : at'[t] = at[t]
  BY <1>1, <1>2, Enters DEF ListInv, Place
<1>4. ListTypeOK'
  <2>1. appended + 1 \in 1..MaxItems /\ list \in Seq(1..MaxItems) /\ removed \in Seq(1..MaxItems)
    BY <1>1 DEF ListInv, ListTypeOK
  <2> QED BY <1>1, <1>3, <2>1 DEF ListInv, IInv, ListTypeOK
<1>5. PlacesAgree'
  BY <1>1, <1>2, <1>3, OthersKeepTheirPlaces DEF ListInv, PlacesAgree
<1>6. WorkersOwnTheLock'
  BY <1>1, <1>2, <1>3 DEF ListInv, WorkersOwnTheLock, InCriticalSection
<1>7. ItemsHaveRemovers'
  <2> SUFFICES ASSUME condQueue'[listEmpty] # << >>
               PROVE  Len(list') <= Cardinality(ActiveRemovers')
    BY DEF ItemsHaveRemovers
  <2>1. Q # << >> /\ Wakes(listEmpty, lock) /\ condQueue'[listEmpty] = Tail(Q)
    BY <1>1, SleeperFacts DEF DoSignal, Wakes, condVars, ListInv, IInv, TypeOK
  <2>2. /\ Head(Q) \in Range(Q) /\ Range(Tail(Q)) = Range(Q) \ {Head(Q)}
    BY <2>1, SleeperFacts, QueueRemove
  <2>3. Head(Q) \in Threads /\ at[Head(Q)] = "Remove"
    BY <2>2, SleeperFacts
  <2>4. ActiveRemovers \cup {Head(Q)} \subseteq ActiveRemovers' /\ Head(Q) \notin ActiveRemovers
    BY <1>1, <1>2, <1>3, <2>1, <2>2, <2>3 DEF ActiveRemovers
  <2>5. IsFiniteSet(ActiveRemovers') /\ Cardinality(ActiveRemovers') \in Nat
    <3>1. ActiveRemovers' \subseteq Threads
      BY DEF ActiveRemovers
    <3> QED BY <3>1, FS_Subset, FS_CardinalityType
  <2>6. Cardinality(ActiveRemovers \cup {Head(Q)}) = Cardinality(ActiveRemovers) + 1
    BY <2>4, RemoversAreFinite, FS_AddElement
  <2>7. Cardinality(ActiveRemovers) + 1 <= Cardinality(ActiveRemovers')
    BY <2>4, <2>5, <2>6, FS_Subset
  <2>8. Len(list') = Len(list) + 1 /\ Len(list) \in Nat
    BY <1>1 DEF ListInv, ListTypeOK
  <2>9. Len(list) <= Cardinality(ActiveRemovers)
    BY <2>1 DEF ListInv, ItemsHaveRemovers
  <2> QED BY <2>5, <2>7, <2>8, <2>9, RemoversAreFinite
<1> QED BY <1>4, <1>5, <1>6, <1>7 DEF ListInv

\* An appender beyond the bound only moves on.
LEMMA NoItemLeftKeepsListInv ==
  ASSUME IsFiniteSet(Threads), ListInv, IInv', NoItemLeft
  PROVE  ListInv'
<1> DEFINE cur == currentThread
<1>1. /\ At("run") /\ at[cur] = "Append" /\ Enter("Signalled")
      /\ UNCHANGED <<list, removed, appended, condQueue, lockOwner, pc, argLock, argCond>>
  BY DEF NoItemLeft, In, vars, monitorVars, lockVars, condVars, pcVars
<1>2. cur \in Threads /\ pc[cur] = "run" /\ lockOwner[lock] = cur
  BY <1>1, CurrentFacts
<1>3. /\ at' \in [Threads -> Place] /\ at'[cur] = "Signalled"
      /\ \A t \in Threads \ {cur} : at'[t] = at[t]
  BY <1>1, <1>2, Enters DEF ListInv, Place
<1>4. ListTypeOK'
  BY <1>1, <1>3 DEF ListInv, IInv, ListTypeOK
<1>5. PlacesAgree'
  BY <1>1, <1>2, <1>3, OthersKeepTheirPlaces DEF ListInv, PlacesAgree
<1>6. WorkersOwnTheLock'
  BY <1>1, <1>2, <1>3 DEF ListInv, WorkersOwnTheLock, InCriticalSection
<1>7. ItemsHaveRemovers'
  BY <1>1, <1>2, <1>3, MoreRemovers DEF ActiveRemovers
<1> QED BY <1>4, <1>5, <1>6, <1>7 DEF ListInv

\* Removers go to sleep on an empty list only.
LEMMA WaitKeepsListInv ==
  ASSUME IsFiniteSet(Threads), ListInv, IInv', WaitForItem
  PROVE  ListInv'
<1> DEFINE cur == currentThread
<1>1. /\ At("run") /\ at[cur] = "Remove" /\ list = << >>
      /\ Goto("Wait", lock, listEmpty)
      /\ UNCHANGED <<list, removed, appended, at>>
  BY DEF WaitForItem, In, Wait, listVars
<1>2. /\ cur \in Threads /\ lockOwner[lock] = cur
      /\ \A t \in Threads \ {cur} : at[t] # "out" => ~InCriticalSection(t)
  BY <1>1, CurrentFacts
<1>3. /\ pc'[cur] = "Wait" /\ argLock'[cur] = lock /\ argCond'[cur] = listEmpty
      /\ \A t \in Threads \ {cur} :
           pc'[t] = pc[t] /\ argLock'[t] = argLock[t] /\ argCond'[t] = argCond[t]
  BY <1>1, <1>2 DEF Goto, ListInv, IInv, TypeOK
<1>4. ListTypeOK'
  BY <1>1 DEF ListInv, IInv, ListTypeOK
<1>5. PlacesAgree'
  BY <1>1, <1>2, <1>3, OthersKeepTheirPlaces
<1>6. WorkersOwnTheLock'
  BY <1>1, <1>2, <1>3 DEF WorkersOwnTheLock, InCriticalSection
<1>7. ItemsHaveRemovers'
  <2>1. ActiveRemovers' \subseteq Threads
    BY DEF ActiveRemovers
  <2>2. Cardinality(ActiveRemovers') \in Nat
    BY <2>1, FS_Subset, FS_CardinalityType
  <2>3. Len(list') = 0
    BY <1>1
  <2> QED BY <2>2, <2>3 DEF ItemsHaveRemovers
<1> QED BY <1>4, <1>5, <1>6, <1>7 DEF ListInv

\* The list and the place of a thread that releases the lock.
LEMMA LeavingKeepsListInv ==
  ASSUME ListInv, At("run"), at[currentThread] # "out", Release(lock), Enter("out")
  PROVE  /\ at' \in [Threads -> Place]
         /\ at'[currentThread] = "out"
         /\ \A t \in Threads \ {currentThread} : at'[t] = at[t]
         /\ UNCHANGED condQueue
         /\ PlacesAgree' /\ WorkersOwnTheLock'
<1> DEFINE cur == currentThread
<1>1. UNCHANGED <<condQueue, pc, argLock, argCond>>
  BY DEF Release, condVars, pcVars
<1>2. /\ cur \in Threads /\ pc[cur] = "run"
      /\ \A t \in Threads \ {cur} : at[t] # "out" => ~InCriticalSection(t)
  BY CurrentFacts
<1>3. /\ at' \in [Threads -> Place] /\ at'[cur] = "out"
      /\ \A t \in Threads \ {cur} : at'[t] = at[t]
  BY <1>2, Enters DEF ListInv, Place
<1>4. PlacesAgree'
  BY <1>1, <1>2, <1>3, OthersKeepTheirPlaces DEF ListInv, PlacesAgree
<1>5. WorkersOwnTheLock'
  BY <1>1, <1>2, <1>3 DEF WorkersOwnTheLock, InCriticalSection
<1> QED BY <1>1, <1>3, <1>4, <1>5

\* item = list->Remove(); lock->Release(): with one item goes one remover.
LEMMA TakeKeepsListInv ==
  ASSUME IsFiniteSet(Threads), ListInv, IInv', TakeItem
  PROVE  ListInv'
<1> DEFINE cur == currentThread
<1>1. /\ At("run") /\ at[cur] = "Remove" /\ list # << >>
      /\ Release(lock) /\ Enter("out")
      /\ list' = Tail(list) /\ removed' = Append(removed, Head(list))
      /\ appended' = appended
  BY DEF TakeItem, In
<1>2. /\ at' \in [Threads -> Place]
      /\ at'[cur] = "out"
      /\ \A t \in Threads \ {cur} : at'[t] = at[t]
      /\ UNCHANGED condQueue
      /\ PlacesAgree' /\ WorkersOwnTheLock'
  BY <1>1, LeavingKeepsListInv
<1>3. cur \in Threads /\ cur \notin Range(condQueue[listEmpty])
  BY <1>1, CurrentFacts
<1>4. /\ list \in Seq(1..MaxItems) /\ removed \in Seq(1..MaxItems)
      /\ Head(list) \in 1..MaxItems /\ Tail(list) \in Seq(1..MaxItems)
      /\ Len(Tail(list)) = Len(list) - 1 /\ Len(list) \in Nat
  BY <1>1 DEF ListInv, ListTypeOK
<1>5. ListTypeOK'
  BY <1>1, <1>2, <1>4 DEF ListInv, IInv, ListTypeOK
<1>6. ItemsHaveRemovers'
  <2>1. ActiveRemovers' = ActiveRemovers \ {cur} /\ cur \in ActiveRemovers
    BY <1>1, <1>2, <1>3, SleeperFacts DEF ActiveRemovers
  <2>2. Cardinality(ActiveRemovers') = Cardinality(ActiveRemovers) - 1
    BY <2>1, RemoversAreFinite, FS_RemoveElement
  <2> QED BY <1>1, <1>2, <1>4, <2>2, RemoversAreFinite DEF ListInv, ItemsHaveRemovers
<1> QED BY <1>2, <1>5, <1>6 DEF ListInv

\* lock->Release() at the end of Append and Mapcar.
LEMMA EndKeepsListInv ==
  ASSUME IsFiniteSet(Threads), ListInv, IInv', End
  PROVE  ListInv'
<1> DEFINE cur == currentThread
<1>1. /\ At("run") /\ at[cur] \in {"Signalled", "Mapcar"}
      /\ Release(lock) /\ Enter("out")
      /\ UNCHANGED <<list, removed, appended>>
  BY DEF End, In
<1>2. /\ at' \in [Threads -> Place]
      /\ \A t \in Threads \ {cur} : at'[t] = at[t]
      /\ UNCHANGED condQueue
      /\ PlacesAgree' /\ WorkersOwnTheLock'
  BY <1>1, LeavingKeepsListInv
<1>3. ListTypeOK'
  BY <1>1, <1>2 DEF ListInv, IInv, ListTypeOK
<1>4. ItemsHaveRemovers'
  BY <1>1, <1>2, MoreRemovers DEF ActiveRemovers
<1> QED BY <1>2, <1>3, <1>4 DEF ListInv

\* The kernel goes on: a thread that comes back from Acquire or Wait works on
\* the list again, and owns the lock.
LEMMA KernelKeepsListInv ==
  ASSUME IsFiniteSet(Threads), ListInv, IInv', Kernel
  PROVE  ListInv'
<1> DEFINE cur == currentThread
<1>1. UNCHANGED <<list, removed, appended, at>>
  BY DEF Kernel, listVars
<1>2. UNCHANGED condQueue
  BY DEF Kernel, AcquireReturn, WaitReacquire, Yield, Idle, Fork, Finish, condVars, monitorVars
<1>3. ListTypeOK' /\ ItemsHaveRemovers'
  BY <1>1, <1>2, MoreRemovers DEF ListInv, IInv, ListTypeOK, ActiveRemovers
<1>4. PlacesAgree' /\ WorkersOwnTheLock'
  <2>1. ASSUME AcquireReturn PROVE PlacesAgree' /\ WorkersOwnTheLock'
    <3>1. /\ cur \in Threads /\ status[cur] # "BLOCKED" /\ pc[cur] = "Acquire"
      BY <2>1, DispatcherFacts DEF ListInv, IInv, AcquireReturn, At, Processing
    <3>2. lockOwner[lock] = cur
      BY <3>1 DEF ListInv, IInv, LocksConsistent, PlacesAgree
    <3>3. /\ pc'[cur] = "run" /\ lockOwner' = lockOwner
          /\ \A t \in Threads \ {cur} :
               pc'[t] = pc[t] /\ argLock'[t] = argLock[t] /\ argCond'[t] = argCond[t]
      BY <2>1, <3>1 DEF AcquireReturn, Return, Goto, lockVars, ListInv, IInv, TypeOK
    <3>4. PlacesAgree'
      BY <1>1, <3>1, <3>3, OthersKeepTheirPlaces
    <3>5. WorkersOwnTheLock'
      BY <1>1, <3>2, <3>3 DEF ListInv, WorkersOwnTheLock, InCriticalSection
    <3> QED BY <3>4, <3>5
  <2>2. ASSUME WaitReacquire PROVE PlacesAgree' /\ WorkersOwnTheLock'
    <3>1. Processing /\ DoAcquire(argLock[cur]) /\ pc[cur] = "Wait" /\ cur \in Threads
      BY <2>2, DispatcherFacts DEF WaitReacquire, At, ListInv
    <3>2. DoAcquire(lock)
      BY <3>1 DEF ListInv, PlacesAgree
    <3>3. PlacesAgree'
      BY <1>1, <3>1, <3>2, LockIsAcquired, OthersKeepTheirPlaces
    <3>4. WorkersOwnTheLock'
      BY <1>1, <3>1, <3>2, AcquirerWorksAsOwner
    <3> QED BY <3>3, <3>4
  <2>3. ASSUME Yield \/ Idle \/ \E t \in Threads : Fork(t)
        PROVE  PlacesAgree' /\ WorkersOwnTheLock'
    <3>1. UNCHANGED <<pc, argLock, argCond, lockOwner>>
      BY <2>3 DEF Yield, Idle, Fork, monitorVars, pcVars, lockVars
    <3> QED BY <1>1, <3>1 DEF ListInv, PlacesAgree, WorkersOwnTheLock, InCriticalSection
  <2>4. ASSUME In("out"), Finish PROVE PlacesAgree' /\ WorkersOwnTheLock'
    <3>1. cur \in Threads /\ at[cur] = "out"
      BY <2>4, CurrentFacts DEF In
    <3>2. /\ pc'[cur] = "finished" /\ lockOwner' = lockOwner
          /\ \A t \in Threads \ {cur} :
               pc'[t] = pc[t] /\ argLock'[t] = argLock[t] /\ argCond'[t] = argCond[t]
      BY <2>4, <3>1 DEF Finish, Goto, lockVars, ListInv, IInv, TypeOK
    <3>3. PlacesAgree'
      BY <1>1, <3>1, <3>2, OthersKeepTheirPlaces
    <3>4. WorkersOwnTheLock'
      BY <1>1, <3>2 DEF ListInv, WorkersOwnTheLock, InCriticalSection
    <3> QED BY <3>3, <3>4
  <2> QED BY <2>1, <2>2, <2>3, <2>4 DEF Kernel
<1> QED BY <1>3, <1>4 DEF ListInv

\* One step of the list keeps its invariant.
LEMMA ListStepKeepsListInv ==
  ASSUME IsFiniteSet(Threads), ListInv, [ListNext]_allVars
  PROVE  ListInv'
<1>1. IInv'
  BY ListStepIsMonitorStep, NextKeepsIInv DEF ListInv
<1>2. ASSUME BeginAppend \/ BeginRemove \/ BeginMapcar PROVE ListInv'
  BY <1>1, <1>2, BeginKeepsListInv DEF BeginAppend, BeginRemove, BeginMapcar, Place
<1>3. ASSUME ListStopped \/ UNCHANGED allVars PROVE ListInv'
  <2>1. UNCHANGED allVars
    BY <1>3 DEF ListStopped
  <2> QED BY <1>1, <2>1
      DEF ListInv, ListTypeOK, IInv, PlacesAgree, WorkersOwnTheLock, InCriticalSection,
          ItemsHaveRemovers, ActiveRemovers, allVars, listVars, vars, monitorVars,
          lockVars, condVars, pcVars
<1> QED BY <1>1, <1>2, <1>3, AppendKeepsListInv, NoItemLeftKeepsListInv, WaitKeepsListInv,
           TakeKeepsListInv, EndKeepsListInv, KernelKeepsListInv DEF ListNext

\* However many threads append and remove, only the owner of the lock works on
\* the list, and no item lies in it with a remover asleep and none on its way
\* (synchlist.cc:52 Append, :76 Remove).
THEOREM ListForgetsNothing ==
  ASSUME IsFiniteSet(Threads)
  PROVE  ListSpec => []NoItemForgotten
<1>1. ASSUME ListInv PROVE NoItemForgotten
  BY <1>1 DEF ListInv, NoItemForgotten, ListIsProtected, WorkersOwnTheLock, ItemsHaveRemovers
<1>2. ListInv /\ [ListNext]_allVars => ListInv'
  BY ListStepKeepsListInv
<1> QED BY <1>1, <1>2, ListInitInv, PTL DEF ListSpec

=============================================================================
