------------------------ MODULE MonitorClientsProofs ------------------------
(***************************************************************************)
(* The monitors implement AbstractMonitor for clients that use them as     *)
(* synch.h asks, for any number of threads, locks and conditions.          *)
(*                                                                         *)
(* The mapping depends on the owners of the locks, on the places of the    *)
(* threads, and on which of them sleep in Wait; every operation changes    *)
(* it for the thread that executes and, when it wakes one, for another.    *)
(***************************************************************************)
EXTENDS MonitorClients, MonitorsProofs

USE ThreadsAssumption, MonitorsAssumption, LockOfAssumption

\* What the discipline of the clients adds to IInv.
ClientDiscipline ==
  \A t \in Threads :
    /\ pc[t] \in {"Wait", "Broadcast"} => argLock[t] = LockOf[argCond[t]]
    /\ pc[t] = "Broadcast" => lockOwner[argLock[t]] = t

ClientInv == IInv /\ ClientDiscipline

\* What a step of the implementation owes: a step of the abstract monitor, or
\* none, and the discipline.
Refines ==
  /\ Abstract!Next \/ UNCHANGED <<holderBar, wantsBar, waitsBar>>
  /\ ClientDiscipline'

\* Clients do what threads may do.
LEMMA ClientsAreThreads == [ClientNext]_vars => [Next]_vars
BY DEF ClientNext, Next, ClientAcquire, ClientRelease, ClientWait, ClientSignal,
       ClientBroadcast, ClientFinish, Continue, LockArgs

\* The thread that executes, and what it may do.
LEMMA ExecutingFacts ==
  ASSUME IInv, Processing
  PROVE  /\ currentThread \in Threads
         /\ status[currentThread] = "RUNNING"
         /\ \A p \in PC : ~BlockedAt(currentThread, p)
         /\ pc \in [Threads -> PC]
         /\ argLock \in [Threads -> Locks \cup {NoLock}]
         /\ argCond \in [Threads -> Conds \cup {NoCond}]
         /\ lockOwner \in [Locks -> Threads \cup {NoThread}]
BY DEF IInv, TypeOK, SchedTypeOK, Processing, BlockedAt

\* Goto moves the current thread and no other.
LEMMA MovesTo ==
  ASSUME IInv, NEW place, NEW l, NEW c, Goto(place, l, c)
  PROVE  /\ pc'[currentThread] = place
         /\ argLock'[currentThread] = l
         /\ argCond'[currentThread] = c
         /\ \A t \in Threads \ {currentThread} :
              pc'[t] = pc[t] /\ argLock'[t] = argLock[t] /\ argCond'[t] = argCond[t]
BY DEF Goto, IInv, TypeOK, SchedTypeOK

\* The discipline of the threads that do not execute is not disturbed as long
\* as nobody takes a lock away from them.
LEMMA OthersKeepDiscipline ==
  ASSUME ClientInv,
         \A t \in Threads \ {currentThread} :
           pc'[t] = pc[t] /\ argLock'[t] = argLock[t] /\ argCond'[t] = argCond[t],
         \A t \in Threads \ {currentThread} : \A k \in Locks :
           lockOwner[k] = t => lockOwner'[k] = t,
         pc'[currentThread] \in {"Wait", "Broadcast"}
           => argLock'[currentThread] = LockOf[argCond'[currentThread]],
         pc'[currentThread] = "Broadcast"
           => lockOwner'[argLock'[currentThread]] = currentThread
  PROVE  ClientDiscipline'
<1> SUFFICES ASSUME NEW t \in Threads
             PROVE  /\ pc'[t] \in {"Wait", "Broadcast"} => argLock'[t] = LockOf[argCond'[t]]
                    /\ pc'[t] = "Broadcast" => lockOwner'[argLock'[t]] = t
  BY DEF ClientDiscipline
<1>1. CASE t = currentThread
  BY <1>1
<1>2. CASE t # currentThread
  BY <1>2 DEF ClientInv, ClientDiscipline, IInv, TypeOK
<1> QED BY <1>1, <1>2

\* A step that leaves owners, places and sleepers alone is not seen.
LEMMA Unseen ==
  ASSUME ClientInv, UNCHANGED <<lockOwner, pc, argLock, argCond>>,
         \A t \in Threads : BlockedAt(t, "Wait")' <=> BlockedAt(t, "Wait")
  PROVE  Refines
<1>1. UNCHANGED <<holderBar, wantsBar, waitsBar>>
  BY DEF holderBar, wantsBar, waitsBar, Entering, StillWaits, BroadcastGoesOn
<1>2. ClientDiscipline'
  BY DEF ClientInv, ClientDiscipline
<1> QED BY <1>1, <1>2 DEF Refines

\* Only the thread that owns the lock of a condition broadcasts on it, so
\* nobody broadcasts while another thread, or the same one, is inside.
LEMMA NobodyBroadcasts ==
  ASSUME ClientInv, NEW c \in Conds,
         lockOwner[LockOf[c]] = currentThread, pc[currentThread] = "run"
  PROVE  ~BroadcastGoesOn(c)
BY DEF ClientInv, ClientDiscipline, BroadcastGoesOn

\* The threads that broadcast and the threads that wait stay the same when
\* the current thread moves between places where it does neither.
LEMMA OthersSleepOn ==
  ASSUME \A t \in Threads \ {currentThread} :
           pc'[t] = pc[t] /\ argLock'[t] = argLock[t] /\ argCond'[t] = argCond[t],
         pc[currentThread] # "Broadcast", pc'[currentThread] # "Broadcast",
         \A t \in Threads \ {currentThread} :
           BlockedAt(t, "Wait")' <=> BlockedAt(t, "Wait")
  PROVE  /\ \A c : BroadcastGoesOn(c)' <=> BroadcastGoesOn(c)
         /\ \A t \in Threads \ {currentThread} :
              /\ StillWaits(t)' <=> StillWaits(t)
              /\ wantsBar'[t] = wantsBar[t]
              /\ waitsBar'[t] = waitsBar[t]
<1>1. \A c : BroadcastGoesOn(c)' <=> BroadcastGoesOn(c)
  BY DEF BroadcastGoesOn
<1>2. ASSUME NEW t \in Threads \ {currentThread}
      PROVE  StillWaits(t)' <=> StillWaits(t)
  BY <1>1 DEF StillWaits
<1>3. ASSUME NEW t \in Threads \ {currentThread}
      PROVE  wantsBar'[t] = wantsBar[t] /\ waitsBar'[t] = waitsBar[t]
  BY <1>2 DEF wantsBar, waitsBar
<1> QED BY <1>1, <1>2, <1>3

\* The current thread, wherever it executes, waits for no condition, and
\* wants a lock only on its way into it.
LEMMA ExecutingBar ==
  ASSUME IInv, Processing
  PROVE  /\ waitsBar[currentThread] = NoCond
         /\ wantsBar[currentThread] = IF pc[currentThread] \in {"Acquire", "Wait"}
                                        THEN argLock[currentThread] ELSE NoLock
         /\ pc[currentThread] \in {"run", "Broadcast"} => Abstract!Free(currentThread)
BY ExecutingFacts DEF waitsBar, wantsBar, StillWaits, BlockedAt, Abstract!Free, PC

----------------------------------------------------------------------------
(***************************************************************************)
(* Acquire, when the lock is free and when it is not, and its end.         *)
(***************************************************************************)
\* A thread that takes a free lock enters it at once; one that has to sleep
\* has asked for it, and has not entered yet when the lock is handed to it.
LEMMA AcquireRefines ==
  ASSUME ClientInv, Processing, NEW l \in Locks, lockOwner[l] # currentThread,
         \/ pc[currentThread] = "run"
         \/ pc[currentThread] = "Wait" /\ argLock[currentThread] = l,
         DoAcquire(l)
  PROVE  Refines
<1> USE ExecutingFacts DEF ClientInv
<1>1. /\ waitsBar[currentThread] = NoCond
      /\ wantsBar[currentThread] = IF pc[currentThread] = "run" THEN NoLock ELSE l
      /\ Abstract!Free(currentThread) \/ wantsBar[currentThread] = l
  BY ExecutingBar
<1>2. CASE /\ lockStatus[l] = "FREE"
           /\ lockOwner' = [lockOwner EXCEPT ![l] = currentThread]
           /\ Return
           /\ UNCHANGED schedVars
  <2>1. lockOwner[l] = NoThread
    BY <1>2 DEF IInv, LocksConsistent
  <2>2. /\ pc'[currentThread] = "run"
        /\ \A t \in Threads \ {currentThread} :
             pc'[t] = pc[t] /\ argLock'[t] = argLock[t] /\ argCond'[t] = argCond[t]
    BY <1>2, MovesTo DEF Return
  <2>3. \A t \in Threads \ {currentThread} :
          BlockedAt(t, "Wait")' <=> BlockedAt(t, "Wait")
    BY <1>2, <2>2 DEF BlockedAt, schedVars
  <2>4. \A t \in Threads \ {currentThread} :
          wantsBar'[t] = wantsBar[t] /\ waitsBar'[t] = waitsBar[t]
    BY <2>2, <2>3, OthersSleepOn
  <2>5. wantsBar'[currentThread] = NoLock /\ waitsBar'[currentThread] = NoCond
    BY <2>2 DEF wantsBar, waitsBar, StillWaits, BlockedAt
  <2>6. holderBar[l] = NoThread /\ holderBar' = [holderBar EXCEPT ![l] = currentThread]
    <3>1. holderBar'[l] = currentThread
      BY <1>2, <2>2 DEF holderBar, Entering
    <3>2. ASSUME NEW k \in Locks \ {l}  PROVE holderBar'[k] = holderBar[k]
      <4>1. lockOwner'[k] = lockOwner[k]
        BY <1>2
      <4>2. CASE lockOwner[k] = currentThread
        BY <4>1, <4>2, <2>2 DEF holderBar, Entering
      <4>3. CASE lockOwner[k] # currentThread
        BY <4>1, <4>3, <2>2 DEF holderBar, Entering
      <4> QED BY <4>2, <4>3
    <3>3. holderBar[l] = NoThread
      BY <2>1 DEF holderBar
    <3>4. DOMAIN holderBar = Locks /\ holderBar' = [k \in Locks |-> holderBar'[k]]
          /\ holderBar = [k \in Locks |-> holderBar[k]]
      BY DEF holderBar
    <3> HIDE DEF ClientInv
    <3> QED BY <3>1, <3>2, <3>3, <3>4
  <2>7. wantsBar' = [wantsBar EXCEPT ![currentThread] = NoLock]
    BY <2>4, <2>5 DEF wantsBar
  <2>8. waitsBar' = waitsBar
    BY <1>1, <2>4, <2>5 DEF waitsBar
  <2>9. Abstract!Enter(currentThread, l)
    BY <1>1, <2>6, <2>7, <2>8 DEF Abstract!Enter
  <2>10. ClientDiscipline'
    <3>1. \A t \in Threads \ {currentThread} : \A k \in Locks :
            lockOwner[k] = t => lockOwner'[k] = t
      BY <1>2, <2>1
    <3> QED BY <2>2, <3>1, OthersKeepDiscipline
  <2> QED BY <2>9, <2>10 DEF Abstract!Next, Refines
<1>3. CASE /\ Goto("Acquire", l, NoCond)
           /\ Sleep(readyList, status, threadToBeDestroyed)
           /\ UNCHANGED lockOwner
  <2>1. /\ pc'[currentThread] = "Acquire"
        /\ argLock'[currentThread] = l
        /\ \A t \in Threads \ {currentThread} :
             pc'[t] = pc[t] /\ argLock'[t] = argLock[t] /\ argCond'[t] = argCond[t]
    BY <1>3, MovesTo
  <2>2. \A t \in Threads \ {currentThread} :
          BlockedAt(t, "Wait")' <=> BlockedAt(t, "Wait")
    <3>1. \A t \in Threads :
            status'[t] = "BLOCKED" <=> status[t] = "BLOCKED" \/ t = currentThread
      BY <1>3, DispatcherFacts, SleepSwitches DEF SchedTypeOK
    <3> QED BY <2>1, <3>1 DEF BlockedAt
  <2>3. \A t \in Threads \ {currentThread} :
          wantsBar'[t] = wantsBar[t] /\ waitsBar'[t] = waitsBar[t]
    BY <2>1, <2>2, OthersSleepOn
  <2>4. wantsBar'[currentThread] = l /\ waitsBar'[currentThread] = NoCond
    BY <2>1 DEF wantsBar, waitsBar, StillWaits, BlockedAt
  <2>5. holderBar' = holderBar
    <3>1. ASSUME NEW k \in Locks  PROVE holderBar'[k] = holderBar[k]
      <4>1. CASE lockOwner[k] = currentThread
        <5>1. k # l
          BY <4>1
        <5> QED BY <1>3, <2>1, <4>1, <5>1 DEF holderBar, Entering
      <4>2. CASE lockOwner[k] # currentThread
        BY <1>3, <4>2, <2>1 DEF holderBar, Entering
      <4> QED BY <4>1, <4>2
    <3> QED BY <3>1 DEF holderBar
  <2>6. waitsBar' = waitsBar
    BY <1>1, <2>3, <2>4 DEF waitsBar
  <2>7. Abstract!Next \/ UNCHANGED <<holderBar, wantsBar, waitsBar>>
    <3>1. CASE Abstract!Free(currentThread)
      <4>1. wantsBar' = [wantsBar EXCEPT ![currentThread] = l]
        BY <2>3, <2>4 DEF wantsBar
      <4>2. Abstract!Request(currentThread, l)
        BY <2>5, <2>6, <3>1, <4>1 DEF Abstract!Request
      <4> QED BY <4>2 DEF Abstract!Next
    <3>2. CASE wantsBar[currentThread] = l
      BY <2>3, <2>4, <2>5, <2>6, <3>2 DEF wantsBar
    <3> QED BY <1>1, <3>1, <3>2
  <2>8. ClientDiscipline'
    BY <1>3, <2>1, OthersKeepDiscipline
  <2> QED BY <2>7, <2>8 DEF Refines
<1> QED BY <1>2, <1>3 DEF DoAcquire

\* The end of Acquire after a hand-over: only now the thread is inside.
LEMMA AcquireReturnRefines ==
  ASSUME ClientInv, AcquireReturn
  PROVE  Refines
<1> USE ExecutingFacts DEF ClientInv
<1> DEFINE l == argLock[currentThread]
<1>1. /\ Processing
      /\ pc[currentThread] = "Acquire"
      /\ Goto("run", NoLock, NoCond)
      /\ UNCHANGED <<schedVars, lockVars, condVars>>
  BY DEF AcquireReturn, At, Return
<1>2. /\ pc'[currentThread] = "run"
      /\ argLock'[currentThread] = NoLock
      /\ \A t \in Threads \ {currentThread} :
           pc'[t] = pc[t] /\ argLock'[t] = argLock[t] /\ argCond'[t] = argCond[t]
  BY <1>1, MovesTo
<1>3. l \in Locks /\ lockOwner[l] = currentThread /\ lockOwner' = lockOwner
  BY <1>1 DEF IInv, TypeOK, LocksConsistent, lockVars
<1>4. \A t \in Threads \ {currentThread} :
        wantsBar'[t] = wantsBar[t] /\ waitsBar'[t] = waitsBar[t]
  <2>1. \A t \in Threads \ {currentThread} :
          BlockedAt(t, "Wait")' <=> BlockedAt(t, "Wait")
    BY <1>1, <1>2 DEF BlockedAt, schedVars
  <2> QED BY <1>1, <1>2, <2>1, OthersSleepOn
<1>5. /\ wantsBar'[currentThread] = NoLock /\ waitsBar'[currentThread] = NoCond
      /\ wantsBar[currentThread] = l /\ waitsBar[currentThread] = NoCond
  BY <1>1, <1>2, ExecutingBar DEF wantsBar, waitsBar, StillWaits, BlockedAt
<1>6. holderBar[l] = NoThread /\ holderBar' = [holderBar EXCEPT ![l] = currentThread]
  <2>1. ASSUME NEW k \in Locks
        PROVE  holderBar'[k] = IF k = l THEN currentThread ELSE holderBar[k]
    <3>1. CASE lockOwner[k] = currentThread
      BY <1>1, <1>2, <1>3, <3>1 DEF holderBar, Entering
    <3>2. CASE lockOwner[k] # currentThread
      BY <1>1, <1>2, <1>3, <3>2 DEF holderBar, Entering
    <3> QED BY <3>1, <3>2
  <2>2. holderBar[l] = NoThread
    BY <1>1, <1>3 DEF holderBar, Entering
  <2> HIDE DEF l
  <2> QED BY <1>3, <2>1, <2>2 DEF holderBar
<1>7. Abstract!Enter(currentThread, l)
  <2>1. wantsBar' = [wantsBar EXCEPT ![currentThread] = NoLock]
    BY <1>4, <1>5 DEF wantsBar
  <2>2. waitsBar' = waitsBar
    BY <1>4, <1>5 DEF waitsBar
  <2> QED BY <1>5, <1>6, <2>1, <2>2 DEF Abstract!Enter
<1>8. ClientDiscipline'
  BY <1>2, <1>3, OthersKeepDiscipline
<1> QED BY <1>1, <1>3, <1>7, <1>8 DEF Abstract!Next, Refines

----------------------------------------------------------------------------
(***************************************************************************)
(* Release, alone and inside Wait.                                         *)
(***************************************************************************)
\* The owner gives the lock up; its new owner, if there is one, has not
\* returned from Acquire yet.  No thread in Wait is woken.
LEMMA ReleaseLeaves ==
  ASSUME IInv, Processing, NEW l \in Locks, lockOwner[l] = currentThread,
         DoRelease(l)
  PROVE  /\ \A k \in Locks \ {l} : lockOwner'[k] = lockOwner[k]
         /\ \/ lockOwner'[l] = NoThread
            \/ /\ lockOwner'[l] \in Threads \ {currentThread}
               /\ Entering(lockOwner'[l], l)
         /\ \A t \in Threads : pc[t] = "Wait" =>
              (ReleasedStatus(l)[t] = "BLOCKED" <=> status[t] = "BLOCKED")
<1> USE ExecutingFacts
<1>1. \A t \in Threads : pc[t] = "Wait" =>
        (ReleasedStatus(l)[t] = "BLOCKED" <=> status[t] = "BLOCKED")
  BY ReleaseEffect
<1>2. CASE HandsOver(l)
  <2> DEFINE h == Head(lockQueue[l])
  <2>1. lockOwner' = [lockOwner EXCEPT ![l] = h]
    BY <1>2 DEF DoRelease, HandsOver
  <2>2. h \in Threads /\ h \in Range(lockQueue[l])
    BY <1>2, QueueRemove DEF HandsOver, IInv, TypeOK
  <2>3. BlockedAt(h, "Acquire") /\ argLock[h] = l
    BY <2>2 DEF IInv, EveryThreadInItsPlace
  <2> HIDE DEF h
  <2> QED BY <1>1, <2>1, <2>2, <2>3 DEF BlockedAt, Entering
<1>3. CASE ~HandsOver(l)
  <2>1. lockOwner' = [lockOwner EXCEPT ![l] = NoThread]
    BY <1>3 DEF DoRelease, HandsOver
  <2> QED BY <1>1, <2>1
<1> QED BY <1>2, <1>3

\* Giving up a lock is leaving it, also when somebody else owns it from then
\* on: in Release, and in Wait, where the thread goes on to sleep.
LEMMA HolderLeaves ==
  ASSUME IInv, Processing, pc[currentThread] = "run",
         NEW l \in Locks, lockOwner[l] = currentThread, DoRelease(l),
         pc'[currentThread] \in {"run", "Wait"},
         \A t \in Threads \ {currentThread} :
           pc'[t] = pc[t] /\ argLock'[t] = argLock[t] /\ argCond'[t] = argCond[t]
  PROVE  /\ holderBar[l] = currentThread
         /\ holderBar' = [holderBar EXCEPT ![l] = NoThread]
<1> USE ExecutingFacts
<1>1. /\ \A k \in Locks \ {l} : lockOwner'[k] = lockOwner[k]
      /\ \/ lockOwner'[l] = NoThread
         \/ /\ lockOwner'[l] \in Threads \ {currentThread}
            /\ Entering(lockOwner'[l], l)
  BY ReleaseLeaves
<1>2. holderBar[l] = currentThread
  BY DEF holderBar, Entering
<1>3. holderBar'[l] = NoThread
  BY <1>1 DEF holderBar, Entering
<1>4. ASSUME NEW k \in Locks \ {l}  PROVE holderBar'[k] = holderBar[k]
  <2>1. CASE lockOwner[k] = currentThread
    BY <1>1, <2>1 DEF holderBar, Entering
  <2>2. CASE lockOwner[k] # currentThread
    BY <1>1, <2>2 DEF holderBar, Entering
  <2> QED BY <2>1, <2>2
<1> QED BY <1>2, <1>3, <1>4 DEF holderBar

\* Release of a lock its caller holds is Leave.
LEMMA ReleaseRefines ==
  ASSUME ClientInv, NEW l \in Locks, ClientRelease(l)
  PROVE  Refines
<1> USE ExecutingFacts DEF ClientInv
<1>1. /\ Processing
      /\ pc[currentThread] = "run"
      /\ lockOwner[l] = currentThread
      /\ DoRelease(l)
      /\ status' = ReleasedStatus(l)
      /\ UNCHANGED <<currentThread, pc, argLock, argCond>>
  BY DEF ClientRelease, Holds, Release, At, pcVars
<1>2. /\ \A k \in Locks \ {l} : lockOwner'[k] = lockOwner[k]
      /\ \A t \in Threads : BlockedAt(t, "Wait")' <=> BlockedAt(t, "Wait")
  BY <1>1, ReleaseLeaves DEF BlockedAt
<1>3. /\ holderBar[l] = currentThread
      /\ holderBar' = [holderBar EXCEPT ![l] = NoThread]
  <2>1. pc'[currentThread] \in {"run", "Wait"}
    BY <1>1
  <2> QED BY <1>1, <2>1, HolderLeaves
<1>4. wantsBar' = wantsBar /\ waitsBar' = waitsBar
  BY <1>1, <1>2 DEF wantsBar, waitsBar, StillWaits, BroadcastGoesOn
<1>5. Abstract!Leave(currentThread, l)
  BY <1>1, <1>3, <1>4, ExecutingBar DEF Abstract!Leave
<1>6. ClientDiscipline'
  <2>1. \A t \in Threads \ {currentThread} : \A k \in Locks :
          lockOwner[k] = t => lockOwner'[k] = t
    BY <1>1, <1>2
  <2> QED BY <1>1, <2>1, OthersKeepDiscipline
<1> QED BY <1>1, <1>5, <1>6 DEF Abstract!Next, Refines

----------------------------------------------------------------------------
(***************************************************************************)
(* The conditions.                                                         *)
(***************************************************************************)
\* Wait gives up the lock and waits in one step: nobody broadcasts on the
\* condition meanwhile, since that takes the lock.
LEMMA WaitRefines ==
  ASSUME ClientInv, NEW c \in Conds, ClientWait(c)
  PROVE  Refines
<1> USE ExecutingFacts DEF ClientInv
<1> DEFINE l == LockOf[c]
<1>0. l \in Locks
  OBVIOUS
<1>1. /\ Processing
      /\ pc[currentThread] = "run"
      /\ lockOwner[l] = currentThread
      /\ DoRelease(l)
      /\ Goto("Wait", l, c)
      /\ Sleep(ReleasedReady(l), ReleasedStatus(l), threadToBeDestroyed)
  BY DEF ClientWait, Holds, Wait, At
<1> HIDE DEF l
<1>2. /\ pc'[currentThread] = "Wait"
      /\ argLock'[currentThread] = l
      /\ argCond'[currentThread] = c
      /\ \A t \in Threads \ {currentThread} :
           pc'[t] = pc[t] /\ argLock'[t] = argLock[t] /\ argCond'[t] = argCond[t]
  BY <1>1, MovesTo
<1>3. \A t \in Threads :
        status'[t] = "BLOCKED" <=> ReleasedStatus(l)[t] = "BLOCKED" \/ t = currentThread
  <2>1. /\ ReadyListOK(ReleasedReady(l), ReleasedStatus(l))
        /\ OneRunning(currentThread, ReleasedStatus(l))
        /\ ReleasedStatus(l)[currentThread] = "RUNNING"
    BY <1>0, <1>1, ReleaseEffect
  <2>2. SchedTypeOK /\ threadToBeDestroyed \in Threads \cup {NoThread}
    BY DispatcherFacts DEF SchedTypeOK
  <2> QED BY <1>1, <2>1, <2>2, SleepSwitches
<1>4. \A t \in Threads \ {currentThread} :
        BlockedAt(t, "Wait")' <=> BlockedAt(t, "Wait")
  BY <1>0, <1>1, <1>2, <1>3, ReleaseLeaves DEF BlockedAt
<1>5. /\ \A d : BroadcastGoesOn(d)' <=> BroadcastGoesOn(d)
      /\ \A t \in Threads \ {currentThread} :
           wantsBar'[t] = wantsBar[t] /\ waitsBar'[t] = waitsBar[t]
  BY <1>1, <1>2, <1>4, OthersSleepOn
<1>6. wantsBar'[currentThread] = NoLock /\ waitsBar'[currentThread] = c
  <2>1. ~BroadcastGoesOn(c)
    BY <1>1, NobodyBroadcasts DEF l
  <2>2. status'[currentThread] = "BLOCKED"
    BY <1>1, <1>3
  <2> QED BY <1>1, <1>2, <1>5, <2>1, <2>2 DEF wantsBar, waitsBar, StillWaits, BlockedAt
<1>7. /\ holderBar[l] = currentThread
      /\ holderBar' = [holderBar EXCEPT ![l] = NoThread]
  BY <1>0, <1>1, <1>2, HolderLeaves
<1>8. /\ wantsBar[currentThread] = NoLock
      /\ Abstract!Free(currentThread)
  BY <1>1, ExecutingBar
<1>9. Abstract!Wait(currentThread, c)
  <2>1. wantsBar' = wantsBar
    BY <1>1, <1>5, <1>6, <1>8 DEF wantsBar
  <2>2. waitsBar' = [waitsBar EXCEPT ![currentThread] = c]
    BY <1>1, <1>5, <1>6 DEF waitsBar
  <2> QED BY <1>7, <1>8, <2>1, <2>2 DEF Abstract!Wait, l
<1>10. ClientDiscipline'
  <2>1. \A t \in Threads \ {currentThread} : \A k \in Locks :
          lockOwner[k] = t => lockOwner'[k] = t
    BY <1>0, <1>1, ReleaseLeaves
  <2> QED BY <1>2, <2>1, OthersKeepDiscipline DEF l
<1> QED BY <1>1, <1>9, <1>10 DEF Abstract!Next, Refines

\* Signal readies the first thread of the queue, which sleeps in Wait on that
\* condition, and no other thread.
LEMMA SignalWakesOne ==
  ASSUME IInv, NEW c \in Conds, NEW l, Wakes(c, l), DoSignal(c, l)
  PROVE  \E w \in Threads :
           /\ BlockedAt(w, "Wait") /\ argCond[w] = c
           /\ status' = [status EXCEPT ![w] = "READY"]
           /\ UNCHANGED currentThread
<1> DEFINE w == Head(condQueue[c])
<1>1. w \in Threads /\ w \in Range(condQueue[c])
  BY QueueRemove DEF Wakes, IInv, TypeOK
<1>2. BlockedAt(w, "Wait") /\ argCond[w] = c
  BY <1>1 DEF IInv, EveryThreadInItsPlace
<1>3. status' = [status EXCEPT ![w] = "READY"] /\ UNCHANGED currentThread
  BY DEF DoSignal, ReadyToRun
<1> QED BY <1>1, <1>2, <1>3

\* Signal of a condition with waiters wakes one of them, of one without does
\* nothing.
LEMMA SignalRefines ==
  ASSUME ClientInv, NEW c \in Conds, ClientSignal(c)
  PROVE  Refines
<1> USE ExecutingFacts DEF ClientInv
<1>1. /\ Processing
      /\ pc[currentThread] = "run"
      /\ lockOwner[LockOf[c]] = currentThread
      /\ DoSignal(c, LockOf[c])
      /\ UNCHANGED <<lockOwner, pc, argLock, argCond>>
  BY DEF ClientSignal, Holds, Signal, At, lockVars, pcVars
<1>2. CASE ~Wakes(c, LockOf[c])
  BY <1>1, <1>2, Unseen DEF DoSignal, schedVars, BlockedAt
<1>3. CASE Wakes(c, LockOf[c])
  <2>1. PICK w \in Threads :
          /\ BlockedAt(w, "Wait") /\ argCond[w] = c
          /\ status' = [status EXCEPT ![w] = "READY"]
          /\ UNCHANGED currentThread
    BY <1>1, <1>3, SignalWakesOne
  <2>2. \A t \in Threads :
          BlockedAt(t, "Wait")' <=> t # w /\ BlockedAt(t, "Wait")
    BY <1>1, <2>1 DEF BlockedAt, IInv, TypeOK, SchedTypeOK
  <2>3. ~BroadcastGoesOn(c) /\ \A d : BroadcastGoesOn(d)' <=> BroadcastGoesOn(d)
    BY <1>1, NobodyBroadcasts DEF BroadcastGoesOn
  <2>4. StillWaits(w) /\ \A t \in Threads : StillWaits(t)' <=> t # w /\ StillWaits(t)
    BY <1>1, <2>1, <2>2, <2>3 DEF StillWaits
  <2>5. pc[w] = "Wait" /\ argLock[w] = LockOf[c]
    BY <2>1 DEF BlockedAt, ClientDiscipline
  <2>6. w \in Abstract!Waiters(c)
    BY <2>1, <2>4 DEF Abstract!Waiters, waitsBar
  <2>7. waitsBar' = [t \in Threads |-> IF t \in {w} THEN NoCond ELSE waitsBar[t]]
    BY <1>1, <2>4 DEF waitsBar
  <2>8. wantsBar' = [t \in Threads |-> IF t \in {w} THEN LockOf[c] ELSE wantsBar[t]]
    BY <1>1, <2>4, <2>5 DEF wantsBar
  <2>9. holderBar[LockOf[c]] = currentThread /\ holderBar' = holderBar
    BY <1>1 DEF holderBar, Entering
  <2>10. Abstract!Signal(currentThread, c)
    BY <1>1, <2>6, <2>7, <2>8, <2>9, ExecutingBar DEF Abstract!Signal, Abstract!Wake
  <2>11. ClientDiscipline'
    BY <1>1 DEF ClientDiscipline
  <2> QED BY <1>1, <2>10, <2>11 DEF Abstract!Next, Refines
<1> QED BY <1>2, <1>3

\* Broadcast wakes all waiters when its loop begins: from then on nobody else
\* can get hold of the lock before the loop ends.
LEMMA BroadcastRefines ==
  ASSUME ClientInv, NEW c \in Conds, ClientBroadcast(c)
  PROVE  Refines
<1> USE ExecutingFacts DEF ClientInv
<1> DEFINE l == LockOf[c]
<1>1. /\ Processing
      /\ pc[currentThread] = "run"
      /\ lockOwner[l] = currentThread
      /\ UNCHANGED <<schedVars, lockOwner>>
      /\ Goto("Broadcast", l, c) \/ UNCHANGED pcVars
  BY DEF ClientBroadcast, Holds, Broadcast, At, lockVars
<1>2. CASE UNCHANGED pcVars
  BY <1>1, <1>2, Unseen DEF schedVars, pcVars, BlockedAt
<1>3. CASE Goto("Broadcast", l, c)
  <2>1. /\ pc'[currentThread] = "Broadcast"
        /\ argLock'[currentThread] = l
        /\ argCond'[currentThread] = c
        /\ \A t \in Threads \ {currentThread} :
             pc'[t] = pc[t] /\ argLock'[t] = argLock[t] /\ argCond'[t] = argCond[t]
        /\ UNCHANGED <<status, currentThread>>
    BY <1>1, <1>3, MovesTo DEF schedVars
  <2>2. /\ ~BroadcastGoesOn(c)
        /\ \A d : BroadcastGoesOn(d)' <=> BroadcastGoesOn(d) \/ d = c
    BY <1>1, <2>1, NobodyBroadcasts DEF BroadcastGoesOn
  <2>3. ~StillWaits(currentThread) /\ ~StillWaits(currentThread)'
    BY <1>1, <2>1 DEF StillWaits, BlockedAt
  <2>4. ASSUME NEW t \in Threads \ {currentThread}
        PROVE  /\ StillWaits(t)' <=> StillWaits(t) /\ argCond[t] # c
               /\ BlockedAt(t, "Wait") /\ argCond[t] = c => StillWaits(t)
    BY <2>1, <2>2 DEF StillWaits, BlockedAt
  <2>5. c # NoCond
    OBVIOUS
  <2>6. \A t \in Threads :
          t \in Abstract!Waiters(c) <=> StillWaits(t) /\ argCond[t] = c
    BY <2>5 DEF Abstract!Waiters, waitsBar
  <2>7. ASSUME NEW t \in Threads
        PROVE  /\ waitsBar'[t] = IF t \in Abstract!Waiters(c) THEN NoCond ELSE waitsBar[t]
               /\ wantsBar'[t] = IF t \in Abstract!Waiters(c) THEN l ELSE wantsBar[t]
    <3>1. CASE t = currentThread
      BY <1>1, <2>1, <2>3, <2>6, <3>1 DEF waitsBar, wantsBar
    <3>2. CASE t # currentThread /\ StillWaits(t) /\ argCond[t] = c
      <4>1. pc[t] = "Wait" /\ argLock[t] = l
        BY <3>2 DEF StillWaits, BlockedAt, ClientDiscipline
      <4> QED BY <2>1, <2>4, <2>6, <3>2, <4>1 DEF waitsBar, wantsBar
    <3>3. CASE t # currentThread /\ ~(StillWaits(t) /\ argCond[t] = c)
      BY <2>1, <2>4, <2>6, <3>3 DEF waitsBar, wantsBar
    <3> QED BY <3>1, <3>2, <3>3
  <2>8. Abstract!Wake(Abstract!Waiters(c), c)
    <3>1. holderBar' = holderBar
      <4>1. ASSUME NEW k \in Locks  PROVE holderBar'[k] = holderBar[k]
        <5>1. CASE lockOwner[k] = currentThread
          BY <1>1, <2>1, <5>1 DEF holderBar, Entering
        <5>2. CASE lockOwner[k] # currentThread
          BY <1>1, <2>1, <5>2 DEF holderBar, Entering
        <5> QED BY <5>1, <5>2
      <4> QED BY <4>1 DEF holderBar
    <3>2. waitsBar' = [t \in Threads |->
                         IF t \in Abstract!Waiters(c) THEN NoCond ELSE waitsBar[t]]
      BY <2>7 DEF waitsBar
    <3>3. wantsBar' = [t \in Threads |->
                         IF t \in Abstract!Waiters(c) THEN LockOf[c] ELSE wantsBar[t]]
      BY <2>7 DEF wantsBar
    <3> QED BY <3>1, <3>2, <3>3 DEF Abstract!Wake
  <2>9. Abstract!Broadcast(currentThread, c)
    <3>1. holderBar[l] = currentThread
      BY <1>1 DEF holderBar, Entering
    <3> QED BY <1>1, <2>8, <3>1, ExecutingBar DEF Abstract!Broadcast
  <2>10. ClientDiscipline'
    BY <1>1, <2>1, OthersKeepDiscipline
  <2> QED BY <1>1, <2>9, <2>10 DEF Abstract!Next, Refines
<1> QED BY <1>1, <1>2, <1>3

\* The turns of the loop of Broadcast wake threads that count as woken already.
LEMMA BroadcastSignalRefines ==
  ASSUME ClientInv, BroadcastSignal
  PROVE  Refines
<1> USE ExecutingFacts DEF ClientInv
<1> DEFINE c == argCond[currentThread]
           l == argLock[currentThread]
<1>1. /\ Processing
      /\ pc[currentThread] = "Broadcast"
      /\ DoSignal(c, l)
      /\ UNCHANGED <<lockOwner, pc, argLock, argCond>>
  BY DEF BroadcastSignal, At, lockVars, pcVars
<1>2. c \in Conds /\ BroadcastGoesOn(c)
  BY <1>1 DEF IInv, TypeOK, BroadcastGoesOn
<1> HIDE DEF c, l
<1>3. CASE ~Wakes(c, l)
  BY <1>1, <1>3, Unseen DEF DoSignal, schedVars, BlockedAt
<1>4. CASE Wakes(c, l)
  <2>1. PICK w \in Threads :
          /\ BlockedAt(w, "Wait") /\ argCond[w] = c
          /\ status' = [status EXCEPT ![w] = "READY"]
    BY <1>1, <1>2, <1>4, SignalWakesOne
  <2>2. \A t \in Threads :
          BlockedAt(t, "Wait")' <=> t # w /\ BlockedAt(t, "Wait")
    BY <1>1, <2>1 DEF BlockedAt, IInv, TypeOK, SchedTypeOK
  <2>3. \A d : BroadcastGoesOn(d)' <=> BroadcastGoesOn(d)
    BY <1>1 DEF BroadcastGoesOn
  <2>4. \A t \in Threads : StillWaits(t)' <=> StillWaits(t)
    BY <1>1, <1>2, <2>1, <2>2, <2>3 DEF StillWaits
  <2>5. UNCHANGED <<holderBar, wantsBar, waitsBar>>
    BY <1>1, <2>4 DEF holderBar, wantsBar, waitsBar, Entering
  <2>6. ClientDiscipline'
    BY <1>1 DEF ClientDiscipline
  <2> QED BY <2>5, <2>6 DEF Refines
<1> QED BY <1>3, <1>4

\* When the loop of Broadcast ends no thread waits for the condition.
LEMMA BroadcastReturnRefines ==
  ASSUME ClientInv, BroadcastReturn
  PROVE  Refines
<1> USE ExecutingFacts DEF ClientInv
<1> DEFINE c == argCond[currentThread]
<1>1. /\ Processing
      /\ pc[currentThread] = "Broadcast"
      /\ condQueue[c] = << >>
      /\ Goto("run", NoLock, NoCond)
      /\ UNCHANGED <<schedVars, lockOwner>>
  BY DEF BroadcastReturn, At, Return, lockVars
<1>2. /\ c \in Conds
      /\ \A t \in Threads : ~(BlockedAt(t, "Wait") /\ argCond[t] = c)
  BY <1>1, QueueInit DEF IInv, TypeOK, EveryThreadInItsPlace
<1>3. /\ pc'[currentThread] = "run"
      /\ \A t \in Threads \ {currentThread} :
           pc'[t] = pc[t] /\ argLock'[t] = argLock[t] /\ argCond'[t] = argCond[t]
      /\ UNCHANGED <<status, currentThread>>
  BY <1>1, MovesTo DEF schedVars
<1> HIDE DEF c
<1>4. \A d : d # c => (BroadcastGoesOn(d)' <=> BroadcastGoesOn(d))
  BY <1>3 DEF BroadcastGoesOn, c
<1>5. ASSUME NEW t \in Threads  PROVE StillWaits(t)' <=> StillWaits(t)
  <2>1. CASE t = currentThread
    BY <1>1, <1>3, <2>1 DEF StillWaits, BlockedAt
  <2>2. CASE t # currentThread /\ argCond[t] = c
    BY <1>2, <1>3, <2>2 DEF StillWaits, BlockedAt
  <2>3. CASE t # currentThread /\ argCond[t] # c
    BY <1>3, <1>4, <2>3 DEF StillWaits, BlockedAt
  <2> QED BY <2>1, <2>2, <2>3
<1>6. ASSUME NEW t \in Threads
      PROVE  wantsBar'[t] = wantsBar[t] /\ waitsBar'[t] = waitsBar[t]
  <2>1. CASE t = currentThread
    BY <1>1, <1>3, <2>1 DEF wantsBar, waitsBar, StillWaits, BlockedAt
  <2>2. CASE t # currentThread
    BY <1>3, <1>5, <2>2 DEF wantsBar, waitsBar
  <2> QED BY <2>1, <2>2
<1>7. ASSUME NEW k \in Locks  PROVE holderBar'[k] = holderBar[k]
  <2>1. CASE lockOwner[k] = currentThread
    BY <1>1, <1>3, <2>1 DEF holderBar, Entering
  <2>2. CASE lockOwner[k] # currentThread
    BY <1>1, <1>3, <2>2 DEF holderBar, Entering
  <2> QED BY <2>1, <2>2
<1>8. UNCHANGED <<holderBar, wantsBar, waitsBar>>
  BY <1>6, <1>7 DEF holderBar, wantsBar, waitsBar
<1>9. ClientDiscipline'
  BY <1>1, <1>3, OthersKeepDiscipline
<1> QED BY <1>8, <1>9 DEF Refines

----------------------------------------------------------------------------
(***************************************************************************)
(* The thread operations: the abstract monitor knows nothing of them.      *)
(***************************************************************************)
\* A time slice changes the thread that executes, not what any thread waits for.
LEMMA YieldRefines ==
  ASSUME ClientInv, Yield
  PROVE  Refines
<1>1. \A t \in Threads : status'[t] = "BLOCKED" <=> status[t] = "BLOCKED"
  BY DispatcherFacts, YieldSwitches DEF Yield, At, Processing, ClientInv
<1>2. UNCHANGED <<lockOwner, pc, argLock, argCond>>
  BY DEF Yield, monitorVars, lockVars, pcVars
<1> QED BY <1>1, <1>2, Unseen DEF BlockedAt

\* A new thread is inside nothing and waits for nothing.
LEMMA ForkRefines ==
  ASSUME ClientInv, NEW n \in Threads, Fork(n)
  PROVE  Refines
<1>1. \A t \in Threads : status'[t] = "BLOCKED" <=> status[t] = "BLOCKED"
  BY DEF Fork, SchedFork, ReadyToRun, ClientInv, IInv, TypeOK, SchedTypeOK
<1>2. UNCHANGED <<lockOwner, pc, argLock, argCond>>
  BY DEF Fork, monitorVars, lockVars, pcVars
<1> QED BY <1>1, <1>2, Unseen DEF BlockedAt

\* A finished thread sleeps, but not in Wait.
LEMMA FinishRefines ==
  ASSUME ClientInv, ClientFinish
  PROVE  Refines
<1> USE ExecutingFacts DEF ClientInv
<1>1. /\ Processing
      /\ pc[currentThread] = "run"
      /\ \A k \in Locks : lockOwner[k] # currentThread
      /\ Sleep(readyList, status, currentThread)
      /\ Goto("finished", NoLock, NoCond)
      /\ UNCHANGED lockOwner
  BY DEF ClientFinish, Holds, Finish, SchedFinish, At, lockVars
<1>2. /\ pc'[currentThread] = "finished"
      /\ \A t \in Threads \ {currentThread} :
           pc'[t] = pc[t] /\ argLock'[t] = argLock[t] /\ argCond'[t] = argCond[t]
  BY <1>1, MovesTo
<1>3. \A t \in Threads \ {currentThread} :
        BlockedAt(t, "Wait")' <=> BlockedAt(t, "Wait")
  <2>1. \A t \in Threads :
          status'[t] = "BLOCKED" <=> status[t] = "BLOCKED" \/ t = currentThread
    BY <1>1, DispatcherFacts, SleepSwitches
  <2> QED BY <1>2, <2>1 DEF BlockedAt
<1>4. \A t \in Threads \ {currentThread} :
        wantsBar'[t] = wantsBar[t] /\ waitsBar'[t] = waitsBar[t]
  BY <1>1, <1>2, <1>3, OthersSleepOn
<1>5. /\ wantsBar'[currentThread] = wantsBar[currentThread]
      /\ waitsBar'[currentThread] = waitsBar[currentThread]
  BY <1>1, <1>2, ExecutingBar DEF wantsBar, waitsBar, StillWaits, BlockedAt
<1>6. ASSUME NEW k \in Locks  PROVE holderBar'[k] = holderBar[k]
  BY <1>1, <1>2 DEF holderBar, Entering
<1>7. UNCHANGED <<holderBar, wantsBar, waitsBar>>
  BY <1>4, <1>5, <1>6 DEF holderBar, wantsBar, waitsBar
<1>8. ClientDiscipline'
  BY <1>1, <1>2, OthersKeepDiscipline
<1> QED BY <1>7, <1>8 DEF Refines

----------------------------------------------------------------------------
(***************************************************************************)
(* The theorem.                                                            *)
(***************************************************************************)
\* Initially nobody is inside a lock, and nobody waits.
LEMMA InitRefines == MonitorInit => ClientInv /\ Abstract!Init
<1> SUFFICES ASSUME MonitorInit  PROVE ClientInv /\ Abstract!Init
  OBVIOUS
<1>1. /\ \A t \in Threads : pc[t] = "run"
      /\ \A l \in Locks : lockOwner[l] = NoThread
  BY DEF MonitorInit
<1>2. ClientInv
  BY <1>1, InitIInv DEF ClientInv, ClientDiscipline
<1>3. Abstract!Init
  BY <1>1 DEF Abstract!Init, holderBar, wantsBar, waitsBar, StillWaits, BlockedAt
<1> QED BY <1>2, <1>3

\* Every step of the clients is a step of the abstract monitor or not seen.
LEMMA StepRefines ==
  ClientInv /\ [ClientNext]_vars
    => ClientInv' /\ [Abstract!Next]_(Abstract!absVars)
<1> SUFFICES ASSUME ClientInv, [ClientNext]_vars  PROVE Refines
  BY ClientsAreThreads, NextKeepsIInv DEF Refines, ClientInv, Abstract!absVars
<1>1. ASSUME NEW t \in Threads, Fork(t)  PROVE Refines
  BY <1>1, ForkRefines
<1>2. CASE Yield
  BY <1>2, YieldRefines
<1>3. CASE ClientFinish
  BY <1>3, FinishRefines
<1>4. CASE Idle
  <2>1. UNCHANGED <<lockOwner, pc, argLock, argCond, status>>
    BY <1>4 DEF Idle, SchedIdle, monitorVars, lockVars, pcVars
  <2> QED BY <2>1, Unseen DEF BlockedAt
<1>5. CASE Stopped \/ UNCHANGED vars
  <2>1. UNCHANGED <<lockOwner, pc, argLock, argCond, status>>
    BY <1>5 DEF Stopped, vars, schedVars, monitorVars, lockVars, pcVars
  <2> QED BY <2>1, Unseen DEF BlockedAt
<1>6. ASSUME NEW l \in Locks, ClientAcquire(l)  PROVE Refines
  BY <1>6, AcquireRefines DEF ClientAcquire, Holds, Acquire, At
<1>7. ASSUME NEW l \in Locks, ClientRelease(l)  PROVE Refines
  BY <1>7, ReleaseRefines
<1>8. ASSUME NEW c \in Conds, ClientWait(c)  PROVE Refines
  BY <1>8, WaitRefines
<1>9. ASSUME NEW c \in Conds, ClientSignal(c)  PROVE Refines
  BY <1>9, SignalRefines
<1>10. ASSUME NEW c \in Conds, ClientBroadcast(c)  PROVE Refines
  BY <1>10, BroadcastRefines
<1>11. CASE AcquireReturn
  BY <1>11, AcquireReturnRefines
<1>12. CASE WaitReacquire
  <2> DEFINE l == argLock[currentThread]
  <2>1. Processing /\ pc[currentThread] = "Wait" /\ DoAcquire(l)
    BY <1>12 DEF WaitReacquire, At
  <2>2. l \in Locks /\ lockOwner[l] # currentThread
    BY <2>1, ExecutingFacts DEF ClientInv, IInv, TypeOK, LocksConsistent
  <2> QED BY <2>1, <2>2, AcquireRefines
<1>13. CASE BroadcastSignal
  BY <1>13, BroadcastSignalRefines
<1>14. CASE BroadcastReturn
  BY <1>14, BroadcastReturnRefines
<1> QED
  BY <1>1, <1>2, <1>3, <1>4, <1>5, <1>6, <1>7, <1>8, <1>9, <1>10, <1>11,
     <1>12, <1>13, <1>14 DEF ClientNext, Continue

\* The locks and conditions of synch.cc keep the promises of synch.h to any
\* number of threads that use any number of them under the discipline of
\* synch.h: a lock has one thread inside, Wait gives it up in one step, Signal
\* wakes one waiter and Broadcast all of them.
THEOREM MonitorsImplemented == ClientSpec => ImplementsMonitor
<1>1. MonitorInit => ClientInv /\ Abstract!Init
  BY InitRefines
<1>2. ClientInv /\ [ClientNext]_vars
        => ClientInv' /\ [Abstract!Next]_(Abstract!absVars)
  BY StepRefines
<1> QED BY <1>1, <1>2, PTL DEF ClientSpec, ImplementsMonitor, Abstract!Spec

=============================================================================
