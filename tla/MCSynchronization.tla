------------------------- MODULE MCSynchronization -------------------------
(* Three threads on semaphores, one that starts with a unit and is posted by *)
(* threads only and one that a device posts, too; or on a SynchList, with    *)
(* three items.  part says which; the other one stays as it was made.        *)
EXTENDS Semaphores, SynchLists, TLC

CONSTANTS t1, t2, t3, sa, sb

VARIABLE part

Values == sa :> 1 @@ sb :> 0
Interrupts == sa :> 0 @@ sb :> 2

mcVars == <<allVars, semVars, part>>

PartsInit == SemInit /\ ListInit /\ part \in {"semaphores", "list"}

PartsNext ==
  \/ part = "semaphores" /\ SemNext /\ UNCHANGED <<monitorVars, listVars, part>>
  \/ part = "list" /\ ListNext /\ UNCHANGED <<semVars, part>>

\* SemFairness or ListFairness, of the part that runs.
GoesOn(t) ==
  currentThread = t /\ IF part = "list" THEN Proceed /\ UNCHANGED semVars
                         ELSE PResume /\ UNCHANGED <<monitorVars, listVars>>
Preempted ==
  IF part = "list" THEN Yield /\ UNCHANGED <<listVars, semVars>>
                   ELSE SemYield /\ UNCHANGED <<monitorVars, listVars>>
PartsFairness ==
  /\ \A t \in Threads : SF_mcVars(GoesOn(t) /\ UNCHANGED part)
  /\ SF_mcVars(Preempted /\ UNCHANGED part)
  /\ WF_mcVars(part = "semaphores" /\ SemWake /\ UNCHANGED <<monitorVars, listVars, part>>)
  /\ \A s \in Sems :
       SF_mcVars(part = "semaphores" /\ Handler(s) /\ UNCHANGED <<monitorVars, listVars, part>>)

PartsSpec == PartsInit /\ [][PartsNext]_mcVars /\ PartsFairness
=============================================================================
