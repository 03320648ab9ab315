----------------------------- MODULE SynchLists -----------------------------
(***************************************************************************)
(* SynchList of threads/synchlist.cc: a list whose Remove waits for an     *)
(* item, built from one Lock and one Condition.  The mail boxes of the     *)
(* network are such lists.                                                 *)
(*                                                                         *)
(* No interrupt is enabled between a list operation and the kernel call    *)
(* that follows it, so list->Append with Signal, and list->Remove with     *)
(* Release, are one step each; between the calls a thread can be switched  *)
(* out.  at says which operation a thread is in.                           *)
(***************************************************************************)
EXTENDS Monitors, FiniteSets, Integers

CONSTANTS
  lock,        \* SynchList::lock
  listEmpty,   \* SynchList::listEmpty
  MaxItems     \* bound: items ever appended

ASSUME SynchListsAssumption ==
  lock \in Locks /\ listEmpty \in Conds /\ MaxItems \in Nat

VARIABLES
  list,        \* SynchList::list; items are numbered in the order of Append
  removed,     \* history: what the calls of Remove returned
  appended,    \* how many items have been appended
  at           \* the operation each thread is in

listVars == <<list, removed, appended, at>>
allVars == <<vars, listVars>>

Place == {"out", "Append", "Signalled", "Remove", "Mapcar"}

\* The type of the state; in particular Remove never returns NULL.
ListTypeOK ==
  /\ TypeOK
  /\ list \in Seq(1..MaxItems)
  /\ removed \in Seq(1..MaxItems)
  /\ appended \in 0..MaxItems
  /\ at \in [Threads -> Place]

ListInit ==
  /\ MonitorInit
  /\ list = << >>
  /\ removed = << >>
  /\ appended = 0
  /\ at = [t \in Threads |-> "out"]

----------------------------------------------------------------------------
In(place) == At("run") /\ at[currentThread] = place
Enter(place) == at' = [at EXCEPT ![currentThread] = place]

\* lock->Acquire(), with which all three operations begin.
Begin(place) ==
  /\ In("out")
  /\ Acquire(lock)
  /\ Enter(place)
  /\ UNCHANGED <<list, removed, appended>>

BeginAppend == appended < MaxItems /\ Begin("Append")
BeginRemove == Begin("Remove")
BeginMapcar == Begin("Mapcar")

\* Mutant of AppendItem: a signal only for the first item of an empty list.
AppendSignalsWhenEmpty ==
  /\ In("Append")
  /\ appended < MaxItems
  /\ appended' = appended + 1
  /\ list' = Append(list, appended + 1)
  /\ IF list = << >> THEN Signal(listEmpty, lock) ELSE UNCHANGED vars
  /\ Enter("Signalled")
  /\ UNCHANGED removed

\* list->Append(item); listEmpty->Signal(lock)
AppendItem ==
  /\ In("Append")
  /\ appended < MaxItems
  /\ appended' = appended + 1
  /\ list' = Append(list, appended + 1)
  /\ Signal(listEmpty, lock)
  /\ Enter("Signalled")
  /\ UNCHANGED removed

\* An appender that finds the bound used up leaves without an item.
NoItemLeft ==
  /\ In("Append")
  /\ appended = MaxItems
  /\ Enter("Signalled")
  /\ UNCHANGED <<vars, list, removed, appended>>

\* while (list->IsEmpty()) listEmpty->Wait(lock)
WaitForItem ==
  /\ In("Remove")
  /\ list = << >>
  /\ Wait(listEmpty, lock)
  /\ UNCHANGED listVars

\* Mutant of TakeItem: the list is not tested again after Wait, and a thread
\* that finds it empty returns NULL, here 0.
TakeUnchecked ==
  /\ In("Remove")
  /\ list' = IF list = << >> THEN list ELSE Tail(list)
  /\ removed' = Append(removed, IF list = << >> THEN 0 ELSE Head(list))
  /\ Release(lock)
  /\ Enter("out")
  /\ UNCHANGED appended

\* item = list->Remove(); lock->Release(); return item
TakeItem ==
  /\ In("Remove")
  /\ list # << >>
  /\ list' = Tail(list)
  /\ removed' = Append(removed, Head(list))
  /\ Release(lock)
  /\ Enter("out")
  /\ UNCHANGED appended

\* lock->Release() at the end of Append and Mapcar.
End ==
  /\ In("Signalled") \/ In("Mapcar")
  /\ Release(lock)
  /\ Enter("out")
  /\ UNCHANGED <<list, removed, appended>>

\* The kernel operations go on; threads are made, switched and finished.
Kernel ==
  /\ \/ AcquireReturn
     \/ WaitReacquire
     \/ Yield
     \/ Idle
     \/ \E t \in Threads : Fork(t)
     \/ In("out") /\ Finish
  /\ UNCHANGED listVars

ListStopped == halted /\ UNCHANGED allVars

\* A thread inside an operation does its next step.
Proceed ==
  \/ AppendItem
  \/ NoItemLeft
  \/ WaitForItem
  \/ TakeItem
  \/ End
  \/ (AcquireReturn \/ WaitReacquire) /\ UNCHANGED listVars

ListNext ==
  \/ BeginAppend
  \/ BeginRemove
  \/ BeginMapcar
  \/ AppendItem
  \/ NoItemLeft
  \/ WaitForItem
  \/ TakeItem
  \/ End
  \/ Kernel
  \/ ListStopped

ListSpec == ListInit /\ [][ListNext]_allVars

(***************************************************************************)
(* Fairness: the timer preempts for ever (-rs), and a thread that keeps    *)
(* getting the processor inside an operation does the next step of it.     *)
(* Nothing is assumed about threads outside the operations.                *)
(***************************************************************************)
ListFairness ==
  /\ SF_allVars(Yield /\ UNCHANGED listVars)
  /\ \A t \in Threads : SF_allVars(currentThread = t /\ Proceed)

FairListSpec == ListSpec /\ ListFairness

----------------------------------------------------------------------------
\* A thread is in the critical section from its return from Acquire to its
\* Release, except while it waits for the condition and for the lock after.
InCriticalSection(t) == at[t] # "out" /\ pc[t] = "run"

\* "enforce mutual exclusive access to the list" (synchlist.cc:56): one thread
\* at a time works on the list, and it owns the lock meanwhile.
ListIsProtected ==
  \A t \in Threads : InCriticalSection(t) =>
    /\ lockOwner[lock] = t
    /\ \A u \in Threads \ {t} : ~InCriticalSection(u)

\* The removers that do not sleep on listEmpty: each of them will look at the
\* list before it sleeps again.
ActiveRemovers ==
  {t \in Threads : at[t] = "Remove" /\ t \notin Range(condQueue[listEmpty])}

\* No item lies in the list with a remover asleep and nobody coming for it,
\* even when newcomers take items that sleepers were woken for; and no thread
\* looks at the list while another one changes it.
NoItemForgotten ==
  /\ ListTypeOK
  /\ ListIsProtected
  /\ condQueue[listEmpty] # << >> => Len(list) <= Cardinality(ActiveRemovers)

\* Append and Mapcar always come back; Remove comes back or nothing is left.
OperationsReturn ==
  \A t \in Threads :
    /\ at[t] \in {"Append", "Signalled", "Mapcar"} ~> at[t] = "out"
    /\ at[t] = "Remove" ~> at[t] = "out" \/ list = << >>

=============================================================================
