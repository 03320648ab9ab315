----------------------------- MODULE FileTable -----------------------------
(***************************************************************************)
(* The open files of one address space: Table of userprog/addrspace.cc     *)
(* under the calls Create, Open, Read, Write and Close of                  *)
(* userprog/exception.cc, made by the threads of a process.                *)
(*                                                                         *)
(* A thread can be switched out where the lock of the table is acquired    *)
(* and released, and nowhere else: the stub file system that the kernel is *)
(* built with calls the host and does not wait.                            *)
(***************************************************************************)
EXTENDS Integers, FiniteSets

CONSTANTS
  Callers, NoThread,
  Files,          \* OpenFile objects
  NoFile,         \* the value 0 of a slot
  Garbage,        \* what is in a slot nobody has written yet
  Size,           \* MaxOpenFiles
  KeepsIds        \* programs use only ids that Open returned and nobody closed

ASSUME FileTableAssumption ==
  /\ NoThread \notin Callers /\ NoFile \notin Files /\ Garbage \notin Files \cup {NoFile}
  /\ Size \in Nat /\ Size > 2
  /\ KeepsIds \in BOOLEAN

VARIABLES
  map,        \* Table::map, the slots that are taken
  table,      \* Table::table
  tableLock,  \* the owner of Table::lock
  at,         \* where each thread is, with what it carries
  existing,   \* the OpenFile objects that were not deleted
  ids,        \* the program: ids returned by Open and not passed to Close
  opened,     \* history: the file of each id that Open returned last
  undefined   \* history: a pointer was used that is no existing OpenFile

fileVars == <<map, table, tableLock, at, existing, ids, opened, undefined>>

Slots == 0 .. Size - 1
Outside == [op |-> "none"]

\* The constructor of AddrSpace puts 0 in two slots, "don't allocate the input
\* or output to disk files".
FileInit ==
  /\ map = {0, 1}
  /\ table = [i \in Slots |-> IF i < 2 THEN NoFile ELSE Garbage]
  /\ tableLock = NoThread
  /\ at = [t \in Callers |-> Outside]
  /\ existing = {}
  /\ ids = {}
  /\ opened = [i \in Slots |-> NoFile]
  /\ undefined = FALSE

Moves(t, place) == at' = [at EXCEPT ![t] = place]

\* Open_Syscall: the file exists, and Put is called with a new object.
OpenFile(t, f) ==
  /\ at[t] = Outside
  /\ f \notin existing
  /\ existing' = existing \cup {f}
  /\ Moves(t, [op |-> "put", file |-> f])
  /\ UNCHANGED <<map, table, tableLock, ids, opened, undefined>>

LockTable(t) ==
  /\ at[t].op \in {"put", "remove"}
  /\ tableLock = NoThread
  /\ tableLock' = t
  /\ Moves(t, [at[t] EXCEPT !.op = IF @ = "put" THEN "find" ELSE "clear"])
  /\ UNCHANGED <<map, table, existing, ids, opened, undefined>>

\* BitMap::Find: the first clear bit, which it sets.
Free == Slots \ map
First == CHOOSE i \in Free : \A j \in Free : i <= j

\* Mutant of FindSlot: the bit is found and not set.
FindUnmarked(t) ==
  /\ at[t].op = "find"
  /\ Moves(t, [op |-> "store", file |-> at[t].file, slot |-> IF Free = {} THEN -1 ELSE First])
  /\ tableLock' = NoThread
  /\ UNCHANGED <<map, table, existing, ids, opened, undefined>>

\* Put under its lock.
FindSlot(t) ==
  /\ at[t].op = "find"
  /\ LET slot == IF Free = {} THEN -1 ELSE First
     IN /\ map' = map \cup ({slot} \ {-1})
        /\ Moves(t, [op |-> "store", file |-> at[t].file, slot |-> slot])
  /\ tableLock' = NoThread
  /\ UNCHANGED <<table, existing, ids, opened, undefined>>

\* The rest of Put, and of Open_Syscall, after the lock: without a slot the
\* file is deleted.
StoreFile(t) ==
  /\ at[t].op = "store"
  /\ LET slot == at[t].slot
         f == at[t].file
     IN IF slot = -1
          THEN /\ existing' = existing \ {f}
               /\ UNCHANGED <<table, ids, opened>>
          ELSE /\ table' = [table EXCEPT ![slot] = f]
               /\ ids' = ids \cup {slot}
               /\ opened' = [opened EXCEPT ![slot] = f]
               /\ UNCHANGED existing
  /\ Moves(t, Outside)
  /\ UNCHANGED <<map, tableLock, undefined>>

\* What a program may pass.
MayPass == IF KeepsIds THEN ids ELSE -1 .. Size

\* Close_Syscall, and the bounds that Remove checks.
Close(t, id) ==
  /\ at[t] = Outside
  /\ id \in MayPass
  /\ ids' = ids \ {id}
  /\ id \in Slots => Moves(t, [op |-> "remove", slot |-> id])
  /\ id \notin Slots => UNCHANGED at
  /\ UNCHANGED <<map, table, tableLock, existing, opened, undefined>>

\* Remove under its lock; then Close_Syscall deletes what came out.
TakeOut(t) ==
  /\ at[t].op = "clear"
  /\ LET slot == at[t].slot
         f == table[slot]
     IN IF slot \in map
          THEN /\ map' = map \ {slot}
               /\ table' = [table EXCEPT ![slot] = NoFile]
               /\ existing' = existing \ {f}
               /\ undefined' = (undefined \/ f \notin existing \cup {NoFile})
          ELSE UNCHANGED <<map, table, existing, undefined>>
  /\ tableLock' = NoThread
  /\ Moves(t, Outside)
  /\ UNCHANGED <<ids, opened>>

\* Read_Syscall and Write_Syscall of a disk file: Get, and the use of what it
\* returns, between two ticks.
UseFile(t, id) ==
  /\ at[t] = Outside
  /\ id \in MayPass \ {0, 1}
  /\ LET f == IF id \in map THEN table[id] ELSE NoFile
     IN undefined' = (undefined \/ f \notin existing \cup {NoFile})
  /\ UNCHANGED <<map, table, tableLock, at, existing, ids, opened>>

FileNext ==
  \/ \E t \in Callers, f \in Files : OpenFile(t, f)
  \/ \E t \in Callers : LockTable(t)
  \/ \E t \in Callers : FindSlot(t)
  \/ \E t \in Callers : StoreFile(t)
  \/ \E t \in Callers, id \in -1 .. Size : Close(t, id)
  \/ \E t \in Callers : TakeOut(t)
  \/ \E t \in Callers, id \in -1 .. Size : UseFile(t, id)

FileSpec == FileInit /\ [][FileNext]_fileVars

----------------------------------------------------------------------------
\* "Use a lock so 2 files don't get the same space" (addrspace.cc:55), as far as
\* a program keeps to the ids it was given: each id that Open returned stands
\* for the file it was returned for until it is closed, every OpenFile is
\* reached from one slot or carried by one thread, and none is used after it was
\* deleted.
FilesKeepTheirSlots ==
  /\ \A id \in ids : id \in map /\ opened[id] \in existing /\ table[id] = opened[id]
  /\ \A f \in existing :
       Cardinality({i \in map : table[i] = f})
         + Cardinality({t \in Callers : at[t].op \in {"put", "find", "store"} /\ at[t].file = f}) = 1
  /\ ~undefined

\* The same of programs that pass any id.
NoUndefinedUse == ~undefined

=============================================================================
