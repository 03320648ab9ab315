---------------------------- MODULE FilesProofs ----------------------------
(***************************************************************************)
(* The ids of open files stand for their files, for any number of threads, *)
(* files and slots, as long as a program passes only ids that it was given *)
(* and has not closed.  An object file of any linked program is loaded     *)
(* whole, along each of the three ways, into any free frames.  On a disk   *)
(* of any size with any files, a saved file stays intact and no sector is  *)
(* lost, with crashes between any two sector writes, until a command frees *)
(* for an entry that a crash left sectors that another file has.           *)
(***************************************************************************)
EXTENDS FileTable, ObjectFiles, FileSystem, FiniteSetTheorems, WellFoundedInduction, TLAPS

----------------------------------------------------------------------------
\* Every set of numbers has a least one.
LEMMA LeastNumber ==
  ASSUME NEW M \in SUBSET Nat, M # {}
  PROVE  \E n \in M : \A k \in M : n <= k
<1>1. \E n \in M : \A k \in M : ~(<<k, n>> \in OpToRel(<, Nat))
  BY WFMin, NatLessThanWellFounded, Zenon
<1>2. \A i, j \in Nat : j < i => <<j, i>> \in OpToRel(<, Nat)
  BY Zenon DEF OpToRel
<1>3. PICK n \in M : \A k \in M : ~(k < n)
  BY <1>1, <1>2, Zenon
<1> QED BY <1>3

\* ... which is what Min is.
LEMMA MinIsLeast ==
  ASSUME NEW T, T \subseteq Nat, T # {}
  PROVE  Min(T) \in T /\ \A y \in T : Min(T) <= y
<1>1. \E x \in T : \A y \in T : x <= y
  BY LeastNumber, Zenon
<1> QED BY <1>1, Zenon DEF Min

\* Sequences.
LEMMA Appended ==
  ASSUME NEW T, NEW s \in Seq(T), NEW t \in Seq(T)
  PROVE  /\ s \o t \in Seq(T) /\ Len(s \o t) = Len(s) + Len(t)
         /\ \A j \in 1 .. Len(s) + Len(t) : (s \o t)[j] = IF j <= Len(s) THEN s[j] ELSE t[j - Len(s)]
<1>1. s \o t \in Seq(T) /\ Len(s \o t) = Len(s) + Len(t)
  OBVIOUS
<1>2. \A j \in 1 .. Len(s) + Len(t) : (s \o t)[j] = IF j <= Len(s) THEN s[j] ELSE t[j - Len(s)]
  OBVIOUS
<1> QED BY <1>1, <1>2

\* Sequences with the same elements are equal.
LEMMA SameSequence ==
  ASSUME NEW T, NEW s \in Seq(T), NEW t \in Seq(T), Len(s) = Len(t), \A j \in 1 .. Len(s) : s[j] = t[j]
  PROVE  s = t
OBVIOUS

----------------------------------------------------------------------------
(***************************************************************************)
(* Open files.                                                             *)
(***************************************************************************)
\* The places of a thread in the calls.
Places ==
  {Outside} \cup [op : {"put", "find"}, file : Files]
    \cup [op : {"store"}, file : Files, slot : Slots \cup {-1}]
    \cup [op : {"remove", "clear"}, slot : Slots]

Carries(t) == at[t].op \in {"put", "find", "store"}
Reserves(t, i) == at[t].op = "store" /\ at[t].slot = i
Closes(t, i) == at[t].op \in {"remove", "clear"} /\ at[t].slot = i
HoldsSlot(t, i) == Reserves(t, i) \/ Closes(t, i)

FileTypeOK ==
  /\ map \subseteq Slots
  /\ table \in [Slots -> Files \cup {NoFile, Garbage}]
  /\ tableLock \in Callers \cup {NoThread}
  /\ at \in [Callers -> Places]
  /\ existing \subseteq Files
  /\ ids \subseteq Slots
  /\ opened \in [Slots -> Files \cup {NoFile}]
  /\ undefined \in BOOLEAN

\* The first two slots are the console's: nobody gets them.
ConsoleKept == {0, 1} \subseteq map /\ ids \cap {0, 1} = {} /\ table[0] = NoFile /\ table[1] = NoFile

\* A slot is free, reserved by one thread, open, or closed by one thread.
SlotsAreInOneState ==
  /\ \A i \in Slots \ map : table[i] \notin Files
  /\ \A t \in Callers, i \in Slots : HoldsSlot(t, i) => i \in map \ (ids \cup {0, 1})
  /\ \A t \in Callers, i \in Slots : Reserves(t, i) => table[i] \notin Files
  /\ \A t \in Callers, i \in Slots : Closes(t, i) => table[i] \in existing
  /\ \A t, u \in Callers, i \in Slots : HoldsSlot(t, i) /\ HoldsSlot(u, i) => t = u
  /\ \A i \in ids : i \in map /\ table[i] = opened[i] /\ table[i] \in existing

\* An OpenFile is in one slot, or one thread carries it.
FilesAreInOnePlace ==
  /\ \A i \in map : table[i] \in Files => table[i] \in existing
  /\ \A i, j \in map : table[i] \in Files /\ table[i] = table[j] => i = j
  /\ \A t \in Callers : Carries(t) => at[t].file \in existing
  /\ \A t \in Callers, i \in map : Carries(t) => at[t].file # table[i]
  /\ \A t, u \in Callers : Carries(t) /\ Carries(u) /\ at[t].file = at[u].file => t = u
  /\ \A f \in existing : (\E i \in map : table[i] = f) \/ (\E t \in Callers : Carries(t) /\ at[t].file = f)

FileInv ==
  FileTypeOK /\ ConsoleKept /\ SlotsAreInOneState /\ FilesAreInOnePlace /\ ~undefined

----------------------------------------------------------------------------
\* BitMap::Find returns a clear bit when there is one.
LEMMA FirstIsFree == Free # {} => First \in Free
<1> SUFFICES ASSUME Free # {} PROVE First \in Free
  OBVIOUS
<1>1. Free \subseteq Nat
  BY FileTableAssumption DEF Free, Slots
<1>2. \E i \in Free : \A j \in Free : i <= j
  BY <1>1, LeastNumber, Zenon
<1> QED BY <1>2 DEF First

\* The state in which the constructor of AddrSpace leaves the table.
LEMMA FileInitInv == FileInit => FileInv
<1> SUFFICES ASSUME FileInit PROVE FileInv
  OBVIOUS
<1> USE FileTableAssumption DEF FileInit, Slots
<1>1. Outside \in Places
  BY DEF Places
<1>2. FileTypeOK
  <2>1. at \in [Callers -> Places]
    BY <1>1
  <2>2. table \in [Slots -> Files \cup {NoFile, Garbage}] /\ opened \in [Slots -> Files \cup {NoFile}]
    OBVIOUS
  <2>3. map \subseteq Slots
    OBVIOUS
  <2> QED BY <2>1, <2>2, <2>3 DEF FileTypeOK
<1>3. ConsoleKept
  BY DEF ConsoleKept
<1>4. \A t \in Callers : ~Carries(t) /\ \A i \in Slots : ~HoldsSlot(t, i)
  BY DEF Outside, HoldsSlot, Reserves, Closes, Carries
<1>5. \A i \in Slots : table[i] \notin Files
  OBVIOUS
<1>6. SlotsAreInOneState
  BY <1>4, <1>5 DEF SlotsAreInOneState, HoldsSlot
<1>7. FilesAreInOnePlace
  BY <1>4, <1>5 DEF FilesAreInOnePlace
<1> QED BY <1>2, <1>3, <1>6, <1>7 DEF FileInv

\* A new file is in no slot yet, and the thread that opened it carries it.
LEMMA OpenFileInv ==
  ASSUME FileInv, NEW t \in Callers, NEW f \in Files, OpenFile(t, f)
  PROVE  FileInv'
<1> USE DEF FileInv
<1>1. /\ [op |-> "put", file |-> f] \in Places
      /\ \A u \in Callers : at'[u] = IF u = t THEN [op |-> "put", file |-> f] ELSE at[u]
  BY DEF OpenFile, Moves, FileTypeOK, Places
<1>2. FileTypeOK'
  BY <1>1 DEF OpenFile, Moves, FileTypeOK
<1>3. /\ \A u \in Callers : Carries(u)' <=> Carries(u) \/ u = t
      /\ \A u \in Callers : at'[u].file = IF u = t THEN f ELSE at[u].file
      /\ \A u \in Callers, i \in Slots : Reserves(u, i)' <=> Reserves(u, i)
      /\ \A u \in Callers, i \in Slots : Closes(u, i)' <=> Closes(u, i)
      /\ \A u \in Callers, i \in Slots : HoldsSlot(u, i)' <=> HoldsSlot(u, i)
      /\ ~Carries(t)
  BY <1>1 DEF OpenFile, Outside, Carries, Reserves, Closes, HoldsSlot
<1>4. ConsoleKept' /\ ~undefined'
  BY DEF OpenFile, ConsoleKept
<1>5. SlotsAreInOneState'
  BY <1>3 DEF OpenFile, SlotsAreInOneState
<1>6. FilesAreInOnePlace'
  BY <1>3 DEF OpenFile, FilesAreInOnePlace, FileTypeOK
<1> QED BY <1>2, <1>4, <1>5, <1>6

\* A thread that gets the lock still carries its file or closes its slot.
LEMMA LockTableInv ==
  ASSUME FileInv, NEW t \in Callers, LockTable(t)
  PROVE  FileInv'
<1> USE DEF FileInv
<1> DEFINE goesTo == [at[t] EXCEPT !.op = IF @ = "put" THEN "find" ELSE "clear"]
<1>1. \A u \in Callers : at'[u] = IF u = t THEN goesTo ELSE at[u]
  BY DEF LockTable, Moves, FileTypeOK
<1>2. \/ /\ at[t].op = "put" /\ at[t].file \in Files
         /\ goesTo = [op |-> "find", file |-> at[t].file]
      \/ /\ at[t].op = "remove" /\ at[t].slot \in Slots
         /\ goesTo = [op |-> "clear", slot |-> at[t].slot]
  BY DEF LockTable, FileTypeOK, Places, Outside
<1>3. goesTo \in Places
  BY <1>2 DEF Places
<1> HIDE DEF goesTo
<1>4. FileTypeOK'
  BY <1>1, <1>3 DEF LockTable, Moves, FileTypeOK
<1>5. /\ \A u \in Callers : Carries(u)' <=> Carries(u)
      /\ \A u \in Callers : Carries(u) => at'[u].file = at[u].file
      /\ \A u \in Callers, i \in Slots : Reserves(u, i)' <=> Reserves(u, i)
      /\ \A u \in Callers, i \in Slots : Closes(u, i)' <=> Closes(u, i)
      /\ \A u \in Callers, i \in Slots : HoldsSlot(u, i)' <=> HoldsSlot(u, i)
  BY <1>1, <1>2 DEF Carries, Reserves, Closes, HoldsSlot
<1>6. ConsoleKept' /\ ~undefined'
  BY DEF LockTable, ConsoleKept
<1>7. SlotsAreInOneState'
  BY <1>5 DEF LockTable, SlotsAreInOneState
<1>8. FilesAreInOnePlace'
  BY <1>5 DEF LockTable, FilesAreInOnePlace
<1> QED BY <1>4, <1>6, <1>7, <1>8

\* The slot that Put finds was free, and its bit is set in the same step.
LEMMA FindSlotInv ==
  ASSUME FileInv, NEW t \in Callers, FindSlot(t)
  PROVE  FileInv'
<1> USE DEF FileInv
<1> DEFINE slot == IF Free = {} THEN -1 ELSE First
           goesTo == [op |-> "store", file |-> at[t].file, slot |-> slot]
<1>1. /\ \A u \in Callers : at'[u] = IF u = t THEN goesTo ELSE at[u]
      /\ at[t].op = "find" /\ at[t].file \in Files
  BY DEF FindSlot, Moves, FileTypeOK, Places, Outside
<1>2. slot \in (Slots \ map) \cup {-1}
  BY FirstIsFree DEF Free
<1>3. map' = map \cup ({slot} \ {-1})
  BY DEF FindSlot
<1> HIDE DEF slot
<1>4. goesTo \in Places
  BY <1>1, <1>2 DEF Places
<1>5. /\ \A u \in Callers : Carries(u)' <=> Carries(u)
      /\ \A u \in Callers : Carries(u) => at'[u].file = at[u].file
      /\ \A u \in Callers, i \in Slots : Reserves(u, i)' <=> Reserves(u, i) \/ (u = t /\ i = slot)
      /\ \A u \in Callers, i \in Slots : Closes(u, i)' <=> Closes(u, i)
      /\ \A i \in Slots : ~HoldsSlot(t, i)
  BY <1>1 DEF Carries, Reserves, Closes, HoldsSlot
<1> HIDE DEF goesTo
<1>6. FileTypeOK'
  BY <1>1, <1>2, <1>3, <1>4 DEF FindSlot, Moves, FileTypeOK
<1>7. ConsoleKept' /\ ~undefined'
  BY <1>3 DEF FindSlot, ConsoleKept
<1>8. SlotsAreInOneState'
  BY <1>2, <1>3, <1>5, FileTableAssumption DEF FindSlot, SlotsAreInOneState, HoldsSlot, ConsoleKept, FileTypeOK, Slots
<1>9. FilesAreInOnePlace'
  <2>1. /\ table' = table /\ existing' = existing /\ existing \subseteq Files
        /\ \A i \in map' : table[i] \in Files => i \in map
        /\ map \subseteq map'
    BY <1>2, <1>3 DEF FindSlot, SlotsAreInOneState, FileTypeOK
  <2> QED BY <1>5, <2>1 DEF FilesAreInOnePlace
<1> QED BY <1>6, <1>7, <1>8, <1>9

\* The file is where the id says, or, without a slot, it is deleted.
LEMMA StoreFileInv ==
  ASSUME FileInv, NEW t \in Callers, StoreFile(t)
  PROVE  FileInv'
<1> USE DEF FileInv
<1> DEFINE slot == at[t].slot
           f == at[t].file
<1>1. /\ Outside \in Places
      /\ \A u \in Callers : at'[u] = IF u = t THEN Outside ELSE at[u]
      /\ at[t].op = "store" /\ f \in Files /\ slot \in Slots \cup {-1}
  BY DEF StoreFile, Moves, FileTypeOK, Places, Outside
<1>2. /\ \A u \in Callers : Carries(u)' <=> Carries(u) /\ u # t
      /\ \A u \in Callers : Carries(u)' => at'[u].file = at[u].file
      /\ \A u \in Callers, i \in Slots : Reserves(u, i)' <=> Reserves(u, i) /\ u # t
      /\ \A u \in Callers, i \in Slots : Closes(u, i)' <=> Closes(u, i)
      /\ Carries(t) /\ f \in existing
      /\ \A i \in Slots : i = slot <=> Reserves(t, i)
  BY <1>1 DEF Carries, Reserves, Closes, Outside, FilesAreInOnePlace
<1>3. map' = map /\ undefined' = undefined
  BY DEF StoreFile
<1>4. CASE slot = -1
  <2>1. existing' = existing \ {f} /\ table' = table /\ ids' = ids /\ opened' = opened
    BY <1>4 DEF StoreFile
  <2>2. \A i \in map : table[i] # f
    BY <1>2 DEF FilesAreInOnePlace
  <2>3. FileTypeOK'
    BY <1>1, <2>1 DEF StoreFile, Moves, FileTypeOK
  <2>4. ConsoleKept'
    BY <1>3, <2>1 DEF ConsoleKept
  <2>5. SlotsAreInOneState'
    BY <1>2, <1>3, <2>1, <2>2 DEF SlotsAreInOneState, HoldsSlot
  <2>6. FilesAreInOnePlace'
    BY <1>2, <1>3, <2>1, <2>2 DEF FilesAreInOnePlace
  <2> QED BY <1>3, <2>3, <2>4, <2>5, <2>6
<1>5. CASE slot \in Slots
  <2>1. /\ existing' = existing /\ ids' = ids \cup {slot} /\ slot # -1
        /\ \A i \in Slots : table'[i] = IF i = slot THEN f ELSE table[i]
        /\ \A i \in Slots : opened'[i] = IF i = slot THEN f ELSE opened[i]
    <3>1. slot # -1
      BY <1>5, FileTableAssumption DEF Slots
    <3> QED BY <1>5, <3>1 DEF StoreFile, FileTypeOK
  <2>2. /\ slot \in map \ {0, 1} /\ slot \notin ids
        /\ table[slot] \notin Files
        /\ \A u \in Callers : u # t => ~HoldsSlot(u, slot)
    BY <1>2, <1>5 DEF SlotsAreInOneState, HoldsSlot
  <2>3. FileTypeOK'
    BY <1>1, <1>5, <2>1 DEF StoreFile, Moves, FileTypeOK
  <2>4. ConsoleKept'
    BY <1>3, <2>1, <2>2, FileTableAssumption DEF ConsoleKept, Slots
  <2>5. SlotsAreInOneState'
    BY <1>2, <1>3, <2>1, <2>2 DEF SlotsAreInOneState, HoldsSlot, FileTypeOK
  <2>6. FilesAreInOnePlace'
    BY <1>2, <1>3, <2>1, <2>2 DEF FilesAreInOnePlace, FileTypeOK
  <2> QED BY <1>3, <2>3, <2>4, <2>5, <2>6
<1> QED BY <1>1, <1>4, <1>5

\* A program closes an id that is open, and then has it no more.
LEMMA CloseInv ==
  ASSUME FileInv, KeepsIds = TRUE, NEW t \in Callers, NEW id \in -1 .. Size, Close(t, id)
  PROVE  FileInv'
<1> USE DEF FileInv
<1> DEFINE goesTo == [op |-> "remove", slot |-> id]
<1>1. /\ id \in ids /\ id \in Slots /\ goesTo \in Places
      /\ \A u \in Callers : at'[u] = IF u = t THEN goesTo ELSE at[u]
      /\ at[t] = Outside
  BY DEF Close, MayPass, Moves, FileTypeOK, Places
<1>2. /\ \A u \in Callers : Carries(u)' <=> Carries(u)
      /\ \A u \in Callers : Carries(u) => at'[u].file = at[u].file
      /\ \A u \in Callers, i \in Slots : Reserves(u, i)' <=> Reserves(u, i)
      /\ \A u \in Callers, i \in Slots : Closes(u, i)' <=> Closes(u, i) \/ (u = t /\ i = id)
      /\ \A i \in Slots : ~HoldsSlot(t, i)
  BY <1>1 DEF Carries, Reserves, Closes, HoldsSlot, Outside
<1>3. FileTypeOK'
  BY <1>1 DEF Close, Moves, FileTypeOK
<1>4. ConsoleKept' /\ ~undefined'
  BY DEF Close, ConsoleKept
<1>5. SlotsAreInOneState'
  <2>1. id \in map \ {0, 1} /\ table[id] \in existing /\ \A u \in Callers : ~HoldsSlot(u, id)
    BY <1>1 DEF SlotsAreInOneState, ConsoleKept
  <2>2. existing \subseteq Files /\ ids' = ids \ {id}
    BY DEF FileTypeOK, Close
  <2>3. /\ map' = map /\ table' = table /\ existing' = existing /\ opened' = opened
        /\ \A u \in Callers, i \in Slots : HoldsSlot(u, i)' <=> HoldsSlot(u, i) \/ (u = t /\ i = id)
    BY <1>2 DEF Close, HoldsSlot
  <2>4. \A u \in Callers, i \in Slots : HoldsSlot(u, i)' => i \in map' \ (ids' \cup {0, 1})
    BY <2>1, <2>2, <2>3 DEF SlotsAreInOneState
  <2>5. \A u, v \in Callers, i \in Slots : HoldsSlot(u, i)' /\ HoldsSlot(v, i)' => u = v
    BY <2>1, <2>3 DEF SlotsAreInOneState
  <2>6. \A u \in Callers, i \in Slots : (Reserves(u, i)' => table'[i] \notin Files)
                                      /\ (Closes(u, i)' => table'[i] \in existing')
    BY <1>2, <2>1, <2>3 DEF SlotsAreInOneState
  <2> QED BY <2>2, <2>3, <2>4, <2>5, <2>6 DEF SlotsAreInOneState
<1>6. FilesAreInOnePlace'
  BY <1>2 DEF Close, FilesAreInOnePlace
<1> QED BY <1>3, <1>4, <1>5, <1>6

\* Remove empties the slot, and the file that was in it is deleted.
LEMMA TakeOutInv ==
  ASSUME FileInv, NEW t \in Callers, TakeOut(t)
  PROVE  FileInv'
<1> USE DEF FileInv
<1> DEFINE slot == at[t].slot
           f == table[slot]
<1>1. /\ Outside \in Places
      /\ \A u \in Callers : at'[u] = IF u = t THEN Outside ELSE at[u]
      /\ at[t].op = "clear" /\ slot \in Slots
  BY DEF TakeOut, Moves, FileTypeOK, Places, Outside
<1>2. /\ \A u \in Callers : Carries(u)' <=> Carries(u)
      /\ \A u \in Callers : Carries(u) => at'[u].file = at[u].file
      /\ \A u \in Callers, i \in Slots : Reserves(u, i)' <=> Reserves(u, i)
      /\ \A u \in Callers, i \in Slots : Closes(u, i)' <=> Closes(u, i) /\ u # t
      /\ Closes(t, slot)
  BY <1>1 DEF Carries, Reserves, Closes, Outside
<1>3. /\ slot \in map \ {0, 1} /\ slot \notin ids
      /\ f \in existing
      /\ \A u \in Callers : u # t => ~HoldsSlot(u, slot)
  BY <1>1, <1>2 DEF SlotsAreInOneState, HoldsSlot
<1>4. /\ map' = map \ {slot} /\ existing' = existing \ {f}
      /\ \A i \in Slots : table'[i] = IF i = slot THEN NoFile ELSE table[i]
      /\ undefined' = undefined /\ ids' = ids /\ opened' = opened
  BY <1>1, <1>3 DEF TakeOut, FileTypeOK
<1>5. \A i \in map : i # slot => table[i] # f
  BY <1>3 DEF FilesAreInOnePlace, FileTypeOK
<1>6. FileTypeOK'
  BY <1>1, <1>3, <1>4 DEF TakeOut, Moves, FileTypeOK
<1>7. ConsoleKept' /\ ~undefined'
  BY <1>3, <1>4, FileTableAssumption DEF ConsoleKept, Slots
<1>8. SlotsAreInOneState'
  <2>1. NoFile \notin Files /\ map \subseteq Slots /\ ids \subseteq Slots /\ existing \subseteq Files
    BY FileTableAssumption DEF FileTypeOK
  <2> QED BY <1>1, <1>2, <1>3, <1>4, <1>5, <2>1 DEF SlotsAreInOneState, HoldsSlot
<1>9. FilesAreInOnePlace'
  <2>1. NoFile \notin Files /\ map \subseteq Slots /\ existing \subseteq Files
    BY FileTableAssumption DEF FileTypeOK
  <2>2. \A u \in Callers : Carries(u) => at[u].file # f
    BY <1>3 DEF FilesAreInOnePlace
  <2> QED BY <1>1, <1>2, <1>3, <1>4, <1>5, <2>1, <2>2 DEF FilesAreInOnePlace
<1> QED BY <1>6, <1>7, <1>8, <1>9

\* What Get returns for an open id exists.
LEMMA UseFileInv ==
  ASSUME FileInv, KeepsIds = TRUE, NEW t \in Callers, NEW id \in -1 .. Size, UseFile(t, id)
  PROVE  FileInv'
<1> USE DEF FileInv
<1>1. id \in ids /\ id \in map /\ table[id] \in existing
  BY DEF UseFile, MayPass, SlotsAreInOneState
<1>2. ~undefined'
  BY <1>1 DEF UseFile
<1> QED BY <1>2 DEF UseFile, FileTypeOK, ConsoleKept, SlotsAreInOneState, FilesAreInOnePlace,
     HoldsSlot, Reserves, Closes, Carries

\* Every step of a program that keeps to its ids keeps the invariant.
LEMMA FileStepInv ==
  ASSUME FileInv, KeepsIds = TRUE, [FileNext]_fileVars
  PROVE  FileInv'
<1>1. CASE UNCHANGED fileVars
  BY <1>1 DEF fileVars, FileInv, FileTypeOK, ConsoleKept, SlotsAreInOneState, FilesAreInOnePlace,
     HoldsSlot, Reserves, Closes, Carries
<1>2. CASE FileNext
  BY <1>2, OpenFileInv, LockTableInv, FindSlotInv, StoreFileInv, CloseInv, TakeOutInv, UseFileInv
  DEF FileNext
<1> QED BY <1>1, <1>2

\* A file that one slot or one thread has is counted once.
LEMMA FileInvCounts == FileInv => FilesKeepTheirSlots
<1> SUFFICES ASSUME FileInv PROVE FilesKeepTheirSlots
  OBVIOUS
<1> USE DEF FileInv
<1>1. \A id \in ids : id \in map /\ opened[id] \in existing /\ table[id] = opened[id]
  BY DEF SlotsAreInOneState
<1> DEFINE inSlots(f) == {i \in map : table[i] = f}
           carried(f) == {t \in Callers : at[t].op \in {"put", "find", "store"} /\ at[t].file = f}
<1>2. ASSUME NEW f \in existing
      PROVE  Cardinality(inSlots(f)) + Cardinality(carried(f)) = 1
  <2>1. f \in Files
    BY DEF FileTypeOK
  <2>2. CASE \E i \in map : table[i] = f
    <3>1. PICK i \in map : table[i] = f
      BY <2>2
    <3>2. inSlots(f) = {i} /\ carried(f) = {}
      BY <2>1, <3>1 DEF FilesAreInOnePlace, Carries
    <3>3. Cardinality(inSlots(f)) = 1 /\ Cardinality(carried(f)) = 0
      BY <3>2, FS_EmptySet, FS_Singleton
    <3> QED BY <3>3
  <2>3. CASE \A i \in map : table[i] # f
    <3>1. PICK t \in Callers : Carries(t) /\ at[t].file = f
      BY <2>3 DEF FilesAreInOnePlace
    <3>2. inSlots(f) = {} /\ carried(f) = {t}
      BY <2>3, <3>1 DEF FilesAreInOnePlace, Carries
    <3>3. Cardinality(inSlots(f)) = 0 /\ Cardinality(carried(f)) = 1
      BY <3>2, FS_EmptySet, FS_Singleton
    <3> QED BY <3>3
  <2> QED BY <2>2, <2>3
<1> QED BY <1>1, <1>2 DEF FilesKeepTheirSlots

\* For every number of threads, files and slots: the table's lock and the order
\* of the calls keep every id that Open returned for the file it was returned
\* for, and no thread touches a deleted OpenFile (userprog/addrspace.cc:48-95).
THEOREM IdsKeepTheirFiles ==
  ASSUME KeepsIds = TRUE
  PROVE  FileSpec => []FilesKeepTheirSlots
<1>1. FileInv /\ [FileNext]_fileVars => FileInv'
  BY FileStepInv
<1> QED BY <1>1, FileInitInv, FileInvCounts, PTL DEF FileSpec

----------------------------------------------------------------------------
(***************************************************************************)
(* Object files.                                                           *)
(***************************************************************************)
Loaders == {"AddrSpace", "coff2flat", "load_program"}
Stages == {"magic", "sections", "pages", "incomplete", "loaded", "refused"}
Bytes == {Zero} \cup (STRING \X Nat)
Frames == 0 .. FrameCount - 1
MemorySize == IF loader = "AddrSpace" THEN FrameCount * PageBytes ELSE MemSize

ObjectTypeOK ==
  /\ coff \in ObjectFile
  /\ loader \in Loaders
  /\ loading \in Stages
  /\ next \in Nat
  /\ noff \in [code : [virtualAddr : Nat, inFileAddr : Nat, size : Nat],
               initData : [virtualAddr : Nat, inFileAddr : Nat, size : Nat],
               uninitData : [virtualAddr : Nat, inFileAddr : Nat, size : Nat]]
  /\ written \in Seq(Bytes)
  /\ bitmap \subseteq Frames
  /\ frames \in Seq(bitmap)
  /\ DOMAIN memory = 0 .. MemorySize - 1
  /\ loading = "magic" => next = 0 /\ written = << >>
  /\ loading = "sections" /\ loader # "load_program" => next <= Len(Sections)
  /\ loading = "pages" => loader = "AddrSpace"

\* Where the first n sections end.
End(n) == IF n = 0 THEN 0 ELSE EndOf(Sections[n])

\* The bytes of a section are at its address, counted from the file's beginning.
IsWritten(s) ==
  \A k \in 1 .. s.size : s.paddr + k <= Len(written) /\ written[s.paddr + k] = <<s.name, k>>

AllWritten == \A i \in DOMAIN Sections : HasData(Sections[i]) => IsWritten(Sections[i])

\* The file that is written is the image of memory up to its end.
ImageIsWritten ==
  /\ loading = "sections" /\ loader # "load_program" =>
       /\ (\A i \in 1 .. next : Sections[i].size # 0 => HasData(Sections[i])) => Len(written) = End(next)
       /\ \A i \in 1 .. next : HasData(Sections[i]) => IsWritten(Sections[i])
  /\ loader = "AddrSpace" /\ loading \in {"pages", "loaded"} => AllWritten
  /\ loader = "coff2flat" /\ loading = "loaded" => AllWritten

HasSegment(names) == \E i \in 1 .. next : Sections[i].name \in names /\ Sections[i].size # 0

\* The header tells of the sections that were read.
SegmentsAddUp ==
  /\ loading = "magic" => ProgramSize = 0
  /\ loader = "AddrSpace" /\ loading = "sections" =>
       /\ noff.code.size # 0 => HasSegment({".text"})
       /\ noff.initData.size # 0 => HasSegment({".data", ".rdata"})
       /\ noff.uninitData.size # 0 => HasSegment({".bss", ".sbss"})
       /\ ProgramSize = End(next)
  /\ loader = "AddrSpace" /\ loading \in {"magic", "sections", "pages", "loaded"} =>
       Len(written) = noff.code.size + noff.initData.size

\* The pages that were read have frames of their own, and the bytes are there.
PagesAreLoaded ==
  /\ loader = "AddrSpace" /\ loading \in {"magic", "sections"} => frames = << >>
  /\ loader = "AddrSpace" /\ loading \in {"pages", "loaded"} =>
       /\ next <= numPages /\ (loading = "loaded" => next = numPages)
       /\ Len(frames) = next
       /\ \A p, q \in DOMAIN frames : frames[p] = frames[q] => p = q
       /\ \A p \in 0 .. next - 1, o \in 0 .. PageBytes - 1 :
            p * PageBytes + o < Len(written) =>
              memory[frames[p + 1] * PageBytes + o] = written[p * PageBytes + o + 1]

\* The interpreter's memory has the sections that were read.
IsInMemory(s) ==
  /\ EndOf(s) < MemSize
  /\ \A k \in 1 .. s.size : k <= s.there => memory[s.paddr + k - 1] = <<s.name, k>>

SectionsAreLoaded ==
  loader = "load_program" /\ loading \in {"sections", "loaded"} =>
    /\ next <= Len(LoadOrder) /\ (loading = "loaded" => next = Len(LoadOrder))
    /\ \A i \in DOMAIN Sections, j \in 1 .. next :
         HasData(Sections[i]) /\ Sections[i].name = LoadOrder[j] => IsInMemory(Sections[i])

RefusedForAReason == loading = "refused" => ~IsProper

ObjectInv ==
  ObjectTypeOK /\ ImageIsWritten /\ SegmentsAddUp /\ PagesAreLoaded /\ SectionsAreLoaded /\ RefusedForAReason

----------------------------------------------------------------------------
\* Quotient and remainder.
LEMMA Division ==
  ASSUME NEW a \in Int, NEW n \in Nat \ {0}
  PROVE  /\ a \div n \in Int /\ a % n \in 0 .. n - 1
         /\ a = n * (a \div n) + (a % n)
<1>1. a \div n \in Int
  OBVIOUS
<1>2. a % n \in 0 .. n - 1
  OBVIOUS
<1>3. a = n * (a \div n) + (a % n)
  OBVIOUS
<1> QED BY <1>1, <1>2, <1>3

\* Rows of n bytes do not overlap, and a higher one is behind.
LEMMA RowsAreApart ==
  ASSUME NEW n \in Nat \ {0}, NEW p \in Int, NEW q \in Int, NEW r \in 0 .. n - 1, NEW s \in 0 .. n - 1
  PROVE  /\ p < q => p * n + r < q * n
         /\ p * n + r = q * n + s => p = q /\ r = s
<1>1. p < q => (q - p) * n >= n
  OBVIOUS
<1>2. q < p => (p - q) * n >= n
  OBVIOUS
<1>3. p * n \in Int /\ q * n \in Int /\ (q - p) * n = q * n - p * n /\ (p - q) * n = p * n - q * n
  OBVIOUS
<1> DEFINE a == p * n
           b == q * n
<1> HIDE DEF a, b
<1>4. p < q => b - a >= n
  BY <1>1, <1>3 DEF a, b
<1>5. q < p => a - b >= n
  BY <1>2, <1>3 DEF a, b
<1>6. a \in Int /\ b \in Int
  BY <1>3 DEF a, b
<1>7. p < q => a + r < b
  BY <1>4, <1>6
<1>8. a + r = b + s => ~(p < q) /\ ~(q < p)
  BY <1>4, <1>5, <1>6
<1>9. p = q => a = b
  BY DEF a, b
<1>10. a + r = b + s => p = q /\ r = s
  BY <1>6, <1>8, <1>9
<1> QED BY <1>7, <1>10 DEF a, b

\* DivUp is enough, and no more for less.
LEMMA DivUpCovers ==
  ASSUME NEW a \in Nat, NEW b \in Nat, a <= b, NEW n \in Nat \ {0}
  PROVE  /\ DivUp(a, n) \in Nat /\ a <= n * DivUp(a, n)
         /\ DivUp(a, n) <= DivUp(b, n)
<1> DEFINE p == (a + n - 1) \div n
           q == (b + n - 1) \div n
           r == (a + n - 1) % n
           s == (b + n - 1) % n
<1>1. p \in Int /\ r \in 0 .. n - 1 /\ a + n - 1 = n * p + r
  <2>1. a + n - 1 \in Int
    OBVIOUS
  <2> QED BY <2>1, Division, Zenon
<1>2. q \in Int /\ s \in 0 .. n - 1 /\ b + n - 1 = n * q + s
  <2>1. b + n - 1 \in Int
    OBVIOUS
  <2> QED BY <2>1, Division, Zenon
<1> HIDE DEF p, q, r, s
<1>3. a <= n * p
  BY <1>1
<1>4. p >= 0
  <2>1. p <= -1 => n * p <= -n
    BY <1>1
  <2> QED BY <2>1, <1>1, <1>3
<1>5. p <= q
  <2>1. q < p => n * p >= n * q + n
    BY <1>1, <1>2
  <2> QED BY <2>1, <1>1, <1>2
<1> QED BY <1>1, <1>3, <1>4, <1>5 DEF p, q, DivUp

----------------------------------------------------------------------------
\* What the layout says of a section.
LEMMA SectionIs ==
  ASSUME coff \in ObjectFile
  PROVE  /\ Sections \in Seq([name : STRING, paddr : Nat, size : Nat, there : Nat])
         /\ DOMAIN Sections = 1 .. Len(Sections) /\ Len(Sections) \in Nat
         /\ \A i \in DOMAIN Sections :
              /\ Sections[i].name \in STRING /\ Sections[i].paddr \in Nat
              /\ Sections[i].size \in Nat /\ Sections[i].there \in Nat
              /\ EndOf(Sections[i]) \in Nat
              /\ Sections[i].paddr = End(i - 1)
              /\ End(i) = Sections[i].paddr + Sections[i].size
         /\ \A i, j \in DOMAIN Sections :
              /\ Sections[i].name = Sections[j].name => i = j
              /\ i < j /\ Sections[i].size # 0 /\ HasData(Sections[j]) => HasData(Sections[i])
         /\ coff.mipsel \in BOOLEAN /\ coff.omagic \in BOOLEAN
<1>1. IsLinked(Sections) /\ coff.mipsel \in BOOLEAN /\ coff.omagic \in BOOLEAN
  BY ObjectAssumption DEF Sections
<1>2. /\ Sections \in Seq([name : STRING, paddr : Nat, size : Nat, there : Nat])
      /\ \A i \in DOMAIN Sections :
           Sections[i].paddr = IF i = 1 THEN 0 ELSE EndOf(Sections[i - 1])
      /\ \A i, j \in DOMAIN Sections :
              /\ Sections[i].name = Sections[j].name => i = j
              /\ i < j /\ Sections[i].size # 0 /\ HasData(Sections[j]) => HasData(Sections[i])
  BY <1>1 DEF IsLinked
<1> HIDE DEF Sections
<1>3. DOMAIN Sections = 1 .. Len(Sections) /\ Len(Sections) \in Nat
  BY <1>2
<1>4. \A i \in DOMAIN Sections :
        /\ Sections[i].name \in STRING /\ Sections[i].paddr \in Nat
        /\ Sections[i].size \in Nat /\ Sections[i].there \in Nat
  <2> TAKE i \in DOMAIN Sections
  <2> DEFINE R == [name : STRING, paddr : Nat, size : Nat, there : Nat]
  <2>1. Sections \in Seq(R)
    BY <1>2
  <2> HIDE DEF R
  <2>2. Sections[i] \in R
    BY <2>1
  <2> QED BY <2>2 DEF R
<1>5. ASSUME NEW i \in DOMAIN Sections
      PROVE  /\ EndOf(Sections[i]) \in Nat
             /\ Sections[i].paddr = End(i - 1)
             /\ End(i) = Sections[i].paddr + Sections[i].size
  <2>1. i \in Nat \ {0}
    BY <1>3
  <2>2. EndOf(Sections[i]) \in Nat /\ EndOf(Sections[i]) = Sections[i].paddr + Sections[i].size
    BY <1>4 DEF EndOf
  <2>3. Sections[i].paddr = IF i = 1 THEN 0 ELSE EndOf(Sections[i - 1])
    BY <1>2
  <2>4. i - 1 = 0 <=> i = 1
    BY <2>1
  <2> QED BY <2>1, <2>2, <2>3, <2>4, Zenon DEF End
<1> QED BY <1>1, <1>2, <1>3, <1>4, <1>5

LEMMA OneSection ==
  ASSUME coff \in ObjectFile, NEW i \in DOMAIN Sections
  PROVE  /\ i \in 1 .. Len(Sections) /\ Len(Sections) \in Nat
         /\ Sections[i].name \in STRING /\ Sections[i].paddr \in Nat
         /\ Sections[i].size \in Nat /\ Sections[i].there \in Nat
         /\ EndOf(Sections[i]) = Sections[i].paddr + Sections[i].size
         /\ Sections[i].paddr = End(i - 1) /\ End(i) = EndOf(Sections[i])
BY SectionIs, Zenon DEF EndOf

\* A section ends where the later ones begin, or before.
LEMMA LaterIsBehind ==
  ASSUME coff \in ObjectFile, NEW i \in DOMAIN Sections, NEW j \in DOMAIN Sections, i < j
  PROVE  EndOf(Sections[i]) <= Sections[j].paddr
<1> DEFINE Bad == {k \in DOMAIN Sections : i < k /\ ~(EndOf(Sections[i]) <= Sections[k].paddr)}
<1> SUFFICES Bad = {}
  OBVIOUS
<1> SUFFICES ASSUME Bad # {} PROVE FALSE
  OBVIOUS
<1>1. Bad \in SUBSET Nat
  BY SectionIs
<1>2. PICK k \in Bad : \A m \in Bad : k <= m
  BY <1>1, LeastNumber, Zenon
<1>3. k \in DOMAIN Sections /\ i < k /\ ~(EndOf(Sections[i]) <= Sections[k].paddr)
  BY <1>2
<1>4. k - 1 \notin Bad
  BY <1>1, <1>2
<1>5. k - 1 \in DOMAIN Sections /\ k # 1 /\ k - 1 # 0 /\ i \in Nat /\ k \in Nat
  <2>1. k \in 1 .. Len(Sections) /\ i \in 1 .. Len(Sections) /\ Len(Sections) \in Nat
    BY <1>3, OneSection, Zenon
  <2>2. DOMAIN Sections = 1 .. Len(Sections)
    BY SectionIs, Zenon
  <2> QED BY <1>3, <2>1, <2>2
<1>6. Sections[k].paddr = EndOf(Sections[k - 1])
  BY <1>3, <1>5, SectionIs, Zenon DEF End
<1> HIDE DEF Bad
<1>7. CASE k - 1 = i
  BY <1>3, <1>6, <1>7, SectionIs
<1>8. CASE i < k - 1
  <2>1. EndOf(Sections[i]) <= Sections[k - 1].paddr
    BY <1>4, <1>5, <1>8 DEF Bad
  <2>2. Sections[k - 1].paddr <= EndOf(Sections[k - 1])
    BY <1>5, OneSection
  <2>3. /\ EndOf(Sections[i]) \in Nat /\ Sections[k - 1].paddr \in Nat
        /\ EndOf(Sections[k - 1]) \in Nat
    BY <1>5, SectionIs, Zenon
  <2> QED BY <2>1, <2>2, <2>3, <1>3, <1>6
<1> QED BY <1>3, <1>5, <1>7, <1>8

\* The highest number of a finite set is one of them.
LEMMA MaxIsHighest ==
  ASSUME NEW T, T \subseteq Nat, T # {}, NEW m \in Nat, \A x \in T : x <= m
  PROVE  Max(T) \in T /\ \A y \in T : Max(T) >= y
<1> DEFINE Above == {n \in Nat : \A x \in T : x <= n}
<1>1. PICK n \in Above : \A k \in Above : n <= k
  BY LeastNumber, Zenon
<1>2. n \in T
  <2> SUFFICES ASSUME n \notin T PROVE FALSE
    OBVIOUS
  <2>1. \A x \in T : x <= n - 1
    BY <1>1
  <2>2. n - 1 \in Nat
    <3>1. PICK x \in T : TRUE
      OBVIOUS
    <3> QED BY <1>1, <2>1, <3>1
  <2> QED BY <1>1, <2>1, <2>2
<1>3. \A y \in T : n >= y
  BY <1>1
<1> QED BY <1>2, <1>3, Zenon DEF Max

\* The top is behind every section.
LEMMA TopIsBehind ==
  ASSUME coff \in ObjectFile
  PROVE  Top \in Nat /\ \A i \in DOMAIN Sections : EndOf(Sections[i]) <= Top
<1> DEFINE T == {0} \cup {EndOf(Sections[i]) : i \in DOMAIN Sections}
<1>1. T \subseteq Nat /\ T # {}
  BY SectionIs
<1>2. CASE DOMAIN Sections = {}
  <2>1. \A x \in T : x <= 0
    BY <1>2
  <2>2. Max(T) \in T /\ \A y \in T : Max(T) >= y
    BY <1>1, <2>1, MaxIsHighest
  <2> QED BY <1>1, <2>2, SectionIs DEF Top
<1>3. CASE DOMAIN Sections # {}
  <2> DEFINE n == Len(Sections)
  <2>1. n \in DOMAIN Sections
    BY <1>3, SectionIs
  <2>2. \A i \in DOMAIN Sections : EndOf(Sections[i]) <= EndOf(Sections[n])
    <3> TAKE i \in DOMAIN Sections
    <3>1. CASE i = n
      BY <3>1, SectionIs
    <3>2. CASE i < n
      <4>1. EndOf(Sections[i]) <= Sections[n].paddr
        BY <2>1, <3>2, LaterIsBehind
      <4>2. Sections[n].paddr <= EndOf(Sections[n])
        <5>1. /\ Sections[n].paddr \in Nat /\ Sections[n].size \in Nat
              /\ EndOf(Sections[n]) = Sections[n].paddr + Sections[n].size
          BY <2>1, OneSection, Zenon
        <5> QED BY <5>1
      <4>3. /\ EndOf(Sections[i]) \in Nat /\ Sections[n].paddr \in Nat
            /\ EndOf(Sections[n]) \in Nat
        BY <2>1, SectionIs, Zenon
      <4> QED BY <4>1, <4>2, <4>3
    <3> QED BY <3>1, <3>2, SectionIs
  <2>3. EndOf(Sections[n]) \in Nat
    BY <2>1, SectionIs
  <2>4. \A x \in T : x <= EndOf(Sections[n])
    BY <2>2, <2>3
  <2>5. Max(T) \in T /\ \A y \in T : Max(T) >= y
    BY <1>1, <2>3, <2>4, MaxIsHighest
  <2>6. Max(T) \in Nat
    BY <1>1, <2>5
  <2> QED BY <2>5, <2>6 DEF Top
<1> QED BY <1>2, <1>3

----------------------------------------------------------------------------
\* When the loading begins.
LEMMA ObjectInitInv == ObjectInit => ObjectInv
<1> SUFFICES ASSUME ObjectInit PROVE ObjectInv
  OBVIOUS
<1>1. /\ coff \in ObjectFile /\ loader \in Loaders /\ loading = "magic" /\ next = 0
      /\ noff = [code |-> NoSegment, initData |-> NoSegment, uninitData |-> NoSegment]
      /\ written = << >> /\ frames = << >>
  BY DEF ObjectInit, ObjectsBegin, Loaders
<1>2. bitmap \subseteq Frames
  <2>1. CASE loader = "AddrSpace"
    BY <2>1 DEF ObjectInit, ObjectsBegin, Frames
  <2>2. CASE loader # "AddrSpace"
    BY <2>2 DEF ObjectInit, ObjectsBegin
  <2> QED BY <2>1, <2>2
<1>3. DOMAIN memory = 0 .. MemorySize - 1
  BY DEF ObjectInit, ObjectsBegin, MemorySize
<1>4. NoSegment \in [virtualAddr : Nat, inFileAddr : Nat, size : Nat] /\ NoSegment.size = 0
  BY DEF NoSegment, Segment
<1>5. ObjectTypeOK
  BY <1>1, <1>2, <1>3, <1>4 DEF ObjectTypeOK, Stages
<1>6. /\ noff.code.size = 0 /\ noff.initData.size = 0 /\ noff.uninitData.size = 0
      /\ Len(written) = 0
  BY <1>1, <1>4
<1>7. ImageIsWritten
  BY <1>1 DEF ImageIsWritten
<1>8. SegmentsAddUp
  BY <1>1, <1>6 DEF SegmentsAddUp, ProgramSize
<1>9. PagesAreLoaded /\ SectionsAreLoaded /\ RefusedForAReason
  BY <1>1 DEF PagesAreLoaded, SectionsAreLoaded, RefusedForAReason
<1> QED BY <1>5, <1>7, <1>8, <1>9 DEF ObjectInv

LEMMA CheckMagicInv == ObjectInv /\ CheckMagic => ObjectInv'
<1> SUFFICES ASSUME ObjectInv, CheckMagic PROVE ObjectInv'
  OBVIOUS
<1>1. /\ loading = "magic" /\ loading' = IF Recognised THEN "sections" ELSE "refused"
      /\ UNCHANGED <<coff, loader, next, noff, written, bitmap, frames, memory>>
  BY DEF CheckMagic
<1>2. ObjectTypeOK /\ next = 0 /\ written = << >> /\ Len(written) = 0
  BY <1>1 DEF ObjectInv, ObjectTypeOK
<1>3. Len(Sections) \in Nat
  BY <1>2, SectionIs, Zenon DEF ObjectTypeOK
<1>4. ObjectTypeOK'
  <2>1. loading' \in {"sections", "refused"}
    BY <1>1
  <2>2. Sections' = Sections /\ MemorySize' = MemorySize
    BY <1>1 DEF Sections, MemorySize
  <2>3. next <= Len(Sections)
    BY <1>2, <1>3
  <2> HIDE DEF Sections
  <2> QED BY <1>1, <1>2, <2>1, <2>2, <2>3 DEF ObjectTypeOK, Stages
<1>5. ImageIsWritten'
  <2>1. End(next)' = 0 /\ Len(written') = 0 /\ 1 .. next' = {}
    BY <1>1, <1>2 DEF End
  <2> QED BY <1>1, <2>1 DEF ImageIsWritten
<1>6. ProgramSize = 0 /\ ProgramSize' = 0 /\ noff.code.size = 0 /\ noff.initData.size = 0 /\ noff.uninitData.size = 0
  <2>1. ProgramSize = 0
    BY <1>1 DEF ObjectInv, SegmentsAddUp
  <2>2. noff.code.size \in Nat /\ noff.initData.size \in Nat /\ noff.uninitData.size \in Nat
    BY <1>2 DEF ObjectTypeOK
  <2>3. ProgramSize' = ProgramSize
    BY <1>1 DEF ProgramSize
  <2>4. noff.code.size + noff.initData.size + noff.uninitData.size = 0
    BY <2>1 DEF ProgramSize
  <2>5. \A a, b, c \in Nat : a + b + c = 0 => a = 0 /\ b = 0 /\ c = 0
    OBVIOUS
  <2> QED BY <2>1, <2>2, <2>3, <2>4, <2>5, Zenon
<1>7. SegmentsAddUp'
  <2>1. End(next)' = 0 /\ Len(written') = 0
    BY <1>1, <1>2 DEF End
  <2> QED BY <1>1, <1>6, <2>1 DEF SegmentsAddUp
<1>8. PagesAreLoaded'
  BY <1>1 DEF ObjectInv, PagesAreLoaded
<1>9. SectionsAreLoaded'
  <2>1. 1 .. next' = {} /\ next' = 0 /\ Len(LoadOrder') = 6
    BY <1>1, <1>2 DEF LoadOrder
  <2> QED BY <1>1, <2>1 DEF SectionsAreLoaded
<1>10. RefusedForAReason'
  <2> SUFFICES ASSUME loading' = "refused" PROVE ~IsProper'
    BY DEF RefusedForAReason
  <2>1. ~(coff.mipsel /\ coff.omagic)
    BY <1>1 DEF Recognised
  <2> QED BY <1>1, <2>1 DEF IsProper
<1> QED BY <1>4, <1>5, <1>7, <1>8, <1>9, <1>10 DEF ObjectInv

\* What stays when a section is read: the sections before it.
LEMMA WrittenStays ==
  ASSUME ObjectTypeOK, NEW i \in DOMAIN Sections, IsWritten(Sections[i]),
         coff' = coff, NEW more \in Seq(Bytes), written' = written \o more
  PROVE  IsWritten(Sections[i])'
<1> DEFINE s == Sections[i]
<1>1. s' = s
  BY DEF Sections
<1>2. s.paddr \in Nat /\ s.size \in Nat
  BY OneSection, Zenon DEF ObjectTypeOK
<1>3. written \in Seq(Bytes)
  BY DEF ObjectTypeOK
<1>4. /\ Len(written') = Len(written) + Len(more)
      /\ \A k \in 1 .. Len(written) : written'[k] = written[k]
      /\ Len(written) \in Nat /\ Len(more) \in Nat
  BY <1>3
<1> HIDE DEF s
<1>5. ASSUME NEW k \in 1 .. s.size
      PROVE  s.paddr + k <= Len(written') /\ written'[s.paddr + k] = <<s.name, k>>
  <2>1. s.paddr + k <= Len(written) /\ written[s.paddr + k] = <<s.name, k>>
    BY DEF IsWritten, s
  <2>2. s.paddr + k \in 1 .. Len(written)
    BY <1>2, <1>4, <2>1
  <2> QED BY <1>4, <2>1, <2>2, <1>2
<1> QED BY <1>1, <1>5, Zenon DEF IsWritten, s

LEMMA LaterPart ==
  ASSUME NEW T, NEW s \in Seq(T), NEW t \in Seq(T), NEW k \in 1 .. Len(t)
  PROVE  (s \o t)[Len(s) + k] = t[k]
<1>1. Len(s) + k \in 1 .. Len(s) + Len(t) /\ ~(Len(s) + k <= Len(s)) /\ Len(s) + k - Len(s) = k
  OBVIOUS
<1> QED BY <1>1

\* The bytes of a section that is appended at the address it is for.
LEMMA SectionIsWritten ==
  ASSUME ObjectTypeOK, NEW i \in DOMAIN Sections, coff' = coff,
         Len(written) = Sections[i].paddr, written' = written \o Data(Sections[i])
  PROVE  /\ IsWritten(Sections[i])'
         /\ Data(Sections[i]) \in Seq(Bytes) /\ written' \in Seq(Bytes)
         /\ Len(written') = EndOf(Sections[i])
<1> DEFINE s == Sections[i]
           more == Data(Sections[i])
<1>1. s' = s
  BY DEF Sections
<1>2. s.paddr \in Nat /\ s.size \in Nat /\ s.name \in STRING /\ EndOf(s) = s.paddr + s.size
  BY OneSection, Zenon DEF ObjectTypeOK
<1>3. written \in Seq(Bytes) /\ Len(written) = s.paddr /\ written' = written \o more
  BY DEF ObjectTypeOK
<1>4. more = [k \in 1 .. s.size |-> <<s.name, k>>]
  BY DEF Data
<1> HIDE DEF s, more
<1>5. more \in Seq(Bytes) /\ Len(more) = s.size /\ \A k \in 1 .. s.size : more[k] = <<s.name, k>>
  <2>1. \A k \in 1 .. s.size : <<s.name, k>> \in Bytes
    BY <1>2 DEF Bytes
  <2> QED BY <1>2, <1>4, <2>1
<1>6. /\ written' \in Seq(Bytes) /\ Len(written') = s.paddr + s.size
      /\ \A k \in 1 .. s.size : written'[s.paddr + k] = more[k]
  <2> DEFINE n == s.paddr
             m == s.size
  <2>1. n \in Nat /\ m \in Nat /\ Len(written) = n /\ Len(more) = m
    BY <1>2, <1>3, <1>5
  <2> HIDE DEF n, m
  <2>2. written' \in Seq(Bytes) /\ Len(written') = n + m
    BY <1>3, <1>5, <2>1, Appended, Zenon
  <2>3. ASSUME NEW k \in 1 .. m PROVE written'[n + k] = more[k]
    BY <1>3, <1>5, <2>1, LaterPart
  <2> QED BY <2>2, <2>3 DEF n, m
<1>7. ASSUME NEW k \in 1 .. s.size
      PROVE  s.paddr + k <= Len(written') /\ written'[s.paddr + k] = <<s.name, k>>
  <2>1. written'[s.paddr + k] = <<s.name, k>>
    BY <1>5, <1>6, Zenon
  <2>2. s.paddr + k <= s.paddr + s.size
    BY <1>2
  <2> QED BY <1>6, <2>1, <2>2
<1>8. IsWritten(s)'
  BY <1>1, <1>7, Zenon DEF IsWritten
<1> QED BY <1>2, <1>5, <1>6, <1>8 DEF s, more

\* The next section, when those before it with bytes have data.
LEMMA NextIsBehind ==
  ASSUME ObjectTypeOK, ImageIsWritten, loading = "sections", loader # "load_program",
         next < Len(Sections), HasData(Section)
  PROVE  Len(written) = Section.paddr
<1>1. next + 1 \in DOMAIN Sections /\ next + 1 - 1 = next /\ next \in Nat /\ coff \in ObjectFile
  BY SectionIs DEF ObjectTypeOK
<1>2. Section.paddr = End(next)
  BY <1>1, OneSection DEF Section
<1>3. \A i \in 1 .. next : Sections[i].size # 0 => HasData(Sections[i])
  <2> TAKE i \in 1 .. next
  <2>1. i < next + 1 /\ i \in DOMAIN Sections
    BY <1>1, SectionIs
  <2> QED BY <1>1, <2>1, SectionIs, Zenon DEF Section
<1> QED BY <1>2, <1>3 DEF ImageIsWritten

Record == [virtualAddr : Nat, inFileAddr : Nat, size : Nat]

NoffHeaders == [code : Record, initData : Record, uninitData : Record]

\* The header that coff2noff fills in has three segments with their sizes.
LEMMA NoffIs ==
  ASSUME ObjectTypeOK
  PROVE  /\ noff \in NoffHeaders
         /\ noff.code \in Record /\ noff.initData \in Record /\ noff.uninitData \in Record
         /\ noff.code.size \in Nat /\ noff.initData.size \in Nat /\ noff.uninitData.size \in Nat
<1>1. noff \in NoffHeaders
  BY DEF ObjectTypeOK, Record, NoffHeaders
<1>2. noff.code \in Record /\ noff.initData \in Record /\ noff.uninitData \in Record
  BY <1>1 DEF NoffHeaders
<1>3. \A r \in Record : r.size \in Nat
  BY DEF Record
<1> QED BY <1>1, <1>2, <1>3, Zenon

LEMMA SegmentIs ==
  ASSUME NEW a \in Nat, NEW o \in Nat, NEW n \in Nat
  PROVE  Segment(a, o, n) \in Record /\ Segment(a, o, n).size = n
BY DEF Segment, Record

\* Each of them is set alone.
LEMMA CodeIsSet ==
  ASSUME ObjectTypeOK, NEW w \in Record, noff' = [noff EXCEPT !["code"] = w]
  PROVE  noff' \in NoffHeaders /\ noff'.code = w /\ noff'.initData = noff.initData /\ noff'.uninitData = noff.uninitData
<1>1. noff \in NoffHeaders
  BY NoffIs
<1> QED BY <1>1 DEF NoffHeaders

LEMMA InitDataIsSet ==
  ASSUME ObjectTypeOK, NEW w \in Record, noff' = [noff EXCEPT !["initData"] = w]
  PROVE  noff' \in NoffHeaders /\ noff'.code = noff.code /\ noff'.initData = w /\ noff'.uninitData = noff.uninitData
<1>1. noff \in NoffHeaders
  BY NoffIs
<1> QED BY <1>1 DEF NoffHeaders

LEMMA UninitDataIsSet ==
  ASSUME ObjectTypeOK, NEW w \in Record, noff' = [noff EXCEPT !.uninitData = w]
  PROVE  noff' \in NoffHeaders /\ noff'.code = noff.code /\ noff'.initData = noff.initData /\ noff'.uninitData = w
<1>1. noff \in NoffHeaders
  BY NoffIs
<1> QED BY <1>1 DEF NoffHeaders

LEMMA UninitDataGrows ==
  ASSUME ObjectTypeOK, NEW n \in Nat, noff' = [noff EXCEPT !.uninitData.size = @ + n]
  PROVE  /\ noff' \in NoffHeaders /\ noff'.code = noff.code /\ noff'.initData = noff.initData
         /\ noff'.uninitData.size = noff.uninitData.size + n
<1> DEFINE v == [noff.uninitData EXCEPT !.size = @ + n]
<1>1. v \in Record /\ v.size = noff.uninitData.size + n
  BY NoffIs DEF Record
<1>2. noff' = [noff EXCEPT !.uninitData = v]
  OBVIOUS
<1> HIDE DEF v
<1>3. noff' \in NoffHeaders /\ noff'.code = noff.code /\ noff'.initData = noff.initData /\ noff'.uninitData = v
  BY <1>1, <1>2, UninitDataIsSet
<1> QED BY <1>1, <1>3, Zenon

\* What holds after any round of the loop of coff2noff that does not end it.
LEMMA RoundInv ==
  ASSUME ObjectInv, AtSection("AddrSpace"), next' = next + 1, loading' = loading,
         UNCHANGED <<coff, loader, bitmap, frames, memory>>,
         noff' \in [code : Record, initData : Record, uninitData : Record],
         written' \in Seq(Bytes), ImageIsWritten',
         noff'.code.size # 0 => noff.code.size # 0 \/ (Section.name = ".text" /\ Section.size # 0),
         noff'.initData.size # 0 =>
           noff.initData.size # 0 \/ (Section.name \in {".data", ".rdata"} /\ Section.size # 0),
         noff'.uninitData.size # 0 =>
           noff.uninitData.size # 0 \/ (Section.name \in {".bss", ".sbss"} /\ Section.size # 0),
         ProgramSize' = ProgramSize + Section.size,
         Len(written') = noff'.code.size + noff'.initData.size
  PROVE  ObjectInv'
<1>1. /\ ObjectTypeOK /\ loading = "sections" /\ loader = "AddrSpace" /\ next < Len(Sections)
      /\ loading' = "sections" /\ loader' = "AddrSpace"
  BY DEF ObjectInv, AtSection
<1>2. next \in Nat /\ Len(Sections) \in Nat /\ coff \in ObjectFile
  BY <1>1, SectionIs, Zenon DEF ObjectTypeOK
<1>3. next + 1 \in DOMAIN Sections /\ next + 1 \in Nat /\ next + 1 - 1 = next
  BY <1>1, <1>2, SectionIs
<1>4. Sections' = Sections /\ MemorySize' = MemorySize
  BY DEF Sections, MemorySize
<1>5. ObjectTypeOK'
  <2>1. next' \in Nat /\ next' <= Len(Sections')
    BY <1>1, <1>2, <1>4
  <2>2. /\ coff' \in ObjectFile /\ loader' \in Loaders /\ bitmap' \subseteq Frames /\ frames' \in Seq(bitmap')
        /\ DOMAIN memory' = 0 .. MemorySize' - 1
    BY <1>1, <1>4 DEF ObjectTypeOK
  <2>3. noff' \in [code : [virtualAddr : Nat, inFileAddr : Nat, size : Nat],
               initData : [virtualAddr : Nat, inFileAddr : Nat, size : Nat],
               uninitData : [virtualAddr : Nat, inFileAddr : Nat, size : Nat]]
    BY Zenon DEF Record
  <2> QED BY <1>1, <2>1, <2>2, <2>3, Zenon DEF ObjectTypeOK, Stages
<1>6. ASSUME NEW names, HasSegment(names) \/ (Section.name \in names /\ Section.size # 0)
      PROVE  HasSegment(names)'
  <2>1. CASE HasSegment(names)
    <3>1. PICK i \in 1 .. next : Sections[i].name \in names /\ Sections[i].size # 0
      BY <2>1 DEF HasSegment
    <3>2. i \in 1 .. next'
      BY <1>2, <3>1
    <3> QED BY <1>4, <3>1, <3>2, Zenon DEF HasSegment
  <2>2. CASE Section.name \in names /\ Section.size # 0
    <3>1. next + 1 \in 1 .. next'
      BY <1>2
    <3> QED BY <1>4, <2>2, <3>1, Zenon DEF HasSegment, Section
  <2> QED BY <1>6, <2>1, <2>2
<1>7. SegmentsAddUp'
  <2>1. /\ noff.code.size # 0 => HasSegment({".text"})
        /\ noff.initData.size # 0 => HasSegment({".data", ".rdata"})
        /\ noff.uninitData.size # 0 => HasSegment({".bss", ".sbss"})
        /\ ProgramSize = End(next)
    BY <1>1 DEF ObjectInv, SegmentsAddUp
  <2>2. noff'.code.size # 0 => HasSegment({".text"})'
    BY <1>6, <2>1
  <2>3. noff'.initData.size # 0 => HasSegment({".data", ".rdata"})'
    BY <1>6, <2>1
  <2>4. noff'.uninitData.size # 0 => HasSegment({".bss", ".sbss"})'
    BY <1>6, <2>1
  <2>5. End(next)' = End(next + 1)
    BY <1>4 DEF End
  <2>6. ProgramSize' = End(next)'
    BY <1>2, <1>3, <2>1, <2>5, OneSection DEF Section
  <2> QED BY <1>1, <2>2, <2>3, <2>4, <2>6 DEF SegmentsAddUp
<1>8. PagesAreLoaded'
  BY <1>1 DEF ObjectInv, PagesAreLoaded
<1>9. SectionsAreLoaded' /\ RefusedForAReason'
  BY <1>1 DEF SectionsAreLoaded, RefusedForAReason
<1> QED BY <1>5, <1>7, <1>8, <1>9 DEF ObjectInv

\* The image after a round of either tool.
LEMMA RoundImage ==
  ASSUME ObjectTypeOK, ImageIsWritten, loading = "sections", loader # "load_program", next < Len(Sections),
         next' = next + 1, UNCHANGED <<coff, loader, loading>>,
         \/ written' = written /\ (Section.size = 0 \/ ~HasData(Section))
         \/ written' = written \o Data(Section) /\ HasData(Section)
  PROVE  /\ ImageIsWritten' /\ written' \in Seq(Bytes)
         /\ written' = written \o Data(Section) => Len(written') = Len(written) + Section.size
<1>1. /\ next \in Nat /\ Len(Sections) \in Nat /\ coff \in ObjectFile
      /\ written \in Seq(Bytes) /\ Len(written) \in Nat
  BY SectionIs DEF ObjectTypeOK
<1>2. next + 1 \in DOMAIN Sections /\ next + 1 - 1 = next /\ next + 1 # 0
  BY <1>1, SectionIs
<1>3. Sections' = Sections
  BY DEF Sections
<1>4. /\ Section.size \in Nat /\ Section.paddr \in Nat /\ Section.paddr = End(next)
      /\ EndOf(Section) = Section.paddr + Section.size /\ End(next + 1) = EndOf(Section)
  BY <1>1, <1>2, OneSection DEF Section
<1>5. \A k \in 1 .. next' : k \in 1 .. next \/ k = next + 1
  BY <1>1
<1>6. \A k \in 1 .. next : k \in 1 .. next' /\ k \in DOMAIN Sections
  <2>1. DOMAIN Sections = 1 .. Len(Sections)
    BY <1>1, SectionIs, Zenon
  <2> QED BY <1>1, <2>1
<1>7. /\ (\A k \in 1 .. next : Sections[k].size # 0 => HasData(Sections[k])) => Len(written) = End(next)
      /\ \A k \in 1 .. next : HasData(Sections[k]) => IsWritten(Sections[k])
  BY DEF ImageIsWritten
<1>8. End(next)' = End(next + 1)
  BY <1>3 DEF End
<1>9. next + 1 \in 1 .. next'
  BY <1>1
<1> SUFFICES
      /\ (\A k \in 1 .. next' : Sections[k].size # 0 => HasData(Sections[k])) => Len(written') = End(next + 1)
      /\ \A k \in 1 .. next' : HasData(Sections[k]) => IsWritten(Sections[k])'
      /\ written' \in Seq(Bytes)
      /\ written' = written \o Data(Section) => Len(written') = Len(written) + Section.size
  BY <1>3, <1>8, Zenon DEF ImageIsWritten, HasData
<1>10. CASE written' = written /\ (Section.size = 0 \/ ~HasData(Section))
  <2>1. ASSUME NEW k \in 1 .. next', HasData(Sections[k])
        PROVE  IsWritten(Sections[k])'
    <3>1. CASE k \in 1 .. next
      <4>1. IsWritten(Sections[k])
        BY <1>7, <2>1, <3>1
      <4> QED BY <1>3, <1>10, <4>1, Zenon DEF IsWritten
    <3>2. CASE k = next + 1
      <4>1. Sections[k].size = 0
        BY <1>10, <2>1, <3>2, Zenon DEF Section
      <4>2. 1 .. Sections[k].size = {}
        BY <4>1
      <4> QED BY <1>3, <4>2, Zenon DEF IsWritten
    <3> QED BY <1>5, <3>1, <3>2
  <2>2. ASSUME \A k \in 1 .. next' : Sections[k].size # 0 => HasData(Sections[k])
        PROVE  Len(written') = End(next + 1)
    <3>1. Section.size = 0
      BY <1>9, <1>10, <2>2, Zenon DEF Section
    <3>2. Len(written) = End(next)
      BY <1>6, <1>7, <2>2, Zenon
    <3> QED BY <1>4, <1>10, <3>1, <3>2
  <2>3. written' = written \o Data(Section) => Len(written') = Len(written) + Section.size
    <3> SUFFICES ASSUME written' = written \o Data(Section)
                 PROVE  Len(written') = Len(written) + Section.size
      OBVIOUS
    <3>1. Section.name \in STRING
      BY <1>1, <1>2, OneSection DEF Section
    <3>2. \A k \in 1 .. Section.size : <<Section.name, k>> \in Bytes
      BY <1>4, <3>1 DEF Bytes
    <3>3. Data(Section) \in Seq(Bytes) /\ Len(Data(Section)) = Section.size
      BY <1>4, <3>2 DEF Data
    <3> DEFINE data == Data(Section)
    <3>4. data \in Seq(Bytes) /\ written \in Seq(Bytes) /\ written' = written \o data
      BY <1>1, <3>3
    <3> HIDE DEF data
    <3>5. Len(written') = Len(written) + Len(data)
      BY <3>4, Appended, Zenon
    <3> QED BY <3>3, <3>5, Zenon DEF data
  <2> QED BY <1>1, <1>10, <2>1, <2>2, <2>3
<1>11. CASE written' = written \o Data(Section) /\ HasData(Section)
  <2>1. Len(written) = Section.paddr
    BY <1>11, NextIsBehind
  <2> PICK m : m = next + 1
    OBVIOUS
  <2>2. /\ IsWritten(Sections[m])'
        /\ Data(Sections[m]) \in Seq(Bytes) /\ written' \in Seq(Bytes)
        /\ Len(written') = EndOf(Sections[m])
    BY <1>2, <1>11, <2>1, SectionIsWritten DEF Section
  <2>3. ASSUME NEW k \in 1 .. next', HasData(Sections[k])
        PROVE  IsWritten(Sections[k])'
    <3>1. CASE k \in 1 .. next
      <4>1. IsWritten(Sections[k]) /\ k \in DOMAIN Sections
        BY <1>6, <1>7, <2>3, <3>1
      <4> QED BY <1>11, <2>2, <4>1, WrittenStays DEF Section
    <3>2. CASE k = next + 1
      <4>1. k = m
        BY <3>2
      <4> QED BY <2>2, <4>1, Zenon
    <3> QED BY <1>5, <3>1, <3>2
  <2>4. Len(written') = EndOf(Section)
    BY <2>2 DEF Section
  <2> QED BY <1>4, <2>1, <2>2, <2>3, <2>4
<1> QED BY <1>10, <1>11

LEMMA TwoAreTooMany ==
  ASSUME NEW T, IsFiniteSet(T), NEW a \in T, NEW b \in T, a # b
  PROVE  ~(Cardinality(T) <= 1)
<1>1. IsFiniteSet({a}) /\ Cardinality({a}) = 1 /\ b \notin {a}
  BY FS_Singleton
<1>2. Cardinality({a} \cup {b}) = 2 /\ {a} \cup {b} \subseteq T
  BY <1>1, FS_AddElement
<1>3. Cardinality({a} \cup {b}) <= Cardinality(T) /\ Cardinality(T) \in Nat
  BY <1>2, FS_Subset, FS_CardinalityType
<1> QED BY <1>2, <1>3

\* A second segment of a kind: the file is not proper.
LEMMA SecondSegment ==
  ASSUME ObjectTypeOK, next < Len(Sections), NEW names, HasSegment(names),
         Section.name \in names, Section.size # 0
  PROVE  ~(Cardinality(Filled(names)) <= 1)
<1>1. coff \in ObjectFile /\ DOMAIN Sections = 1 .. Len(Sections) /\ Len(Sections) \in Nat /\ next \in Nat
  BY SectionIs, Zenon DEF ObjectTypeOK
<1>2. PICK i \in 1 .. next : Sections[i].name \in names /\ Sections[i].size # 0
  BY DEF HasSegment
<1>3. i \in Filled(names)
  BY <1>1, <1>2 DEF Filled
<1>4. next + 1 \in Filled(names) /\ i # next + 1
  BY <1>1, <1>2 DEF Filled, Section
<1>5. IsFiniteSet(Filled(names))
  <2>1. IsFiniteSet(1 .. Len(Sections))
    BY <1>1, FS_Interval
  <2>2. Filled(names) \subseteq 1 .. Len(Sections)
    BY <1>1 DEF Filled
  <2> QED BY <2>1, <2>2, FS_Subset
<1> QED BY <1>3, <1>4, <1>5, TwoAreTooMany

LEMMA ConvertSectionInv == ObjectInv /\ ConvertSection => ObjectInv'
<1> SUFFICES ASSUME ObjectInv, ConvertSection PROVE ObjectInv'
  OBVIOUS
<1>1. /\ AtSection("AddrSpace") /\ next' = next + 1
      /\ UNCHANGED <<coff, loader, bitmap, frames, memory>>
      /\ loading = "sections" /\ loader = "AddrSpace" /\ next < Len(Sections)
  BY DEF ConvertSection, AtSection
<1>2. /\ ObjectTypeOK /\ ImageIsWritten /\ SegmentsAddUp /\ PagesAreLoaded /\ SectionsAreLoaded
      /\ RefusedForAReason
  BY DEF ObjectInv
<1>3. next + 1 \in DOMAIN Sections /\ coff \in ObjectFile /\ next \in Nat /\ Len(Sections) \in Nat
  BY <1>1, <1>2, SectionIs DEF ObjectTypeOK
<1>4. Section.size \in Nat /\ Section.paddr \in Nat /\ Section.there \in Nat
  BY <1>3, OneSection DEF Section
<1>5. /\ noff.code.size \in Nat /\ noff.initData.size \in Nat /\ noff.uninitData.size \in Nat
      /\ Len(written) = noff.code.size + noff.initData.size /\ Len(written) \in Nat
      /\ noff.code.size # 0 => HasSegment({".text"})
      /\ noff.uninitData.size # 0 => HasSegment({".bss", ".sbss"})
      /\ noff.initData.size # 0 => HasSegment({".data", ".rdata"})
  BY <1>1, <1>2 DEF ObjectTypeOK, SegmentsAddUp
<1>6. /\ noff \in [code : Record, initData : Record, uninitData : Record]
      /\ written \in Seq(Bytes)
  BY <1>2 DEF ObjectTypeOK, Record
<1>7. /\ Section.name = ".text" => noff.code.size = 0
      /\ Section.name \in {".text", ".data", ".rdata"} => HasData(Section)
  <2>1. ASSUME Section.name = ".text", noff.code.size # 0
        PROVE  FALSE
    <3>1. PICK i \in 1 .. next : Sections[i].name = ".text"
      BY <1>5, <2>1 DEF HasSegment
    <3>2. i \in DOMAIN Sections /\ i # next + 1 /\ Sections[next + 1].name = ".text"
      BY <1>1, <1>3, <2>1, SectionIs DEF Section
    <3> QED BY <1>3, <3>1, <3>2, SectionIs, Zenon
  <2> QED BY <2>1 DEF HasData
<1>8. CASE loading' = loading /\ Section.size = 0 /\ UNCHANGED <<noff, written>>
  <2>1. ImageIsWritten' /\ written' \in Seq(Bytes)
    BY <1>1, <1>2, <1>8, RoundImage
  <2>2. ProgramSize' = ProgramSize + Section.size
    BY <1>5, <1>8 DEF ProgramSize
  <2>3. /\ noff' \in [code : Record, initData : Record, uninitData : Record]
        /\ noff'.code.size = noff.code.size /\ noff'.initData.size = noff.initData.size
        /\ noff'.uninitData.size = noff.uninitData.size
        /\ Len(written') = noff'.code.size + noff'.initData.size
    BY <1>5, <1>6, <1>8
  <2> QED BY <1>1, <1>8, <2>1, <2>2, <2>3, RoundInv
<1>9. CASE Section.size # 0 /\ Section.name = ".text" /\ CopySegment("code")
  <2>1. /\ loading' = loading /\ written' = written \o Data(Section)
        /\ noff' = [noff EXCEPT !["code"] = Segment(Section.paddr, Len(written), Section.size)]
    BY <1>9 DEF CopySegment
  <2>2. /\ ImageIsWritten' /\ written' \in Seq(Bytes)
        /\ Len(written') = Len(written) + Section.size
    BY <1>1, <1>2, <1>7, <1>9, <2>1, RoundImage
  <2>3. /\ noff' \in [code : Record, initData : Record, uninitData : Record]
        /\ noff'.code.size = Section.size /\ noff'.initData = noff.initData
        /\ noff'.uninitData = noff.uninitData
    <3> DEFINE w == Segment(Section.paddr, Len(written), Section.size)
    <3>1. w \in Record /\ w.size = Section.size
      BY <1>4, <1>5, SegmentIs
    <3>2. ObjectTypeOK /\ noff' = [noff EXCEPT !["code"] = w]
      BY <1>2, <2>1
    <3> HIDE DEF w
    <3>3. noff' \in NoffHeaders /\ noff'.code = w /\ noff'.initData = noff.initData /\ noff'.uninitData = noff.uninitData
      BY <3>1, <3>2, CodeIsSet
    <3> QED BY <3>1, <3>3, Zenon DEF NoffHeaders
  <2>4. noff.code.size = 0
    BY <1>7, <1>9
  <2>7. /\ noff'.code.size = Section.size /\ noff'.initData.size = noff.initData.size
        /\ noff'.uninitData.size = noff.uninitData.size
    BY <2>3
  <2>5. ProgramSize' = ProgramSize + Section.size
    BY <1>4, <1>5, <2>4, <2>7 DEF ProgramSize
  <2>6. Len(written') = noff'.code.size + noff'.initData.size
    BY <1>4, <1>5, <2>2, <2>4, <2>7
  <2> QED BY <1>1, <1>9, <2>1, <2>2, <2>3, <2>5, <2>6, RoundInv
<1>10. CASE Section.size # 0 /\ Section.name \in {".data", ".rdata"} /\ ~SecondInitData /\ CopySegment("initData")
  <2>1. /\ loading' = loading /\ written' = written \o Data(Section)
        /\ noff' = [noff EXCEPT !["initData"] = Segment(Section.paddr, Len(written), Section.size)]
    BY <1>10 DEF CopySegment
  <2>2. /\ ImageIsWritten' /\ written' \in Seq(Bytes)
        /\ Len(written') = Len(written) + Section.size
    BY <1>1, <1>2, <1>7, <1>10, <2>1, RoundImage
  <2>3. /\ noff' \in [code : Record, initData : Record, uninitData : Record]
        /\ noff'.initData.size = Section.size /\ noff'.code = noff.code
        /\ noff'.uninitData = noff.uninitData
    <3> DEFINE w == Segment(Section.paddr, Len(written), Section.size)
    <3>1. w \in Record /\ w.size = Section.size
      BY <1>4, <1>5, SegmentIs
    <3>2. ObjectTypeOK /\ noff' = [noff EXCEPT !["initData"] = w]
      BY <1>2, <2>1
    <3> HIDE DEF w
    <3>3. noff' \in NoffHeaders /\ noff'.code = noff.code /\ noff'.initData = w /\ noff'.uninitData = noff.uninitData
      BY <3>1, <3>2, InitDataIsSet
    <3> QED BY <3>1, <3>3, Zenon DEF NoffHeaders
  <2>4. noff.initData.size = 0
    BY <1>10 DEF SecondInitData
  <2>5. ProgramSize' = ProgramSize + Section.size
    BY <1>4, <1>5, <2>3, <2>4 DEF ProgramSize
  <2>6. Len(written') = noff'.code.size + noff'.initData.size
    BY <1>4, <1>5, <2>2, <2>3, <2>4
  <2> QED BY <1>1, <1>10, <2>1, <2>2, <2>3, <2>5, <2>6, RoundInv
<1>11. CASE Section.size # 0 /\ ~HasData(Section) /\ MeasureSegment
  <2>1. loading' = loading /\ written' = written /\ Section.name \in {".bss", ".sbss"}
    BY <1>11 DEF MeasureSegment, HasData
  <2>2. ImageIsWritten' /\ written' \in Seq(Bytes)
    BY <1>1, <1>2, <1>11, <2>1, RoundImage
  <2>3. /\ noff' \in [code : Record, initData : Record, uninitData : Record]
        /\ noff'.code = noff.code /\ noff'.initData = noff.initData
        /\ noff'.uninitData.size = noff.uninitData.size + Section.size
    <3>1. CASE /\ Bss.size = 0
               /\ noff' = [noff EXCEPT !.uninitData = Segment(Section.paddr, 0, Section.size)]
      <4>1. /\ noff' \in [code : Record, initData : Record, uninitData : Record]
            /\ noff'.code = noff.code /\ noff'.initData = noff.initData
            /\ noff'.uninitData.size = Section.size
        <5> DEFINE w == Segment(Section.paddr, 0, Section.size)
        <5>1. w \in Record /\ w.size = Section.size
          BY <1>4, SegmentIs
        <5>2. ObjectTypeOK /\ noff' = [noff EXCEPT !.uninitData = w]
          BY <1>2, <3>1
        <5> HIDE DEF w
        <5>3. noff' \in NoffHeaders /\ noff'.code = noff.code /\ noff'.initData = noff.initData /\ noff'.uninitData = w
          BY <5>1, <5>2, UninitDataIsSet
        <5> QED BY <5>1, <5>3, Zenon DEF NoffHeaders
      <4>2. noff.uninitData.size = 0
        BY <3>1 DEF Bss
      <4> QED BY <1>4, <4>1, <4>2
    <3>2. CASE noff' = [noff EXCEPT !.uninitData.size = @ + Section.size]
      BY <1>2, <1>4, <3>2, UninitDataGrows DEF NoffHeaders
    <3> QED BY <1>11, <3>1, <3>2 DEF MeasureSegment
  <2>4. ProgramSize' = ProgramSize + Section.size
    BY <1>4, <1>5, <2>3 DEF ProgramSize
  <2>5. Len(written') = noff'.code.size + noff'.initData.size
    BY <1>5, <2>1, <2>3
  <2> QED BY <1>1, <1>11, <2>1, <2>2, <2>3, <2>4, <2>5, RoundInv
<1>12. CASE /\ Section.size # 0
            /\ SecondInitData \/ SecondBss \/ Unknown \/ (HasData(Section) /\ ~IsThere(Section))
            /\ loading' = "refused" /\ UNCHANGED <<noff, written>>
  <2>1. ~IsProper
    <3>1. CASE SecondInitData
      <4>1. Section.name \in {".data", ".rdata"} /\ HasSegment({".data", ".rdata"})
        BY <1>5, <3>1 DEF SecondInitData
      <4>2. ~(Cardinality(Filled({".data", ".rdata"})) <= 1)
        BY <1>1, <1>2, <1>12, <4>1, SecondSegment
      <4> QED BY <4>2, Zenon DEF IsProper
    <3>2. CASE SecondBss
      <4>1. Section.name \in {".bss", ".sbss"} /\ HasSegment({".bss", ".sbss"})
        BY <1>5, <3>2 DEF SecondBss, Bss, HasData
      <4>2. ~(Cardinality(Filled({".bss", ".sbss"})) <= 1)
        BY <1>1, <1>2, <1>12, <4>1, SecondSegment
      <4> QED BY <4>2, Zenon DEF IsProper
    <3>3. CASE Unknown
      <4> DEFINE known == {".text", ".data", ".rdata", ".bss", ".sbss"}
                 all == {s.name : s \in Range(Sections)}
      <4>1. Section.name \in all
        BY <1>3 DEF Section, Range
      <4>2. next + 1 \in Filled(all)
        BY <1>3, <1>12, <4>1 DEF Filled, Section
      <4>3. next + 1 \notin Filled(known)
        BY <3>3 DEF Filled, Section, Unknown
      <4>4. Filled(known) # Filled(all)
        BY <4>2, <4>3
      <4> QED BY <4>4, Zenon DEF IsProper
    <3>4. CASE HasData(Section) /\ ~IsThere(Section)
      BY <1>3, <3>4, Zenon DEF IsProper, Section
    <3> QED BY <1>12, <3>1, <3>2, <3>3, <3>4
  <2>2. ~IsProper'
    BY <1>1, <2>1 DEF IsProper, Filled, Top, Sections
  <2>3. ObjectTypeOK'
    <3>1. MemorySize' = MemorySize /\ next' \in Nat
      BY <1>1, <1>3 DEF MemorySize
    <3> QED BY <1>1, <1>2, <1>12, <3>1 DEF ObjectTypeOK, Stages
  <2> QED BY <1>1, <1>12, <2>2, <2>3 DEF ObjectInv, ImageIsWritten, SegmentsAddUp, PagesAreLoaded,
             SectionsAreLoaded, RefusedForAReason
<1> QED BY <1>8, <1>9, <1>10, <1>11, <1>12, Zenon DEF ConvertSection

\* The pages of a program, and that they hold what is in the file.
LEMMA PagesAreEnough ==
  ASSUME ObjectTypeOK, SegmentsAddUp, loader = "AddrSpace", loading \in {"sections", "pages", "loaded"}
  PROVE  /\ ProgramSize \in Nat /\ numPages \in Nat
         /\ Len(written) \in Nat /\ Len(written) <= ProgramSize
         /\ ProgramSize <= PageBytes * DivUp(ProgramSize, PageBytes)
         /\ DivUp(ProgramSize, PageBytes) \in Nat /\ DivUp(ProgramSize, PageBytes) <= numPages
<1>1. /\ noff.code.size \in Nat /\ noff.initData.size \in Nat /\ noff.uninitData.size \in Nat
      /\ Len(written) \in Nat /\ Len(written) = noff.code.size + noff.initData.size
  BY DEF ObjectTypeOK, SegmentsAddUp
<1>2. ProgramSize \in Nat /\ Len(written) <= ProgramSize
  BY <1>1 DEF ProgramSize
<1> HIDE DEF ProgramSize
<1>3. DivUp(ProgramSize, PageBytes) \in Nat /\ ProgramSize <= PageBytes * DivUp(ProgramSize, PageBytes)
  BY <1>2, DivUpCovers, ObjectAssumption
<1>4. DivUp(StackBytes, PageBytes) \in Nat
  BY DivUpCovers, ObjectAssumption
<1>5. numPages = DivUp(ProgramSize, PageBytes) + DivUp(StackBytes, PageBytes)
  BY DEF numPages
<1> QED BY <1>1, <1>2, <1>3, <1>4, <1>5

LEMMA ConversionEndsInv == ObjectInv /\ ConversionEnds => ObjectInv'
<1> SUFFICES ASSUME ObjectInv, ConversionEnds PROVE ObjectInv'
  OBVIOUS
<1>1. /\ loading = "sections" /\ loader = "AddrSpace" /\ next = Len(Sections) /\ next' = 0
      /\ loading' = IF numPages <= FrameCount THEN "pages" ELSE "refused"
      /\ UNCHANGED <<coff, loader, noff, written, bitmap, frames, memory>>
  BY DEF ConversionEnds, AllSections
<1>2. /\ ObjectTypeOK /\ ImageIsWritten /\ SegmentsAddUp /\ PagesAreLoaded /\ SectionsAreLoaded
      /\ RefusedForAReason
  BY DEF ObjectInv
<1>3. coff \in ObjectFile /\ next \in Nat /\ DOMAIN Sections = 1 .. next
  BY <1>1, <1>2, SectionIs DEF ObjectTypeOK
<1>4. Sections' = Sections /\ MemorySize' = MemorySize /\ numPages' = numPages
  BY <1>1 DEF Sections, MemorySize, numPages, ProgramSize
<1>5. loading' \in {"pages", "refused"}
  BY <1>1
<1>6. ObjectTypeOK'
  BY <1>1, <1>2, <1>4, <1>5 DEF ObjectTypeOK, Stages
<1>7. ImageIsWritten'
  <2>1. AllWritten
    BY <1>1, <1>2, <1>3 DEF ImageIsWritten, AllWritten
  <2>2. AllWritten'
    BY <1>1, <1>4, <2>1 DEF AllWritten, IsWritten
  <2> QED BY <1>1, <1>5, <2>2 DEF ImageIsWritten
<1>8. SegmentsAddUp'
  BY <1>1, <1>2, <1>5 DEF SegmentsAddUp
<1>9. PagesAreLoaded'
  <2>1. frames = << >> /\ numPages \in Nat
    BY <1>1, <1>2, PagesAreEnough DEF PagesAreLoaded
  <2>2. Len(frames') = 0 /\ DOMAIN frames' = {} /\ 0 .. next' - 1 = {} /\ next' <= numPages'
    BY <1>1, <1>4, <2>1
  <2> QED BY <1>1, <1>5, <2>2 DEF PagesAreLoaded
<1>10. SectionsAreLoaded'
  BY <1>1 DEF SectionsAreLoaded
<1>11. RefusedForAReason'
  <2> SUFFICES ASSUME loading' = "refused" PROVE ~IsProper'
    BY DEF RefusedForAReason
  <2>1. ~(numPages <= FrameCount) /\ numPages \in Nat /\ ProgramSize \in Nat
    BY <1>1, <1>2, PagesAreEnough
  <2>2. ProgramSize = End(next)
    BY <1>1, <1>2 DEF SegmentsAddUp
  <2>3. Top \in Nat /\ ProgramSize <= Top
    <3>1. CASE next = 0
      BY <1>3, <2>2, <3>1, TopIsBehind DEF End
    <3>2. CASE next # 0
      <4>1. next \in DOMAIN Sections
        BY <1>3, <3>2
      <4> QED BY <1>3, <2>2, <3>2, <4>1, TopIsBehind DEF End
    <3> QED BY <3>1, <3>2
  <2>4. /\ DivUp(ProgramSize, PageBytes) <= DivUp(Top, PageBytes)
        /\ DivUp(ProgramSize, PageBytes) \in Nat /\ DivUp(Top, PageBytes) \in Nat
        /\ DivUp(StackBytes, PageBytes) \in Nat
    BY <2>1, <2>3, DivUpCovers, ObjectAssumption
  <2>5. numPages = DivUp(ProgramSize, PageBytes) + DivUp(StackBytes, PageBytes)
    BY DEF numPages
  <2>6. ~(DivUp(Top, PageBytes) + DivUp(StackBytes, PageBytes) <= FrameCount)
    BY <2>1, <2>4, <2>5, ObjectAssumption
  <2>7. ~IsProper
    BY <2>6, Zenon DEF IsProper
  <2> QED BY <1>1, <2>7 DEF IsProper, Filled, Top, Sections
<1> QED BY <1>6, <1>7, <1>8, <1>9, <1>10, <1>11 DEF ObjectInv

LEMMA PagesLoadedInv == ObjectInv /\ PagesLoaded => ObjectInv'
<1> SUFFICES ASSUME ObjectInv, PagesLoaded PROVE ObjectInv'
  OBVIOUS
<1>1. /\ loading = "pages" /\ next = numPages /\ loading' = "loaded"
      /\ UNCHANGED <<coff, loader, next, noff, written, bitmap, frames, memory>>
  BY DEF PagesLoaded
<1>2. /\ ObjectTypeOK /\ ImageIsWritten /\ SegmentsAddUp /\ PagesAreLoaded /\ SectionsAreLoaded
      /\ RefusedForAReason /\ loader = "AddrSpace"
  BY <1>1 DEF ObjectInv, ObjectTypeOK
<1>3. Sections' = Sections /\ MemorySize' = MemorySize /\ numPages' = numPages
  BY <1>1 DEF Sections, MemorySize, numPages, ProgramSize
<1>4. ObjectTypeOK'
  BY <1>1, <1>2, <1>3 DEF ObjectTypeOK, Stages
<1>5. ImageIsWritten'
  <2>1. AllWritten
    BY <1>1, <1>2 DEF ImageIsWritten
  <2>2. AllWritten'
    BY <1>1, <1>3, <2>1 DEF AllWritten, IsWritten
  <2> QED BY <1>1, <1>2, <2>2 DEF ImageIsWritten
<1>6. SegmentsAddUp' /\ SectionsAreLoaded' /\ RefusedForAReason'
  BY <1>1, <1>2 DEF SegmentsAddUp, SectionsAreLoaded, RefusedForAReason
<1>7. PagesAreLoaded'
  BY <1>1, <1>2, <1>3 DEF PagesAreLoaded
<1> QED BY <1>4, <1>5, <1>6, <1>7 DEF ObjectInv

\* A page is read into its frame, and into no other.
LEMMA PageIsRead ==
  ASSUME ObjectTypeOK, loader = "AddrSpace", NEW frame \in Frames, memory' = ReadPage(frame)
  PROVE  /\ DOMAIN memory' = DOMAIN memory
         /\ \A f \in Frames, o \in 0 .. PageBytes - 1 :
              /\ f # frame => memory'[f * PageBytes + o] = memory[f * PageBytes + o]
              /\ next * PageBytes + o < Len(written) =>
                   memory'[frame * PageBytes + o] = written[next * PageBytes + o + 1]
<1>1. DOMAIN memory = 0 .. FrameCount * PageBytes - 1 /\ next \in Nat /\ Len(written) \in Nat
  BY DEF ObjectTypeOK, MemorySize
<1>2. PageBytes \in Nat \ {0} /\ FrameCount \in Nat \ {0} /\ frame \in Nat
  BY ObjectAssumption DEF Frames
<1>3. DOMAIN memory' = DOMAIN memory
  BY DEF ReadPage
<1>4. ASSUME NEW f \in Frames, NEW o \in 0 .. PageBytes - 1
      PROVE  f * PageBytes + o \in DOMAIN memory
  <2>1. f \in Int /\ FrameCount \in Int /\ f < FrameCount /\ 0 \in 0 .. PageBytes - 1
    BY <1>2 DEF Frames
  <2>2. f * PageBytes + o < FrameCount * PageBytes
    BY <1>2, <2>1, RowsAreApart
  <2>3. f * PageBytes \in Nat /\ FrameCount * PageBytes \in Nat
    BY <1>2, <2>1 DEF Frames
  <2> QED BY <1>1, <1>2, <2>2, <2>3
<1>5. \A a \in DOMAIN memory :
        memory'[a] =
          LET i == next * PageBytes + a - PlaceOf(frame) + 1
          IN  IF a \in PlaceOf(frame) .. PlaceOf(frame) + PageBytes - 1 /\ i <= Len(written)
                THEN written[i] ELSE memory[a]
  BY DEF ReadPage
<1>6. ASSUME NEW f \in Frames, NEW o \in 0 .. PageBytes - 1, f # frame
      PROVE  memory'[f * PageBytes + o] = memory[f * PageBytes + o]
  <2> PICK a : a = f * PageBytes + o
    OBVIOUS
  <2>1. a \in DOMAIN memory /\ a \in Int
    BY <1>1, <1>4
  <2>2. a \notin PlaceOf(frame) .. PlaceOf(frame) + PageBytes - 1
    <3> SUFFICES ASSUME a \in PlaceOf(frame) .. PlaceOf(frame) + PageBytes - 1
                 PROVE  FALSE
      OBVIOUS
    <3>1. PlaceOf(frame) = frame * PageBytes /\ frame * PageBytes \in Nat
      BY <1>2 DEF PlaceOf
    <3> PICK r : r = a - frame * PageBytes
      OBVIOUS
    <3>2. r \in 0 .. PageBytes - 1 /\ frame * PageBytes + r = a
      BY <1>2, <2>1, <3>1
    <3>3. f * PageBytes + o = frame * PageBytes + r /\ f \in Int /\ frame \in Int
      BY <1>2, <3>2 DEF Frames
    <3>4. f = frame
      BY <1>2, <3>2, <3>3, RowsAreApart
    <3> QED BY <1>6, <3>4
  <2>3. memory'[a] = memory[a]
    BY <1>5, <2>1, <2>2
  <2> QED BY <2>3
<1>7. ASSUME NEW o \in 0 .. PageBytes - 1, next * PageBytes + o < Len(written)
      PROVE  memory'[frame * PageBytes + o] = written[next * PageBytes + o + 1]
  <2> PICK a : a = frame * PageBytes + o
    OBVIOUS
  <2>1. a \in DOMAIN memory
    BY <1>4
  <2>2. PlaceOf(frame) = frame * PageBytes /\ frame * PageBytes \in Nat /\ next * PageBytes \in Nat
    BY <1>1, <1>2 DEF PlaceOf
  <2>3. a \in PlaceOf(frame) .. PlaceOf(frame) + PageBytes - 1
    BY <1>2, <2>2
  <2>4. next * PageBytes + a - PlaceOf(frame) + 1 = next * PageBytes + o + 1
    BY <1>2, <2>2
  <2>5. next * PageBytes + o + 1 <= Len(written)
    BY <1>1, <1>2, <1>7, <2>2
  <2>6. memory'[a] = written[next * PageBytes + o + 1]
    BY <1>5, <2>1, <2>3, <2>4, <2>5
  <2> QED BY <2>6
<1> QED BY <1>3, <1>6, <1>7

LEMMA LoadPageInv == ObjectInv /\ LoadPage => ObjectInv'
<1> SUFFICES ASSUME ObjectInv, LoadPage PROVE ObjectInv'
  OBVIOUS
<1> DEFINE clear == (0 .. FrameCount - 1) \ bitmap
           frame == Min(clear)
<1>1. /\ loading = "pages" /\ next < numPages
      /\ UNCHANGED <<coff, loader, noff, written>>
  BY DEF LoadPage
<1>2. /\ ObjectTypeOK /\ ImageIsWritten /\ SegmentsAddUp /\ PagesAreLoaded /\ SectionsAreLoaded
      /\ RefusedForAReason /\ loader = "AddrSpace" /\ next \in Nat
  BY <1>1 DEF ObjectInv, ObjectTypeOK
<1>3. Sections' = Sections /\ MemorySize' = MemorySize /\ numPages' = numPages
  BY <1>1 DEF Sections, MemorySize, numPages, ProgramSize
<1>4. AllWritten'
  <2>1. AllWritten
    BY <1>1, <1>2 DEF ImageIsWritten
  <2> QED BY <1>1, <1>3, <2>1 DEF AllWritten, IsWritten
<1>5. CASE /\ clear # {} /\ bitmap' = bitmap \cup {frame} /\ frames' = Append(frames, frame)
           /\ memory' = ReadPage(frame) /\ next' = next + 1 /\ UNCHANGED loading
  <2>1. frame \in clear
    <3>1. clear \subseteq Nat
      BY ObjectAssumption
    <3> HIDE DEF clear
    <3> QED BY <1>5, <3>1, MinIsLeast
  <2> PICK f : f = frame
    OBVIOUS
  <2> HIDE DEF frame
  <2>2. /\ f \in Frames /\ f \notin bitmap /\ bitmap' = bitmap \cup {f} /\ frames' = Append(frames, f)
        /\ memory' = ReadPage(f)
    BY <1>5, <2>1 DEF Frames
  <2>3. frames \in Seq(bitmap) /\ Len(frames) = next /\ bitmap \subseteq Frames
    BY <1>1, <1>2 DEF ObjectTypeOK, PagesAreLoaded
  <2>4. /\ DOMAIN memory' = DOMAIN memory
        /\ \A g \in Frames, o \in 0 .. PageBytes - 1 :
              /\ g # f => memory'[g * PageBytes + o] = memory[g * PageBytes + o]
              /\ next * PageBytes + o < Len(written) =>
                   memory'[f * PageBytes + o] = written[next * PageBytes + o + 1]
    BY <1>2, <2>2, PageIsRead
  <2>5. /\ frames' \in Seq(bitmap') /\ Len(frames') = next + 1 /\ frames'[next + 1] = f
        /\ \A p \in 1 .. next : frames'[p] = frames[p] /\ frames[p] \in bitmap
    <3>1. frames \in Seq(bitmap')
      <4>1. \A p \in 1 .. Len(frames) : frames[p] \in bitmap'
        BY <2>2, <2>3
      <4> QED BY <2>3, <4>1
    <3> QED BY <1>2, <2>2, <2>3, <3>1
  <2>6. ObjectTypeOK'
    <3>1. DOMAIN memory' = 0 .. MemorySize' - 1
      BY <1>2, <1>3, <2>4 DEF ObjectTypeOK
    <3>2. next' \in Nat /\ bitmap' \subseteq Frames
      BY <1>2, <1>5, <2>2, <2>3
    <3>3. /\ coff' \in ObjectFile /\ loader' \in Loaders /\ loading' = "pages" /\ loader' = "AddrSpace"
          /\ written' \in Seq(Bytes)
          /\ noff' \in [code : Record, initData : Record, uninitData : Record]
      BY <1>1, <1>2, <1>5 DEF ObjectTypeOK, Record
    <3> QED BY <2>5, <3>1, <3>2, <3>3 DEF ObjectTypeOK, Stages, Record
  <2>7. PagesAreLoaded'
    <3>1. next' <= numPages' /\ Len(frames') = next'
      <4>1. numPages \in Nat
        BY <1>1, <1>2, PagesAreEnough
      <4> QED BY <1>1, <1>2, <1>3, <1>5, <2>5, <4>1
    <3>2. ASSUME NEW p \in DOMAIN frames', NEW q \in DOMAIN frames', frames'[p] = frames'[q]
          PROVE  p = q
      <4>1. DOMAIN frames' = 1 .. next + 1 /\ DOMAIN frames = 1 .. next
        BY <2>3, <2>5
      <4>2. \A x, y \in 1 .. next : frames[x] = frames[y] => x = y
        BY <1>1, <1>2, <4>1 DEF PagesAreLoaded
      <4> QED BY <1>2, <2>2, <2>5, <3>2, <4>1, <4>2
    <3>3. ASSUME NEW p \in 0 .. next' - 1, NEW o \in 0 .. PageBytes - 1,
                 p * PageBytes + o < Len(written')
          PROVE  memory'[frames'[p + 1] * PageBytes + o] = written'[p * PageBytes + o + 1]
      <4>1. CASE p = next
        <5>1. frames'[p + 1] = f
          BY <2>5, <4>1
        <5>2. memory'[f * PageBytes + o] = written[next * PageBytes + o + 1]
          BY <1>1, <2>2, <2>4, <3>3, <4>1
        <5> QED BY <1>1, <4>1, <5>1, <5>2
      <4>2. CASE p # next
        <5>1. p \in 0 .. next - 1 /\ p + 1 \in 1 .. next
          BY <1>2, <1>5, <4>2
        <5>2. memory[frames[p + 1] * PageBytes + o] = written[p * PageBytes + o + 1]
          BY <1>1, <1>2, <3>3, <5>1 DEF PagesAreLoaded
        <5>3. frames'[p + 1] = frames[p + 1] /\ frames[p + 1] \in Frames /\ frames[p + 1] # f
          BY <2>2, <2>3, <2>5, <5>1
        <5>4. memory'[frames[p + 1] * PageBytes + o] = memory[frames[p + 1] * PageBytes + o]
          BY <2>4, <5>3
        <5> QED BY <1>1, <5>2, <5>3, <5>4
      <4> QED BY <4>1, <4>2
    <3> QED BY <1>1, <1>5, <3>1, <3>2, <3>3 DEF PagesAreLoaded
  <2>8. ImageIsWritten'
    BY <1>1, <1>2, <1>4, <1>5 DEF ImageIsWritten
  <2>9. SegmentsAddUp' /\ SectionsAreLoaded' /\ RefusedForAReason'
    BY <1>1, <1>2, <1>5 DEF SegmentsAddUp, SectionsAreLoaded, RefusedForAReason
  <2> QED BY <2>6, <2>7, <2>8, <2>9 DEF ObjectInv
<1>6. CASE clear = {} /\ loading' = "incomplete" /\ UNCHANGED <<bitmap, frames, memory, next>>
  <2>1. ObjectTypeOK'
    BY <1>1, <1>2, <1>3, <1>6 DEF ObjectTypeOK, Stages
  <2> QED BY <1>6, <2>1 DEF ObjectInv, ImageIsWritten, SegmentsAddUp, PagesAreLoaded, SectionsAreLoaded,
             RefusedForAReason
<1> QED BY <1>5, <1>6 DEF LoadPage

LEMMA FlattenSectionInv == ObjectInv /\ FlattenSection => ObjectInv'
<1> SUFFICES ASSUME ObjectInv, FlattenSection PROVE ObjectInv'
  OBVIOUS
<1>1. /\ loading = "sections" /\ loader = "coff2flat" /\ next < Len(Sections) /\ next' = next + 1
      /\ UNCHANGED <<coff, loader, noff, bitmap, frames, memory>>
  BY DEF FlattenSection, AtSection
<1>2. /\ ObjectTypeOK /\ ImageIsWritten /\ SegmentsAddUp /\ PagesAreLoaded /\ SectionsAreLoaded
      /\ RefusedForAReason
  BY DEF ObjectInv
<1>3. next + 1 \in DOMAIN Sections /\ coff \in ObjectFile /\ next \in Nat /\ Len(Sections) \in Nat
  BY <1>1, <1>2, SectionIs DEF ObjectTypeOK
<1>4. Sections' = Sections /\ MemorySize' = MemorySize
  BY <1>1 DEF Sections, MemorySize
<1>5. next' \in Nat /\ next' <= Len(Sections')
  BY <1>1, <1>3, <1>4
<1>6. ASSUME loading' = loading, written' \in Seq(Bytes), ImageIsWritten'
      PROVE  ObjectInv'
  <2>1. ObjectTypeOK'
    BY <1>1, <1>2, <1>4, <1>5, <1>6 DEF ObjectTypeOK, Stages
  <2> QED BY <1>1, <1>6, <2>1 DEF ObjectInv, SegmentsAddUp, PagesAreLoaded, SectionsAreLoaded, RefusedForAReason
<1>7. CASE ~HasData(Section) /\ UNCHANGED <<written, loading>>
  BY <1>1, <1>2, <1>6, <1>7, RoundImage
<1>8. CASE HasData(Section) /\ IsThere(Section) /\ written' = written \o Data(Section) /\ UNCHANGED loading
  BY <1>1, <1>2, <1>6, <1>8, RoundImage
<1>9. CASE HasData(Section) /\ ~IsThere(Section) /\ loading' = "refused" /\ UNCHANGED written
  <2>1. ~IsProper
    BY <1>3, <1>9, Zenon DEF IsProper, Section
  <2>2. ~IsProper'
    BY <1>1, <2>1 DEF IsProper, Filled, Top, Sections
  <2>3. ObjectTypeOK'
    BY <1>1, <1>2, <1>4, <1>5, <1>9 DEF ObjectTypeOK, Stages
  <2> QED BY <1>1, <1>9, <2>2, <2>3 DEF ObjectInv, ImageIsWritten, SegmentsAddUp, PagesAreLoaded,
             SectionsAreLoaded, RefusedForAReason
<1> QED BY <1>7, <1>8, <1>9 DEF FlattenSection

LEMMA FlatEndsInv == ObjectInv /\ FlatEnds => ObjectInv'
<1> SUFFICES ASSUME ObjectInv, FlatEnds PROVE ObjectInv'
  OBVIOUS
<1> DEFINE flat == [k \in 1 .. Top + FlatStack |->
                      IF k <= Len(written) /\ k <= Top + FlatStack - WordBytes THEN written[k] ELSE Zero]
<1>1. /\ loading = "sections" /\ loader = "coff2flat" /\ next = Len(Sections) /\ loading' = "loaded"
      /\ written' = flat
      /\ UNCHANGED <<coff, loader, next, noff, bitmap, frames, memory>>
  BY DEF FlatEnds, AllSections
<1>2. /\ ObjectTypeOK /\ ImageIsWritten /\ SegmentsAddUp /\ PagesAreLoaded /\ SectionsAreLoaded
      /\ RefusedForAReason
  BY DEF ObjectInv
<1>3. coff \in ObjectFile /\ next \in Nat /\ DOMAIN Sections = 1 .. next
  BY <1>1, <1>2, SectionIs DEF ObjectTypeOK
<1>4. Sections' = Sections /\ MemorySize' = MemorySize
  BY <1>1 DEF Sections, MemorySize
<1>5. Top \in Nat /\ FlatStack \in Nat /\ FlatStack >= 4 /\ WordBytes = 4
  BY <1>3, TopIsBehind, ObjectAssumption DEF WordBytes
<1>6. written \in Seq(Bytes) /\ Len(written) \in Nat
  BY <1>2 DEF ObjectTypeOK
<1>7. /\ written' \in Seq(Bytes) /\ Len(written') = Top + FlatStack
      /\ \A k \in 1 .. Top : k <= Len(written) => written'[k] = written[k]
  <2> HIDE DEF Top
  <2>1. Zero \in Bytes
    BY DEF Bytes
  <2>2. \A k \in 1 .. Top + FlatStack : k <= Len(written) => written[k] \in Bytes
    BY <1>5, <1>6
  <2>3. Top + FlatStack \in Nat
    BY <1>5
  <2>4. flat \in Seq(Bytes) /\ Len(flat) = Top + FlatStack
    BY <2>1, <2>2, <2>3
  <2>5. ASSUME NEW k \in 1 .. Top, k <= Len(written)
        PROVE  flat[k] = written[k]
    <3>1. k \in 1 .. Top + FlatStack /\ k <= Top + FlatStack - WordBytes
      BY <1>5
    <3> QED BY <2>5, <3>1
  <2> QED BY <1>1, <2>4, <2>5
<1> HIDE DEF flat
<1>8. AllWritten'
  <2> SUFFICES ASSUME NEW i \in DOMAIN Sections, HasData(Sections[i])
               PROVE  IsWritten(Sections[i])'
    BY <1>4, Zenon DEF AllWritten, HasData
  <2>1. IsWritten(Sections[i])
    BY <1>1, <1>2, <1>3 DEF ImageIsWritten
  <2>2. /\ Sections[i].paddr \in Nat /\ Sections[i].size \in Nat
        /\ Sections[i].paddr + Sections[i].size <= Top
    BY <1>3, OneSection, TopIsBehind
  <2>3. ASSUME NEW k \in 1 .. Sections[i].size
        PROVE  /\ Sections[i].paddr + k <= Len(written')
               /\ written'[Sections[i].paddr + k] = <<Sections[i].name, k>>
    <3>1. Sections[i].paddr + k <= Len(written) /\ written[Sections[i].paddr + k] = <<Sections[i].name, k>>
      BY <2>1 DEF IsWritten
    <3>2. Sections[i].paddr + k \in 1 .. Top
      BY <1>5, <2>2
    <3>3. written'[Sections[i].paddr + k] = written[Sections[i].paddr + k]
      BY <1>7, <3>1, <3>2
    <3>4. Sections[i].paddr + k <= Len(written')
      BY <1>5, <1>7, <3>2
    <3> QED BY <3>1, <3>3, <3>4
  <2> QED BY <1>4, <2>3, Zenon DEF IsWritten
<1>9. ObjectTypeOK'
  BY <1>1, <1>2, <1>4, <1>7 DEF ObjectTypeOK, Stages
<1> QED BY <1>1, <1>8, <1>9 DEF ObjectInv, ImageIsWritten, SegmentsAddUp, PagesAreLoaded,
             SectionsAreLoaded, RefusedForAReason

LEMMA LoadSectionInv == ObjectInv /\ LoadSection => ObjectInv'
<1> SUFFICES ASSUME ObjectInv, LoadSection PROVE ObjectInv'
  OBVIOUS
<1> DEFINE found == {i \in DOMAIN Sections : Sections[i].name = LoadOrder[next + 1] /\ HasData(Sections[i])}
<1>1. /\ loading = "sections" /\ loader = "load_program" /\ next < Len(LoadOrder) /\ next' = next + 1
      /\ UNCHANGED <<coff, loader, noff, written, bitmap, frames>>
  BY DEF LoadSection
<1>2. /\ ObjectTypeOK /\ ImageIsWritten /\ SegmentsAddUp /\ PagesAreLoaded /\ SectionsAreLoaded
      /\ RefusedForAReason
  BY DEF ObjectInv
<1>3. coff \in ObjectFile /\ next \in Nat /\ Len(LoadOrder) = 6
  BY <1>2 DEF ObjectTypeOK, LoadOrder
<1>4. Sections' = Sections /\ MemorySize' = MemorySize
  BY <1>1 DEF Sections, MemorySize
<1>5. next' \in Nat /\ next' <= Len(LoadOrder)
  BY <1>1, <1>3
<1>6. \A k \in 1 .. next' : k \in 1 .. next \/ k = next + 1
  BY <1>1, <1>3
<1>7. \A i \in DOMAIN Sections, j \in 1 .. next :
        HasData(Sections[i]) /\ Sections[i].name = LoadOrder[j] => IsInMemory(Sections[i])
  BY <1>1, <1>2 DEF SectionsAreLoaded
<1>8. ASSUME DOMAIN memory' = DOMAIN memory, loading' \in {"sections", "refused"},
             loading' = "refused" => ~IsProper,
             loading' = "sections" =>
               \A i \in DOMAIN Sections, j \in 1 .. next' :
                 HasData(Sections[i]) /\ Sections[i].name = LoadOrder[j] => IsInMemory(Sections[i])'
      PROVE  ObjectInv'
  <2>1. ObjectTypeOK'
    BY <1>1, <1>2, <1>4, <1>5, <1>8 DEF ObjectTypeOK, Stages
  <2>2. SectionsAreLoaded'
    <3>1. LoadOrder' = LoadOrder /\ loading' # "loaded"
      BY <1>8 DEF LoadOrder
    <3> QED BY <1>4, <1>5, <1>8, <3>1, Zenon DEF SectionsAreLoaded, HasData
  <2>3. IsProper' = IsProper
    BY <1>1 DEF IsProper, Filled, Top, Sections
  <2>4. RefusedForAReason'
    BY <1>8, <2>3 DEF RefusedForAReason
  <2> QED BY <1>1, <1>8, <2>1, <2>2, <2>4 DEF ObjectInv, ImageIsWritten, SegmentsAddUp, PagesAreLoaded
<1>9. CASE found = {} /\ UNCHANGED <<memory, loading>>
  <2>1. ASSUME NEW i \in DOMAIN Sections, NEW j \in 1 .. next',
               HasData(Sections[i]), Sections[i].name = LoadOrder[j]
        PROVE  IsInMemory(Sections[i])'
    <3>1. j # next + 1
      BY <1>9, <2>1
    <3>2. IsInMemory(Sections[i])
      BY <1>6, <1>7, <2>1, <3>1
    <3> QED BY <1>4, <1>9, <3>2 DEF IsInMemory, EndOf
  <2> QED BY <1>1, <1>8, <1>9, <2>1
<1>10. ASSUME NEW i \in found,
              memory' = [a \in DOMAIN memory |->
                          IF a \in Sections[i].paddr .. EndOf(Sections[i]) - 1
                            THEN ByteAt(Sections[i], a - Sections[i].paddr + 1) ELSE memory[a]],
              loading' = IF EndOf(Sections[i]) >= MemSize THEN "refused" ELSE loading
       PROVE  ObjectInv'
  <2> DEFINE s == Sections[i]
  <2>1. i \in DOMAIN Sections /\ s.name = LoadOrder[next + 1] /\ HasData(s)
    OBVIOUS
  <2>2. /\ s.paddr \in Nat /\ s.size \in Nat /\ s.there \in Nat
        /\ EndOf(s) = s.paddr + s.size /\ EndOf(s) <= Top /\ Top \in Nat /\ MemSize \in Nat
    BY <1>3, <2>1, OneSection, TopIsBehind, ObjectAssumption
  <2>3. DOMAIN memory' = DOMAIN memory /\ DOMAIN memory = 0 .. MemSize - 1
    BY <1>1, <1>2, <1>10 DEF ObjectTypeOK, MemorySize
  <2>4. ASSUME loading' = "refused" PROVE ~IsProper
    <3>1. EndOf(s) >= MemSize
      BY <1>1, <1>10, <2>4
    <3>2. ~(Top < MemSize)
      BY <2>2, <3>1
    <3> QED BY <3>2, Zenon DEF IsProper
  <2>5. ASSUME NEW k \in DOMAIN Sections, NEW j \in 1 .. next', loading' = "sections",
               HasData(Sections[k]), Sections[k].name = LoadOrder[j]
        PROVE  IsInMemory(Sections[k])'
    <3>1. CASE k = i
      <4>1. EndOf(s) < MemSize
        BY <1>10, <2>2, <2>5
      <4>2. ASSUME NEW b \in 1 .. s.size, b <= s.there
            PROVE  memory'[s.paddr + b - 1] = <<s.name, b>>
        <5> PICK a : a = s.paddr + b - 1
          OBVIOUS
        <5>1. a \in DOMAIN memory /\ a \in s.paddr .. EndOf(s) - 1 /\ a - s.paddr + 1 = b
          BY <2>2, <2>3, <4>1
        <5>2. memory'[a] = ByteAt(s, b)
          BY <1>10, <5>1
        <5>3. ByteAt(s, b) = <<s.name, b>>
          BY <4>2 DEF ByteAt, Data
        <5> QED BY <5>2, <5>3
      <4> QED BY <1>4, <3>1, <4>1, <4>2, Zenon DEF IsInMemory, EndOf
    <3>2. CASE k # i
      <4> DEFINE t == Sections[k]
      <4>1. t.name # s.name
        BY <1>3, <2>1, <3>2, SectionIs, Zenon
      <4>2. j \in 1 .. next
        BY <1>6, <2>1, <2>5, <4>1
      <4>3. IsInMemory(t)
        BY <1>7, <2>5, <4>2
      <4>4. t.paddr \in Nat /\ t.size \in Nat /\ EndOf(t) = t.paddr + t.size
        BY <1>3, OneSection
      <4>5. EndOf(t) <= s.paddr \/ EndOf(s) <= t.paddr
        <5>1. k \in Nat /\ i \in Nat
          BY <1>3, <2>1, OneSection
        <5>2. k < i \/ i < k
          BY <3>2, <5>1
        <5> QED BY <1>3, <2>1, <5>2, LaterIsBehind
      <4>6. ASSUME NEW b \in 1 .. t.size, b <= t.there
            PROVE  memory'[t.paddr + b - 1] = <<t.name, b>>
        <5> PICK a : a = t.paddr + b - 1
          OBVIOUS
        <5>1. memory[a] = <<t.name, b>> /\ EndOf(t) < MemSize
          BY <4>3, <4>6 DEF IsInMemory
        <5> DEFINE x == s.paddr
                   y == EndOf(s)
                   u == t.paddr
                   v == EndOf(t)
        <5>4. /\ x \in Nat /\ y \in Nat /\ u \in Nat /\ v \in Nat /\ a \in u .. v - 1
              /\ v < MemSize /\ (v <= x \/ y <= u) /\ MemSize \in Nat
          BY <2>2, <4>4, <4>5, <4>6, <5>1
        <5> HIDE DEF x, y, u, v
        <5>5. a \in 0 .. MemSize - 1 /\ a \notin x .. y - 1
          BY <5>4
        <5>2. a \in DOMAIN memory /\ a \notin s.paddr .. EndOf(s) - 1
          BY <2>3, <5>5 DEF x, y
        <5>3. memory'[a] = memory[a]
          BY <1>10, <5>2
        <5> QED BY <5>1, <5>3
      <4>7. EndOf(t) < MemSize
        BY <4>3 DEF IsInMemory
      <4> QED BY <1>4, <4>6, <4>7, Zenon DEF IsInMemory, EndOf
    <3> QED BY <3>1, <3>2
  <2>6. loading' \in {"sections", "refused"}
    BY <1>1, <1>10
  <2> QED BY <1>8, <2>3, <2>4, <2>5, <2>6
<1> QED BY <1>9, <1>10, Zenon DEF LoadSection

LEMMA SectionsLoadedInv == ObjectInv /\ SectionsLoaded => ObjectInv'
<1> SUFFICES ASSUME ObjectInv, SectionsLoaded PROVE ObjectInv'
  OBVIOUS
<1>1. /\ loading = "sections" /\ loader = "load_program" /\ next = Len(LoadOrder) /\ loading' = "loaded"
      /\ UNCHANGED <<coff, loader, next, noff, written, bitmap, frames, memory>>
  BY DEF SectionsLoaded
<1>2. /\ ObjectTypeOK /\ ImageIsWritten /\ SegmentsAddUp /\ PagesAreLoaded /\ SectionsAreLoaded
      /\ RefusedForAReason
  BY DEF ObjectInv
<1>3. Sections' = Sections /\ MemorySize' = MemorySize /\ LoadOrder' = LoadOrder
  BY <1>1 DEF Sections, MemorySize, LoadOrder
<1>4. ObjectTypeOK'
  BY <1>1, <1>2, <1>3 DEF ObjectTypeOK, Stages
<1>5. Len(LoadOrder) = 6
  BY DEF LoadOrder
<1>6. SectionsAreLoaded'
  BY <1>1, <1>2, <1>3, <1>5 DEF SectionsAreLoaded, IsInMemory
<1> QED BY <1>1, <1>4, <1>6 DEF ObjectInv, ImageIsWritten, SegmentsAddUp, PagesAreLoaded,
           SectionsAreLoaded, RefusedForAReason

LEMMA ObjectStutters == ObjectInv /\ UNCHANGED objectVars => ObjectInv'
<1> SUFFICES ASSUME ObjectInv, UNCHANGED objectVars PROVE ObjectInv'
  OBVIOUS
<1>1. UNCHANGED <<coff, loader, loading, next, noff, written, bitmap, frames, memory>>
  BY DEF objectVars
<1>2. /\ Sections' = Sections /\ MemorySize' = MemorySize /\ numPages' = numPages /\ ProgramSize' = ProgramSize
      /\ IsProper' = IsProper /\ End(next)' = End(next)
  BY <1>1 DEF Sections, MemorySize, numPages, ProgramSize, IsProper, Filled, Top, End
<1>3. AllWritten' = AllWritten /\ \A s : IsWritten(s)' = IsWritten(s)
  BY <1>1, <1>2 DEF AllWritten, IsWritten
<1>4. \A names : HasSegment(names)' = HasSegment(names)
  BY <1>1, <1>2 DEF HasSegment
<1>5. ObjectTypeOK' /\ RefusedForAReason'
  BY <1>1, <1>2 DEF ObjectInv, ObjectTypeOK, RefusedForAReason
<1>6. ImageIsWritten'
  BY <1>1, <1>2, <1>3 DEF ObjectInv, ImageIsWritten, IsWritten
<1>7. SegmentsAddUp'
  BY <1>1, <1>2, <1>4 DEF ObjectInv, SegmentsAddUp
<1>8. PagesAreLoaded' /\ SectionsAreLoaded'
  BY <1>1, <1>2 DEF ObjectInv, PagesAreLoaded, SectionsAreLoaded, IsInMemory, LoadOrder
<1> QED BY <1>5, <1>6, <1>7, <1>8 DEF ObjectInv

\* The invariant of the three ways from the object file to memory.
THEOREM ObjectInvariance == ObjectSpec => []ObjectInv
<1>1. ObjectInit => ObjectInv
  BY ObjectInitInv
<1>2. ObjectInv /\ [ObjectNext]_objectVars => ObjectInv'
  BY CheckMagicInv, ConvertSectionInv, ConversionEndsInv, LoadPageInv, PagesLoadedInv, FlattenSectionInv,
     FlatEndsInv, LoadSectionInv, SectionsLoadedInv, ObjectStutters DEF ObjectNext
<1> QED BY <1>1, <1>2, PTL DEF ObjectSpec

\* Whichever of the three ways a program takes and whichever frames it gets, its
\* instructions and data are at the addresses they were linked for, and no proper
\* file is refused.
THEOREM LinkedProgramsAreLoaded == ObjectSpec => []ProgramIsLoaded
<1>1. ObjectInv => ProgramIsLoaded
  <2> SUFFICES ASSUME ObjectInv PROVE ProgramIsLoaded
    OBVIOUS
  <2>1. /\ ObjectTypeOK /\ ImageIsWritten /\ SegmentsAddUp /\ PagesAreLoaded /\ SectionsAreLoaded
        /\ RefusedForAReason /\ coff \in ObjectFile
    BY DEF ObjectInv, ObjectTypeOK
  <2>2. ASSUME loading = "loaded", NEW j \in DOMAIN Sections,
               Sections[j].name \in {".text", ".data", ".rdata"}, NEW i \in 1 .. Sections[j].size,
               IsThere(Sections[j])
        PROVE  Image(Sections[j].paddr + i - 1) = <<Sections[j].name, i>>
    <3> DEFINE s == Sections[j]
    <3>1. HasData(s)
      BY <2>2 DEF HasData
    <3>2. /\ s.paddr \in Nat /\ s.size \in Nat /\ s.there \in Nat /\ i \in Nat /\ i >= 1
          /\ i <= s.size /\ i <= s.there
      BY <2>1, <2>2, OneSection DEF IsThere
    <3> PICK a : a = s.paddr + i - 1
      OBVIOUS
    <3>3. a \in Nat /\ a + 1 = s.paddr + i
      BY <3>2
    <3>4. CASE loader = "AddrSpace"
      <4>1. a + 1 <= Len(written) /\ written[a + 1] = <<s.name, i>>
        BY <2>1, <2>2, <3>1, <3>3, <3>4, Zenon DEF ImageIsWritten, AllWritten, IsWritten
      <4> DEFINE p == a \div PageBytes
                 o == a % PageBytes
      <4>2. p \in Int /\ o \in 0 .. PageBytes - 1 /\ a = PageBytes * p + o /\ PageBytes \in Nat \ {0}
        <5>1. a \in Int /\ PageBytes \in Nat \ {0}
          BY <3>3, ObjectAssumption
        <5> QED BY <5>1, Division, Zenon
      <4>3. /\ numPages \in Nat /\ Len(written) \in Nat /\ Len(written) <= ProgramSize
            /\ ProgramSize \in Nat
            /\ ProgramSize <= PageBytes * DivUp(ProgramSize, PageBytes)
            /\ DivUp(ProgramSize, PageBytes) \in Nat /\ DivUp(ProgramSize, PageBytes) <= numPages
        BY <2>1, <2>2, <3>4, PagesAreEnough
      <4>4. /\ next = numPages
            /\ \A q \in 0 .. next - 1, r \in 0 .. PageBytes - 1 :
                 q * PageBytes + r < Len(written) =>
                   memory[frames[q + 1] * PageBytes + r] = written[q * PageBytes + r + 1]
        BY <2>1, <2>2, <3>4 DEF PagesAreLoaded
      <4> HIDE DEF p, o
      <4>5. PageBytes * p = p * PageBytes /\ p * PageBytes \in Int
        BY <4>2
      <4>6. p >= 0
        <5>1. p <= -1 => PageBytes * p <= -PageBytes
          BY <4>2
        <5> QED BY <3>3, <4>2, <4>5, <5>1
      <4>7. p < numPages
        <5> DEFINE d == DivUp(ProgramSize, PageBytes)
        <5>0. d \in Nat /\ d <= numPages /\ ProgramSize <= PageBytes * d
          BY <4>3, Zenon
        <5> HIDE DEF d
        <5>1. d \in Nat /\ d <= numPages /\ a < PageBytes * d /\ PageBytes * d \in Nat
          <6> DEFINE bytes == PageBytes * d
          <6>1. bytes \in Nat
            BY <4>2, <5>0
          <6>2. ProgramSize <= bytes
            BY <5>0
          <6> HIDE DEF bytes
          <6>3. a < bytes
            BY <3>3, <4>1, <4>3, <6>1, <6>2
          <6> QED BY <5>0, <6>1, <6>3 DEF bytes
        <5>2. p >= d => PageBytes * p >= PageBytes * d
          BY <4>2, <5>1
        <5>3. PageBytes * p <= a /\ p \in Int
          BY <3>3, <4>2, <4>5
        <5>4. ~(p >= d)
          BY <3>3, <4>5, <5>1, <5>2, <5>3
        <5> QED BY <4>3, <5>1, <5>3, <5>4
      <4>8. p \in 0 .. next - 1 /\ p * PageBytes + o = a /\ a < Len(written)
        BY <3>3, <4>1, <4>2, <4>3, <4>4, <4>5, <4>6, <4>7
      <4>9. memory[frames[p + 1] * PageBytes + o] = written[p * PageBytes + o + 1]
        BY <4>2, <4>4, <4>8
      <4>10. p * PageBytes + o + 1 = a + 1
        BY <4>8
      <4>11. memory[frames[p + 1] * PageBytes + o] = <<s.name, i>>
        BY <4>1, <4>9, <4>10
      <4>12. Image(a) = memory[frames[p + 1] * PageBytes + o]
        BY <3>4 DEF Image, p, o
      <4> QED BY <4>11, <4>12
    <3>5. CASE loader = "coff2flat"
      <4>1. written[a + 1] = <<s.name, i>>
        BY <2>1, <2>2, <3>1, <3>3, <3>5, Zenon DEF ImageIsWritten, AllWritten, IsWritten
      <4> QED BY <3>5, <4>1 DEF Image
    <3>6. CASE loader = "load_program"
      <4>1. /\ next = 6
            /\ \A m \in DOMAIN Sections, k \in 1 .. next :
                 HasData(Sections[m]) /\ Sections[m].name = LoadOrder[k] => IsInMemory(Sections[m])
        BY <2>1, <2>2, <3>6 DEF SectionsAreLoaded, LoadOrder
      <4>2. \E k \in 1 .. next : s.name = LoadOrder[k]
        <5>1. LoadOrder[1] = ".text" /\ LoadOrder[2] = ".rdata" /\ LoadOrder[3] = ".data"
          BY DEF LoadOrder
        <5>2. 1 \in 1 .. next /\ 2 \in 1 .. next /\ 3 \in 1 .. next
          BY <4>1
        <5> QED BY <2>2, <5>1, <5>2
      <4>3. IsInMemory(s)
        BY <3>1, <4>1, <4>2
      <4>4. memory[s.paddr + i - 1] = <<s.name, i>>
        BY <3>2, <4>3 DEF IsInMemory
      <4> QED BY <3>6, <4>4 DEF Image
    <3> QED BY <2>1, <3>4, <3>5, <3>6 DEF ObjectTypeOK, Loaders
  <2>3. \A s \in Range(Sections) : \E j \in DOMAIN Sections : s = Sections[j]
    BY DEF Range
  <2> QED BY <2>1, <2>2, <2>3, Zenon DEF ProgramIsLoaded, RefusedForAReason
<1> QED BY <1>1, ObjectInvariance, PTL

----------------------------------------------------------------------------
(***************************************************************************)
(* The file system.  A disk d has a map, a directory, headers and bytes.   *)
(* Soon is the disk when the pending writes are done: what the program     *)
(* knows is true of Soon, what a crash leaves is on disk.                  *)
(***************************************************************************)
DirEntries == 1 .. NumDirEntries
Labels == Names \cup {NoName}
Directories == [DirEntries -> [inUse : BOOLEAN, sector : Sectors, name : Labels]]
DataArea == 5 .. NumSectors - 1
Buffers == [0 .. SectorSize - 1 -> Nat]
SectorCount(n) == DivRoundUp(n, SectorSize)
Headers ==
  {h \in [numBytes : Nat, dataSectors : Seq(DataArea)] :
     /\ Len(h.dataSectors) = SectorCount(h.numBytes)
     /\ \A i, j \in 1 .. Len(h.dataSectors) : h.dataSectors[i] = h.dataSectors[j] => i = j}
Maps == {marks \in SUBSET Sectors : 0 .. 4 \subseteq marks}
FirstParts == [slots : [1 .. Straddling -> BOOLEAN \X Sectors], labels : [1 .. Straddling - 1 -> Labels]]
SecondParts == [slots : [Straddling + 1 .. NumDirEntries -> BOOLEAN \X Sectors],
                labels : [Straddling .. NumDirEntries -> Labels]]

\* What each sector may hold.
Fits(s, data) ==
  CASE s = 0 -> data = [numBytes |-> 1, dataSectors |-> <<2>>]
    [] s = 1 -> data = [numBytes |-> 1, dataSectors |-> <<3, 4>>]
    [] s = 2 -> data \in [bits : Maps]
    [] s = 3 -> data \in FirstParts
    [] s = 4 -> data \in SecondParts
    [] OTHER -> data \in [bytes : Buffers] \cup Headers

SectorData == [bits : Maps] \cup FirstParts \cup SecondParts \cup [bytes : Buffers] \cup Headers
Writes == [sector : Sectors \ {0, 1}, data : SectorData]

IsDisk(d) == d = [s \in Sectors |-> d[s]] /\ \A s \in Sectors : Fits(s, d[s])

\* The directory of a disk, and of two of which the second part is the other's.
DirOf(one, two) ==
  [i \in DirEntries |->
     [inUse |-> IF i <= Straddling THEN one.slots[i][1] ELSE two.slots[i][1],
      sector |-> IF i <= Straddling THEN one.slots[i][2] ELSE two.slots[i][2],
      name |-> IF i < Straddling THEN one.labels[i] ELSE two.labels[i]]]
DirOn(d) == DirOf(d[3], d[4])
MapOn(d) == d[2].bits
BytesOn(d, s) == IF "bytes" \in DOMAIN d[s] THEN d[s].bytes ELSE Zeros.bytes
SectorOn(d, n) == DirOn(d)[FindIndex(DirOn(d), n)].sector
HeaderOn(d, n) == d[SectorOn(d, n)]
OwnOn(d, n) == {SectorOn(d, n)} \cup ToSet(HeaderOn(d, n).dataSectors)
ByteOn(d, hdr, p) == BytesOn(d, hdr.dataSectors[p \div SectorSize + 1])[p % SectorSize]

\* Entry i has the name, and none before it, in use or not.
IsAt(dir, n, i) ==
  dir[i].inUse /\ dir[i].name = n /\ \A j \in 1 .. i - 1 : dir[j].name # n

\* The disk d when the sectors of w, each written once, are written.
AreWrites(w) ==
  /\ w \in Seq(Writes)
  /\ \A k \in DOMAIN w : Fits(w[k].sector, w[k].data)
  /\ \A j, k \in DOMAIN w : w[j].sector = w[k].sector => j = k
Targets(w) == {w[k].sector : k \in DOMAIN w}
After(d, w) ==
  [s \in Sectors |-> IF s \in Targets(w)
                       THEN w[CHOOSE k \in DOMAIN w : w[k].sector = s].data
                       ELSE d[s]]
Soon == After(disk, writes)

\* An entry that is in use and whose header's sector is not marked.
HalfDone(d) == {i \in DirEntries : DirOn(d)[i].inUse /\ DirOn(d)[i].sector \notin MapOn(d)}

\* The files of a disk are the names whose entry is not gone, that is, not one
\* that a crash left half done.
OwnersAt(d, gone) ==
  {n \in Names : FindIndex(DirOn(d), n) # 0 /\ FindIndex(DirOn(d), n) \notin gone}
Owners == OwnersAt(Soon, dangling)

----------------------------------------------------------------------------
\* What is in memory, and what there was before (saved, dangling).
FsTypes ==
  /\ IsDisk(disk)
  /\ AreWrites(writes)
  /\ file.hdr \in Headers /\ file.seekPosition \in 0 .. file.hdr.numBytes
  /\ file = [hdr |-> file.hdr, seekPosition |-> file.seekPosition]
  /\ output \in Seq(Nat)
  /\ DOMAIN saved \subseteq Names /\ \A n \in DOMAIN saved : saved[n] \in Seq(Nat)
  /\ dangling \subseteq DirEntries
  /\ crashes \in 0 .. MaxCrashes /\ (crashes = 0 => dangling = {})

\* Where each command is.  Only the entry a crash left half done makes it abort.
StagesOf(prog) ==
  CASE prog = "copy" -> {"create", "open", "write", "done"}
    [] prog = "print" -> {"open", "read", "done"}
    [] prog = "remove" -> {"remove", "done"}
    [] prog = "perf" -> {"create", "open", "write", "open2", "read", "remove", "done"}
    [] OTHER -> {}
CommandOK ==
  /\ command = Idle => stage = "idle" /\ writes = << >> /\ output = << >>
  /\ command # Idle =>
       /\ command = [prog |-> command.prog, name |-> command.name, from |-> command.from]
       /\ command.prog \in {"copy", "print", "remove", "perf"}
       /\ stage \in StagesOf(command.prog) \cup {"aborted"}
       /\ command.name \in Names
  /\ stage = "aborted" => writes = << >> /\ FindIndex(DirOn(disk), command.name) \in dangling
  /\ command.prog = "copy" => command.from \in Seq(Nat)
  /\ writes # << >> =>
       /\ \/ command.prog \in {"copy", "perf"} /\ stage = "open"
          \/ command.prog = "copy" /\ stage = "write"
          \/ command.prog \in {"remove", "perf"} /\ stage = "done"
       /\ command.name \notin DOMAIN saved
  /\ command.prog \in {"copy", "perf"} /\ stage \in {"open", "write"} => command.name \notin DOMAIN saved

\* Each file has an entry, a header and sectors of its own, which are marked.
HasSectors(d, n) ==
  /\ \E i \in DirEntries : IsAt(DirOn(d), n, i)
  /\ SectorOn(d, n) \in DataArea /\ HeaderOn(d, n) \in Headers
  /\ SectorOn(d, n) \notin ToSet(HeaderOn(d, n).dataSectors)
  /\ OwnOn(d, n) \subseteq MapOn(d)
FilesApart(d, owners) ==
  /\ \A n \in owners : HasSectors(d, n)
  /\ \A n, m \in owners : n # m => OwnOn(d, n) \cap OwnOn(d, m) = {}

\* ... and there are no other entries, but those that are gone.
EntriesOwned(dir, owners, gone) ==
  \A i \in DirEntries \ gone :
    dir[i].inUse /\ dir[i].name \in Names => dir[i].name \in owners /\ IsAt(dir, dir[i].name, i)

\* What is true of the disk when nothing is pending.
Sound(d, gone) ==
  /\ FilesApart(d, OwnersAt(d, gone))
  /\ EntriesOwned(DirOn(d), OwnersAt(d, gone), gone)
  /\ \A i \in DirEntries : DirOn(d)[i].inUse => DirOn(d)[i].sector \in DataArea
  /\ \A i \in gone : i \in DirEntries /\ DirOn(d)[i].inUse

\* No sector is marked that is nobody's.
Marked(marks, d, owners) == marks = 0 .. 4 \cup UNION {OwnOn(d, n) : n \in owners}

\* What d will have of the file n is on the disk e already, and it will stay
\* when the sectors are written.
IsKept(d, e, n, sectors) ==
  /\ \E i \in DirEntries : IsAt(DirOn(d), n, i) /\ IsAt(DirOn(e), n, i) /\ DirOn(e)[i] = DirOn(d)[i]
  /\ OwnOn(d, n) \subseteq MapOn(e)
  /\ sectors \cap OwnOn(d, n) = {}

\* The first n bytes of a file, and all of one that was saved.
HasBytes(d, hdr, bytes, n) == \A p \in 0 .. n - 1 : ByteOn(d, hdr, p) = bytes[p + 1]
IsSaved(d, n, bytes) ==
  HeaderOn(d, n).numBytes = Len(bytes) /\ HasBytes(d, HeaderOn(d, n), bytes, Len(bytes))

ToWrite == Targets(writes)

MarkedHaveOwners == crashes = 0 => Marked(MapOn(Soon), Soon, Owners)
BytesAreSaved == \A n \in DOMAIN saved : IsSaved(Soon, n, saved[n])

\* While sectors are to be written, the other files are on the disk as they will
\* be.  Create and Remove change one entry, whose header's sector is not among
\* the marks that are on the disk when one of its sectors is: Create writes the
\* map last, Remove first.
OthersAreThere == \A n \in Owners \ {command.name} : IsKept(Soon, disk, n, ToWrite)
Pending(marks) ==
  \E k \in DirEntries \ dangling :
    /\ \A i \in DirEntries \ {k} : DirOn(disk)[i] = DirOn(Soon)[i]
    /\ DirOn(disk)[k].inUse => DirOn(disk)[k].sector \in DataArea \ marks
    /\ DirOn(Soon)[k].inUse => DirOn(Soon)[k].sector \in DataArea \ marks
    /\ command.name \in Owners => FindIndex(DirOn(Soon), command.name) = k
WritesAreInOrder ==
  /\ stage = "open" => Pending(MapOn(disk)) /\ writes[Len(writes)].sector = 2
  /\ stage = "write" =>
       command.name \in Owners /\ ToWrite \subseteq ToSet(HeaderOn(Soon, command.name).dataSectors)
  /\ stage = "done" =>
       /\ Pending(MapOn(Soon))
       /\ \/ MapOn(disk) = MapOn(Soon)
          \/ Head(writes).sector = 2 /\ Sound(disk, dangling \cup HalfDone(disk))

FilesOK ==
  /\ Sound(Soon, dangling) /\ MarkedHaveOwners
  /\ DOMAIN saved \subseteq Owners /\ BytesAreSaved
  /\ writes # << >> => OthersAreThere /\ WritesAreInOrder

\* The header in memory is the file's, and what copy has written is in it.
FileIsOpen ==
  /\ command.prog \in {"copy", "perf"} /\ stage \in {"open", "write"} =>
       command.name \in Owners /\ HeaderOn(Soon, command.name).numBytes = CreateSize
  /\ stage = "write" \/ (stage = "read" /\ command.name \in DOMAIN saved) =>
       file.hdr = HeaderOn(Soon, command.name)
  /\ command.prog = "copy" /\ stage = "write" =>
       HasBytes(Soon, file.hdr, command.from, file.seekPosition)

\* What print has read so far is what was saved.
Printed ==
  command.prog = "print" =>
    /\ stage = "open" => output = << >>
    /\ stage = "read" /\ command.name \in DOMAIN saved =>
         output = SubSeq(saved[command.name], 1, file.seekPosition)
    /\ stage = "done" /\ command.name \in DOMAIN saved => output = saved[command.name]

\* All this is so until the sectors of an entry that a crash left half done are
\* freed under another file, which takes a crash.
Healthy == FsTypes /\ CommandOK /\ FilesOK /\ FileIsOpen /\ Printed
FsInv ==
  /\ ~corrupt => Healthy
  /\ corrupt => crashes \in Nat \ {0}

----------------------------------------------------------------------------
\* How far a transfer goes.
LEMMA MinOfTwo ==
  ASSUME NEW a \in Nat, NEW b \in Nat
  PROVE  Min({a, b}) = IF a <= b THEN a ELSE b
<1>1. Min({a, b}) \in {a, b} /\ \A y \in {a, b} : Min({a, b}) <= y
  BY MinIsLeast
<1> QED BY <1>1

----------------------------------------------------------------------------
\* Each byte of a file of n bytes is in one of its sectors.
LEMMA SectorOfByte ==
  ASSUME NEW n \in Nat
  PROVE  /\ SectorCount(n) \in Nat /\ SectorCount(0) = 0
         /\ \A p \in Nat : /\ p \div SectorSize \in Nat /\ p % SectorSize \in 0 .. SectorSize - 1
                          /\ p = (p \div SectorSize) * SectorSize + (p % SectorSize)
         /\ \A p \in 0 .. n - 1 : p \div SectorSize + 1 \in 1 .. SectorCount(n)
<1>1. SectorSize \in Nat \ {0}
  BY FileSystemAssumption
<1>2. ASSUME NEW a \in Nat
      PROVE  /\ a \div SectorSize \in Nat /\ a % SectorSize \in 0 .. SectorSize - 1
             /\ a = (a \div SectorSize) * SectorSize + (a % SectorSize)
  <2>1. a \in Int
    OBVIOUS
  <2> DEFINE q == a \div SectorSize
             r == a % SectorSize
  <2>2. q \in Int /\ r \in 0 .. SectorSize - 1 /\ a = SectorSize * q + r
    BY <1>1, <2>1, Division, Zenon
  <2> HIDE DEF q, r
  <2>3. q <= -1 => SectorSize * q <= -SectorSize
    BY <1>1, <2>2
  <2>4. q >= 0
    BY <1>1, <2>2, <2>3
  <2>5. SectorSize * q = q * SectorSize
    BY <1>1, <2>2
  <2> QED BY <2>2, <2>4, <2>5 DEF q, r
<1> DEFINE c == SectorCount(n)
<1>3. c \in Nat /\ n <= c * SectorSize
  <2> DEFINE a == n + SectorSize - 1
  <2>1. a \in Nat
    BY <1>1
  <2>2. c = a \div SectorSize
    BY DEF SectorCount, DivRoundUp
  <2>3. c \in Nat /\ a % SectorSize \in 0 .. SectorSize - 1 /\ a = c * SectorSize + (a % SectorSize)
    BY <1>2, <2>1, <2>2, Zenon
  <2>4. c * SectorSize \in Nat
    BY <1>1, <2>3
  <2> QED BY <1>1, <2>3, <2>4
<1> HIDE DEF c
<1>4. ASSUME NEW p \in 0 .. n - 1
      PROVE  p \div SectorSize + 1 \in 1 .. c
  <2> DEFINE q == p \div SectorSize
             r == p % SectorSize
  <2>1. q \in Nat /\ r \in 0 .. SectorSize - 1 /\ p = q * SectorSize + r
    BY <1>2
  <2> HIDE DEF q, r
  <2>2. c <= q => c * SectorSize <= q * SectorSize
    BY <1>1, <1>3, <2>1
  <2>3. c * SectorSize \in Nat /\ q * SectorSize \in Nat
    BY <1>1, <1>3, <2>1
  <2>4. ~(c <= q)
    BY <1>3, <2>1, <2>2, <2>3
  <2> QED BY <1>3, <2>1, <2>4 DEF q
<1>5. SectorCount(0) = 0
  <2> DEFINE q == (SectorSize - 1) \div SectorSize
  <2>1. q \in Nat /\ SectorSize - 1 = q * SectorSize + ((SectorSize - 1) % SectorSize)
        /\ (SectorSize - 1) % SectorSize \in 0 .. SectorSize - 1
    BY <1>1, <1>2
  <2>2. SectorCount(0) = q
    BY <1>1 DEF SectorCount, DivRoundUp
  <2> HIDE DEF q
  <2>3. q >= 1 => q * SectorSize >= SectorSize
    BY <1>1, <2>1
  <2> QED BY <1>1, <2>1, <2>2, <2>3
<1> QED BY <1>2, <1>3, <1>4, <1>5 DEF c

----------------------------------------------------------------------------
\* Where the map, the directory and the data are.
LEMMA Layout ==
  /\ NumDirEntries \in Nat /\ Straddling \in Nat /\ Straddling \in DirEntries
  /\ NumSectors \in Nat /\ NumSectors > 5 /\ MaxCrashes \in Nat
  /\ Sectors \subseteq Nat /\ 0 .. 4 \subseteq Sectors /\ DataArea \subseteq Sectors
  /\ DataArea = Sectors \ 0 .. 4 /\ {0, 1, 2, 3, 4} = 0 .. 4 /\ DirEntries \subseteq Nat
  /\ Names \subseteq Labels /\ NoName \notin Names /\ PerfName \in Names
<1>1. NumDirEntries \in Nat /\ NumSectors \in Nat /\ NumSectors > 5 /\ Straddling \in 1 .. NumDirEntries
  BY FileSystemAssumption
<1>2. 0 .. 4 = {0, 1, 2, 3, 4}
  OBVIOUS
<1> QED BY <1>1, <1>2, FileSystemAssumption DEF Sectors, DataArea, DirEntries, Labels

----------------------------------------------------------------------------
\* The directory: on two sectors and in memory.
LEMMA DirOfType ==
  ASSUME NEW one \in FirstParts, NEW two \in SecondParts
  PROVE  DirOf(one, two) \in Directories
<1>1. \A i \in DirEntries : i <= Straddling => one.slots[i] \in BOOLEAN \X Sectors
  BY Layout DEF FirstParts, DirEntries
<1>2. \A i \in DirEntries : ~(i <= Straddling) => two.slots[i] \in BOOLEAN \X Sectors
  BY Layout DEF SecondParts, DirEntries
<1>3. \A i \in DirEntries : i < Straddling => one.labels[i] \in Labels
  BY Layout DEF FirstParts, DirEntries
<1>4. \A i \in DirEntries : ~(i < Straddling) => two.labels[i] \in Labels
  BY Layout DEF SecondParts, DirEntries
<1>5. \A x \in BOOLEAN \X Sectors : x[1] \in BOOLEAN /\ x[2] \in Sectors
  OBVIOUS
<1> QED BY <1>1, <1>2, <1>3, <1>4, <1>5 DEF DirOf, Directories

LEMMA PartsOfDir ==
  ASSUME NEW dir \in Directories
  PROVE  /\ FirstPart(dir) \in FirstParts /\ SecondPart(dir) \in SecondParts
         /\ DirOf(FirstPart(dir), SecondPart(dir)) = dir
<1>1. \A i \in DirEntries : dir[i].inUse \in BOOLEAN /\ dir[i].sector \in Sectors /\ dir[i].name \in Labels
                            /\ dir[i] = [inUse |-> dir[i].inUse, sector |-> dir[i].sector, name |-> dir[i].name]
  BY DEF Directories
<1>2. /\ \A i \in 1 .. Straddling : i \in DirEntries
      /\ \A i \in 1 .. Straddling - 1 : i \in DirEntries
      /\ \A i \in Straddling + 1 .. NumDirEntries : i \in DirEntries
      /\ \A i \in Straddling .. NumDirEntries : i \in DirEntries
  BY Layout DEF DirEntries
<1>3. [i \in 1 .. Straddling |-> <<dir[i].inUse, dir[i].sector>>] \in [1 .. Straddling -> BOOLEAN \X Sectors]
  BY <1>1, <1>2
<1>4. [i \in 1 .. Straddling - 1 |-> dir[i].name] \in [1 .. Straddling - 1 -> Labels]
  BY <1>1, <1>2
<1>5. [i \in Straddling + 1 .. NumDirEntries |-> <<dir[i].inUse, dir[i].sector>>]
        \in [Straddling + 1 .. NumDirEntries -> BOOLEAN \X Sectors]
  BY <1>1, <1>2
<1>6. [i \in Straddling .. NumDirEntries |-> dir[i].name] \in [Straddling .. NumDirEntries -> Labels]
  BY <1>1, <1>2
<1>7. FirstPart(dir) \in FirstParts
  BY <1>3, <1>4 DEF FirstPart, FirstParts
<1>8. SecondPart(dir) \in SecondParts
  BY <1>5, <1>6 DEF SecondPart, SecondParts
<1> DEFINE other == DirOf(FirstPart(dir), SecondPart(dir))
<1>9. ASSUME NEW i \in DirEntries
      PROVE  other[i] = dir[i]
  <2>1. /\ i <= Straddling => i \in 1 .. Straddling
        /\ i < Straddling => i \in 1 .. Straddling - 1
        /\ ~(i <= Straddling) => i \in Straddling + 1 .. NumDirEntries
        /\ ~(i < Straddling) => i \in Straddling .. NumDirEntries
    BY Layout DEF DirEntries
  <2>2. other[i].inUse = dir[i].inUse
    BY <2>1 DEF DirOf, FirstPart, SecondPart
  <2>3. other[i].sector = dir[i].sector
    BY <2>1 DEF DirOf, FirstPart, SecondPart
  <2>4. other[i].name = dir[i].name
    BY <2>1 DEF DirOf, FirstPart, SecondPart
  <2>5. other[i] = [inUse |-> other[i].inUse, sector |-> other[i].sector, name |-> other[i].name]
    BY DEF DirOf
  <2> QED BY <1>1, <2>2, <2>3, <2>4, <2>5
<1>10. other \in Directories
  BY <1>7, <1>8, DirOfType
<1>11. other = dir
  BY <1>9, <1>10 DEF Directories
<1> QED BY <1>7, <1>8, <1>11

\* The entry Find looks for.
LEMMA FindIndexFinds ==
  ASSUME NEW dir \in Directories, NEW n
  PROVE  /\ FindIndex(dir, n) # 0 <=> \E i \in DirEntries : dir[i].inUse /\ dir[i].name = n
         /\ FindIndex(dir, n) # 0 =>
              /\ FindIndex(dir, n) \in DirEntries
              /\ dir[FindIndex(dir, n)].inUse /\ dir[FindIndex(dir, n)].name = n
<1> DEFINE S == {i \in DirEntries : dir[i].inUse /\ dir[i].name = n}
<1>1. FindIndex(dir, n) = IF S = {} THEN 0 ELSE Min(S)
  BY DEF FindIndex, DirEntries
<1>2. S # {} => Min(S) \in S
  <2>1. S \subseteq Nat
    BY Layout
  <2> QED BY <2>1, MinIsLeast, Zenon
<1>3. 0 \notin DirEntries
  BY DEF DirEntries
<1> QED BY <1>1, <1>2, <1>3

LEMMA FindIndexIs ==
  ASSUME NEW dir \in Directories, NEW n, NEW i \in DirEntries, IsAt(dir, n, i)
  PROVE  FindIndex(dir, n) = i
<1> DEFINE S == {j \in DirEntries : dir[j].inUse /\ dir[j].name = n}
<1>1. FindIndex(dir, n) = IF S = {} THEN 0 ELSE Min(S)
  BY DEF FindIndex, DirEntries
<1>2. i \in S
  BY DEF IsAt
<1>3. Min(S) \in S /\ \A y \in S : Min(S) <= y
  <2>1. S \subseteq Nat
    BY Layout
  <2> QED BY <1>2, <2>1, MinIsLeast, Zenon
<1>4. \A y \in S : ~(y < i)
  <2>1. \A y \in S : y < i => y \in 1 .. i - 1
    BY Layout DEF DirEntries
  <2> QED BY <2>1 DEF IsAt
<1> DEFINE m == Min(S)
<1>5. m \in DirEntries /\ m <= i /\ ~(m < i)
  BY <1>2, <1>3, <1>4
<1> HIDE DEF m
<1>6. m = i
  BY <1>5, Layout
<1> QED BY <1>1, <1>2, <1>6 DEF m

\* What Find finds depends only on the entries with that name.
LEMMA SameIndex ==
  ASSUME NEW dir, NEW new, NEW m,
         \A i \in DirEntries : dir[i].inUse /\ dir[i].name = m <=> new[i].inUse /\ new[i].name = m
  PROVE  FindIndex(new, m) = FindIndex(dir, m)
<1>1. {i \in DirEntries : dir[i].inUse /\ dir[i].name = m} = {i \in DirEntries : new[i].inUse /\ new[i].name = m}
  OBVIOUS
<1> QED BY <1>1 DEF FindIndex, DirEntries

\* A new entry takes the first free place.
LEMMA DirAdded ==
  ASSUME NEW dir \in Directories, NEW n \in Names, NEW s \in Sectors, FreeEntries(dir) # {},
         \A i \in DirEntries : dir[i].inUse => dir[i].name # n
  PROVE  /\ DirAdd(dir, n, s) \in Directories
         /\ \E k \in DirEntries :
              /\ IsAt(DirAdd(dir, n, s), n, k) /\ DirAdd(dir, n, s)[k].sector = s /\ ~dir[k].inUse
              /\ \A i \in DirEntries \ {k} : DirAdd(dir, n, s)[i] = dir[i]
              /\ \A m \in Names \ {n}, i \in DirEntries :
                   IsAt(dir, m, i) => i # k /\ IsAt(DirAdd(dir, n, s), m, i)
              /\ \A m \in Names \ {n} : FindIndex(DirAdd(dir, n, s), m) = FindIndex(dir, m)
<1> DEFINE F == FreeEntries(dir)
           k == Min(F)
           new == DirAdd(dir, n, s)
<1>1. k \in F /\ \A y \in F : k <= y
  <2>1. F \subseteq Nat
    BY DEF FreeEntries
  <2> QED BY <2>1, MinIsLeast, Zenon
<1>2. k \in DirEntries /\ ~dir[k].inUse
  BY <1>1 DEF FreeEntries, DirEntries
<1>3. new = [dir EXCEPT ![k] = [inUse |-> TRUE, sector |-> s, name |-> n]]
  BY DEF DirAdd
<1>4. \A j \in 1 .. k - 1 : j \in DirEntries /\ dir[j].inUse
  <2>1. \A j \in 1 .. k - 1 : j \in DirEntries /\ ~(k <= j)
    BY <1>2, Layout DEF DirEntries
  <2>2. \A j \in DirEntries : ~dir[j].inUse => j \in F
    BY DEF FreeEntries, DirEntries
  <2> QED BY <1>1, <2>1, <2>2
<1> HIDE DEF k, new, F
<1>5. new \in Directories
  BY <1>2, <1>3, Layout DEF Directories
<1>6. new[k] = [inUse |-> TRUE, sector |-> s, name |-> n] /\ \A i \in DirEntries \ {k} : new[i] = dir[i]
  BY <1>2, <1>3 DEF Directories
<1>7. \A j \in 1 .. k - 1 : j # k
  BY <1>2, Layout
<1>8. IsAt(new, n, k)
  BY <1>4, <1>6, <1>7 DEF IsAt
<1>9. ASSUME NEW m \in Names \ {n}, NEW i \in DirEntries, IsAt(dir, m, i)
      PROVE  i # k /\ IsAt(new, m, i)
  <2>1. i # k
    BY <1>2, <1>9 DEF IsAt
  <2>2. \A j \in 1 .. i - 1 : j \in DirEntries /\ dir[j].name # m
    BY <1>9, Layout DEF IsAt, DirEntries
  <2>3. \A j \in 1 .. i - 1 : new[j].name # m
    BY <1>6, <2>2
  <2> QED BY <1>6, <1>9, <2>1, <2>3 DEF IsAt
<1>10. ASSUME NEW m \in Names \ {n}
       PROVE  FindIndex(new, m) = FindIndex(dir, m)
  <2>1. ASSUME NEW i \in DirEntries
        PROVE  dir[i].inUse /\ dir[i].name = m <=> new[i].inUse /\ new[i].name = m
    BY <1>2, <1>6
  <2> QED BY <2>1, SameIndex
<1> QED BY <1>2, <1>5, <1>6, <1>8, <1>9, <1>10 DEF new

\* A removed entry keeps its name.
LEMMA DirRemoved ==
  ASSUME NEW dir \in Directories, NEW n, NEW k, k = FindIndex(dir, n), k # 0
  PROVE  /\ DirRemove(dir, n) \in Directories /\ k \in DirEntries
         /\ ~DirRemove(dir, n)[k].inUse
         /\ \A i \in DirEntries \ {k} : DirRemove(dir, n)[i] = dir[i]
         /\ \A m : \A i \in DirEntries : i # k /\ IsAt(dir, m, i) => IsAt(DirRemove(dir, n), m, i)
         /\ \A m : m # n => FindIndex(DirRemove(dir, n), m) = FindIndex(dir, m)
<1> DEFINE new == DirRemove(dir, n)
<1>0. k \in DirEntries /\ dir[k].inUse /\ dir[k].name = n
  BY FindIndexFinds, Zenon
<1>1. new = [dir EXCEPT ![k].inUse = FALSE]
  BY DEF DirRemove
<1> HIDE DEF new
<1>2. new \in Directories /\ ~new[k].inUse /\ new[k].name = dir[k].name
      /\ \A i \in DirEntries \ {k} : new[i] = dir[i]
  BY <1>0, <1>1 DEF Directories
<1>3. ASSUME NEW m, NEW i \in DirEntries, i # k, IsAt(dir, m, i)
      PROVE  IsAt(new, m, i)
  <2>1. \A j \in 1 .. i - 1 : j \in DirEntries /\ dir[j].name # m
    BY <1>3, Layout DEF IsAt, DirEntries
  <2>2. \A j \in 1 .. i - 1 : new[j].name # m
    BY <1>2, <2>1
  <2> QED BY <1>2, <1>3, <2>2 DEF IsAt
<1>4. ASSUME NEW m, m # n
      PROVE  FindIndex(new, m) = FindIndex(dir, m)
  <2>1. ASSUME NEW i \in DirEntries
        PROVE  dir[i].inUse /\ dir[i].name = m <=> new[i].inUse /\ new[i].name = m
    BY <1>0, <1>2, <1>4
  <2> QED BY <2>1, SameIndex
<1> QED BY <1>0, <1>2, <1>3, <1>4 DEF new

----------------------------------------------------------------------------
\* The disk.
LEMMA SectorsHold ==
  ASSUME NEW s, NEW data
  PROVE  /\ s = 0 => (Fits(s, data) <=> data = [numBytes |-> 1, dataSectors |-> <<2>>])
         /\ s = 1 => (Fits(s, data) <=> data = [numBytes |-> 1, dataSectors |-> <<3, 4>>])
         /\ s = 2 => (Fits(s, data) <=> data \in [bits : Maps])
         /\ s = 3 => (Fits(s, data) <=> data \in FirstParts)
         /\ s = 4 => (Fits(s, data) <=> data \in SecondParts)
         /\ s \in DataArea => (Fits(s, data) <=> data \in [bytes : Buffers] \cup Headers)
<1>1. s \in DataArea => s # 0 /\ s # 1 /\ s # 2 /\ s # 3 /\ s # 4
  BY DEF DataArea
<1>2. s = 0 => (Fits(s, data) <=> data = [numBytes |-> 1, dataSectors |-> <<2>>])
  BY DEF Fits
<1>3. s = 1 => (Fits(s, data) <=> data = [numBytes |-> 1, dataSectors |-> <<3, 4>>])
  BY DEF Fits
<1>4. s = 2 => (Fits(s, data) <=> data \in [bits : Maps])
  BY DEF Fits
<1>5. s = 3 => (Fits(s, data) <=> data \in FirstParts)
  BY DEF Fits
<1>6. s = 4 => (Fits(s, data) <=> data \in SecondParts)
  BY DEF Fits
<1>7. s \in DataArea => (Fits(s, data) <=> data \in [bytes : Buffers] \cup Headers)
  BY <1>1 DEF Fits
<1> QED BY <1>2, <1>3, <1>4, <1>5, <1>6, <1>7

LEMMA ZerosAreBytes == Zeros.bytes \in Buffers /\ Zeros \in [bytes : Buffers]
<1>1. [o \in 0 .. SectorSize - 1 |-> 0] \in Buffers
  BY DEF Buffers
<1> QED BY <1>1 DEF Zeros

LEMMA DiskParts ==
  ASSUME NEW d, IsDisk(d)
  PROVE  /\ d[0] = [numBytes |-> 1, dataSectors |-> <<2>>]
         /\ d[1] = [numBytes |-> 1, dataSectors |-> <<3, 4>>]
         /\ d[2] = [bits |-> MapOn(d)] /\ MapOn(d) \in Maps
         /\ d[3] \in FirstParts /\ d[4] \in SecondParts /\ DirOn(d) \in Directories
         /\ \A s \in DataArea : d[s] \in [bytes : Buffers] \cup Headers /\ BytesOn(d, s) \in Buffers
<1>1. \A s \in Sectors : Fits(s, d[s])
  BY DEF IsDisk
<1>2. 0 \in Sectors /\ 1 \in Sectors /\ 2 \in Sectors /\ 3 \in Sectors /\ 4 \in Sectors
  BY Layout
<1>3. /\ d[0] = [numBytes |-> 1, dataSectors |-> <<2>>] /\ d[1] = [numBytes |-> 1, dataSectors |-> <<3, 4>>]
      /\ d[2] \in [bits : Maps] /\ d[3] \in FirstParts /\ d[4] \in SecondParts
  BY <1>1, <1>2, SectorsHold, Zenon
<1>4. d[2] = [bits |-> MapOn(d)] /\ MapOn(d) \in Maps
  BY <1>3 DEF MapOn
<1>5. DirOn(d) \in Directories
  BY <1>3, DirOfType DEF DirOn
<1>6. ASSUME NEW s \in DataArea
      PROVE  d[s] \in [bytes : Buffers] \cup Headers /\ BytesOn(d, s) \in Buffers
  <2>1. s \in Sectors
    BY Layout
  <2>2. d[s] \in [bytes : Buffers] \cup Headers
    BY <1>1, <2>1, SectorsHold, Zenon
  <2>3. d[s] \in [bytes : Buffers] => DOMAIN d[s] = {"bytes"} /\ d[s].bytes \in Buffers
    OBVIOUS
  <2>4. d[s] \in Headers => DOMAIN d[s] = {"numBytes", "dataSectors"}
    BY DEF Headers
  <2> QED BY <2>2, <2>3, <2>4, ZerosAreBytes DEF BytesOn
<1> QED BY <1>3, <1>4, <1>5, <1>6

\* The model's own operators read the disk as it is.
LEMMA OnTheDisk ==
  ASSUME IsDisk(disk)
  PROVE  /\ MapData = 2 /\ DirData = <<3, 4>> /\ SystemSectors = 0 .. 4
         /\ FreeMap = MapOn(disk) /\ TheDirectory = DirOn(disk)
         /\ \A n : /\ Exists(n) <=> FindIndex(DirOn(disk), n) # 0
                   /\ SectorOf(n) = SectorOn(disk, n) /\ HeaderOf(n) = HeaderOn(disk, n)
                   /\ OwnSectors(n) = OwnOn(disk, n)
         /\ \A s : BytesAt(s) = BytesOn(disk, s)
<1>1. MapData = 2 /\ DirData = <<3, 4>>
  <2>1. disk[0] = [numBytes |-> 1, dataSectors |-> <<2>>] /\ disk[1] = [numBytes |-> 1, dataSectors |-> <<3, 4>>]
    BY DiskParts, Zenon
  <2>2. disk[0].dataSectors = <<2>> /\ disk[1].dataSectors = <<3, 4>>
    BY <2>1
  <2> QED BY <2>2 DEF MapData, DirData, HeaderAt, FreeMapSector, DirectorySector
<1>2. ToSet(<<3, 4>>) = {3, 4}
  BY DEF ToSet
<1>3. SystemSectors = 0 .. 4
  BY <1>1, <1>2, Layout DEF SystemSectors, FreeMapSector, DirectorySector
<1>4. FreeMap = MapOn(disk)
  BY <1>1 DEF FreeMap, MapOn
<1>5. TheDirectory = DirOn(disk)
  <2>1. DirData[1] = 3 /\ DirData[2] = 4
    BY <1>1
  <2>2. \A i \in DirEntries : TheDirectory[i] = DirOn(disk)[i]
    BY <2>1 DEF TheDirectory, DirOn, DirOf, DirEntries
  <2> QED BY <2>2 DEF TheDirectory, DirOn, DirOf, DirEntries
<1>6. \A n : SectorOf(n) = SectorOn(disk, n) /\ (Exists(n) <=> FindIndex(DirOn(disk), n) # 0)
  BY <1>5 DEF SectorOf, SectorOn, Exists
<1>7. \A n : HeaderOf(n) = HeaderOn(disk, n)
  BY <1>6 DEF HeaderOf, HeaderOn, HeaderAt
<1>8. \A n : OwnSectors(n) = OwnOn(disk, n)
  BY <1>6, <1>7 DEF OwnSectors, OwnOn
<1>9. \A s : BytesAt(s) = BytesOn(disk, s)
  BY DEF BytesAt, BytesOn
<1> QED BY <1>1, <1>3, <1>4, <1>5, <1>6, <1>7, <1>8, <1>9

\* Where a file with an entry is.
LEMMA EntryFound ==
  ASSUME NEW d, IsDisk(d), NEW n, NEW i \in DirEntries, IsAt(DirOn(d), n, i)
  PROVE  /\ FindIndex(DirOn(d), n) = i /\ i # 0
         /\ SectorOn(d, n) = DirOn(d)[i].sector /\ SectorOn(d, n) \in Sectors
<1>1. DirOn(d) \in Directories
  BY DiskParts
<1>2. FindIndex(DirOn(d), n) = i
  BY <1>1, FindIndexIs
<1> QED BY <1>1, <1>2 DEF SectorOn, Directories, DirEntries

LEMMA OwnersSectors ==
  ASSUME NEW d, IsDisk(d), NEW n, HasSectors(d, n)
  PROVE  /\ OwnOn(d, n) \subseteq DataArea /\ SectorOn(d, n) \in OwnOn(d, n)
         /\ HeaderOn(d, n) \in Headers /\ HeaderOn(d, n).dataSectors \in Seq(DataArea)
         /\ Len(HeaderOn(d, n).dataSectors) = SectorCount(HeaderOn(d, n).numBytes)
         /\ \A k \in 1 .. Len(HeaderOn(d, n).dataSectors) :
              /\ HeaderOn(d, n).dataSectors[k] \in OwnOn(d, n)
              /\ HeaderOn(d, n).dataSectors[k] # SectorOn(d, n)
<1> DEFINE h == HeaderOn(d, n)
<1>1. h \in Headers /\ SectorOn(d, n) \in DataArea /\ SectorOn(d, n) \notin ToSet(h.dataSectors)
  BY DEF HasSectors
<1>2. h.dataSectors \in Seq(DataArea) /\ Len(h.dataSectors) = SectorCount(h.numBytes)
  BY <1>1 DEF Headers
<1> HIDE DEF h
<1>3. \A k \in 1 .. Len(h.dataSectors) : h.dataSectors[k] \in ToSet(h.dataSectors)
  BY <1>2 DEF ToSet
<1>4. ToSet(h.dataSectors) \subseteq DataArea
  BY <1>2 DEF ToSet
<1>5. OwnOn(d, n) = {SectorOn(d, n)} \cup ToSet(h.dataSectors)
  BY DEF OwnOn, h
<1> QED BY <1>1, <1>2, <1>3, <1>4, <1>5 DEF h

----------------------------------------------------------------------------
\* The pending writes.
LEMMA AfterIs ==
  ASSUME NEW d, IsDisk(d), NEW w, AreWrites(w)
  PROVE  /\ IsDisk(After(d, w)) /\ Targets(w) \subseteq Sectors \ {0, 1}
         /\ \A k \in DOMAIN w : w[k].sector \in Targets(w) /\ After(d, w)[w[k].sector] = w[k].data
         /\ \A s \in Sectors \ Targets(w) : After(d, w)[s] = d[s]
         /\ w = << >> => After(d, w) = d /\ Targets(w) = {}
<1> DEFINE e == After(d, w)
<1>1. w \in Seq(Writes) /\ DOMAIN w = 1 .. Len(w) /\ \A k \in DOMAIN w : w[k] \in Writes /\ w[k].sector \in Sectors \ {0, 1}
  <2>1. w \in Seq(Writes)
    BY Zenon DEF AreWrites
  <2>2. DOMAIN w = 1 .. Len(w) /\ \A k \in DOMAIN w : w[k] \in Writes
    BY <2>1
  <2>3. \A x \in Writes : x.sector \in Sectors \ {0, 1}
    BY DEF Writes
  <2> QED BY <2>1, <2>2, <2>3
<1>2. \A k \in DOMAIN w : w[k].sector \in Targets(w)
  BY DEF Targets
<1>3. Targets(w) \subseteq Sectors \ {0, 1}
  BY <1>1 DEF Targets
<1>4. ASSUME NEW k \in DOMAIN w
      PROVE  e[w[k].sector] = w[k].data
  <2> DEFINE c == CHOOSE j \in DOMAIN w : w[j].sector = w[k].sector
  <2>1. c \in DOMAIN w /\ w[c].sector = w[k].sector
    OBVIOUS
  <2>2. c = k
    <3> HIDE DEF c
    <3> QED BY <2>1 DEF AreWrites
  <2>3. e[w[k].sector] = w[c].data
    BY <1>1, <1>2 DEF After
  <2> HIDE DEF c
  <2> QED BY <2>2, <2>3
<1>5. \A s \in Sectors \ Targets(w) : e[s] = d[s]
  BY DEF After
<1>6. e = [s \in Sectors |-> e[s]]
  BY DEF After
<1> HIDE DEF e
<1>7. ASSUME NEW s \in Sectors
      PROVE  Fits(s, e[s])
  <2>1. CASE s \in Targets(w)
    <3>1. PICK k \in DOMAIN w : w[k].sector = s
      BY <2>1 DEF Targets
    <3> QED BY <1>4, <3>1, Zenon DEF AreWrites
  <2>2. CASE s \notin Targets(w)
    BY <1>5, <2>2, Zenon DEF IsDisk
  <2> QED BY <2>1, <2>2
<1>8. IsDisk(e)
  BY <1>6, <1>7, Zenon DEF IsDisk
<1>9. ASSUME w = << >>
      PROVE  e = d /\ Targets(w) = {}
  <2>1. DOMAIN w = {}
    BY <1>9
  <2>2. Targets(w) = {}
    BY <2>1 DEF Targets
  <2>3. \A s \in Sectors : e[s] = d[s]
    BY <1>5, <2>2
  <2>4. [s \in Sectors |-> e[s]] = [s \in Sectors |-> d[s]]
    BY <2>3
  <2> QED BY <1>6, <2>2, <2>4, Zenon DEF IsDisk
<1> QED BY <1>2, <1>3, <1>4, <1>5, <1>8, <1>9 DEF e

\* e is the disk d when the first sector of w is written.
IsNext(d, w, e) == e = [d EXCEPT ![Head(w).sector] = Head(w).data]

\* A sector write brings the disk nearer to what it will be.
LEMMA OneIsWritten ==
  ASSUME NEW d, IsDisk(d), NEW w, AreWrites(w), w # << >>,
         NEW e, IsNext(d, w, e)
  PROVE  /\ IsDisk(e) /\ AreWrites(Tail(w)) /\ After(e, Tail(w)) = After(d, w)
         /\ Targets(Tail(w)) \subseteq Targets(w)
         /\ \A s \in Sectors : e[s] = d[s] \/ e[s] = After(d, w)[s]
         /\ e[Head(w).sector] = After(d, w)[Head(w).sector]
         /\ \A s \in Sectors : s # Head(w).sector => e[s] = d[s]
<1> DEFINE t == Tail(w)
           s1 == w[1].sector
<1>1. w \in Seq(Writes) /\ DOMAIN w = 1 .. Len(w) /\ Len(w) \in Nat /\ Len(w) # 0 /\ Head(w) = w[1] /\ 1 \in DOMAIN w
  BY DEF AreWrites
<1>2. t \in Seq(Writes) /\ Len(t) = Len(w) - 1 /\ DOMAIN t = 1 .. Len(w) - 1
  BY <1>1
<1>3. \A k \in DOMAIN t : k + 1 \in DOMAIN w /\ t[k] = w[k + 1] /\ k \in Nat
  BY <1>1, <1>2
<1>4. \A k \in DOMAIN w : k # 1 => k - 1 \in DOMAIN t /\ t[k - 1] = w[k]
  BY <1>1, <1>2
<1> HIDE DEF t
<1>5. s1 \in Sectors
  <2>1. w[1] \in Writes
    BY <1>1
  <2> QED BY <2>1 DEF Writes
<1>6. e = [s \in Sectors |-> e[s]] /\ e[s1] = w[1].data /\ \A s \in Sectors \ {s1} : e[s] = d[s]
  <2>1. d = [s \in Sectors |-> d[s]]
    BY Zenon DEF IsDisk
  <2> QED BY <1>1, <1>5, <2>1 DEF IsNext
<1>7. IsDisk(e)
  <2>1. Fits(s1, w[1].data)
    BY <1>1, Zenon DEF AreWrites
  <2>2. \A s \in Sectors : Fits(s, e[s])
    BY <1>6, <2>1, Zenon DEF IsDisk
  <2> QED BY <1>6, <2>2, Zenon DEF IsDisk
<1>8. AreWrites(t)
  <2>1. \A k \in DOMAIN t : Fits(t[k].sector, t[k].data)
    BY <1>3, Zenon DEF AreWrites
  <2>2. ASSUME NEW j \in DOMAIN t, NEW k \in DOMAIN t, t[j].sector = t[k].sector
        PROVE  j = k
    <3>1. j + 1 = k + 1
      BY <1>3, <2>2, Zenon DEF AreWrites
    <3> QED BY <1>3, <3>1
  <2> QED BY <1>2, <2>1, <2>2, Zenon DEF AreWrites
<1>9. \A s : s \in Targets(t) <=> s \in Targets(w) /\ s # s1
  <2>1. \A k \in DOMAIN t : t[k].sector \in Targets(w) /\ t[k].sector # s1
    <3> SUFFICES ASSUME NEW k \in DOMAIN t
                 PROVE  t[k].sector \in Targets(w) /\ t[k].sector # s1
      OBVIOUS
    <3>1. k + 1 \in DOMAIN w /\ t[k] = w[k + 1] /\ k + 1 # 1
      BY <1>3
    <3> QED BY <1>1, <3>1, Zenon DEF AreWrites, Targets
  <2>2. \A k \in DOMAIN w : w[k].sector # s1 => w[k].sector \in Targets(t)
    <3> SUFFICES ASSUME NEW k \in DOMAIN w, w[k].sector # s1
                 PROVE  w[k].sector \in Targets(t)
      OBVIOUS
    <3>1. k # 1
      OBVIOUS
    <3>2. k - 1 \in DOMAIN t /\ t[k - 1] = w[k]
      BY <1>4, <3>1
    <3> QED BY <3>2, Zenon DEF Targets
  <2> QED BY <2>1, <2>2, Zenon DEF Targets
<1> DEFINE now == After(d, w)
           then == After(e, t)
<1>10. /\ IsDisk(now) /\ \A k \in DOMAIN w : now[w[k].sector] = w[k].data
       /\ \A s \in Sectors \ Targets(w) : now[s] = d[s]
  BY AfterIs
<1>11. /\ IsDisk(then) /\ \A k \in DOMAIN t : then[t[k].sector] = t[k].data
       /\ \A s \in Sectors \ Targets(t) : then[s] = e[s]
  <2>1. IsDisk(After(e, t))
    BY <1>7, <1>8, AfterIs, Zenon
  <2>2. \A k \in DOMAIN t : After(e, t)[t[k].sector] = t[k].data
    BY <1>7, <1>8, AfterIs
  <2>3. \A s \in Sectors \ Targets(t) : After(e, t)[s] = e[s]
    BY <1>7, <1>8, AfterIs, Zenon
  <2> QED BY <2>1, <2>2, <2>3
<1> HIDE DEF now, then
<1>12. ASSUME NEW s \in Sectors
       PROVE  then[s] = now[s]
  <2>1. CASE s \in Targets(t)
    <3>1. PICK k \in DOMAIN t : t[k].sector = s
      BY <2>1 DEF Targets
    <3>2. k + 1 \in DOMAIN w /\ t[k] = w[k + 1]
      BY <1>3
    <3> QED BY <1>10, <1>11, <3>1, <3>2
  <2>2. CASE s = s1
    BY <1>1, <1>5, <1>6, <1>9, <1>10, <1>11, <2>2
  <2>3. CASE s \notin Targets(t) /\ s # s1
    BY <1>6, <1>9, <1>10, <1>11, <2>3
  <2> QED BY <2>1, <2>2, <2>3
<1>13. then = now
  <2>1. [s \in Sectors |-> then[s]] = [s \in Sectors |-> now[s]]
    BY <1>12
  <2> QED BY <1>10, <1>11, <2>1, Zenon DEF IsDisk
<1>14. \A s \in Sectors : e[s] = d[s] \/ e[s] = now[s]
  BY <1>1, <1>6, <1>10
<1>15. Targets(t) \subseteq Targets(w)
  BY <1>9, Zenon
<1>16. e[Head(w).sector] = now[Head(w).sector] /\ \A s \in Sectors : s # Head(w).sector => e[s] = d[s]
  BY <1>1, <1>6, <1>10
<1> QED BY <1>7, <1>8, <1>13, <1>14, <1>15, <1>16 DEF now, then, t

----------------------------------------------------------------------------
\* The bytes of a file are in its sectors.
LEMMA ByteIsInFile ==
  ASSUME NEW hdr \in Headers, NEW p \in 0 .. hdr.numBytes - 1
  PROVE  /\ p \div SectorSize + 1 \in 1 .. Len(hdr.dataSectors)
         /\ hdr.dataSectors[p \div SectorSize + 1] \in ToSet(hdr.dataSectors)
         /\ ToSet(hdr.dataSectors) \subseteq DataArea
         /\ \A d : IsDisk(d) => ByteOn(d, hdr, p) \in Nat
<1>1. hdr.numBytes \in Nat /\ hdr.dataSectors \in Seq(DataArea) /\ Len(hdr.dataSectors) = SectorCount(hdr.numBytes)
  BY DEF Headers
<1>2. p \div SectorSize + 1 \in 1 .. Len(hdr.dataSectors)
  BY <1>1, SectorOfByte
<1>3. p % SectorSize \in 0 .. SectorSize - 1
  BY <1>1, SectorOfByte
<1> DEFINE k == p \div SectorSize + 1
           o == p % SectorSize
<1> HIDE DEF k, o
<1>4. hdr.dataSectors[k] \in ToSet(hdr.dataSectors) /\ hdr.dataSectors[k] \in DataArea
  BY <1>1, <1>2 DEF k, ToSet
<1>5. ToSet(hdr.dataSectors) \subseteq DataArea
  BY <1>1 DEF ToSet
<1>6. ASSUME NEW d, IsDisk(d)
      PROVE  ByteOn(d, hdr, p) \in Nat
  <2>1. BytesOn(d, hdr.dataSectors[k]) \in Buffers
    BY <1>4, <1>6, DiskParts, Zenon
  <2>2. BytesOn(d, hdr.dataSectors[k])[o] \in Nat
    BY <1>3, <2>1 DEF Buffers, o
  <2> QED BY <2>2 DEF ByteOn, k, o
<1> QED BY <1>2, <1>4, <1>5, <1>6 DEF k

\* A file stays where it is when its entry and its header do.
LEMMA FileStays ==
  ASSUME NEW d, IsDisk(d), NEW e, IsDisk(e), NEW n, HasSectors(d, n),
         NEW i \in DirEntries, IsAt(DirOn(d), n, i), IsAt(DirOn(e), n, i),
         DirOn(e)[i].sector = DirOn(d)[i].sector,
         e[SectorOn(d, n)] = d[SectorOn(d, n)], OwnOn(d, n) \subseteq MapOn(e)
  PROVE  /\ SectorOn(e, n) = SectorOn(d, n) /\ HeaderOn(e, n) = HeaderOn(d, n) /\ OwnOn(e, n) = OwnOn(d, n)
         /\ HasSectors(e, n) /\ FindIndex(DirOn(e), n) # 0
<1>1. SectorOn(e, n) = SectorOn(d, n) /\ FindIndex(DirOn(e), n) # 0
  BY EntryFound
<1>2. HeaderOn(e, n) = HeaderOn(d, n)
  BY <1>1 DEF HeaderOn
<1>3. OwnOn(e, n) = OwnOn(d, n)
  BY <1>1, <1>2 DEF OwnOn
<1>4. HasSectors(e, n)
  BY <1>1, <1>2, <1>3 DEF HasSectors
<1> QED BY <1>1, <1>2, <1>3, <1>4

\* ... and so do its bytes when its sectors do.
LEMMA BytesStay ==
  ASSUME NEW d, NEW e, NEW hdr \in Headers, NEW bytes, NEW m \in 0 .. hdr.numBytes, HasBytes(d, hdr, bytes, m),
         \A s \in ToSet(hdr.dataSectors) : e[s] = d[s]
  PROVE  HasBytes(e, hdr, bytes, m)
<1>0. hdr.numBytes \in Nat
  BY DEF Headers
<1> SUFFICES ASSUME NEW p \in 0 .. m - 1
             PROVE  ByteOn(e, hdr, p) = bytes[p + 1]
  BY DEF HasBytes
<1>1. p \in 0 .. hdr.numBytes - 1
  BY <1>0
<1>2. hdr.dataSectors[p \div SectorSize + 1] \in ToSet(hdr.dataSectors)
  BY <1>1, ByteIsInFile, Zenon
<1>3. ByteOn(e, hdr, p) = ByteOn(d, hdr, p)
  BY <1>2, Zenon DEF ByteOn, BytesOn
<1> QED BY <1>3 DEF HasBytes

LEMMA SavedStays ==
  ASSUME NEW d, NEW e, NEW n, NEW bytes \in Seq(Nat), HeaderOn(d, n) \in Headers, IsSaved(d, n, bytes),
         HeaderOn(e, n) = HeaderOn(d, n), \A s \in OwnOn(d, n) : e[s] = d[s]
  PROVE  IsSaved(e, n, bytes)
<1> DEFINE h == HeaderOn(d, n)
<1>1. h.numBytes = Len(bytes) /\ HasBytes(d, h, bytes, Len(bytes)) /\ Len(bytes) \in 0 .. h.numBytes
  BY DEF IsSaved
<1>2. \A s \in ToSet(h.dataSectors) : e[s] = d[s]
  BY Zenon DEF OwnOn
<1>3. HasBytes(e, h, bytes, Len(bytes))
  BY <1>1, <1>2, BytesStay, Zenon
<1> QED BY <1>1, <1>3 DEF IsSaved

\* What is kept on a disk is as it will be.
LEMMA KeptIsThere ==
  ASSUME NEW d, IsDisk(d), NEW e, IsDisk(e), NEW n, NEW sectors, HasSectors(d, n), IsKept(d, e, n, sectors),
         \A s \in Sectors \ sectors : d[s] = e[s]
  PROVE  /\ SectorOn(e, n) = SectorOn(d, n) /\ HeaderOn(e, n) = HeaderOn(d, n) /\ OwnOn(e, n) = OwnOn(d, n)
         /\ HasSectors(e, n) /\ FindIndex(DirOn(e), n) # 0
         /\ \A s \in OwnOn(d, n) : e[s] = d[s]
         /\ \A bytes \in Seq(Nat) : IsSaved(d, n, bytes) => IsSaved(e, n, bytes)
<1>1. PICK i \in DirEntries : IsAt(DirOn(d), n, i) /\ IsAt(DirOn(e), n, i) /\ DirOn(e)[i] = DirOn(d)[i]
  BY DEF IsKept
<1>2. OwnOn(d, n) \subseteq MapOn(e) /\ sectors \cap OwnOn(d, n) = {}
  BY DEF IsKept
<1>3. OwnOn(d, n) \subseteq Sectors /\ SectorOn(d, n) \in OwnOn(d, n) /\ HeaderOn(d, n) \in Headers
  BY OwnersSectors, Layout
<1>4. \A s \in OwnOn(d, n) : e[s] = d[s]
  BY <1>2, <1>3
<1>5. /\ SectorOn(e, n) = SectorOn(d, n) /\ HeaderOn(e, n) = HeaderOn(d, n) /\ OwnOn(e, n) = OwnOn(d, n)
      /\ HasSectors(e, n) /\ FindIndex(DirOn(e), n) # 0
  BY <1>1, <1>2, <1>3, <1>4, FileStays, Zenon
<1>6. \A bytes \in Seq(Nat) : IsSaved(d, n, bytes) => IsSaved(e, n, bytes)
  BY <1>3, <1>4, <1>5, SavedStays, Zenon
<1> QED BY <1>4, <1>5, <1>6

\* A file is kept when a sector is written.
LEMMA KeptWhenWritten ==
  ASSUME NEW d, IsDisk(d), NEW e, IsDisk(e), NEW f, IsDisk(f), NEW n \in Names, NEW sectors, NEW fewer,
         fewer \subseteq sectors, HasSectors(d, n), IsKept(d, e, n, sectors),
         \A s \in Sectors : f[s] = e[s] \/ f[s] = d[s]
  PROVE  IsKept(d, f, n, fewer)
<1>1. PICK i \in DirEntries : IsAt(DirOn(d), n, i) /\ IsAt(DirOn(e), n, i) /\ DirOn(e)[i] = DirOn(d)[i]
  BY DEF IsKept
<1>2. 2 \in Sectors /\ 3 \in Sectors /\ 4 \in Sectors
  BY Layout
<1>3. (f[2] = e[2] \/ f[2] = d[2]) /\ (f[3] = e[3] \/ f[3] = d[3]) /\ (f[4] = e[4] \/ f[4] = d[4])
  BY <1>2
<1>4. OwnOn(d, n) \subseteq MapOn(f)
  BY <1>3 DEF IsKept, HasSectors, MapOn
<1>5. DirOn(d) \in Directories /\ DirOn(e) \in Directories /\ DirOn(f) \in Directories
  BY DiskParts
<1>6. ASSUME NEW j \in DirEntries
      PROVE  /\ DirOn(f)[j].inUse = DirOn(e)[j].inUse \/ DirOn(f)[j].inUse = DirOn(d)[j].inUse
             /\ DirOn(f)[j].sector = DirOn(e)[j].sector \/ DirOn(f)[j].sector = DirOn(d)[j].sector
             /\ DirOn(f)[j].name = DirOn(e)[j].name \/ DirOn(f)[j].name = DirOn(d)[j].name
  BY <1>3 DEF DirOn, DirOf
<1>7. DirOn(f)[i].inUse = DirOn(d)[i].inUse /\ DirOn(f)[i].sector = DirOn(d)[i].sector
      /\ DirOn(f)[i].name = DirOn(d)[i].name
  BY <1>1, <1>6
<1>8. DirOn(f)[i] = DirOn(d)[i]
  BY <1>5, <1>7 DEF Directories
<1>9. IsAt(DirOn(f), n, i)
  <2>1. \A j \in 1 .. i - 1 : j \in DirEntries
    BY Layout DEF DirEntries
  <2>2. \A j \in 1 .. i - 1 : DirOn(d)[j].name # n /\ DirOn(e)[j].name # n
    BY <1>1 DEF IsAt
  <2>3. \A j \in 1 .. i - 1 : DirOn(f)[j].name # n
    BY <1>6, <2>1, <2>2
  <2> QED BY <1>1, <1>8, <2>3 DEF IsAt
<1>10. fewer \cap OwnOn(d, n) = {}
  BY DEF IsKept
<1> QED BY <1>1, <1>4, <1>8, <1>9, <1>10 DEF IsKept

----------------------------------------------------------------------------
\* The marks: Find finds, as often as there are clear sectors.
LEMMA ClearIsFinite ==
  ASSUME NEW marks \in SUBSET Sectors
  PROVE  /\ IsFiniteSet(Sectors \ marks) /\ Cardinality(Sectors \ marks) \in Nat
         /\ NumClear(marks) = Cardinality(Sectors \ marks)
<1>1. NumSectors \in Nat /\ Sectors = 0 .. NumSectors - 1 /\ NumSectors - 1 \in Int /\ 0 \in Int /\ ~(0 > NumSectors - 1)
  BY Layout DEF Sectors
<1>2. IsFiniteSet(Sectors) /\ Cardinality(Sectors) = NumSectors - 1 - 0 + 1
  BY <1>1, FS_Interval
<1>3. IsFiniteSet(marks) /\ Cardinality(marks) \in Nat
  BY <1>2, FS_Subset, FS_CardinalityType
<1>4. Sectors \cap marks = marks
  OBVIOUS
<1>5. IsFiniteSet(Sectors \ marks) /\ Cardinality(Sectors \ marks) = Cardinality(Sectors) - Cardinality(marks)
  BY <1>2, <1>4, FS_Difference
<1>6. Cardinality(Sectors \ marks) \in Nat
  BY <1>5, FS_CardinalityType
<1>7. NumClear(marks) = Cardinality(Sectors \ marks)
  BY <1>1, <1>2, <1>3, <1>5 DEF NumClear
<1> QED BY <1>5, <1>6, <1>7

\* The nth clear sector.
LEMMA NthClearExists ==
  ASSUME NEW marks \in SUBSET Sectors, NEW n \in Nat \ {0}, n <= Cardinality(Sectors \ marks)
  PROVE  \E s \in Sectors \ marks : Cardinality(ClearBelow(marks, s)) = n - 1
<1> DEFINE F == Sectors \ marks
           Below(m) == {r \in F : r < m}
           M == {m \in Nat : Cardinality(Below(m)) >= n}
<1>1. IsFiniteSet(F) /\ F \subseteq Nat /\ \A q \in F : q < NumSectors
  BY ClearIsFinite, Layout DEF Sectors
<1>2. \A m \in Nat : IsFiniteSet(Below(m)) /\ Cardinality(Below(m)) \in Nat
  <2> SUFFICES ASSUME NEW m \in Nat
               PROVE  IsFiniteSet(Below(m)) /\ Cardinality(Below(m)) \in Nat
    OBVIOUS
  <2>1. Below(m) \in SUBSET F
    OBVIOUS
  <2> QED BY <1>1, <2>1, FS_Subset, FS_CardinalityType
<1>3. Below(0) = {} /\ Cardinality(Below(0)) = 0
  <2>1. Below(0) = {}
    BY <1>1
  <2> QED BY <2>1, FS_EmptySet
<1>4. Below(NumSectors) = F
  BY <1>1
<1>5. NumSectors \in M /\ M \in SUBSET Nat
  <2>1. Cardinality(F) >= n
    BY ClearIsFinite
  <2> QED BY <1>4, <2>1, Layout
<1>6. PICK m \in M : \A k \in M : m <= k
  BY <1>5, LeastNumber, Zenon
<1>7. m # 0
  BY <1>3, <1>6
<1>8. m - 1 \in Nat /\ Cardinality(Below(m - 1)) < n
  <2>1. m - 1 \in Nat /\ ~(m <= m - 1)
    BY <1>6, <1>7
  <2>2. m - 1 \notin M
    BY <1>6, <2>1
  <2> QED BY <1>2, <2>1, <2>2
<1>9. ASSUME m - 1 \notin F
      PROVE  FALSE
  <2>1. Below(m) = Below(m - 1)
    BY <1>1, <1>6, <1>8, <1>9
  <2> QED BY <1>2, <1>6, <1>8, <2>1
<1>10. Below(m) = Below(m - 1) \cup {m - 1} /\ m - 1 \notin Below(m - 1)
  BY <1>1, <1>6, <1>8, <1>9
<1>11. Cardinality(Below(m)) = Cardinality(Below(m - 1)) + 1
  BY <1>2, <1>8, <1>10, FS_AddElement
<1>12. Cardinality(Below(m)) >= n /\ Cardinality(Below(m - 1)) \in Nat
  BY <1>2, <1>6, <1>8
<1>13. Cardinality(Below(m - 1)) = n - 1
  BY <1>8, <1>11, <1>12
<1>14. Cardinality(ClearBelow(marks, m - 1)) = n - 1
  BY <1>13 DEF ClearBelow
<1> QED BY <1>9, <1>14

\* n calls of Find find n clear sectors.
LEMMA FoundSectors ==
  ASSUME NEW marks \in SUBSET Sectors, NEW n \in Nat, n <= Cardinality(Sectors \ marks)
  PROVE  /\ FindSectors(marks, n) \in Seq(Sectors \ marks) /\ Len(FindSectors(marks, n)) = n
         /\ \A i, j \in 1 .. n : FindSectors(marks, n)[i] = FindSectors(marks, n)[j] => i = j
<1> DEFINE found == FindSectors(marks, n)
<1>1. ASSUME NEW k \in 1 .. n
      PROVE  found[k] \in Sectors \ marks /\ Cardinality(ClearBelow(marks, found[k])) = k - 1
  <2>1. k \in Nat \ {0} /\ k <= Cardinality(Sectors \ marks)
    BY ClearIsFinite
  <2>2. \E s \in Sectors \ marks : Cardinality(ClearBelow(marks, s)) = k - 1
    BY <2>1, NthClearExists
  <2>3. found[k] = CHOOSE s \in Sectors \ marks : Cardinality(ClearBelow(marks, s)) = k - 1
    BY DEF FindSectors
  <2> QED BY <2>2, <2>3, Zenon
<1>2. found = [k \in 1 .. n |-> found[k]]
  BY DEF FindSectors
<1> HIDE DEF found
<1>3. found \in [1 .. n -> Sectors \ marks]
  BY <1>1, <1>2
<1>4. found \in Seq(Sectors \ marks) /\ Len(found) = n
  BY <1>3
<1>5. \A i, j \in 1 .. n : found[i] = found[j] => i - 1 = j - 1
  BY <1>1, Zenon
<1>6. \A i, j \in 1 .. n : i - 1 = j - 1 => i = j
  OBVIOUS
<1> QED BY <1>4, <1>5, <1>6, Zenon DEF found

\* What Create finds: a sector for the header and others for the data.
LEMMA AllocatedIs ==
  ASSUME NEW marks \in Maps, NEW size \in Nat, NumClear(marks) # 0, ~(NumClear(marks) - 1 < SectorCount(size)),
         NEW s, s = FindSectors(marks, 1)[1], NEW hdr, hdr = Allocated(marks \cup {s}, size)
  PROVE  /\ s \in DataArea /\ s \notin marks
         /\ hdr \in Headers /\ hdr.numBytes = size /\ ToSet(hdr.dataSectors) \cap (marks \cup {s}) = {}
<1>1. marks \in SUBSET Sectors /\ Sectors \ marks \subseteq DataArea
  BY Layout DEF Maps
<1> DEFINE c == Cardinality(Sectors \ marks)
           all == marks \cup {s}
           n == SectorCount(size)
<1>2. c \in Nat /\ NumClear(marks) = c /\ c # 0 /\ ~(c - 1 < n) /\ n \in Nat
  BY <1>1, ClearIsFinite, SectorOfByte
<1>3. s \in Sectors \ marks
  <2>1. 1 <= Cardinality(Sectors \ marks)
    BY <1>2
  <2>2. FindSectors(marks, 1) \in Seq(Sectors \ marks) /\ Len(FindSectors(marks, 1)) = 1
    BY <1>1, <2>1, FoundSectors
  <2> QED BY <2>2
<1>4. all \in SUBSET Sectors /\ Sectors \ all = (Sectors \ marks) \ {s}
  BY <1>1, <1>3
<1>5. Cardinality(Sectors \ all) = c - 1
  <2>1. IsFiniteSet(Sectors \ marks)
    BY <1>1, ClearIsFinite
  <2>2. IsFiniteSet(Sectors \ all) /\ s \notin Sectors \ all
    BY <1>4, ClearIsFinite
  <2>3. Sectors \ marks = (Sectors \ all) \cup {s}
    BY <1>3, <1>4
  <2>4. c = Cardinality(Sectors \ all) + 1
    <3> DEFINE rest == Sectors \ all
    <3>1. IsFiniteSet(rest) /\ s \notin rest
      BY <2>2, Zenon
    <3>2. c = Cardinality(rest \cup {s})
      BY <2>3, Zenon
    <3> HIDE DEF rest, c
    <3>3. Cardinality(rest \cup {s}) = Cardinality(rest) + 1
      BY <3>1, FS_AddElement, Zenon
    <3> QED BY <3>2, <3>3, Zenon DEF rest
  <2>5. Cardinality(Sectors \ all) \in Nat
    BY <2>2, FS_CardinalityType
  <2> QED BY <1>2, <2>4, <2>5
<1> DEFINE found == FindSectors(all, n)
<1>6. found \in Seq(Sectors \ all) /\ Len(found) = n /\ \A i, j \in 1 .. n : found[i] = found[j] => i = j
  <2>1. n <= Cardinality(Sectors \ all)
    BY <1>2, <1>5
  <2> QED BY <1>2, <1>4, <2>1, FoundSectors
<1>7. hdr = [numBytes |-> size, dataSectors |-> found]
  BY DEF Allocated, SectorCount
<1> HIDE DEF found, n
<1>8. found \in Seq(DataArea)
  <2>1. Sectors \ all \subseteq DataArea
    BY <1>1
  <2> QED BY <1>6, <2>1
<1>9. ToSet(found) \cap all = {}
  BY <1>6 DEF ToSet
<1>10. hdr \in [numBytes : Nat, dataSectors : Seq(DataArea)]
  BY <1>7, <1>8
<1>11. hdr.numBytes = size /\ hdr.dataSectors = found
  BY <1>7
<1>12. Len(hdr.dataSectors) = SectorCount(hdr.numBytes)
  BY <1>6, <1>11 DEF n
<1>13. \A i, j \in 1 .. Len(hdr.dataSectors) : hdr.dataSectors[i] = hdr.dataSectors[j] => i = j
  <2>1. \A i, j \in 1 .. Len(found) : found[i] = found[j] => i = j
    BY <1>6
  <2>2. hdr.dataSectors = found
    BY <1>11
  <2> QED BY <2>1, <2>2
<1>14. hdr \in Headers
  BY <1>10, <1>12, <1>13, Zenon DEF Headers
<1>15. s \in DataArea /\ s \notin marks
  BY <1>1, <1>3
<1>16. ToSet(hdr.dataSectors) \cap all = {}
  BY <1>9, <1>11
<1> QED BY <1>11, <1>14, <1>15, <1>16

----------------------------------------------------------------------------
\* The steps that write nothing.
LEMMA DiskIsSettled ==
  ASSUME FsTypes
  PROVE  /\ IsDisk(disk) /\ IsDisk(Soon) /\ AreWrites(writes)
         /\ writes = << >> => Soon = disk /\ ToWrite = {}
         /\ \A s \in Sectors \ ToWrite : Soon[s] = disk[s]
<1>1. IsDisk(disk) /\ AreWrites(writes)
  BY Zenon DEF FsTypes
<1> QED BY <1>1, AfterIs, Zenon DEF Soon, ToWrite

\* The files of a sound disk have an entry, and every entry that is not gone is
\* a file's.
LEMMA OwnersHaveEntries ==
  ASSUME NEW d, IsDisk(d), NEW gone, Sound(d, gone)
  PROVE  /\ OwnersAt(d, gone) \in SUBSET Names
         /\ \A n \in OwnersAt(d, gone) :
              /\ HasSectors(d, n) /\ FindIndex(DirOn(d), n) # 0 /\ FindIndex(DirOn(d), n) \in DirEntries \ gone
              /\ IsAt(DirOn(d), n, FindIndex(DirOn(d), n))
              /\ SectorOn(d, n) = DirOn(d)[FindIndex(DirOn(d), n)].sector
         /\ \A n \in Names : FindIndex(DirOn(d), n) # 0 =>
              FindIndex(DirOn(d), n) \in gone \/ n \in OwnersAt(d, gone)
         /\ \A i \in DirEntries \ gone : DirOn(d)[i].inUse /\ DirOn(d)[i].name \in Names =>
              DirOn(d)[i].name \in OwnersAt(d, gone) /\ FindIndex(DirOn(d), DirOn(d)[i].name) = i
<1>1. DirOn(d) \in Directories
  BY DiskParts
<1>2. FilesApart(d, OwnersAt(d, gone)) /\ EntriesOwned(DirOn(d), OwnersAt(d, gone), gone)
  BY Zenon DEF Sound
<1>3. OwnersAt(d, gone) \in SUBSET Names
  BY DEF OwnersAt
<1>4. ASSUME NEW n \in OwnersAt(d, gone)
      PROVE  /\ HasSectors(d, n) /\ FindIndex(DirOn(d), n) # 0 /\ FindIndex(DirOn(d), n) \in DirEntries \ gone
             /\ IsAt(DirOn(d), n, FindIndex(DirOn(d), n))
             /\ SectorOn(d, n) = DirOn(d)[FindIndex(DirOn(d), n)].sector
  <2>1. HasSectors(d, n)
    BY <1>2, Zenon DEF FilesApart
  <2>2. PICK i \in DirEntries : IsAt(DirOn(d), n, i)
    BY <2>1, Zenon DEF HasSectors
  <2>3. FindIndex(DirOn(d), n) = i /\ i # 0 /\ SectorOn(d, n) = DirOn(d)[i].sector
    BY <2>2, EntryFound, Zenon
  <2>4. FindIndex(DirOn(d), n) \notin gone
    BY DEF OwnersAt
  <2> QED BY <2>1, <2>2, <2>3, <2>4
<1>5. \A n \in Names : FindIndex(DirOn(d), n) # 0 => FindIndex(DirOn(d), n) \in gone \/ n \in OwnersAt(d, gone)
  BY Zenon DEF OwnersAt
<1>6. ASSUME NEW i \in DirEntries \ gone, DirOn(d)[i].inUse, DirOn(d)[i].name \in Names
      PROVE  DirOn(d)[i].name \in OwnersAt(d, gone) /\ FindIndex(DirOn(d), DirOn(d)[i].name) = i
  <2>1. DirOn(d)[i].name \in OwnersAt(d, gone) /\ IsAt(DirOn(d), DirOn(d)[i].name, i)
    BY <1>2, <1>6, Zenon DEF EntriesOwned
  <2>2. i \in DirEntries
    OBVIOUS
  <2> QED BY <1>1, <2>1, <2>2, FindIndexIs, Zenon
<1> QED BY <1>3, <1>4, <1>5, <1>6

\* On a sound disk the entries that are half done are all gone, but those of no
\* name that a file can have.
LEMMA SettledIsSound ==
  ASSUME NEW d, IsDisk(d), NEW gone, Sound(d, gone)
  PROVE  /\ Sound(d, gone \cup HalfDone(d))
         /\ OwnersAt(d, gone \cup HalfDone(d)) = OwnersAt(d, gone)
<1> DEFINE dir == DirOn(d)
           owners == OwnersAt(d, gone)
           more == gone \cup HalfDone(d)
<1>1. /\ owners \in SUBSET Names
      /\ \A n \in owners : /\ HasSectors(d, n) /\ FindIndex(dir, n) \in DirEntries \ gone
                           /\ SectorOn(d, n) = dir[FindIndex(dir, n)].sector
  BY OwnersHaveEntries
<1>2. /\ FilesApart(d, owners) /\ EntriesOwned(dir, owners, gone)
      /\ \A i \in DirEntries : dir[i].inUse => dir[i].sector \in DataArea
      /\ \A i \in gone : i \in DirEntries /\ dir[i].inUse
  BY Zenon DEF Sound
<1> HIDE DEF dir, owners
<1>3. ASSUME NEW n \in owners
      PROVE  FindIndex(dir, n) \notin HalfDone(d)
  <2>1. SectorOn(d, n) \in MapOn(d)
    BY <1>1 DEF HasSectors, OwnOn
  <2> QED BY <1>1, <2>1 DEF HalfDone, dir
<1>4. OwnersAt(d, more) = owners
  <2>1. \A n : n \in OwnersAt(d, more) => n \in owners
    BY DEF OwnersAt, owners
  <2>2. \A n \in owners : n \in OwnersAt(d, more)
    BY <1>3 DEF OwnersAt, owners, dir
  <2> QED BY <2>1, <2>2
<1>5. EntriesOwned(dir, owners, more)
  BY <1>2 DEF EntriesOwned
<1>6. \A i \in more : i \in DirEntries /\ dir[i].inUse
  BY <1>2 DEF HalfDone, dir
<1> QED BY <1>2, <1>4, <1>5, <1>6, Zenon DEF Sound, dir, owners

\* A disk d that differs from a sound one, e, in one entry, which is half done if
\* it is in use, is sound but for that entry.
LEMMA HalfWritten ==
  ASSUME NEW d, IsDisk(d), NEW e, IsDisk(e), NEW gone, Sound(e, gone), NEW sectors,
         \A s \in Sectors \ sectors : e[s] = d[s],
         NEW k \in DirEntries \ gone, \A i \in DirEntries \ {k} : DirOn(d)[i] = DirOn(e)[i],
         DirOn(d)[k].inUse => DirOn(d)[k].sector \in DataArea \ MapOn(d),
         \A n \in OwnersAt(e, gone) : FindIndex(DirOn(e), n) # k => IsKept(e, d, n, sectors)
  PROVE  Sound(d, gone \cup HalfDone(d))
<1> DEFINE dir == DirOn(d)
           soon == DirOn(e)
           owners == OwnersAt(e, gone)
           less == OwnersAt(d, gone \cup HalfDone(d))
<1>1. dir \in Directories /\ soon \in Directories
  BY DiskParts
<1>2. /\ owners \in SUBSET Names
      /\ \A n \in owners : HasSectors(e, n) /\ FindIndex(soon, n) # 0
      /\ \A i \in DirEntries \ gone : soon[i].inUse /\ soon[i].name \in Names =>
           soon[i].name \in owners /\ FindIndex(soon, soon[i].name) = i
  BY OwnersHaveEntries
<1>3. /\ FilesApart(e, owners)
      /\ \A i \in DirEntries : soon[i].inUse => soon[i].sector \in DataArea
      /\ \A i \in gone : i \in DirEntries /\ soon[i].inUse
  BY Zenon DEF Sound
<1>4. dir[k].inUse => k \in HalfDone(d)
  BY DEF HalfDone
<1> HIDE DEF dir, soon, owners, less
<1>5. ASSUME NEW n \in owners, FindIndex(soon, n) # k
      PROVE  /\ HasSectors(d, n) /\ OwnOn(d, n) = OwnOn(e, n)
             /\ IsAt(dir, n, FindIndex(soon, n)) /\ FindIndex(dir, n) = FindIndex(soon, n)
  <2>1. IsKept(e, d, n, sectors) /\ HasSectors(e, n)
    BY <1>2, <1>5 DEF owners, soon
  <2>2. HasSectors(d, n) /\ OwnOn(d, n) = OwnOn(e, n)
    BY <2>1, KeptIsThere
  <2>3. PICK i \in DirEntries : IsAt(soon, n, i) /\ IsAt(dir, n, i)
    BY <2>1, Zenon DEF IsKept, soon, dir
  <2>4. FindIndex(soon, n) = i /\ FindIndex(dir, n) = i
    BY <1>1, <2>3, FindIndexIs, Zenon
  <2> QED BY <2>2, <2>3, <2>4
<1>6. ASSUME NEW i \in DirEntries \ (gone \cup HalfDone(d)), dir[i].inUse, dir[i].name \in Names
      PROVE  /\ dir[i].name \in owners /\ FindIndex(soon, dir[i].name) = i /\ i # k
             /\ IsAt(dir, dir[i].name, i) /\ FindIndex(dir, dir[i].name) = i
  <2>1. i # k
    BY <1>4, <1>6
  <2>2. dir[i] = soon[i]
    BY <2>1 DEF dir, soon
  <2>3. dir[i].name \in owners /\ FindIndex(soon, dir[i].name) = i
    BY <1>2, <1>6, <2>2
  <2> QED BY <1>5, <2>1, <2>3
<1>7. ASSUME NEW n \in less
      PROVE  n \in owners /\ FindIndex(soon, n) # k
  <2> DEFINE i == FindIndex(dir, n)
  <2>1. n \in Names /\ i # 0 /\ i \notin gone \cup HalfDone(d)
    BY DEF less, dir, OwnersAt
  <2>2. i \in DirEntries /\ dir[i].inUse /\ dir[i].name = n
    BY <1>1, <2>1, FindIndexFinds, Zenon
  <2> HIDE DEF i
  <2> QED BY <1>6, <2>1, <2>2
<1>8. FilesApart(d, less)
  <2>1. \A n \in less : HasSectors(d, n) /\ OwnOn(d, n) = OwnOn(e, n) /\ n \in owners
    BY <1>5, <1>7
  <2>2. \A n, m \in less : n # m => OwnOn(d, n) \cap OwnOn(d, m) = {}
    BY <1>3, <2>1, Zenon DEF FilesApart
  <2> QED BY <2>1, <2>2, Zenon DEF FilesApart
<1>9. EntriesOwned(dir, less, gone \cup HalfDone(d))
  <2> SUFFICES ASSUME NEW i \in DirEntries \ (gone \cup HalfDone(d)), dir[i].inUse, dir[i].name \in Names
               PROVE  dir[i].name \in less /\ IsAt(dir, dir[i].name, i)
    BY DEF EntriesOwned
  <2>1. IsAt(dir, dir[i].name, i) /\ FindIndex(dir, dir[i].name) = i
    BY <1>6
  <2>2. i # 0
    BY DEF DirEntries
  <2> QED BY <2>1, <2>2 DEF less, OwnersAt, dir
<1>10. \A i \in DirEntries : dir[i].inUse => dir[i].sector \in DataArea
  BY <1>3 DEF dir, soon
<1>11. \A i \in gone \cup HalfDone(d) : i \in DirEntries /\ dir[i].inUse
  BY <1>3 DEF dir, soon, HalfDone
<1> QED BY <1>8, <1>9, <1>10, <1>11, Zenon DEF Sound, dir, less

----------------------------------------------------------------------------
LEMMA MarkedIs ==
  ASSUME NEW marks, NEW d, NEW owners
  PROVE  Marked(marks, d, owners) <=> \A s : s \in marks <=> s \in 0 .. 4 \/ \E n \in owners : s \in OwnOn(d, n)
<1>1. \A s : s \in UNION {OwnOn(d, n) : n \in owners} <=> \E n \in owners : s \in OwnOn(d, n)
  BY Zenon
<1> DEFINE all == UNION {OwnOn(d, n) : n \in owners}
<1> HIDE DEF all
<1>2. \A s : s \in all <=> \E n \in owners : s \in OwnOn(d, n)
  BY <1>1 DEF all
<1>3. marks = 0 .. 4 \cup all <=> \A s : s \in marks <=> s \in 0 .. 4 \/ s \in all
  BY Zenon
<1> QED BY <1>2, <1>3, Zenon DEF Marked, all

\* Create adds a file to the others.
IsAdded(d, e, gone, n, s, hdr) ==
  /\ IsDisk(d) /\ IsDisk(e) /\ Sound(d, gone)
  /\ n \in Names /\ FindIndex(DirOn(d), n) = 0 /\ FreeEntries(DirOn(d)) # {}
  /\ s \in DataArea /\ s \notin MapOn(d)
  /\ hdr \in Headers /\ ToSet(hdr.dataSectors) \cap (MapOn(d) \cup {s}) = {}
  /\ DirOn(e) = DirAdd(DirOn(d), n, s) /\ MapOn(e) = MapOn(d) \cup {s} \cup ToSet(hdr.dataSectors)
  /\ e[s] = hdr /\ \A r \in DataArea \ {s} : e[r] = d[r]

LEMMA FileIsAdded ==
  ASSUME NEW d, NEW e, NEW gone, NEW n, NEW s, NEW hdr, IsAdded(d, e, gone, n, s, hdr)
  PROVE  /\ Sound(e, gone) /\ OwnersAt(e, gone) = OwnersAt(d, gone) \cup {n} /\ HeaderOn(e, n) = hdr
         /\ \A m \in OwnersAt(d, gone) : m # n /\ IsKept(e, d, m, {s, 2, 3, 4})
         /\ \A m \in OwnersAt(d, gone), bytes \in Seq(Nat) : IsSaved(d, m, bytes) => IsSaved(e, m, bytes)
         /\ \E k \in DirEntries \ gone :
              /\ \A i \in DirEntries \ {k} : DirOn(d)[i] = DirOn(e)[i]
              /\ ~DirOn(d)[k].inUse /\ DirOn(e)[k].sector = s /\ FindIndex(DirOn(e), n) = k
         /\ Marked(MapOn(d), d, OwnersAt(d, gone)) => Marked(MapOn(e), e, OwnersAt(e, gone))
<1>0. /\ IsDisk(d) /\ IsDisk(e) /\ Sound(d, gone)
      /\ n \in Names /\ FindIndex(DirOn(d), n) = 0 /\ FreeEntries(DirOn(d)) # {}
      /\ s \in DataArea /\ s \notin MapOn(d)
      /\ hdr \in Headers /\ ToSet(hdr.dataSectors) \cap (MapOn(d) \cup {s}) = {}
      /\ DirOn(e) = DirAdd(DirOn(d), n, s) /\ MapOn(e) = MapOn(d) \cup {s} \cup ToSet(hdr.dataSectors)
      /\ e[s] = hdr /\ \A r \in DataArea \ {s} : e[r] = d[r]
  BY Zenon DEF IsAdded
<1> USE <1>0
<1> DEFINE dir == DirOn(d)
           new == DirOn(e)
           owners == OwnersAt(d, gone)
<1>1. dir \in Directories /\ new \in Directories /\ MapOn(d) \in Maps
  BY DiskParts
<1>2. \A i \in DirEntries : dir[i].inUse => dir[i].name # n
  BY <1>1, FindIndexFinds, Zenon
<1>3. PICK k \in DirEntries :
        /\ IsAt(new, n, k) /\ new[k].sector = s /\ ~dir[k].inUse
        /\ \A i \in DirEntries \ {k} : new[i] = dir[i]
        /\ \A m \in Names \ {n}, i \in DirEntries : IsAt(dir, m, i) => i # k /\ IsAt(new, m, i)
        /\ \A m \in Names \ {n} : FindIndex(new, m) = FindIndex(dir, m)
  <2>1. s \in Sectors
    BY Layout
  <2>2. \E k \in DirEntries :
          /\ IsAt(DirAdd(dir, n, s), n, k) /\ DirAdd(dir, n, s)[k].sector = s /\ ~dir[k].inUse
          /\ \A i \in DirEntries \ {k} : DirAdd(dir, n, s)[i] = dir[i]
          /\ \A m \in Names \ {n}, i \in DirEntries :
               IsAt(dir, m, i) => i # k /\ IsAt(DirAdd(dir, n, s), m, i)
          /\ \A m \in Names \ {n} : FindIndex(DirAdd(dir, n, s), m) = FindIndex(dir, m)
    <3> HIDE DEF dir
    <3> QED BY <1>1, <1>2, <2>1, DirAdded DEF dir
  <2> QED BY <2>2
<1>4. SectorOn(e, n) = s /\ HeaderOn(e, n) = hdr /\ OwnOn(e, n) = {s} \cup ToSet(hdr.dataSectors)
      /\ FindIndex(new, n) = k /\ k # 0
  <2>1. SectorOn(e, n) = s /\ FindIndex(new, n) = k /\ k # 0
    BY <1>3, EntryFound
  <2>2. HeaderOn(e, n) = hdr
    BY <2>1 DEF HeaderOn
  <2> QED BY <2>1, <2>2 DEF OwnOn
<1>5. HasSectors(e, n)
  <2>1. s \notin ToSet(hdr.dataSectors)
    OBVIOUS
  <2>2. OwnOn(e, n) \subseteq MapOn(e)
    BY <1>4
  <2> QED BY <1>3, <1>4, <2>1, <2>2 DEF HasSectors
<1>6. /\ FilesApart(d, owners) /\ EntriesOwned(dir, owners, gone)
      /\ \A i \in DirEntries : dir[i].inUse => dir[i].sector \in DataArea
      /\ \A i \in gone : i \in DirEntries /\ dir[i].inUse
  BY Zenon DEF Sound
<1>7. k \notin gone
  BY <1>3, <1>6
<1>8. n \notin owners /\ owners \in SUBSET Names
  BY DEF OwnersAt
<1>9. OwnersAt(e, gone) = owners \cup {n}
  <2>1. ASSUME NEW m \in Names
        PROVE  m \in OwnersAt(e, gone) <=> m \in owners \cup {n}
    <3>1. CASE m = n
      BY <1>4, <1>7, <3>1 DEF OwnersAt
    <3>2. CASE m # n
      BY <1>3, <3>2 DEF OwnersAt
    <3> QED BY <3>1, <3>2
  <2>2. OwnersAt(e, gone) \subseteq Names
    BY DEF OwnersAt
  <2> QED BY <1>8, <2>1, <2>2
<1> HIDE DEF dir, new, owners
<1>10. ASSUME NEW m \in owners
      PROVE  /\ m \in Names \ {n} /\ HasSectors(d, m) /\ OwnOn(d, m) \subseteq DataArea
             /\ OwnOn(d, m) \subseteq MapOn(d) /\ s \notin OwnOn(d, m)
             /\ HeaderOn(d, m) \in Headers /\ SectorOn(d, m) \in OwnOn(d, m)
             /\ \A r \in OwnOn(d, m) : e[r] = d[r]
  <2>1. HasSectors(d, m)
    BY <1>6, Zenon DEF FilesApart
  <2>2. OwnOn(d, m) \subseteq DataArea /\ HeaderOn(d, m) \in Headers /\ SectorOn(d, m) \in OwnOn(d, m)
    BY <2>1, OwnersSectors
  <2>3. OwnOn(d, m) \subseteq MapOn(d)
    BY <2>1 DEF HasSectors
  <2>4. s \notin OwnOn(d, m)
    BY <2>3
  <2> QED BY <1>8, <2>1, <2>2, <2>3, <2>4
<1>11. ASSUME NEW m \in owners
      PROVE  /\ HeaderOn(e, m) = HeaderOn(d, m) /\ OwnOn(e, m) = OwnOn(d, m) /\ HasSectors(e, m)
             /\ IsKept(e, d, m, {s, 2, 3, 4})
  <2>1. PICK i \in DirEntries : IsAt(dir, m, i)
    BY <1>10 DEF HasSectors, dir
  <2>2. i # k /\ IsAt(new, m, i) /\ new[i] = dir[i]
    BY <1>3, <1>10, <2>1
  <2>3. OwnOn(d, m) \subseteq MapOn(e)
    BY <1>10
  <2>4. e[SectorOn(d, m)] = d[SectorOn(d, m)] /\ HasSectors(d, m)
    BY <1>10
  <2>5. HeaderOn(e, m) = HeaderOn(d, m) /\ OwnOn(e, m) = OwnOn(d, m) /\ HasSectors(e, m)
    BY <2>1, <2>2, <2>3, <2>4, FileStays DEF dir, new
  <2>6. {s, 2, 3, 4} \cap OwnOn(e, m) = {}
    BY <1>10, <2>5, Layout
  <2>7. OwnOn(e, m) \subseteq MapOn(d)
    BY <1>10, <2>5
  <2> QED BY <2>1, <2>2, <2>5, <2>6, <2>7 DEF IsKept, dir, new
<1>12. ASSUME NEW m \in owners, NEW bytes \in Seq(Nat), IsSaved(d, m, bytes)
      PROVE  IsSaved(e, m, bytes)
  BY <1>10, <1>11, <1>12, SavedStays, Zenon
<1>13. FilesApart(e, owners \cup {n})
  <2>1. \A m \in owners : OwnOn(e, m) \cap OwnOn(e, n) = {}
    <3> SUFFICES ASSUME NEW m \in owners
                 PROVE  OwnOn(e, m) \cap OwnOn(e, n) = {}
      OBVIOUS
    <3>1. OwnOn(e, m) \subseteq MapOn(d)
      BY <1>10, <1>11
    <3> QED BY <1>4, <3>1
  <2>2. \A m, o \in owners : m # o => OwnOn(e, m) \cap OwnOn(e, o) = {}
    BY <1>6, <1>11, Zenon DEF FilesApart
  <2>3. \A m, o \in owners \cup {n} : m # o => OwnOn(e, m) \cap OwnOn(e, o) = {}
    BY <2>1, <2>2
  <2>4. \A m \in owners \cup {n} : HasSectors(e, m)
    BY <1>5, <1>11
  <2> QED BY <2>3, <2>4, Zenon DEF FilesApart
<1>14. EntriesOwned(new, owners \cup {n}, gone)
  <2> SUFFICES ASSUME NEW i \in DirEntries \ gone, new[i].inUse, new[i].name \in Names
               PROVE  new[i].name \in owners \cup {n} /\ IsAt(new, new[i].name, i)
    BY DEF EntriesOwned
  <2>1. CASE i = k
    <3>1. new[k].name = n
      BY <1>3 DEF IsAt
    <3> QED BY <1>3, <2>1, <3>1
  <2>2. CASE i # k
    <3>1. new[i] = dir[i]
      BY <1>3, <2>2
    <3>2. dir[i].name \in owners /\ IsAt(dir, dir[i].name, i)
      BY <1>6, <3>1 DEF EntriesOwned
    <3>3. dir[i].name \in Names \ {n}
      BY <1>8, <3>2
    <3> QED BY <1>3, <3>1, <3>2, <3>3
  <2> QED BY <2>1, <2>2
<1>15. Sound(e, gone)
  <2>1. \A i \in DirEntries : new[i].inUse => new[i].sector \in DataArea
    BY <1>3, <1>6
  <2>2. \A i \in gone : i \in DirEntries /\ new[i].inUse
    BY <1>3, <1>6, <1>7
  <2> QED BY <1>9, <1>13, <1>14, <2>1, <2>2, Zenon DEF Sound, new
<1>16. ASSUME Marked(MapOn(d), d, owners)
       PROVE  Marked(MapOn(e), e, owners \cup {n})
  <2>1. \A r : r \in MapOn(d) <=> r \in 0 .. 4 \/ \E m \in owners : r \in OwnOn(d, m)
    BY <1>16, MarkedIs, Zenon
  <2>2. \A r : r \in MapOn(e) <=> r \in MapOn(d) \/ r \in OwnOn(e, n)
    BY <1>4
  <2>3. \A r : r \in MapOn(e) <=> r \in 0 .. 4 \/ \E m \in owners \cup {n} : r \in OwnOn(e, m)
    BY <1>11, <2>1, <2>2, Zenon
  <2> QED BY <2>3, MarkedIs, Zenon
<1>17. \A m \in owners : m # n /\ IsKept(e, d, m, {s, 2, 3, 4})
  BY <1>8, <1>11
<1>18. \E j \in DirEntries \ gone :
         /\ \A i \in DirEntries \ {j} : dir[i] = new[i]
         /\ ~dir[j].inUse /\ new[j].sector = s /\ FindIndex(new, n) = j
  BY <1>3, <1>4, <1>7
<1> QED BY <1>4, <1>9, <1>12, <1>15, <1>16, <1>17, <1>18 DEF dir, new, owners

\* Remove takes one away, whether or not its entry is gone, if no other file has
\* one of its sectors.
IsTakenAway(d, e, gone, n, k) ==
  /\ IsDisk(d) /\ IsDisk(e) /\ Sound(d, gone) /\ n \in Names /\ k = FindIndex(DirOn(d), n) /\ k # 0
  /\ DirOn(e) = DirRemove(DirOn(d), n) /\ MapOn(e) = MapOn(d) \ OwnOn(d, n)
  /\ \A r \in DataArea : e[r] = d[r]
  /\ \A m \in OwnersAt(d, gone) \ {n} : OwnOn(d, m) \cap OwnOn(d, n) = {}

LEMMA FileIsRemoved ==
  ASSUME NEW d, NEW e, NEW gone, NEW n, NEW k, IsTakenAway(d, e, gone, n, k)
  PROVE  /\ Sound(e, gone \ {k}) /\ OwnersAt(e, gone \ {k}) = OwnersAt(d, gone) \ {n}
         /\ \A m \in OwnersAt(d, gone) \ {n} : IsKept(e, d, m, {2, 3, 4})
         /\ \A m \in OwnersAt(d, gone) \ {n}, bytes \in Seq(Nat) : IsSaved(d, m, bytes) => IsSaved(e, m, bytes)
         /\ k \in DirEntries /\ ~DirOn(e)[k].inUse /\ \A i \in DirEntries \ {k} : DirOn(d)[i] = DirOn(e)[i]
         /\ n \in OwnersAt(d, gone) /\ Marked(MapOn(d), d, OwnersAt(d, gone)) =>
              Marked(MapOn(e), e, OwnersAt(d, gone) \ {n})
<1>0. /\ IsDisk(d) /\ IsDisk(e) /\ Sound(d, gone) /\ n \in Names
      /\ k = FindIndex(DirOn(d), n) /\ FindIndex(DirOn(d), n) # 0
      /\ DirOn(e) = DirRemove(DirOn(d), n) /\ MapOn(e) = MapOn(d) \ OwnOn(d, n)
      /\ \A r \in DataArea : e[r] = d[r]
      /\ \A m \in OwnersAt(d, gone) \ {n} : OwnOn(d, m) \cap OwnOn(d, n) = {}
  BY Zenon DEF IsTakenAway
<1> USE <1>0
<1> DEFINE dir == DirOn(d)
           new == DirOn(e)
           owners == OwnersAt(d, gone)
           rest == owners \ {n}
<1>1. dir \in Directories /\ new \in Directories /\ MapOn(d) \in Maps
  BY DiskParts
<1>2. k \in DirEntries /\ dir[k].inUse /\ dir[k].name = n
  BY <1>1, FindIndexFinds, Zenon
<1>3. /\ ~new[k].inUse /\ \A i \in DirEntries \ {k} : new[i] = dir[i]
      /\ \A m : \A i \in DirEntries : i # k /\ IsAt(dir, m, i) => IsAt(new, m, i)
      /\ \A m : m # n => FindIndex(new, m) = FindIndex(dir, m)
  <2>1. FindIndex(dir, n) # 0 /\ k = FindIndex(dir, n) /\ new = DirRemove(dir, n)
    OBVIOUS
  <2> HIDE DEF dir, new
  <2> QED BY <1>1, <2>1, DirRemoved
<1>4. /\ FilesApart(d, owners) /\ EntriesOwned(dir, owners, gone)
      /\ \A i \in DirEntries : dir[i].inUse => dir[i].sector \in DataArea
      /\ \A i \in gone : i \in DirEntries /\ dir[i].inUse
  BY Zenon DEF Sound
<1>5. /\ owners \in SUBSET Names
      /\ \A m \in owners : FindIndex(dir, m) \in DirEntries /\ IsAt(dir, m, FindIndex(dir, m))
      /\ \A i \in DirEntries \ gone : dir[i].inUse /\ dir[i].name \in Names =>
           dir[i].name \in owners /\ FindIndex(dir, dir[i].name) = i
  BY OwnersHaveEntries
<1>6. \A m \in rest : FindIndex(dir, m) # k
  BY <1>2, <1>5 DEF IsAt
<1>7. OwnersAt(e, gone \ {k}) = rest
  <2>1. ASSUME NEW m \in Names, m # n
        PROVE  m \in OwnersAt(e, gone \ {k}) <=> m \in owners
    <3>1. FindIndex(dir, m) # k
      <4>1. FindIndex(dir, m) # 0 => dir[FindIndex(dir, m)].name = m
        BY <1>1, FindIndexFinds, Zenon
      <4> QED BY <1>2, <2>1, <4>1
    <3> QED BY <1>3, <2>1, <3>1 DEF OwnersAt
  <2>2. n \notin OwnersAt(e, gone \ {k})
    <3> SUFFICES ASSUME n \in OwnersAt(e, gone \ {k})
                 PROVE  FALSE
      OBVIOUS
    <3> DEFINE j == FindIndex(new, n)
    <3>1. j # 0 /\ j \notin gone \ {k}
      BY DEF OwnersAt
    <3>2. j \in DirEntries /\ new[j].inUse /\ new[j].name = n
      BY <1>1, <3>1, FindIndexFinds, Zenon
    <3> HIDE DEF j
    <3>3. j # k /\ dir[j] = new[j] /\ j \notin gone
      BY <1>3, <3>1, <3>2
    <3>4. FindIndex(dir, n) = j
      BY <1>5, <3>2, <3>3
    <3> QED BY <3>3, <3>4
  <2>3. OwnersAt(e, gone \ {k}) \subseteq Names
    BY DEF OwnersAt
  <2> QED BY <1>5, <2>1, <2>2, <2>3
<1> HIDE DEF dir, new, owners, rest
<1>8. rest \subseteq owners /\ n \notin rest
  BY DEF rest
<1>9. ASSUME NEW m \in rest
      PROVE  /\ HasSectors(d, m) /\ OwnOn(d, m) \subseteq DataArea
             /\ OwnOn(d, m) \subseteq MapOn(d) \ OwnOn(d, n)
             /\ HeaderOn(d, m) \in Headers /\ SectorOn(d, m) \in OwnOn(d, m)
             /\ \A r \in OwnOn(d, m) : e[r] = d[r]
  <2>0. m \in owners /\ m # n
    BY <1>8
  <2>1. HasSectors(d, m)
    BY <1>4, <2>0, Zenon DEF FilesApart
  <2>2. OwnOn(d, m) \subseteq DataArea /\ HeaderOn(d, m) \in Headers /\ SectorOn(d, m) \in OwnOn(d, m)
    BY <2>1, OwnersSectors
  <2>3. OwnOn(d, m) \subseteq MapOn(d)
    BY <2>1 DEF HasSectors
  <2>4. OwnOn(d, m) \cap OwnOn(d, n) = {}
    BY <2>0 DEF owners
  <2> QED BY <2>0, <2>1, <2>2, <2>3, <2>4
<1>10. ASSUME NEW m \in rest
      PROVE  /\ HeaderOn(e, m) = HeaderOn(d, m) /\ OwnOn(e, m) = OwnOn(d, m) /\ HasSectors(e, m)
             /\ IsKept(e, d, m, {2, 3, 4})
  <2>1. PICK i \in DirEntries : i # k /\ IsAt(dir, m, i)
    BY <1>5, <1>6, <1>8
  <2>2. IsAt(new, m, i) /\ new[i] = dir[i]
    BY <1>3, <2>1
  <2>3. OwnOn(d, m) \subseteq MapOn(e)
    BY <1>9
  <2>4. e[SectorOn(d, m)] = d[SectorOn(d, m)] /\ HasSectors(d, m)
    BY <1>9
  <2>5. HeaderOn(e, m) = HeaderOn(d, m) /\ OwnOn(e, m) = OwnOn(d, m) /\ HasSectors(e, m)
    BY <2>1, <2>2, <2>3, <2>4, FileStays DEF dir, new
  <2>6. {2, 3, 4} \cap OwnOn(e, m) = {}
    BY <1>9, <2>5, Layout
  <2>7. OwnOn(e, m) \subseteq MapOn(d)
    BY <1>9, <2>5
  <2> QED BY <2>1, <2>2, <2>5, <2>6, <2>7 DEF IsKept, dir, new
<1>11. ASSUME NEW m \in rest, NEW bytes \in Seq(Nat), IsSaved(d, m, bytes)
       PROVE  IsSaved(e, m, bytes)
  BY <1>9, <1>10, <1>11, SavedStays, Zenon
<1>12. FilesApart(e, rest)
  <2>1. \A m, o \in rest : m # o => OwnOn(d, m) \cap OwnOn(d, o) = {}
    BY <1>4, <1>8 DEF FilesApart
  <2>2. \A m, o \in rest : m # o => OwnOn(e, m) \cap OwnOn(e, o) = {}
    BY <1>10, <2>1, Zenon
  <2> QED BY <1>10, <2>2, Zenon DEF FilesApart
<1>13. EntriesOwned(new, rest, gone \ {k})
  <2> SUFFICES ASSUME NEW i \in DirEntries \ (gone \ {k}), new[i].inUse, new[i].name \in Names
               PROVE  new[i].name \in rest /\ IsAt(new, new[i].name, i)
    BY DEF EntriesOwned
  <2>1. i # k /\ new[i] = dir[i] /\ i \notin gone
    BY <1>3
  <2>2. dir[i].name \in owners /\ IsAt(dir, dir[i].name, i) /\ FindIndex(dir, dir[i].name) = i
    BY <1>4, <1>5, <2>1 DEF EntriesOwned
  <2>3. dir[i].name # n
    BY <2>1, <2>2 DEF dir
  <2> QED BY <1>3, <2>1, <2>2, <2>3 DEF rest
<1>14. Sound(e, gone \ {k})
  <2>1. \A i \in DirEntries : new[i].inUse => new[i].sector \in DataArea
    BY <1>3, <1>4
  <2>2. \A i \in gone \ {k} : i \in DirEntries /\ new[i].inUse
    BY <1>3, <1>4
  <2> QED BY <1>7, <1>12, <1>13, <2>1, <2>2, Zenon DEF Sound, new
<1>15. ASSUME n \in owners, Marked(MapOn(d), d, owners)
       PROVE  Marked(MapOn(e), e, rest)
  <2>1. \A r : r \in MapOn(d) <=> r \in 0 .. 4 \/ \E m \in owners : r \in OwnOn(d, m)
    BY <1>15, MarkedIs, Zenon
  <2>2. \A m \in rest : \A r \in OwnOn(e, m) : r \in OwnOn(d, m) /\ r \notin OwnOn(d, n)
    BY <1>9, <1>10
  <2>3. \A r \in 0 .. 4 : r \notin OwnOn(d, n)
    <3>1. HasSectors(d, n)
      BY <1>4, <1>15, Zenon DEF FilesApart
    <3>2. OwnOn(d, n) \subseteq DataArea
      BY <3>1, OwnersSectors
    <3> QED BY <3>2, Layout
  <2>4. \A m \in owners : m = n \/ (m \in rest /\ OwnOn(e, m) = OwnOn(d, m))
    <3>1. \A m \in owners : m = n \/ m \in rest
      BY DEF rest
    <3>2. \A m \in rest : OwnOn(e, m) = OwnOn(d, m)
      BY <1>10
    <3> QED BY <3>1, <3>2, Zenon
  <2>5. \A r : r \in MapOn(e) <=> r \in MapOn(d) /\ r \notin OwnOn(d, n)
    OBVIOUS
  <2>6. \A r : r \in MapOn(e) <=> r \in 0 .. 4 \/ \E m \in rest : r \in OwnOn(e, m)
    BY <1>8, <2>1, <2>2, <2>3, <2>4, <2>5, Zenon
  <2> QED BY <2>6, MarkedIs, Zenon
<1> QED BY <1>2, <1>3, <1>7, <1>10, <1>11, <1>14, <1>15 DEF dir, new, owners, rest

\* Writing one file leaves the others where they are.
IsRewritten(d, e, gone, n) ==
  /\ IsDisk(d) /\ IsDisk(e) /\ Sound(d, gone) /\ n \in OwnersAt(d, gone)
  /\ \A r \in Sectors \ ToSet(HeaderOn(d, n).dataSectors) : e[r] = d[r]

LEMMA FileIsWritten ==
  ASSUME NEW d, NEW e, NEW gone, NEW n, IsRewritten(d, e, gone, n)
  PROVE  /\ Sound(e, gone) /\ OwnersAt(e, gone) = OwnersAt(d, gone) /\ HeaderOn(e, n) = HeaderOn(d, n)
         /\ \A m \in OwnersAt(d, gone) : \A w :
              m # n /\ w \subseteq ToSet(HeaderOn(d, n).dataSectors) => IsKept(e, d, m, w)
         /\ \A m \in OwnersAt(d, gone) : \A bytes \in Seq(Nat) :
              m # n /\ IsSaved(d, m, bytes) => IsSaved(e, m, bytes)
         /\ Marked(MapOn(d), d, OwnersAt(d, gone)) => Marked(MapOn(e), e, OwnersAt(d, gone))
<1>0. /\ IsDisk(d) /\ IsDisk(e) /\ Sound(d, gone) /\ n \in OwnersAt(d, gone)
      /\ \A r \in Sectors \ ToSet(HeaderOn(d, n).dataSectors) : e[r] = d[r]
  BY Zenon DEF IsRewritten
<1> USE <1>0
<1> DEFINE data == ToSet(HeaderOn(d, n).dataSectors)
           owners == OwnersAt(d, gone)
<1>1. /\ FilesApart(d, owners) /\ EntriesOwned(DirOn(d), owners, gone)
      /\ \A i \in DirEntries : DirOn(d)[i].inUse => DirOn(d)[i].sector \in DataArea
      /\ \A i \in gone : i \in DirEntries /\ DirOn(d)[i].inUse
  BY Zenon DEF Sound
<1>2. HasSectors(d, n) /\ data \subseteq OwnOn(d, n) /\ OwnOn(d, n) \subseteq DataArea
  <2>1. HasSectors(d, n)
    BY <1>1, Zenon DEF FilesApart
  <2> QED BY <2>1, OwnersSectors DEF OwnOn
<1>3. DirOn(e) = DirOn(d) /\ MapOn(e) = MapOn(d)
  <2>1. 2 \in Sectors \ data /\ 3 \in Sectors \ data /\ 4 \in Sectors \ data
    BY <1>2, Layout
  <2>2. e[2] = d[2] /\ e[3] = d[3] /\ e[4] = d[4]
    BY <2>1
  <2> QED BY <2>2 DEF DirOn, MapOn
<1>4. OwnersAt(e, gone) = owners
  BY <1>3 DEF OwnersAt
<1> HIDE DEF owners
<1>5. n \in owners
  BY DEF owners
<1>6. ASSUME NEW m \in owners
      PROVE  /\ HasSectors(d, m) /\ OwnOn(d, m) \subseteq MapOn(d)
             /\ HeaderOn(e, m) = HeaderOn(d, m) /\ OwnOn(e, m) = OwnOn(d, m) /\ HasSectors(e, m)
  <2>1. HasSectors(d, m)
    BY <1>1, Zenon DEF FilesApart
  <2>2. OwnOn(d, m) \subseteq MapOn(d) /\ SectorOn(d, m) \in DataArea
    BY <2>1 DEF HasSectors
  <2>3. SectorOn(d, m) \notin data
    <3>1. CASE m = n
      BY <2>1, <3>1 DEF HasSectors
    <3>2. CASE m # n
      <4>1. OwnOn(d, m) \cap OwnOn(d, n) = {} /\ SectorOn(d, m) \in OwnOn(d, m)
        BY <1>1, <1>5, <3>2 DEF FilesApart, OwnOn
      <4> QED BY <1>2, <4>1
    <3> QED BY <3>1, <3>2
  <2>4. e[SectorOn(d, m)] = d[SectorOn(d, m)]
    BY <2>2, <2>3, Layout
  <2>5. PICK i \in DirEntries : IsAt(DirOn(d), m, i)
    BY <2>1 DEF HasSectors
  <2>6. HeaderOn(e, m) = HeaderOn(d, m) /\ OwnOn(e, m) = OwnOn(d, m) /\ HasSectors(e, m)
    BY <1>3, <2>1, <2>2, <2>4, <2>5, FileStays
  <2> QED BY <2>1, <2>2, <2>6
<1>7. FilesApart(e, owners)
  <2>1. \A m, o \in owners : m # o => OwnOn(e, m) \cap OwnOn(e, o) = {}
    BY <1>1, <1>6, Zenon DEF FilesApart
  <2> QED BY <1>6, <2>1, Zenon DEF FilesApart
<1>8. Sound(e, gone)
  BY <1>1, <1>3, <1>4, <1>7, Zenon DEF Sound
<1>9. ASSUME NEW m \in owners, m # n
      PROVE  OwnOn(d, m) \cap data = {}
  BY <1>1, <1>2, <1>5, <1>9 DEF FilesApart
<1>10. ASSUME NEW m \in owners, NEW w, m # n, w \subseteq data
       PROVE  IsKept(e, d, m, w)
  <2>1. PICK i \in DirEntries : IsAt(DirOn(d), m, i)
    BY <1>6 DEF HasSectors
  <2>2. OwnOn(e, m) \subseteq MapOn(d) /\ w \cap OwnOn(e, m) = {}
    BY <1>6, <1>9, <1>10
  <2> QED BY <1>3, <2>1, <2>2 DEF IsKept
<1>11. ASSUME NEW m \in owners, NEW bytes \in Seq(Nat), m # n, IsSaved(d, m, bytes)
       PROVE  IsSaved(e, m, bytes)
  <2>1. HeaderOn(d, m) \in Headers /\ OwnOn(d, m) \subseteq Sectors
    BY <1>6, OwnersSectors, Layout
  <2>2. \A s \in OwnOn(d, m) : e[s] = d[s]
    BY <1>9, <1>11, <2>1
  <2> QED BY <1>6, <1>11, <2>1, <2>2, SavedStays, Zenon
<1>12. ASSUME Marked(MapOn(d), d, owners)
       PROVE  Marked(MapOn(e), e, owners)
  <2>1. \A r : r \in MapOn(d) <=> r \in 0 .. 4 \/ \E m \in owners : r \in OwnOn(d, m)
    BY <1>12, MarkedIs, Zenon
  <2>2. \A r : r \in MapOn(e) <=> r \in 0 .. 4 \/ \E m \in owners : r \in OwnOn(e, m)
    BY <1>3, <1>6, <2>1, Zenon
  <2> QED BY <2>2, MarkedIs, Zenon
<1>13. HeaderOn(e, n) = HeaderOn(d, n)
  BY <1>5, <1>6
<1> QED BY <1>4, <1>8, <1>10, <1>11, <1>12, <1>13 DEF owners

LEMMA FormattedIsDisk ==
  /\ IsDisk(Formatted) /\ MapOn(Formatted) = 0 .. 4 /\ DirOn(Formatted) = EmptyDirectory
<1> DEFINE d == Formatted
<1>1. 0 \in Sectors /\ 1 \in Sectors /\ 2 \in Sectors /\ 3 \in Sectors /\ 4 \in Sectors
  BY Layout
<1>2. d[0] = [numBytes |-> 1, dataSectors |-> <<2>>] /\ d[1] = [numBytes |-> 1, dataSectors |-> <<3, 4>>]
  BY <1>1 DEF Formatted, FreeMapSector, DirectorySector
<1>3. d[2] = [bits |-> 0 .. 4] /\ d[3] = FirstPart(EmptyDirectory) /\ d[4] = SecondPart(EmptyDirectory)
  BY <1>1 DEF Formatted, FreeMapSector, DirectorySector
<1>4. \A s \in DataArea : d[s] = Zeros
  BY Layout DEF Formatted, FreeMapSector, DirectorySector, DataArea
<1>5. EmptyDirectory \in Directories
  BY Layout DEF EmptyDirectory, Directories, DirEntries, Labels
<1>6. d = [s \in Sectors |-> d[s]]
  BY DEF Formatted
<1> HIDE DEF d
<1>7. 0 .. 4 \in Maps
  BY Layout DEF Maps
<1>8. ASSUME NEW s \in Sectors
      PROVE  Fits(s, d[s])
  <2>1. s = 2 => d[s] \in [bits : Maps]
    BY <1>3, <1>7
  <2>2. s = 3 => d[s] \in FirstParts
    BY <1>3, <1>5, PartsOfDir
  <2>3. s = 4 => d[s] \in SecondParts
    BY <1>3, <1>5, PartsOfDir
  <2>4. s \in DataArea => d[s] \in [bytes : Buffers] \cup Headers
    BY <1>4, ZerosAreBytes
  <2>5. s \in {0, 1, 2, 3, 4} \/ s \in DataArea
    BY Layout
  <2> QED BY <1>2, <2>1, <2>2, <2>3, <2>4, <2>5, SectorsHold, Zenon
<1>9. IsDisk(d)
  BY <1>6, <1>8, Zenon DEF IsDisk
<1>10. MapOn(d) = 0 .. 4
  BY <1>3 DEF MapOn
<1>11. DirOn(d) = EmptyDirectory
  BY <1>3, <1>5, PartsOfDir DEF DirOn
<1> QED BY <1>9, <1>10, <1>11 DEF d

LEMMA ClosedIsFile == Closed.hdr \in Headers /\ Closed.hdr.numBytes = 0 /\ Closed.seekPosition = 0
                      /\ Closed = [hdr |-> Closed.hdr, seekPosition |-> Closed.seekPosition]
<1> DEFINE h == [numBytes |-> 0, dataSectors |-> << >>]
<1>1. h \in [numBytes : Nat, dataSectors : Seq(DataArea)] /\ Len(h.dataSectors) = 0 /\ h.numBytes = 0
  OBVIOUS
<1>2. Len(h.dataSectors) = SectorCount(h.numBytes)
  BY <1>1, SectorOfByte
<1>3. \A i, j \in 1 .. Len(h.dataSectors) : h.dataSectors[i] = h.dataSectors[j] => i = j
  BY <1>1
<1> HIDE DEF h
<1>4. h \in Headers
  BY <1>1, <1>2, <1>3, Zenon DEF Headers
<1>5. Closed = [hdr |-> h, seekPosition |-> 0]
  BY DEF Closed, h
<1> QED BY <1>1, <1>4, <1>5

LEMMA NoEntryIsUsed == /\ \A i \in DirEntries : ~EmptyDirectory[i].inUse
                       /\ \A n : FindIndex(EmptyDirectory, n) = 0
<1>1. \A i \in DirEntries : ~EmptyDirectory[i].inUse
  BY DEF EmptyDirectory, DirEntries
<1>2. EmptyDirectory \in Directories
  BY Layout DEF EmptyDirectory, Directories, DirEntries, Labels
<1> QED BY <1>1, <1>2, FindIndexFinds, Zenon

LEMMA FsInitInv == FsInit => Healthy
<1> SUFFICES ASSUME FsInit
             PROVE  Healthy
  OBVIOUS
<1> USE DEF FsInit
<1>1. AreWrites(writes) /\ DOMAIN writes = {}
  BY DEF AreWrites
<1>2. DOMAIN saved = {}
  OBVIOUS
<1>3. FsTypes
  BY <1>1, <1>2, FormattedIsDisk, ClosedIsFile, Layout DEF FsTypes
<1>4. Soon = disk
  BY <1>3, DiskIsSettled, Zenon
<1>5. command.prog = "none" /\ command = Idle /\ stage = "idle" /\ output = << >> /\ writes = << >>
  BY DEF Idle
<1>6. Owners = {}
  BY <1>4, FormattedIsDisk, NoEntryIsUsed DEF Owners, OwnersAt
<1>7. CommandOK
  BY <1>5 DEF CommandOK
<1>8. Sound(Soon, dangling)
  <2>1. DirOn(Soon) = EmptyDirectory /\ dangling = {}
    BY <1>4, FormattedIsDisk
  <2>2. FilesApart(Soon, {})
    BY DEF FilesApart
  <2>3. EntriesOwned(DirOn(Soon), {}, dangling)
    BY <2>1, NoEntryIsUsed DEF EntriesOwned
  <2> QED BY <1>6, <2>1, <2>2, <2>3, NoEntryIsUsed DEF Sound, Owners
<1>9. MarkedHaveOwners
  <2>1. UNION {OwnOn(Soon, n) : n \in {}} = {}
    OBVIOUS
  <2> QED BY <1>4, <1>6, <2>1, FormattedIsDisk DEF MarkedHaveOwners, Marked
<1>10. DOMAIN saved \subseteq Owners /\ BytesAreSaved
  BY <1>2 DEF BytesAreSaved
<1>11. FileIsOpen /\ Printed
  BY <1>5 DEF FileIsOpen, Printed
<1> QED BY <1>3, <1>5, <1>7, <1>8, <1>9, <1>10, <1>11 DEF Healthy, FilesOK

\* The parts of the invariant, and what they say of the owners.
LEMMA OwnersAreThere ==
  ASSUME Healthy
  PROVE  /\ FsTypes /\ CommandOK /\ FilesOK /\ FileIsOpen /\ Printed
         /\ IsDisk(disk) /\ IsDisk(Soon) /\ Sound(Soon, dangling) /\ Owners \subseteq Names
         /\ FilesApart(Soon, Owners)
         /\ \A n \in Owners :
              /\ HasSectors(Soon, n) /\ FindIndex(DirOn(Soon), n) # 0
              /\ FindIndex(DirOn(Soon), n) \in DirEntries \ dangling
              /\ IsAt(DirOn(Soon), n, FindIndex(DirOn(Soon), n))
         /\ \A n \in Names : FindIndex(DirOn(Soon), n) # 0 =>
              FindIndex(DirOn(Soon), n) \in dangling \/ n \in Owners
         /\ \A i \in DirEntries \ dangling : DirOn(Soon)[i].inUse /\ DirOn(Soon)[i].name \in Names =>
              DirOn(Soon)[i].name \in Owners /\ FindIndex(DirOn(Soon), DirOn(Soon)[i].name) = i
<1>1. FsTypes /\ CommandOK /\ FilesOK /\ FileIsOpen /\ Printed
  BY Zenon DEF Healthy
<1>2. Sound(Soon, dangling)
  BY <1>1, Zenon DEF FilesOK
<1>3. IsDisk(disk) /\ IsDisk(Soon)
  BY <1>1, DiskIsSettled
<1>4. FilesApart(Soon, Owners)
  BY <1>2, Zenon DEF Sound, Owners
<1>5. PICK d, gone : d = Soon /\ gone = dangling
  OBVIOUS
<1>6. OwnersAt(d, gone) = Owners
  BY <1>5, Zenon DEF Owners
<1>7. IsDisk(d) /\ Sound(d, gone)
  BY <1>2, <1>3, <1>5, Zenon
<1>8. /\ Owners \in SUBSET Names
      /\ \A n \in Owners :
              /\ HasSectors(Soon, n) /\ FindIndex(DirOn(Soon), n) # 0
              /\ FindIndex(DirOn(Soon), n) \in DirEntries \ dangling
              /\ IsAt(DirOn(Soon), n, FindIndex(DirOn(Soon), n))
      /\ \A n \in Names : FindIndex(DirOn(Soon), n) # 0 =>
              FindIndex(DirOn(Soon), n) \in dangling \/ n \in Owners
      /\ \A i \in DirEntries \ dangling : DirOn(Soon)[i].inUse /\ DirOn(Soon)[i].name \in Names =>
              DirOn(Soon)[i].name \in Owners /\ FindIndex(DirOn(Soon), DirOn(Soon)[i].name) = i
  BY <1>5, <1>6, <1>7, OwnersHaveEntries
<1> QED BY <1>1, <1>2, <1>3, <1>4, <1>8

\* A file that was saved is on the disk as it will be: no command is writing it.
LEMMA SavedIsKept ==
  ASSUME Healthy, NEW n \in DOMAIN saved
  PROVE  IsKept(Soon, disk, n, ToWrite)
<1>1. n \in Owners /\ FilesOK /\ CommandOK /\ FsTypes /\ IsAt(DirOn(Soon), n, FindIndex(DirOn(Soon), n))
      /\ FindIndex(DirOn(Soon), n) \in DirEntries /\ HasSectors(Soon, n)
  BY OwnersAreThere DEF FilesOK
<1>2. CASE writes = << >>
  <2>1. Soon = disk /\ ToWrite = {}
    BY <1>1, <1>2, DiskIsSettled
  <2>2. OwnOn(Soon, n) \subseteq MapOn(disk)
    BY <1>1, <2>1 DEF HasSectors
  <2> QED BY <1>1, <2>1, <2>2 DEF IsKept
<1>3. CASE writes # << >>
  <2>1. n # command.name
    BY <1>1, <1>3 DEF CommandOK
  <2>2. OthersAreThere
    BY <1>1, <1>3, Zenon DEF FilesOK
  <2> QED BY <1>1, <2>1, <2>2 DEF OthersAreThere
<1> QED BY <1>2, <1>3

\* Whenever nachos is stopped, the files of the disk are those whose entries are
\* neither left from an earlier crash nor half done now.
LEMMA DiskIsSound ==
  ASSUME Healthy
  PROVE  Sound(disk, dangling \cup HalfDone(disk))
<1>1. /\ FsTypes /\ CommandOK /\ FilesOK /\ IsDisk(disk) /\ IsDisk(Soon) /\ Sound(Soon, dangling)
      /\ \A n \in Owners : FindIndex(DirOn(Soon), n) # 0 /\ HasSectors(Soon, n)
  BY OwnersAreThere
<1>2. Soon = Soon /\ \A s \in Sectors \ ToWrite : Soon[s] = disk[s]
  BY <1>1, DiskIsSettled
<1>3. CASE writes = << >>
  <2>1. Soon = disk
    BY <1>1, <1>3, DiskIsSettled
  <2> QED BY <1>1, <2>1, SettledIsSound, Zenon
<1>4. CASE writes # << >>
  <2>1. OthersAreThere /\ WritesAreInOrder
    BY <1>1, <1>4, Zenon DEF FilesOK
  <2>2. stage \in {"open", "write", "done"}
    BY <1>1, <1>4 DEF CommandOK
  <2>3. ASSUME NEW marks, Pending(marks), MapOn(disk) = marks
        PROVE  Sound(disk, dangling \cup HalfDone(disk))
    <3>1. PICK k \in DirEntries \ dangling :
            /\ \A i \in DirEntries \ {k} : DirOn(disk)[i] = DirOn(Soon)[i]
            /\ DirOn(disk)[k].inUse => DirOn(disk)[k].sector \in DataArea \ marks
            /\ command.name \in Owners => FindIndex(DirOn(Soon), command.name) = k
      BY <2>3, Zenon DEF Pending
    <3>2. \A n \in Owners : FindIndex(DirOn(Soon), n) # k => IsKept(Soon, disk, n, ToWrite)
      BY <2>1, <3>1 DEF OthersAreThere
    <3>3. PICK d, e, gone, sectors : d = disk /\ e = Soon /\ gone = dangling /\ sectors = ToWrite
      OBVIOUS
    <3>4. IsDisk(d) /\ IsDisk(e) /\ Sound(e, gone) /\ \A s \in Sectors \ sectors : e[s] = d[s]
      BY <1>1, <1>2, <3>3, Zenon
    <3>5. /\ k \in DirEntries \ gone /\ \A i \in DirEntries \ {k} : DirOn(d)[i] = DirOn(e)[i]
          /\ DirOn(d)[k].inUse => DirOn(d)[k].sector \in DataArea \ MapOn(d)
      BY <2>3, <3>1, <3>3, Zenon
    <3>6. \A n \in OwnersAt(e, gone) : FindIndex(DirOn(e), n) # k => IsKept(e, d, n, sectors)
      BY <3>2, <3>3, Zenon DEF Owners
    <3>7. Sound(d, gone \cup HalfDone(d))
      BY <3>4, <3>5, <3>6, HalfWritten, Zenon
    <3> QED BY <3>3, <3>7, Zenon
  <2>4. CASE stage = "open"
    BY <2>1, <2>3, <2>4, Zenon DEF WritesAreInOrder
  <2>5. CASE stage = "write"
    <3>1. command.name \in Owners /\ ToWrite \subseteq ToSet(HeaderOn(Soon, command.name).dataSectors)
      BY <2>1, <2>5, Zenon DEF WritesAreInOrder
    <3>2. PICK d, e, gone, n : d = disk /\ e = Soon /\ gone = dangling /\ n = command.name
      OBVIOUS
    <3>3. \A s \in Sectors \ ToSet(HeaderOn(e, n).dataSectors) : d[s] = e[s]
      BY <1>2, <3>1, <3>2
    <3>4. IsRewritten(e, d, gone, n)
      BY <1>1, <3>1, <3>2, <3>3, Zenon DEF IsRewritten, Owners
    <3>5. Sound(d, gone) /\ IsDisk(d)
      BY <1>1, <3>2, <3>4, FileIsWritten, Zenon
    <3> QED BY <3>2, <3>5, SettledIsSound, Zenon
  <2>6. CASE stage = "done"
    <3>1. /\ Pending(MapOn(Soon))
          /\ MapOn(disk) = MapOn(Soon) \/ Sound(disk, dangling \cup HalfDone(disk))
      BY <2>1, <2>6, Zenon DEF WritesAreInOrder
    <3> QED BY <2>3, <3>1, Zenon
  <2> QED BY <2>2, <2>4, <2>5, <2>6
<1> QED BY <1>3, <1>4

\* What the steps that only move on in a command must keep.
LEMMA MovesOn ==
  ASSUME Healthy, writes = << >>, UNCHANGED <<disk, writes, dangling, crashes>>,
         DOMAIN saved' \subseteq DOMAIN saved, \A n \in DOMAIN saved' : saved'[n] = saved[n],
         file' = [hdr |-> file'.hdr, seekPosition |-> file'.seekPosition],
         file'.hdr \in Headers, file'.seekPosition \in 0 .. file'.hdr.numBytes, output' \in Seq(Nat),
         CommandOK', FileIsOpen', Printed'
  PROVE  Healthy'
<1>1. FsTypes /\ FilesOK
  BY Zenon DEF Healthy
<1>2. Soon' = Soon /\ Owners' = Owners /\ writes' = << >>
  <2>1. Soon' = Soon
    BY Zenon DEF Soon
  <2> QED BY <2>1, Zenon DEF Owners
<1>3. FsTypes'
  <2>1. DOMAIN saved' \subseteq Names /\ \A n \in DOMAIN saved' : saved'[n] \in Seq(Nat)
    BY <1>1 DEF FsTypes
  <2> QED BY <1>1, <2>1, Zenon DEF FsTypes
<1>4. Sound(Soon, dangling)'
  BY <1>1, <1>2, Zenon DEF FilesOK
<1>5. MarkedHaveOwners'
  BY <1>1, <1>2, Zenon DEF FilesOK, MarkedHaveOwners
<1>6. BytesAreSaved'
  <2>1. \A n \in DOMAIN saved' : IsSaved(Soon, n, saved'[n])
    BY <1>1 DEF FilesOK, BytesAreSaved
  <2> QED BY <1>2, <2>1, Zenon DEF BytesAreSaved
<1>7. DOMAIN saved' \subseteq Owners'
  BY <1>1, <1>2 DEF FilesOK
<1>8. FilesOK'
  BY <1>2, <1>4, <1>5, <1>6, <1>7 DEF FilesOK
<1> QED BY <1>3, <1>8 DEF Healthy

\* ... and a step in which nothing happens.
LEMMA FsStutters == Healthy /\ UNCHANGED fsVars => Healthy'
<1> SUFFICES ASSUME Healthy, UNCHANGED fsVars
             PROVE  Healthy'
  OBVIOUS
<1>1. UNCHANGED <<disk, writes, command, stage, file, output, saved, dangling, crashes>>
  BY DEF fsVars
<1>2. FsTypes /\ CommandOK /\ FilesOK /\ FileIsOpen /\ Printed
  BY Zenon DEF Healthy
<1>3. Soon' = Soon /\ Owners' = Owners /\ ToWrite' = ToWrite /\ CreateSize' = CreateSize
  <2>1. Soon' = Soon /\ ToWrite' = ToWrite
    BY <1>1, Zenon DEF Soon, ToWrite
  <2> QED BY <1>1, <2>1, Zenon DEF Owners, CreateSize, InProg
<1>4. FsTypes'
  BY <1>1, <1>2, Zenon DEF FsTypes
<1>5. CommandOK'
  BY <1>1, <1>2, Zenon DEF CommandOK
<1>6. FileIsOpen'
  BY <1>1, <1>2, <1>3, Zenon DEF FileIsOpen
<1>7. Printed'
  BY <1>1, <1>2, Zenon DEF Printed
<1>8. FilesOK'
  <2>1. Sound(Soon, dangling)'
    BY <1>1, <1>2, <1>3, Zenon DEF FilesOK
  <2>2. MarkedHaveOwners' /\ BytesAreSaved' /\ DOMAIN saved' \subseteq Owners'
    BY <1>1, <1>2, <1>3, Zenon DEF FilesOK, MarkedHaveOwners, BytesAreSaved
  <2>3. OthersAreThere <=> OthersAreThere'
    BY <1>1, <1>3, Zenon DEF OthersAreThere
  <2>4. WritesAreInOrder <=> WritesAreInOrder'
    <3>1. \A marks : Pending(marks) <=> Pending(marks)'
      BY <1>1, <1>3, Zenon DEF Pending
    <3>2. Pending(MapOn(disk)) <=> Pending(MapOn(disk))'
      BY <1>1, <3>1, Zenon
    <3>3. Pending(MapOn(Soon)) <=> Pending(MapOn(Soon))'
      BY <1>3, <3>1, Zenon
    <3> QED BY <1>1, <1>3, <3>2, <3>3, Zenon DEF WritesAreInOrder
  <2> QED BY <1>1, <1>2, <2>1, <2>2, <2>3, <2>4, Zenon DEF FilesOK
<1> QED BY <1>4, <1>5, <1>6, <1>7, <1>8, Zenon DEF Healthy

LEMMA BeginInv ==
  ASSUME Healthy, NEW prog, NEW name \in Names, NEW from, NEW first, Begin(prog, name, from, first),
         \/ prog = "copy" /\ first = "create" /\ from \in Seq(Nat)
         \/ prog = "print" /\ first = "open"
         \/ prog = "remove" /\ first = "remove"
         \/ prog = "perf" /\ first = "create"
  PROVE  Healthy'
<1>1. command = Idle /\ stage = "idle" /\ writes = << >> /\ output = << >>
  BY DEF Begin, Healthy, CommandOK
<1>2. /\ command' = [prog |-> prog, name |-> name, from |-> from] /\ stage' = first
      /\ UNCHANGED <<disk, writes, file, output, saved, dangling, crashes>>
  BY DEF Begin
<1>3. command'.prog = prog /\ command'.name = name /\ command'.from = from
  BY <1>2
<1>4. CommandOK'
  <2>1. command' # Idle
    BY <1>3 DEF Idle
  <2>2. stage' \in StagesOf(command'.prog)
    BY <1>2, <1>3 DEF StagesOf
  <2>3. command' = [prog |-> command'.prog, name |-> command'.name, from |-> command'.from]
    BY <1>2, <1>3
  <2>4. command'.prog = "copy" => command'.from \in Seq(Nat)
    BY <1>3
  <2>5. /\ writes' = << >> /\ ~(command'.prog \in {"copy", "perf"} /\ stage' \in {"open", "write"})
        /\ stage' # "aborted"
    BY <1>1, <1>2, <1>3
  <2>6. command'.prog \in {"copy", "print", "remove", "perf"} /\ command'.name \in Names
    BY <1>3
  <2> QED BY <2>1, <2>2, <2>3, <2>4, <2>5, <2>6 DEF CommandOK
<1>5. FileIsOpen'
  BY <1>2, <1>3 DEF FileIsOpen
<1>6. Printed'
  BY <1>1, <1>2, <1>3 DEF Printed
<1>7. file.hdr \in Headers /\ file.seekPosition \in 0 .. file.hdr.numBytes
      /\ file = [hdr |-> file.hdr, seekPosition |-> file.seekPosition] /\ output \in Seq(Nat)
  BY DEF Healthy, FsTypes
<1> QED BY <1>1, <1>2, <1>4, <1>5, <1>6, <1>7, MovesOn

LEMMA BeginsInv == Healthy /\ (BeginCopy \/ BeginPrint \/ BeginRemove \/ BeginPerf) => Healthy'
<1> SUFFICES ASSUME Healthy, BeginCopy \/ BeginPrint \/ BeginRemove \/ BeginPerf
             PROVE  Healthy'
  OBVIOUS
<1>1. CASE BeginCopy
  <2>1. PICK name \in Names, from \in Sources : Begin("copy", name, from, "create")
    BY <1>1 DEF BeginCopy
  <2>2. from \in Seq(Nat)
    BY FileSystemAssumption
  <2> QED BY <2>1, <2>2, BeginInv
<1>2. CASE BeginPrint
  <2>1. PICK name \in Names : Begin("print", name, << >>, "open")
    BY <1>2 DEF BeginPrint
  <2> QED BY <2>1, BeginInv
<1>3. CASE BeginRemove
  <2>1. PICK name \in Names : Begin("remove", name, << >>, "remove")
    BY <1>3 DEF BeginRemove
  <2> QED BY <2>1, BeginInv
<1>4. CASE BeginPerf
  <2>1. PICK from : Begin("perf", PerfName, from, "create")
    BY <1>4, Zenon DEF BeginPerf
  <2> QED BY <2>1, BeginInv, Layout
<1> QED BY <1>1, <1>2, <1>3, <1>4

LEMMA CreateRefusedInv == Healthy /\ CreateRefused => Healthy'
<1> SUFFICES ASSUME Healthy, CreateRefused
             PROVE  Healthy'
  OBVIOUS
<1>1. /\ writes = << >> /\ stage = "create" /\ stage' = IF InProg("perf") THEN "open2" ELSE "done"
      /\ UNCHANGED <<disk, writes, command, file, output, saved, dangling, crashes>>
  BY DEF CreateRefused, Reaches, AfterFailure
<1>2. FsTypes /\ CommandOK
  BY DEF Healthy
<1>3. command # Idle
  BY <1>1, <1>2 DEF CommandOK
<1>4. command.prog \in {"copy", "perf"} /\ command.name \in Names
  BY <1>1, <1>2, <1>3 DEF CommandOK, StagesOf
<1>5. CommandOK'
  BY <1>1, <1>2, <1>3, <1>4 DEF CommandOK, StagesOf, InProg
<1>6. FileIsOpen'
  BY <1>1, <1>4 DEF FileIsOpen, InProg
<1>7. Printed'
  BY <1>1, <1>4 DEF Printed
<1>8. file.hdr \in Headers /\ file.seekPosition \in 0 .. file.hdr.numBytes
      /\ file = [hdr |-> file.hdr, seekPosition |-> file.seekPosition] /\ output \in Seq(Nat)
  BY <1>2 DEF FsTypes
<1> QED BY <1>1, <1>5, <1>6, <1>7, <1>8, MovesOn

LEMMA RemoveRefusedInv == Healthy /\ RemoveRefused => Healthy'
<1> SUFFICES ASSUME Healthy, RemoveRefused
             PROVE  Healthy'
  OBVIOUS
<1>1. /\ writes = << >> /\ stage = "remove" /\ stage' = "done"
      /\ UNCHANGED <<disk, writes, command, file, output, saved, dangling, crashes>>
  BY DEF RemoveRefused, Reaches
<1>2. FsTypes /\ CommandOK
  BY DEF Healthy
<1>3. command # Idle
  BY <1>1, <1>2 DEF CommandOK
<1>4. command.prog \in {"remove", "perf"} /\ command.name \in Names
  BY <1>1, <1>2, <1>3 DEF CommandOK, StagesOf
<1>5. CommandOK'
  BY <1>1, <1>2, <1>3, <1>4 DEF CommandOK, StagesOf
<1>6. FileIsOpen' /\ Printed'
  BY <1>1, <1>4 DEF FileIsOpen, Printed
<1>7. file.hdr \in Headers /\ file.seekPosition \in 0 .. file.hdr.numBytes
      /\ file = [hdr |-> file.hdr, seekPosition |-> file.seekPosition] /\ output \in Seq(Nat)
  BY <1>2 DEF FsTypes
<1> QED BY <1>1, <1>5, <1>6, <1>7, MovesOn

LEMMA FinishedInv == Healthy /\ Finished => Healthy'
<1> SUFFICES ASSUME Healthy, Finished
             PROVE  Healthy'
  OBVIOUS
<1>1. /\ writes = << >> /\ stage' = "idle" /\ command' = Idle /\ file' = Closed /\ output' = << >>
      /\ UNCHANGED <<disk, writes, saved, dangling, crashes>>
  BY DEF Finished, Return, Reaches
<1>2. command'.prog = "none"
  BY <1>1 DEF Idle
<1>3. CommandOK'
  BY <1>1, <1>2 DEF CommandOK
<1>4. FileIsOpen' /\ Printed'
  BY <1>1, <1>2 DEF FileIsOpen, Printed
<1>5. output' \in Seq(Nat)
  BY <1>1
<1>6. file'.hdr \in Headers /\ file'.seekPosition \in 0 .. file'.hdr.numBytes
      /\ file' = [hdr |-> file'.hdr, seekPosition |-> file'.seekPosition]
  BY <1>1, ClosedIsFile
<1> QED BY <1>1, <1>3, <1>4, <1>5, <1>6, MovesOn

\* What is found on the disk is a header or bytes.
LEMMA HeaderIs ==
  ASSUME NEW d, IsDisk(d), NEW s \in DataArea
  PROVE  "dataSectors" \in DOMAIN d[s] <=> d[s] \in Headers
<1>1. d[s] \in [bytes : Buffers] \cup Headers
  BY DiskParts
<1>2. d[s] \in [bytes : Buffers] => "dataSectors" \notin DOMAIN d[s]
  OBVIOUS
<1>3. d[s] \in Headers => "dataSectors" \in DOMAIN d[s]
  BY DEF Headers
<1> QED BY <1>1, <1>2, <1>3

\* What a command finds under its name.
LEMMA WhatIsFound ==
  ASSUME Healthy, writes = << >>, command.name \in Names
  PROVE  /\ Soon = disk
         /\ Exists(command.name) <=> FindIndex(DirOn(disk), command.name) # 0
         /\ HeaderAt(SectorOf(command.name)) = HeaderOn(disk, command.name)
         /\ SectorOf(command.name) = SectorOn(disk, command.name)
         /\ Exists(command.name) => SectorOn(disk, command.name) \in DataArea
         /\ Exists(command.name) =>
              (IsHeader(SectorOf(command.name)) <=> HeaderOn(disk, command.name) \in Headers)
         /\ Exists(command.name) /\ command.name \notin Owners => FindIndex(DirOn(disk), command.name) \in dangling
         /\ command.name \in Owners => Exists(command.name) /\ HeaderOn(disk, command.name) \in Headers
<1> DEFINE n == command.name
<1>1. /\ FsTypes /\ IsDisk(disk) /\ Sound(Soon, dangling)
      /\ n \in Owners => HasSectors(Soon, n) /\ FindIndex(DirOn(Soon), n) # 0
      /\ FindIndex(DirOn(Soon), n) # 0 => FindIndex(DirOn(Soon), n) \in dangling \/ n \in Owners
  BY OwnersAreThere
<1>2. Soon = disk
  BY <1>1, DiskIsSettled
<1>3. /\ Exists(n) <=> FindIndex(DirOn(disk), n) # 0
      /\ SectorOf(n) = SectorOn(disk, n) /\ HeaderAt(SectorOf(n)) = HeaderOn(disk, n)
  BY <1>1, OnTheDisk DEF HeaderOf
<1>4. Exists(n) => SectorOn(disk, n) \in DataArea
  <2>1. DirOn(disk) \in Directories
    BY <1>1, DiskParts
  <2>2. ASSUME FindIndex(DirOn(disk), n) # 0
        PROVE  SectorOn(disk, n) \in DataArea
    <3>1. FindIndex(DirOn(disk), n) \in DirEntries /\ DirOn(disk)[FindIndex(DirOn(disk), n)].inUse
      BY <2>1, <2>2, FindIndexFinds, Zenon
    <3> QED BY <1>1, <1>2, <3>1, Zenon DEF Sound, SectorOn
  <2> QED BY <1>3, <2>2
<1>5. Exists(n) => (IsHeader(SectorOf(n)) <=> HeaderOn(disk, n) \in Headers)
  <2>1. IsHeader(SectorOf(n)) <=> "dataSectors" \in DOMAIN disk[SectorOn(disk, n)]
    BY <1>3, Zenon DEF IsHeader, HeaderOn
  <2>2. Exists(n) => ("dataSectors" \in DOMAIN disk[SectorOn(disk, n)] <=> disk[SectorOn(disk, n)] \in Headers)
    BY <1>1, <1>4, HeaderIs, Zenon
  <2> QED BY <2>1, <2>2, Zenon DEF HeaderOn
<1>6. n \in Owners => Exists(n) /\ HeaderOn(disk, n) \in Headers
  BY <1>1, <1>2, <1>3 DEF HasSectors
<1> QED BY <1>1, <1>2, <1>3, <1>4, <1>5, <1>6

LEMMA OpenInv == Healthy /\ Open => Healthy'
<1> SUFFICES ASSUME Healthy, Open
             PROVE  Healthy'
  OBVIOUS
<1> DEFINE n == command.name
<1>1. /\ writes = << >> /\ stage \in {"open", "open2"}
      /\ UNCHANGED <<disk, writes, command, output, saved, dangling, crashes>>
  BY DEF Open, Reaches
<1>2. FsTypes /\ CommandOK /\ FilesOK /\ FileIsOpen /\ Printed
  BY DEF Healthy
<1>3. command # Idle
  BY <1>1, <1>2 DEF CommandOK
<1>4. /\ command.prog \in {"copy", "print", "perf"} /\ n \in Names
      /\ stage = "open2" => command.prog = "perf"
      /\ command.prog \in {"copy", "perf"} /\ stage = "open" => n \notin DOMAIN saved /\ n \in Owners
      /\ command.prog = "copy" => command.from \in Seq(Nat)
  <2>1. command.prog \in {"copy", "perf"} /\ stage = "open" => n \in Owners
    BY <1>2 DEF FileIsOpen
  <2> QED BY <1>1, <1>2, <1>3, <2>1 DEF CommandOK, StagesOf
<1>5. /\ Soon = disk
      /\ HeaderAt(SectorOf(n)) = HeaderOn(disk, n)
      /\ Exists(n) => (IsHeader(SectorOf(n)) <=> HeaderOn(disk, n) \in Headers)
      /\ n \in Owners => Exists(n)
  BY <1>1, <1>4, WhatIsFound
<1>6. file.hdr \in Headers /\ file.seekPosition \in 0 .. file.hdr.numBytes
      /\ file = [hdr |-> file.hdr, seekPosition |-> file.seekPosition] /\ output \in Seq(Nat)
  BY <1>2 DEF FsTypes
<1>7. Soon' = Soon /\ Owners' = Owners /\ HeaderOn(Soon, command.name)' = HeaderOn(Soon, command.name)
      /\ CreateSize' = CreateSize
  <2>1. Soon' = Soon
    BY <1>1, Zenon DEF Soon
  <2> QED BY <1>1, <2>1, Zenon DEF Owners, CreateSize, InProg
<1>8. DOMAIN saved' \subseteq DOMAIN saved /\ \A m \in DOMAIN saved' : saved'[m] = saved[m]
  BY <1>1
<1>9. CASE Exists(n)
  <2>1. file' = [hdr |-> HeaderOn(Soon, n), seekPosition |-> 0] /\ HeaderOn(Soon, n) \in Headers
        /\ stage' = IF command.prog = "print" \/ stage = "open2" THEN "read" ELSE "write"
    BY <1>5, <1>9 DEF Open, OpenNext, InProg
  <2>2. file'.hdr = HeaderOn(Soon, n) /\ file'.seekPosition = 0
    BY <2>1
  <2>3. file'.hdr \in Headers /\ file'.seekPosition \in 0 .. file'.hdr.numBytes
    <3>1. HeaderOn(Soon, n).numBytes \in Nat
      BY <2>1 DEF Headers
    <3> QED BY <2>1, <2>2, <3>1
  <2>4. CommandOK'
    BY <1>1, <1>2, <1>3, <1>4, <2>1 DEF CommandOK, StagesOf
  <2>5. FileIsOpen'
    <3>1. file'.hdr = HeaderOn(Soon, command.name)'
      BY <1>7, <2>2
    <3>2. command'.prog \in {"copy", "perf"} /\ stage' \in {"open", "write"} =>
            command'.name \in Owners' /\ HeaderOn(Soon, command.name)'.numBytes = CreateSize'
      BY <1>1, <1>2, <1>4, <1>7, <2>1 DEF FileIsOpen
    <3>3. HasBytes(Soon, file.hdr, command.from, file.seekPosition)'
      <4>1. HasBytes(Soon, file'.hdr, command.from, 0)
        BY DEF HasBytes
      <4> QED BY <1>1, <1>7, <2>2, <4>1, Zenon
    <3> QED BY <3>1, <3>2, <3>3, Zenon DEF FileIsOpen
  <2>6. Printed'
    <3>1. command.prog = "print" => output = << >>
      BY <1>1, <1>2, <1>4 DEF Printed
    <3>2. SubSeq(saved[n], 1, 0) = << >>
      OBVIOUS
    <3>3. command.prog = "print" => stage' = "read"
      BY <2>1
    <3> QED BY <1>1, <2>2, <3>1, <3>2, <3>3 DEF Printed
  <2>7. file' = [hdr |-> file'.hdr, seekPosition |-> file'.seekPosition] /\ output' \in Seq(Nat)
    BY <1>1, <1>6, <2>1, <2>2
  <2> QED BY <1>1, <1>8, <2>3, <2>4, <2>5, <2>6, <2>7, MovesOn
<1>10. CASE ~Exists(n)
  <2>1. stage' = (IF command.prog = "perf" THEN "remove" ELSE "done") /\ file' = file
    BY <1>10 DEF Open, OpenFailed, InProg
  <2>2. n \notin Owners /\ n \notin DOMAIN saved
    BY <1>2, <1>5, <1>10 DEF FilesOK
  <2>3. command.prog \in {"print", "perf"} /\ (command.prog = "perf" => stage = "open2")
    BY <1>1, <1>4, <2>2
  <2>4. CommandOK'
    BY <1>1, <1>2, <1>3, <1>4, <2>1, <2>3 DEF CommandOK, StagesOf
  <2>5. FileIsOpen'
    BY <1>1, <2>1, <2>3 DEF FileIsOpen
  <2>6. Printed'
    BY <1>1, <2>1, <2>2 DEF Printed
  <2> QED BY <1>1, <1>6, <1>8, <2>1, <2>4, <2>5, <2>6, MovesOn
<1> QED BY <1>9, <1>10

LEMMA OpenGarbageInv == Healthy /\ OpenGarbage => Healthy'
<1> SUFFICES ASSUME Healthy, OpenGarbage
             PROVE  Healthy'
  OBVIOUS
<1> DEFINE n == command.name
<1>1. /\ writes = << >> /\ stage \in {"open", "open2"} /\ Exists(n) /\ ~IsHeader(SectorOf(n))
      /\ stage' \in {OpenFailed, "aborted"}
      /\ UNCHANGED <<disk, writes, command, file, output, saved, dangling, crashes>>
  BY DEF OpenGarbage, Reaches
<1>2. FsTypes /\ CommandOK /\ FilesOK /\ FileIsOpen
  BY DEF Healthy
<1>3. command # Idle
  BY <1>1, <1>2 DEF CommandOK
<1>4. /\ command.prog \in {"copy", "print", "perf"} /\ n \in Names
      /\ stage = "open2" => command.prog = "perf"
  BY <1>1, <1>2, <1>3 DEF CommandOK, StagesOf
<1>5. n \notin Owners /\ FindIndex(DirOn(disk), n) \in dangling
  BY <1>1, <1>4, WhatIsFound
<1>6. command.prog \in {"print", "perf"} /\ (command.prog = "perf" => stage = "open2") /\ n \notin DOMAIN saved
  BY <1>1, <1>2, <1>4, <1>5 DEF FileIsOpen, FilesOK
<1>7. stage' \in {IF command.prog = "perf" THEN "remove" ELSE "done", "aborted"}
  BY <1>1 DEF OpenFailed, InProg
<1>8. CommandOK'
  <2>1. FindIndex(DirOn(disk), n)' \in dangling'
    BY <1>1, <1>5
  <2> QED BY <1>1, <1>2, <1>3, <1>4, <1>6, <1>7, <2>1 DEF CommandOK, StagesOf
<1>9. FileIsOpen' /\ Printed'
  BY <1>1, <1>6, <1>7 DEF FileIsOpen, Printed
<1>10. file.hdr \in Headers /\ file.seekPosition \in 0 .. file.hdr.numBytes
      /\ file = [hdr |-> file.hdr, seekPosition |-> file.seekPosition] /\ output \in Seq(Nat)
  BY <1>2 DEF FsTypes
<1> QED BY <1>1, <1>8, <1>9, <1>10, MovesOn

----------------------------------------------------------------------------
\* A sector write: the disk comes nearer to Soon, which stays.
LEMMA EntryOnTheWay ==
  ASSUME NEW d, NEW e, NEW f, \A s \in {3, 4} : f[s] = d[s] \/ f[s] = e[s], NEW i \in DirEntries
  PROVE  /\ DirOn(d)[i] = DirOn(e)[i] => DirOn(f)[i] = DirOn(e)[i]
         /\ \/ DirOn(f)[i].inUse = DirOn(d)[i].inUse /\ DirOn(f)[i].sector = DirOn(d)[i].sector
            \/ DirOn(f)[i].inUse = DirOn(e)[i].inUse /\ DirOn(f)[i].sector = DirOn(e)[i].sector
<1>1. ASSUME NEW g
      PROVE  /\ DirOn(g)[i] = [inUse |-> DirOn(g)[i].inUse, sector |-> DirOn(g)[i].sector, name |-> DirOn(g)[i].name]
             /\ DirOn(g)[i].inUse = IF i <= Straddling THEN g[3].slots[i][1] ELSE g[4].slots[i][1]
             /\ DirOn(g)[i].sector = IF i <= Straddling THEN g[3].slots[i][2] ELSE g[4].slots[i][2]
             /\ DirOn(g)[i].name = IF i < Straddling THEN g[3].labels[i] ELSE g[4].labels[i]
  <2>1. DirOn(g)[i] = [inUse |-> IF i <= Straddling THEN g[3].slots[i][1] ELSE g[4].slots[i][1],
                       sector |-> IF i <= Straddling THEN g[3].slots[i][2] ELSE g[4].slots[i][2],
                       name |-> IF i < Straddling THEN g[3].labels[i] ELSE g[4].labels[i]]
    BY Zenon DEF DirOn, DirOf
  <2> QED BY <2>1
<1>2. \/ DirOn(f)[i].inUse = DirOn(d)[i].inUse /\ DirOn(f)[i].sector = DirOn(d)[i].sector
      \/ DirOn(f)[i].inUse = DirOn(e)[i].inUse /\ DirOn(f)[i].sector = DirOn(e)[i].sector
  <2>1. CASE i <= Straddling
    <3>1. CASE f[3] = d[3]
      BY <1>1, <2>1, <3>1, Zenon
    <3>2. CASE f[3] = e[3]
      BY <1>1, <2>1, <3>2, Zenon
    <3> QED BY <3>1, <3>2
  <2>2. CASE ~(i <= Straddling)
    <3>1. CASE f[4] = d[4]
      BY <1>1, <2>2, <3>1, Zenon
    <3>2. CASE f[4] = e[4]
      BY <1>1, <2>2, <3>2, Zenon
    <3> QED BY <3>1, <3>2
  <2> QED BY <2>1, <2>2
<1>3. DirOn(f)[i].name = DirOn(d)[i].name \/ DirOn(f)[i].name = DirOn(e)[i].name
  <2>1. CASE i < Straddling
    <3>1. CASE f[3] = d[3]
      BY <1>1, <2>1, <3>1, Zenon
    <3>2. CASE f[3] = e[3]
      BY <1>1, <2>1, <3>2, Zenon
    <3> QED BY <3>1, <3>2
  <2>2. CASE ~(i < Straddling)
    <3>1. CASE f[4] = d[4]
      BY <1>1, <2>2, <3>1, Zenon
    <3>2. CASE f[4] = e[4]
      BY <1>1, <2>2, <3>2, Zenon
    <3> QED BY <3>1, <3>2
  <2> QED BY <2>1, <2>2
<1>4. ASSUME DirOn(d)[i] = DirOn(e)[i]
      PROVE  DirOn(f)[i] = DirOn(e)[i]
  <2>1. /\ DirOn(f)[i].inUse = DirOn(e)[i].inUse /\ DirOn(f)[i].sector = DirOn(e)[i].sector
        /\ DirOn(f)[i].name = DirOn(e)[i].name
    BY <1>2, <1>3, <1>4
  <2>2. DirOn(f)[i] = [inUse |-> DirOn(f)[i].inUse, sector |-> DirOn(f)[i].sector, name |-> DirOn(f)[i].name]
    BY <1>1
  <2>3. DirOn(e)[i] = [inUse |-> DirOn(e)[i].inUse, sector |-> DirOn(e)[i].sector, name |-> DirOn(e)[i].name]
    BY <1>1
  <2> QED BY <2>1, <2>2, <2>3
<1> QED BY <1>2, <1>4

LEMMA WriteSectorInv == Healthy /\ WriteSector => Healthy'
<1> SUFFICES ASSUME Healthy, WriteSector
             PROVE  Healthy'
  OBVIOUS
<1>1. /\ writes # << >> /\ disk' = [disk EXCEPT ![Head(writes).sector] = Head(writes).data]
      /\ writes' = Tail(writes) /\ UNCHANGED <<command, stage, file, output, saved, dangling, crashes>>
  BY DEF WriteSector
<1>2. FsTypes /\ CommandOK /\ FilesOK /\ FileIsOpen /\ Printed
  BY DEF Healthy
<1>3. IsDisk(disk) /\ IsDisk(Soon) /\ AreWrites(writes)
  BY <1>2, DiskIsSettled
<1>4. /\ IsDisk(disk') /\ AreWrites(writes') /\ After(disk', writes') = Soon
      /\ Targets(writes') \subseteq Targets(writes)
      /\ \A s \in Sectors : disk'[s] = disk[s] \/ disk'[s] = Soon[s]
      /\ disk'[Head(writes).sector] = Soon[Head(writes).sector]
      /\ \A s \in Sectors : s # Head(writes).sector => disk'[s] = disk[s]
  <2>1. PICK e, w : e = disk' /\ w = writes
    OBVIOUS
  <2>2. IsNext(disk, w, e) /\ AreWrites(w) /\ w # << >> /\ IsDisk(disk)
    BY <1>1, <1>3, <2>1 DEF IsNext
  <2>3. /\ IsDisk(e) /\ AreWrites(Tail(w)) /\ After(e, Tail(w)) = After(disk, w)
        /\ Targets(Tail(w)) \subseteq Targets(w)
        /\ \A s \in Sectors : e[s] = disk[s] \/ e[s] = After(disk, w)[s]
        /\ e[Head(w).sector] = After(disk, w)[Head(w).sector]
        /\ \A s \in Sectors : s # Head(w).sector => e[s] = disk[s]
    BY <2>2, OneIsWritten
  <2> QED BY <1>1, <2>1, <2>3, Zenon DEF Soon
<1>5. Soon' = Soon /\ Owners' = Owners
  <2>1. Soon' = Soon
    BY <1>4 DEF Soon
  <2> QED BY <1>1, <2>1, Zenon DEF Owners
<1>6. FsTypes'
  BY <1>1, <1>2, <1>4, Zenon DEF FsTypes
<1>7. CommandOK'
  <2>1. command # Idle /\ stage # "aborted"
    BY <1>1, <1>2 DEF CommandOK
  <2> QED BY <1>1, <1>2, <2>1 DEF CommandOK
<1>8. OthersAreThere /\ WritesAreInOrder
  BY <1>1, <1>2, Zenon DEF FilesOK
<1>9. OthersAreThere'
  <2>1. ASSUME NEW n \in Owners \ {command.name}
        PROVE  IsKept(Soon, disk', n, Targets(writes'))
    <3>1. HasSectors(Soon, n) /\ n \in Names
      BY OwnersAreThere
    <3>2. IsKept(Soon, disk, n, Targets(writes))
      BY <1>8, Zenon DEF OthersAreThere, ToWrite
    <3>3. PICK e : e = disk'
      OBVIOUS
    <3>4. PICK fewer : fewer = Targets(writes')
      OBVIOUS
    <3>5. IsDisk(e) /\ fewer \subseteq Targets(writes) /\ \A s \in Sectors : e[s] = disk[s] \/ e[s] = Soon[s]
      BY <1>4, <3>3, <3>4, Zenon
    <3>6. IsKept(Soon, e, n, fewer)
      BY <1>3, <3>1, <3>2, <3>5, KeptWhenWritten, Zenon
    <3> QED BY <3>3, <3>4, <3>6, Zenon
  <2> QED BY <1>1, <1>5, <2>1, Zenon DEF OthersAreThere, ToWrite
<1>10. ASSUME NEW marks, Pending(marks)
       PROVE  Pending(marks)'
  <2>1. PICK k \in DirEntries \ dangling :
          /\ \A i \in DirEntries \ {k} : DirOn(disk)[i] = DirOn(Soon)[i]
          /\ DirOn(disk)[k].inUse => DirOn(disk)[k].sector \in DataArea \ marks
          /\ DirOn(Soon)[k].inUse => DirOn(Soon)[k].sector \in DataArea \ marks
          /\ command.name \in Owners => FindIndex(DirOn(Soon), command.name) = k
    BY <1>10, Zenon DEF Pending
  <2>2. \A s \in {3, 4} : disk'[s] = disk[s] \/ disk'[s] = Soon[s]
    BY <1>4, Layout
  <2>3. \A i \in DirEntries \ {k} : DirOn(disk')[i] = DirOn(Soon)[i]
    BY <2>1, <2>2, EntryOnTheWay
  <2>4. DirOn(disk')[k].inUse => DirOn(disk')[k].sector \in DataArea \ marks
    <3>1. k \in DirEntries
      OBVIOUS
    <3>2. \/ DirOn(disk')[k].inUse = DirOn(disk)[k].inUse /\ DirOn(disk')[k].sector = DirOn(disk)[k].sector
          \/ DirOn(disk')[k].inUse = DirOn(Soon)[k].inUse /\ DirOn(disk')[k].sector = DirOn(Soon)[k].sector
      BY <2>2, <3>1, EntryOnTheWay
    <3> QED BY <2>1, <3>2
  <2> QED BY <1>1, <1>5, <2>1, <2>3, <2>4, Zenon DEF Pending
<1>11. writes' # << >> => WritesAreInOrder'
  <2>1. ASSUME writes' # << >>, stage = "open"
        PROVE  Pending(MapOn(disk))' /\ writes'[Len(writes')].sector = 2
    <3>1. Pending(MapOn(disk)) /\ writes[Len(writes)].sector = 2
      BY <1>8, <2>1 DEF WritesAreInOrder
    <3>2. writes \in Seq(Writes) /\ \A j, k \in DOMAIN writes : writes[j].sector = writes[k].sector => j = k
      BY <1>3, Zenon DEF AreWrites
    <3>3. Len(writes) \in Nat /\ Len(writes) > 1 /\ writes'[Len(writes')] = writes[Len(writes)]
          /\ Head(writes) = writes[1] /\ 1 \in DOMAIN writes /\ Len(writes) \in DOMAIN writes
      BY <1>1, <2>1, <3>2
    <3>4. Head(writes).sector # 2
      BY <3>1, <3>2, <3>3
    <3>5. MapOn(disk') = MapOn(disk)
      BY <1>4, <3>4, Layout DEF MapOn
    <3>6. Pending(MapOn(disk))'
      BY <1>10, <3>1, <3>5, Zenon
    <3> QED BY <3>1, <3>3, <3>6
  <2>2. ASSUME stage = "write"
        PROVE  /\ command.name \in Owners
               /\ Targets(writes') \subseteq ToSet(HeaderOn(Soon, command.name).dataSectors)
    BY <1>4, <1>8, <2>2 DEF WritesAreInOrder, ToWrite
  <2>3. ASSUME stage = "done"
        PROVE  Pending(MapOn(Soon))' /\ MapOn(disk') = MapOn(Soon)
    <3>1. /\ Pending(MapOn(Soon))
          /\ MapOn(disk) = MapOn(Soon) \/ Head(writes).sector = 2
      BY <1>8, <2>3, Zenon DEF WritesAreInOrder
    <3>2. MapOn(disk') = MapOn(Soon)
      BY <1>4, <3>1, Layout DEF MapOn
    <3>3. Pending(MapOn(Soon))'
      BY <1>5, <1>10, <3>1, Zenon
    <3> QED BY <3>2, <3>3
  <2>4. ToWrite' = Targets(writes')
    BY DEF ToWrite
  <2> QED BY <1>1, <1>5, <2>1, <2>2, <2>3, <2>4, Zenon DEF WritesAreInOrder
<1>12. FileIsOpen'
  <2>1. CreateSize' = CreateSize
    BY <1>1 DEF CreateSize, InProg
  <2>2. HeaderOn(Soon, command.name)' = HeaderOn(Soon, command.name)
    BY <1>1, <1>5, Zenon
  <2>3. HasBytes(Soon, file.hdr, command.from, file.seekPosition)' = HasBytes(Soon, file.hdr, command.from, file.seekPosition)
    BY <1>1, <1>5, Zenon
  <2> QED BY <1>1, <1>2, <1>5, <2>1, <2>2, <2>3, Zenon DEF FileIsOpen
<1>13. Printed'
  BY <1>1, <1>2, Zenon DEF Printed
<1>14. FilesOK'
  <2>1. Sound(Soon, dangling)'
    BY <1>1, <1>2, <1>5, Zenon DEF FilesOK
  <2>2. MarkedHaveOwners' /\ BytesAreSaved' /\ DOMAIN saved' \subseteq Owners'
    BY <1>1, <1>2, <1>5, Zenon DEF FilesOK, MarkedHaveOwners, BytesAreSaved
  <2> QED BY <1>9, <1>11, <2>1, <2>2, Zenon DEF FilesOK
<1> QED BY <1>6, <1>7, <1>12, <1>13, <1>14, Zenon DEF Healthy

----------------------------------------------------------------------------
\* Reading.
LEMMA ReadAtIs ==
  ASSUME IsDisk(disk), NEW hdr \in Headers, NEW k \in Nat \ {0}, NEW pos \in 0 .. hdr.numBytes
  PROVE  /\ ReadAt(hdr, k, pos) \in Seq(Nat)
         /\ pos + Len(ReadAt(hdr, k, pos)) \in 0 .. hdr.numBytes
         /\ ReadAt(hdr, k, pos) = << >> => pos = hdr.numBytes
         /\ k >= hdr.numBytes - pos => pos + Len(ReadAt(hdr, k, pos)) = hdr.numBytes
         /\ \A j \in 1 .. Len(ReadAt(hdr, k, pos)) : ReadAt(hdr, k, pos)[j] = ByteOn(disk, hdr, pos + j - 1)
<1> DEFINE got == ReadAt(hdr, k, pos)
           m == hdr.numBytes - pos
           len == Min({k, m})
<1>1. hdr.numBytes \in Nat /\ m \in Nat /\ ~(k <= 0)
  BY DEF Headers
<1>2. len \in Nat /\ len <= k /\ len <= m /\ (len = k \/ len = m)
  BY <1>1, MinOfTwo
<1>3. CASE pos >= hdr.numBytes
  <2>1. got = << >> /\ pos = hdr.numBytes
    BY <1>1, <1>3 DEF ReadAt
  <2> QED BY <1>1, <2>1
<1>4. CASE ~(pos >= hdr.numBytes)
  <2>1. got = [j \in 1 .. len |->
                 LET p == pos + j - 1 IN BytesAt(hdr.dataSectors[p \div SectorSize + 1])[p % SectorSize]]
    BY <1>1, <1>4 DEF ReadAt
  <2> HIDE DEF got, len
  <2>2. ASSUME NEW j \in 1 .. len
        PROVE  got[j] = ByteOn(disk, hdr, pos + j - 1) /\ ByteOn(disk, hdr, pos + j - 1) \in Nat
    <3>1. got[j] = BytesAt(hdr.dataSectors[(pos + j - 1) \div SectorSize + 1])[(pos + j - 1) % SectorSize]
      BY <2>1
    <3>2. got[j] = ByteOn(disk, hdr, pos + j - 1)
      BY <3>1, OnTheDisk, Zenon DEF ByteOn
    <3>3. pos + j - 1 \in 0 .. hdr.numBytes - 1
      BY <1>1, <1>2
    <3>4. ByteOn(disk, hdr, pos + j - 1) \in Nat
      BY <3>3, ByteIsInFile, Zenon
    <3> QED BY <3>2, <3>4
  <2>3. got \in [1 .. len -> Nat]
    BY <2>1, <2>2
  <2>4. got \in Seq(Nat) /\ Len(got) = len
    BY <1>2, <2>3
  <2>5. len # 0
    BY <1>1, <1>2, <1>4
  <2>6. got # << >>
    BY <2>4, <2>5
  <2> QED BY <1>1, <1>2, <2>2, <2>4, <2>6 DEF got
<1> QED BY <1>3, <1>4

LEMMA MoreIsRead ==
  ASSUME NEW bytes \in Seq(Nat), NEW pos \in 0 .. Len(bytes), NEW got \in Seq(Nat),
         pos + Len(got) \in 0 .. Len(bytes), \A j \in 1 .. Len(got) : got[j] = bytes[pos + j]
  PROVE  SubSeq(bytes, 1, pos) \o got = SubSeq(bytes, 1, pos + Len(got))
<1> DEFINE a == SubSeq(bytes, 1, pos)
           b == SubSeq(bytes, 1, pos + Len(got))
<1>1. a \in Seq(Nat) /\ Len(a) = pos /\ \A j \in 1 .. pos : a[j] = bytes[j]
  OBVIOUS
<1>2. b \in Seq(Nat) /\ Len(b) = pos + Len(got) /\ \A j \in 1 .. pos + Len(got) : b[j] = bytes[j]
  OBVIOUS
<1> HIDE DEF a, b
<1>3. a \o got \in Seq(Nat) /\ Len(a \o got) = pos + Len(got)
      /\ \A j \in 1 .. pos + Len(got) : (a \o got)[j] = IF j <= pos THEN a[j] ELSE got[j - pos]
  <2>1. /\ a \o got \in Seq(Nat) /\ Len(a \o got) = Len(a) + Len(got)
        /\ \A j \in 1 .. Len(a) + Len(got) : (a \o got)[j] = IF j <= Len(a) THEN a[j] ELSE got[j - Len(a)]
    BY <1>1, Appended, Zenon
  <2> QED BY <1>1, <2>1
<1>4. ASSUME NEW j \in 1 .. pos + Len(got)
      PROVE  (a \o got)[j] = b[j]
  <2>1. CASE j <= pos
    <3>1. (a \o got)[j] = a[j]
      <4>1. (a \o got)[j] = IF j <= pos THEN a[j] ELSE got[j - pos]
        BY <1>3, Zenon
      <4> QED BY <2>1, <4>1, Zenon
    <3>2. j \in 1 .. pos
      BY <2>1
    <3>3. a[j] = bytes[j]
      BY <1>1, <3>2, Zenon
    <3>4. b[j] = bytes[j]
      BY <1>2, Zenon
    <3> QED BY <3>1, <3>3, <3>4, Zenon
  <2>2. CASE ~(j <= pos)
    <3>1. (a \o got)[j] = got[j - pos] /\ j - pos \in 1 .. Len(got)
      <4>1. (a \o got)[j] = IF j <= pos THEN a[j] ELSE got[j - pos]
        BY <1>3, Zenon
      <4>2. (a \o got)[j] = got[j - pos]
        BY <2>2, <4>1, Zenon
      <4>3. pos \in Nat /\ Len(got) \in Nat
        OBVIOUS
      <4> QED BY <2>2, <4>2, <4>3
    <3>2. pos + (j - pos) = j
      OBVIOUS
    <3> QED BY <1>2, <3>1, <3>2
  <2> QED BY <2>1, <2>2
<1> QED BY <1>2, <1>3, <1>4 DEF a, b

LEMMA ReadChunkInv == Healthy /\ ReadChunk => Healthy'
<1> SUFFICES ASSUME Healthy, ReadChunk
             PROVE  Healthy'
  OBVIOUS
<1> DEFINE n == command.name
           h == file.hdr
           pos == file.seekPosition
           got == ReadAt(h, TransferSize, pos)
<1>1. /\ writes = << >> /\ stage = "read" /\ output' = output \o got
      /\ file' = [file EXCEPT !.seekPosition = @ + Len(got)]
      /\ UNCHANGED <<disk, writes, command, saved, dangling, crashes>>
  BY DEF ReadChunk, Reaches
<1>2. FsTypes /\ CommandOK /\ FilesOK /\ FileIsOpen /\ Printed
  BY DEF Healthy
<1>3. command # Idle
  BY <1>1, <1>2 DEF CommandOK
<1>4. command.prog \in {"print", "perf"} /\ n \in Names
  BY <1>1, <1>2, <1>3 DEF CommandOK, StagesOf
<1>5. /\ command.prog = "perf" => stage' \in {"read", "remove"}
      /\ command.prog = "print" => stage' = IF got = << >> THEN "done" ELSE "read"
  BY <1>4 DEF ReadChunk, InProg
<1>6. /\ h \in Headers /\ pos \in 0 .. h.numBytes /\ file = [hdr |-> h, seekPosition |-> pos]
      /\ output \in Seq(Nat) /\ IsDisk(disk) /\ Soon = disk
  BY <1>1, <1>2, DiskIsSettled DEF FsTypes
<1>7. /\ got \in Seq(Nat) /\ pos + Len(got) \in 0 .. h.numBytes /\ (got = << >> => pos = h.numBytes)
      /\ \A j \in 1 .. Len(got) : got[j] = ByteOn(disk, h, pos + j - 1)
  <2>1. TransferSize \in Nat \ {0}
    BY FileSystemAssumption
  <2> HIDE DEF h, pos
  <2> QED BY <1>6, <2>1, ReadAtIs, Zenon
<1> HIDE DEF got
<1>8. file' = [hdr |-> h, seekPosition |-> pos + Len(got)] /\ file'.hdr = h /\ file'.seekPosition = pos + Len(got)
  BY <1>1, <1>6
<1>9. output' \in Seq(Nat)
  BY <1>1, <1>6, <1>7
<1>10. Soon' = Soon /\ (n \in DOMAIN saved => h = HeaderOn(Soon, n))
  <2>1. Soon' = Soon
    BY <1>1, Zenon DEF Soon
  <2> QED BY <1>1, <1>2, <2>1, Zenon DEF FileIsOpen
<1>11. CommandOK'
  BY <1>1, <1>2, <1>3, <1>4, <1>5 DEF CommandOK, StagesOf
<1>12. FileIsOpen'
  <2>1. command'.name \in DOMAIN saved' => file'.hdr = HeaderOn(Soon, command.name)'
    BY <1>1, <1>8, <1>10
  <2>2. stage' \notin {"open", "write"}
    BY <1>4, <1>5
  <2> QED BY <2>1, <2>2, Zenon DEF FileIsOpen
<1>13. Printed'
  <2>1. SUFFICES ASSUME command.prog = "print", n \in DOMAIN saved
                 PROVE  /\ output' = SubSeq(saved[n], 1, pos + Len(got))
                        /\ stage' = "done" => output' = saved[n]
    BY <1>1, <1>4, <1>5, <1>8, <2>1 DEF Printed
  <2> DEFINE bytes == saved[n]
  <2>2. bytes \in Seq(Nat) /\ IsSaved(Soon, n, bytes)
    BY <1>2, <2>1, Zenon DEF FsTypes, FilesOK, BytesAreSaved
  <2>3. h.numBytes = Len(bytes) /\ HasBytes(disk, h, bytes, Len(bytes))
    BY <1>6, <1>10, <2>1, <2>2, Zenon DEF IsSaved
  <2>4. output = SubSeq(bytes, 1, pos)
    BY <1>1, <1>2, <2>1 DEF Printed
  <2> HIDE DEF bytes
  <2>5. \A j \in 1 .. Len(got) : got[j] = bytes[pos + j]
    <3> SUFFICES ASSUME NEW j \in 1 .. Len(got)
                 PROVE  got[j] = bytes[pos + j]
      OBVIOUS
    <3>1. pos + j - 1 \in 0 .. Len(bytes) - 1 /\ pos + j - 1 + 1 = pos + j
      <4> HIDE DEF h, pos
      <4> QED BY <1>6, <1>7, <2>2, <2>3
    <3>2. ByteOn(disk, h, pos + j - 1) = bytes[pos + j - 1 + 1]
      BY <2>3, <3>1, Zenon DEF HasBytes
    <3>3. got[j] = ByteOn(disk, h, pos + j - 1)
      BY <1>7
    <3> QED BY <3>1, <3>2, <3>3
  <2>6. output' = SubSeq(bytes, 1, pos + Len(got))
    <3> HIDE DEF pos, h
    <3>1. SubSeq(bytes, 1, pos) \o got = SubSeq(bytes, 1, pos + Len(got))
      BY <1>6, <1>7, <2>2, <2>3, <2>5, MoreIsRead
    <3> QED BY <1>1, <2>4, <3>1
  <2>7. ASSUME stage' = "done"
        PROVE  output' = bytes
    <3>1. got = << >> /\ pos = Len(bytes)
      BY <1>5, <1>7, <2>1, <2>3, <2>7
    <3>2. Len(got) = 0 /\ pos + Len(got) = Len(bytes)
      BY <2>2, <3>1
    <3>3. SubSeq(bytes, 1, Len(bytes)) = bytes
      BY <2>2
    <3> QED BY <2>6, <3>2, <3>3
  <2> QED BY <2>6, <2>7 DEF bytes
<1>14. /\ file' = [hdr |-> file'.hdr, seekPosition |-> file'.seekPosition]
       /\ file'.hdr \in Headers /\ file'.seekPosition \in 0 .. file'.hdr.numBytes
  BY <1>6, <1>7, <1>8
<1>15. DOMAIN saved' \subseteq DOMAIN saved /\ \A m \in DOMAIN saved' : saved'[m] = saved[m]
  BY <1>1
<1> QED BY <1>1, <1>9, <1>11, <1>12, <1>13, <1>14, <1>15, MovesOn

----------------------------------------------------------------------------
\* A copy that is done is saved.
LEMMA CopyDoneInv == Healthy /\ CopyDone => Healthy'
<1> SUFFICES ASSUME Healthy, CopyDone
             PROVE  Healthy'
  OBVIOUS
<1> DEFINE n == command.name
           h == file.hdr
           pos == file.seekPosition
<1>1. /\ writes = << >> /\ stage = "write" /\ pos = Len(command.from)
      /\ UNCHANGED <<disk, writes, dangling, crashes>>
  BY DEF CopyDone, Reaches
<1>2. FsTypes /\ CommandOK /\ FilesOK /\ FileIsOpen /\ Printed
  BY DEF Healthy
<1>3. command # Idle
  BY <1>1, <1>2 DEF CommandOK
<1>4. command.prog \in {"copy", "perf"} /\ n \in Names /\ n \notin DOMAIN saved
  BY <1>1, <1>2, <1>3 DEF CommandOK, StagesOf
<1>5. Soon' = Soon /\ Owners' = Owners /\ writes' = << >>
  <2>1. Soon' = Soon
    BY <1>1, Zenon DEF Soon
  <2> QED BY <1>1, <2>1, Zenon DEF Owners
<1>6. n \in Owners /\ h = HeaderOn(Soon, n) /\ h.numBytes = CreateSize
  BY <1>1, <1>2, <1>4, Zenon DEF FileIsOpen
<1>7. /\ h \in Headers /\ pos \in 0 .. h.numBytes /\ file = [hdr |-> h, seekPosition |-> pos]
      /\ output \in Seq(Nat)
  BY <1>2 DEF FsTypes
<1>8. CASE command.prog = "perf"
  <2>1. stage' = "open2" /\ UNCHANGED <<command, file, output, saved>>
    BY <1>8 DEF CopyDone, InProg
  <2>2. CommandOK'
    BY <1>1, <1>2, <1>3, <1>4, <1>8, <2>1 DEF CommandOK, StagesOf
  <2>3. FileIsOpen' /\ Printed'
    BY <1>8, <2>1 DEF FileIsOpen, Printed
  <2> QED BY <1>1, <1>7, <2>1, <2>2, <2>3, MovesOn
<1>9. CASE command.prog = "copy"
  <2> DEFINE from == command.from
  <2>1. /\ saved' = [m \in DOMAIN saved \cup {n} |-> IF m = n THEN from ELSE saved[m]]
        /\ command' = Idle /\ stage' = "idle" /\ file' = Closed /\ output' = << >>
    BY <1>9 DEF CopyDone, InProg, Return
  <2>2. from \in Seq(Nat) /\ h.numBytes = Len(from)
    BY <1>2, <1>6, <1>9 DEF CommandOK, CreateSize, InProg
  <2>3. DOMAIN saved' = DOMAIN saved \cup {n} /\ saved'[n] = from /\ \A m \in DOMAIN saved : saved'[m] = saved[m]
    BY <1>4, <2>1
  <2>4. command'.prog = "none"
    BY <2>1 DEF Idle
  <2>5. FsTypes'
    <3>1. \A m \in DOMAIN saved' : saved'[m] \in Seq(Nat)
      BY <1>2, <2>2, <2>3 DEF FsTypes
    <3>2. DOMAIN saved' \subseteq Names
      BY <1>2, <1>4, <2>3 DEF FsTypes
    <3>3. file'.hdr \in Headers /\ file'.seekPosition \in 0 .. file'.hdr.numBytes
          /\ file' = [hdr |-> file'.hdr, seekPosition |-> file'.seekPosition]
      BY <2>1, ClosedIsFile
    <3>4. AreWrites(writes') /\ IsDisk(disk') /\ output' \in Seq(Nat)
      <4>1. << >> \in Seq(Nat)
        OBVIOUS
      <4> QED BY <1>1, <1>2, <2>1, <4>1, Zenon DEF FsTypes
    <3> QED BY <1>1, <1>2, <3>1, <3>2, <3>3, <3>4, Zenon DEF FsTypes
  <2>6. CommandOK'
    BY <1>1, <2>1, <2>4 DEF CommandOK
  <2>7. FileIsOpen' /\ Printed'
    BY <2>1, <2>4 DEF FileIsOpen, Printed
  <2>8. MarkedHaveOwners' /\ Sound(Soon, dangling)'
    BY <1>1, <1>2, <1>5, Zenon DEF FilesOK, MarkedHaveOwners
  <2>9. DOMAIN saved' \subseteq Owners'
    BY <1>2, <1>5, <1>6, <2>3 DEF FilesOK
  <2>10. BytesAreSaved'
    <3>1. HasBytes(Soon, h, from, Len(from))
      BY <1>1, <1>2, <1>9, Zenon DEF FileIsOpen
    <3>2. IsSaved(Soon, n, from)
      BY <1>6, <2>2, <3>1, Zenon DEF IsSaved
    <3>3. \A m \in DOMAIN saved : IsSaved(Soon, m, saved[m])
      BY <1>2, Zenon DEF FilesOK, BytesAreSaved
    <3>4. ASSUME NEW m \in DOMAIN saved'
          PROVE  IsSaved(Soon, m, saved'[m])
      <4>1. CASE m = n
        BY <2>3, <3>2, <4>1, Zenon
      <4>2. CASE m # n
        <5>1. m \in DOMAIN saved
          BY <2>3, <4>2
        <5> QED BY <2>3, <3>3, <5>1, Zenon
      <4> QED BY <4>1, <4>2
    <3> QED BY <1>5, <3>4, Zenon DEF BytesAreSaved
  <2> QED BY <1>5, <2>5, <2>6, <2>7, <2>8, <2>9, <2>10 DEF Healthy, FilesOK
<1> QED BY <1>4, <1>8, <1>9

\* After a crash the files are those that the directory and the map agree about:
\* the saved ones are among them.
LEMMA CrashInv == Healthy /\ Crash => Healthy'
<1> SUFFICES ASSUME Healthy, Crash
             PROVE  Healthy'
  OBVIOUS
<1>1. /\ crashes < MaxCrashes /\ crashes' = crashes + 1
      /\ dangling' = dangling \cup {i \in 1 .. NumDirEntries : Dangles(i)}
      /\ writes' = << >> /\ output' = << >> /\ command' = Idle /\ stage' = "idle" /\ file' = Closed
      /\ saved' = saved /\ disk' = disk
  BY DEF Crash, Return
<1>2. FsTypes /\ FilesOK
  BY DEF Healthy
<1>3. IsDisk(disk) /\ IsDisk(Soon) /\ AreWrites(writes) /\ AreWrites(<< >>)
  <2>1. << >> \in Seq(Writes)
    OBVIOUS
  <2> QED BY <1>2, <2>1, DiskIsSettled DEF AreWrites
<1>4. Soon' = disk
  <2>1. After(disk, << >>) = disk
    BY <1>3, AfterIs, Zenon
  <2> QED BY <1>1, <2>1, Zenon DEF Soon
<1>5. command'.prog = "none"
  BY <1>1 DEF Idle
<1>6. dangling' = dangling \cup HalfDone(disk)
  <2>1. FreeMap = MapOn(disk) /\ TheDirectory = DirOn(disk)
    BY <1>3, OnTheDisk
  <2>2. {i \in 1 .. NumDirEntries : Dangles(i)} = HalfDone(disk)
    BY <2>1 DEF HalfDone, Dangles, DirEntries
  <2> QED BY <1>1, <2>2
<1>7. Sound(Soon, dangling)'
  BY <1>4, <1>6, DiskIsSound
<1>8. crashes \in Nat /\ crashes' \in 0 .. MaxCrashes /\ crashes' # 0
  BY <1>1, <1>2, Layout DEF FsTypes
<1>9. FsTypes'
  <2>1. file'.hdr \in Headers /\ file'.seekPosition \in 0 .. file'.hdr.numBytes
        /\ file' = [hdr |-> file'.hdr, seekPosition |-> file'.seekPosition]
    BY <1>1, ClosedIsFile
  <2>2. dangling' \subseteq DirEntries /\ output' \in Seq(Nat)
    BY <1>1, <1>2, <1>6 DEF HalfDone, FsTypes
  <2>3. DOMAIN saved' \subseteq Names /\ \A n \in DOMAIN saved' : saved'[n] \in Seq(Nat)
    BY <1>1, <1>2 DEF FsTypes
  <2> QED BY <1>1, <1>3, <1>8, <2>1, <2>2, <2>3, Zenon DEF FsTypes
<1>10. CommandOK'
  BY <1>1, <1>5 DEF CommandOK
<1>11. FileIsOpen' /\ Printed'
  BY <1>1, <1>5 DEF FileIsOpen, Printed
<1>12. ASSUME NEW n \in DOMAIN saved
       PROVE  n \in OwnersAt(disk, dangling \cup HalfDone(disk)) /\ IsSaved(disk, n, saved[n])
  <2>1. n \in Owners /\ HasSectors(Soon, n) /\ n \in Names /\ FindIndex(DirOn(Soon), n) \notin dangling
    BY <1>2, OwnersAreThere DEF FilesOK
  <2>2. IsKept(Soon, disk, n, ToWrite) /\ IsSaved(Soon, n, saved[n]) /\ saved[n] \in Seq(Nat)
    BY <1>2, SavedIsKept, Zenon DEF FilesOK, BytesAreSaved, FsTypes
  <2>3. \A s \in Sectors \ ToWrite : Soon[s] = disk[s]
    BY <1>2, DiskIsSettled
  <2>4. HasSectors(disk, n)
    BY <1>3, <2>1, <2>2, <2>3, KeptIsThere
  <2>5. IsSaved(disk, n, saved[n])
    BY <1>3, <2>1, <2>2, <2>3, KeptIsThere
  <2>6. PICK i \in DirEntries : IsAt(DirOn(Soon), n, i) /\ IsAt(DirOn(disk), n, i)
    BY <2>2, Zenon DEF IsKept
  <2>7. FindIndex(DirOn(Soon), n) = i /\ FindIndex(DirOn(disk), n) = i /\ i # 0
        /\ SectorOn(disk, n) = DirOn(disk)[i].sector
    BY <1>3, <2>6, EntryFound, Zenon
  <2>8. SectorOn(disk, n) \in MapOn(disk)
    BY <2>4 DEF HasSectors, OwnOn
  <2>9. i \notin HalfDone(disk)
    BY <2>7, <2>8 DEF HalfDone
  <2> QED BY <2>1, <2>5, <2>7, <2>9 DEF OwnersAt
<1>13. DOMAIN saved' \subseteq Owners'
  <2>1. Owners' = OwnersAt(disk, dangling \cup HalfDone(disk))
    BY <1>4, <1>6, Zenon DEF Owners
  <2> QED BY <1>1, <1>12, <2>1
<1>14. MarkedHaveOwners'
  BY <1>8 DEF MarkedHaveOwners
<1>15. BytesAreSaved'
  BY <1>1, <1>4, <1>12, Zenon DEF BytesAreSaved
<1> QED BY <1>1, <1>7, <1>9, <1>10, <1>11, <1>13, <1>14, <1>15 DEF Healthy, FilesOK

\* Pending writes of three or four sectors.
FitWrites == {x \in Writes : Fits(x.sector, x.data)}

LEMMA AreWritten ==
  ASSUME NEW w \in Seq(FitWrites), \A j, k \in DOMAIN w : w[j].sector = w[k].sector => j = k,
         NEW d, IsDisk(d)
  PROVE  AreWrites(w) /\ \A k \in DOMAIN w : After(d, w)[w[k].sector] = w[k].data
<1>1. FitWrites \subseteq Writes /\ \A x \in FitWrites : Fits(x.sector, x.data)
  BY Zenon DEF FitWrites
<1>2. w \in Seq(Writes) /\ \A k \in DOMAIN w : w[k] \in FitWrites
  BY <1>1
<1>3. AreWrites(w)
  BY <1>1, <1>2, Zenon DEF AreWrites
<1>4. \A k \in DOMAIN w : After(d, w)[w[k].sector] = w[k].data
  BY <1>3, AfterIs
<1> QED BY <1>3, <1>4

LEMMA ThreeWrites ==
  ASSUME NEW a \in FitWrites, NEW b \in FitWrites, NEW c \in FitWrites,
         a.sector = 2, b.sector = 3, c.sector = 4, NEW d, IsDisk(d)
  PROVE  /\ AreWrites(<<a, b, c>>) /\ Targets(<<a, b, c>>) = {2, 3, 4}
         /\ After(d, <<a, b, c>>)[2] = a.data /\ After(d, <<a, b, c>>)[3] = b.data
         /\ After(d, <<a, b, c>>)[4] = c.data
<1> DEFINE w == <<a, b, c>>
<1>1. w \in Seq(FitWrites) /\ DOMAIN w = {1, 2, 3} /\ w[1] = a /\ w[2] = b /\ w[3] = c
  OBVIOUS
<1> HIDE DEF w
<1>2. \A j, k \in DOMAIN w : w[j].sector = w[k].sector => j = k
  BY <1>1
<1>3. AreWrites(w) /\ \A k \in DOMAIN w : After(d, w)[w[k].sector] = w[k].data
  BY <1>1, <1>2, AreWritten
<1>4. After(d, w)[2] = a.data /\ After(d, w)[3] = b.data /\ After(d, w)[4] = c.data
  BY <1>1, <1>3
<1>5. Targets(w) = {2, 3, 4}
  BY <1>1 DEF Targets
<1> QED BY <1>3, <1>4, <1>5 DEF w

LEMMA FourWrites ==
  ASSUME NEW a \in FitWrites, NEW b \in FitWrites, NEW c \in FitWrites, NEW f \in FitWrites,
         a.sector \in DataArea, b.sector = 3, c.sector = 4, f.sector = 2, NEW d, IsDisk(d)
  PROVE  /\ AreWrites(<<a, b, c, f>>) /\ Targets(<<a, b, c, f>>) = {a.sector, 2, 3, 4}
         /\ After(d, <<a, b, c, f>>)[a.sector] = a.data /\ After(d, <<a, b, c, f>>)[2] = f.data
         /\ After(d, <<a, b, c, f>>)[3] = b.data /\ After(d, <<a, b, c, f>>)[4] = c.data
<1> DEFINE w == <<a, b, c, f>>
<1>1. w \in Seq(FitWrites) /\ DOMAIN w = {1, 2, 3, 4} /\ w[1] = a /\ w[2] = b /\ w[3] = c /\ w[4] = f
  OBVIOUS
<1> HIDE DEF w
<1>2. a.sector # 2 /\ a.sector # 3 /\ a.sector # 4
  BY Layout
<1>3. \A j, k \in DOMAIN w : w[j].sector = w[k].sector => j = k
  BY <1>1, <1>2
<1>4. AreWrites(w) /\ \A k \in DOMAIN w : After(d, w)[w[k].sector] = w[k].data
  BY <1>1, <1>3, AreWritten
<1>5. After(d, w)[a.sector] = a.data /\ After(d, w)[3] = b.data /\ After(d, w)[4] = c.data /\ After(d, w)[2] = f.data
  BY <1>1, <1>4
<1>6. Targets(w) = {a.sector, 2, 3, 4}
  BY <1>1 DEF Targets
<1> QED BY <1>4, <1>5, <1>6 DEF w

LEMMA Joined ==
  ASSUME NEW a, NEW b, NEW c, NEW f
  PROVE  /\ <<a>> \o <<b, c>> = <<a, b, c>>
         /\ <<a>> \o <<b, c>> \o <<f>> = <<a, b, c, f>>
<1> DEFINE T == {a, b, c, f}
           s == <<a>>
           t == <<b, c>>
           u == <<f>>
           v == <<a, b, c>>
           w == <<a, b, c, f>>
<1>1. s \in Seq(T) /\ Len(s) = 1 /\ s[1] = a
  OBVIOUS
<1>2. t \in Seq(T) /\ Len(t) = 2 /\ t[1] = b /\ t[2] = c
  OBVIOUS
<1>3. u \in Seq(T) /\ Len(u) = 1 /\ u[1] = f
  OBVIOUS
<1>4. v \in Seq(T) /\ Len(v) = 3 /\ v[1] = a /\ v[2] = b /\ v[3] = c
  OBVIOUS
<1>5. w \in Seq(T) /\ Len(w) = 4 /\ w[1] = a /\ w[2] = b /\ w[3] = c /\ w[4] = f
  OBVIOUS
<1> HIDE DEF s, t, u, v, w, T
<1> DEFINE st == s \o t
           all == st \o u
<1>6. /\ st \in Seq(T) /\ Len(st) = Len(s) + Len(t)
      /\ \A j \in 1 .. Len(s) + Len(t) : st[j] = IF j <= Len(s) THEN s[j] ELSE t[j - Len(s)]
  BY <1>1, <1>2, Appended
<1> HIDE DEF st
<1>7. Len(st) = 3 /\ st[1] = a /\ st[2] = b /\ st[3] = c
  BY <1>1, <1>2, <1>6
<1>8. st = v
  <2>1. \A j \in 1 .. 3 : j = 1 \/ j = 2 \/ j = 3
    OBVIOUS
  <2>2. \A j \in 1 .. 3 : st[j] = v[j]
    BY <1>4, <1>7, <2>1, Zenon
  <2>3. Len(st) = Len(v) /\ \A j \in 1 .. Len(st) : st[j] = v[j]
    BY <1>4, <1>7, <2>2
  <2> QED BY <1>4, <1>6, <2>3, SameSequence, Zenon
<1>9. /\ all \in Seq(T) /\ Len(all) = Len(st) + Len(u)
      /\ \A j \in 1 .. Len(st) + Len(u) : all[j] = IF j <= Len(st) THEN st[j] ELSE u[j - Len(st)]
  <2>1. st \in Seq(T) /\ u \in Seq(T)
    BY <1>3, <1>6
  <2> QED BY <2>1, Appended, Zenon
<1> HIDE DEF all
<1>10. Len(all) = 4 /\ all[1] = a /\ all[2] = b /\ all[3] = c /\ all[4] = f
  BY <1>3, <1>7, <1>9
<1>11. all = w
  <2>1. \A j \in 1 .. 4 : j = 1 \/ j = 2 \/ j = 3 \/ j = 4
    OBVIOUS
  <2>2. \A j \in 1 .. 4 : all[j] = w[j]
    BY <1>5, <1>10, <2>1, Zenon
  <2>3. Len(all) = Len(w) /\ \A j \in 1 .. Len(all) : all[j] = w[j]
    BY <1>5, <1>10, <2>2
  <2> QED BY <1>5, <1>9, <2>3, SameSequence, Zenon
<1> QED BY <1>8, <1>11 DEF s, t, u, v, w, st, all

\* What is written.
LEMMA WritesAre ==
  ASSUME NEW s, NEW data, NEW w, w = [sector |-> s, data |-> data],
         \/ s = 2 /\ \E marks \in Maps : data = [bits |-> marks]
         \/ s = 3 /\ \E dir \in Directories : data = FirstPart(dir)
         \/ s = 4 /\ \E dir \in Directories : data = SecondPart(dir)
         \/ s \in DataArea /\ data \in [bytes : Buffers] \cup Headers
  PROVE  w \in FitWrites /\ w.sector = s /\ w.data = data
<1>1. s \in Sectors \ {0, 1}
  BY Layout
<1>2. w.sector = s /\ w.data = data
  OBVIOUS
<1>3. CASE s = 2 /\ \E marks \in Maps : data = [bits |-> marks]
  <2>1. data \in [bits : Maps]
    BY <1>3
  <2>2. data \in SectorData
    BY <2>1 DEF SectorData
  <2> QED BY <1>1, <1>2, <1>3, <2>1, <2>2, SectorsHold DEF Writes, FitWrites
<1>4. CASE s = 3 /\ \E dir \in Directories : data = FirstPart(dir)
  <2>1. data \in FirstParts
    BY <1>4, PartsOfDir
  <2>2. data \in SectorData
    BY <2>1 DEF SectorData
  <2> QED BY <1>1, <1>2, <1>4, <2>1, <2>2, SectorsHold DEF Writes, FitWrites
<1>5. CASE s = 4 /\ \E dir \in Directories : data = SecondPart(dir)
  <2>1. data \in SecondParts
    BY <1>5, PartsOfDir
  <2>2. data \in SectorData
    BY <2>1 DEF SectorData
  <2> QED BY <1>1, <1>2, <1>5, <2>1, <2>2, SectorsHold DEF Writes, FitWrites
<1>6. CASE s \in DataArea /\ data \in [bytes : Buffers] \cup Headers
  <2>1. data \in SectorData
    BY <1>6 DEF SectorData
  <2> QED BY <1>1, <1>2, <1>6, <2>1, SectorsHold DEF Writes, FitWrites
<1> QED BY <1>3, <1>4, <1>5, <1>6

\* A command that an ASSERT stops, or that takes other bytes for a header, is
\* about an entry that a crash left half done.
LEMMA AbortedInv ==
  ASSUME Healthy, stage = "remove", writes = << >>, Exists(command.name), command.name \notin Owners,
         stage' = "aborted", saved' = [m \in DOMAIN saved \ {command.name} |-> saved[m]],
         UNCHANGED <<disk, writes, command, file, output, dangling, crashes>>
  PROVE  Healthy'
<1>1. FsTypes /\ CommandOK
  BY DEF Healthy
<1>2. command # Idle
  BY <1>1 DEF CommandOK
<1>3. command.prog \in {"remove", "perf"} /\ command.name \in Names
  BY <1>1, <1>2 DEF CommandOK, StagesOf
<1>4. FindIndex(DirOn(disk), command.name) \in dangling
  BY <1>3, WhatIsFound
<1>5. CommandOK'
  <2>1. FindIndex(DirOn(disk), command.name)' \in dangling'
    BY <1>4
  <2> QED BY <1>1, <1>2, <1>3, <2>1 DEF CommandOK
<1>6. FileIsOpen' /\ Printed'
  BY <1>3 DEF FileIsOpen, Printed
<1>7. file.hdr \in Headers /\ file.seekPosition \in 0 .. file.hdr.numBytes
      /\ file = [hdr |-> file.hdr, seekPosition |-> file.seekPosition] /\ output \in Seq(Nat)
  BY <1>1 DEF FsTypes
<1> QED BY <1>5, <1>6, <1>7, MovesOn

LEMMA RemoveGarbageInv == Healthy /\ RemoveGarbage /\ ~corrupt' => Healthy'
<1> SUFFICES ASSUME Healthy, RemoveGarbage, ~corrupt'
             PROVE  Healthy'
  OBVIOUS
<1>1. /\ writes = << >> /\ stage = "remove" /\ Exists(command.name) /\ ~IsHeader(SectorOf(command.name))
      /\ stage' = "aborted"
      /\ saved' = [m \in DOMAIN saved \ {command.name} |-> saved[m]]
      /\ UNCHANGED <<disk, writes, command, file, output, dangling, crashes>>
  BY DEF RemoveGarbage, Reaches, Without
<1>2. command.name \in Names
  BY <1>1 DEF Healthy, CommandOK
<1>3. command.name \notin Owners
  BY <1>1, <1>2, WhatIsFound
<1> QED BY <1>1, <1>3, AbortedInv

\* Remove, with its three writes pending.
LEMMA RemoveFileInv == Healthy /\ RemoveFile /\ ~corrupt' => Healthy'
<1> SUFFICES ASSUME Healthy, RemoveFile, ~corrupt'
             PROVE  Healthy'
  OBVIOUS
<1> DEFINE n == command.name
           k == FindIndex(DirOn(disk), n)
           hdr == HeaderOn(disk, n)
           dir == DirRemove(DirOn(disk), n)
           marks == MapOn(disk) \ OwnOn(disk, n)
           a == [sector |-> 2, data |-> [bits |-> marks]]
           b == [sector |-> 3, data |-> FirstPart(dir)]
           c == [sector |-> 4, data |-> SecondPart(dir)]
           e == After(disk, <<a, b, c>>)
<1>1. /\ writes = << >> /\ stage = "remove" /\ Exists(n) /\ IsHeader(SectorOf(n))
      /\ saved' = [m \in DOMAIN saved \ {n} |-> saved[m]]
      /\ UNCHANGED <<disk, command, file, output, crashes>>
  BY DEF RemoveFile, Reaches, Without
<1>2. FsTypes /\ CommandOK /\ FilesOK
  BY DEF Healthy
<1>3. command # Idle
  BY <1>1, <1>2 DEF CommandOK
<1>4. command.prog \in {"remove", "perf"} /\ n \in Names
  BY <1>1, <1>2, <1>3 DEF CommandOK, StagesOf
<1>5. /\ IsDisk(disk) /\ Soon = disk /\ Owners \in SUBSET Names
      /\ Sound(disk, dangling) /\ Owners = OwnersAt(disk, dangling)
      /\ FilesApart(disk, Owners) /\ \A m \in Owners : HasSectors(disk, m)
  <2>1. Soon = disk
    BY <1>1, <1>2, DiskIsSettled
  <2> QED BY <2>1, OwnersAreThere DEF Owners
<1>6. /\ MapData = 2 /\ DirData = <<3, 4>> /\ FreeMap = MapOn(disk) /\ TheDirectory = DirOn(disk)
      /\ k # 0 /\ FindIndex(TheDirectory, n) = k
      /\ SectorOf(n) = SectorOn(disk, n) /\ HeaderAt(SectorOf(n)) = hdr
  BY <1>1, <1>5, OnTheDisk DEF HeaderOf
<1>7. /\ SectorOn(disk, n) \in DataArea /\ hdr \in Headers
      /\ n \notin Owners => k \in dangling
  BY <1>1, <1>4, WhatIsFound
<1>8. DirOn(disk) \in Directories /\ MapOn(disk) \in Maps /\ OwnOn(disk, n) \subseteq DataArea
  <2>1. hdr.dataSectors \in Seq(DataArea)
    BY <1>7 DEF Headers
  <2>2. ToSet(hdr.dataSectors) \subseteq DataArea
    BY <2>1 DEF ToSet
  <2>3. OwnOn(disk, n) \subseteq DataArea
    BY <1>7, <2>2 DEF OwnOn
  <2> QED BY <1>5, <2>3, DiskParts
<1>9. k \in DirEntries /\ DirOn(disk)[k].inUse /\ DirOn(disk)[k].sector = SectorOn(disk, n)
  BY <1>6, <1>8, FindIndexFinds, Zenon DEF SectorOn
<1>10. CASE ~DeallocateAllowed(FreeMap, hdr)
  <2>1. stage' = "aborted" /\ UNCHANGED <<writes, dangling>>
    BY <1>6, <1>10 DEF RemoveFile
  <2>2. n \notin Owners
    <3>1. ASSUME n \in Owners
          PROVE  ToSet(hdr.dataSectors) \subseteq MapOn(disk)
      BY <1>5, <3>1 DEF HasSectors, OwnOn
    <3> QED BY <1>6, <1>10, <3>1 DEF DeallocateAllowed
  <2> QED BY <1>1, <2>1, <2>2, AbortedInv
<1>11. CASE DeallocateAllowed(FreeMap, hdr)
  <2>1. /\ writes' = <<a, b, c>> /\ stage' = "done" /\ dangling' = dangling \ {k}
        /\ k \in dangling => marks = MapOn(disk)
    <3> DEFINE s == SectorOn(disk, n)
    <3>1. /\ stage' = "done" /\ dangling' = dangling \ {k}
          /\ k \in dangling => Deallocated(FreeMap, hdr) \ {s} = FreeMap
          /\ writes' = WriteMap(Deallocated(FreeMap, hdr) \ {s}) \o WriteDirectory(DirRemove(TheDirectory, n))
      BY <1>6, <1>11 DEF RemoveFile
    <3>2. Deallocated(FreeMap, hdr) \ {s} = marks
      BY <1>6 DEF Deallocated, OwnOn
    <3>3. WriteMap(marks) = <<a>> /\ WriteDirectory(dir) = <<b, c>>
      BY <1>6 DEF WriteMap, WriteDirectory
    <3> HIDE DEF a, b, c, marks, dir
    <3>4. <<a>> \o <<b, c>> = <<a, b, c>>
      BY Joined
    <3>5. DirRemove(TheDirectory, n) = dir
      BY <1>6 DEF dir
    <3> QED BY <1>6, <3>1, <3>2, <3>3, <3>4, <3>5
  <2>2. dir \in Directories
    BY <1>6, <1>8, DirRemoved
  <2>3. marks \in Maps
    BY <1>8, Layout DEF Maps
  <2>4. k \in dangling => OwnOn(disk, n) \cap MapOn(disk) = {}
    BY <2>1
  <2> HIDE DEF dir, marks
  <2>5. a \in FitWrites /\ a.sector = 2 /\ a.data = [bits |-> marks]
    BY <2>3, WritesAre
  <2>6. b \in FitWrites /\ b.sector = 3 /\ b.data = FirstPart(dir)
    BY <2>2, WritesAre
  <2>7. c \in FitWrites /\ c.sector = 4 /\ c.data = SecondPart(dir)
    BY <2>2, WritesAre
  <2> HIDE DEF a, b, c
  <2>8. /\ AreWrites(<<a, b, c>>) /\ Targets(<<a, b, c>>) = {2, 3, 4} /\ Head(<<a, b, c>>) = a
        /\ e[2] = [bits |-> marks] /\ e[3] = FirstPart(dir) /\ e[4] = SecondPart(dir)
    BY <1>5, <2>5, <2>6, <2>7, ThreeWrites
  <2>9. /\ IsDisk(e) /\ \A r \in DataArea : e[r] = disk[r]
    <3>1. IsDisk(e) /\ \A r \in Sectors \ Targets(<<a, b, c>>) : e[r] = disk[r]
      BY <1>5, <2>8, AfterIs
    <3> HIDE DEF e
    <3> QED BY <2>8, <3>1, Layout
  <2>10. Soon' = e /\ ToWrite' = {2, 3, 4} /\ writes' # << >> /\ Head(writes').sector = 2
    BY <1>1, <2>1, <2>5, <2>8 DEF Soon, ToWrite
  <2> HIDE DEF e
  <2>11. MapOn(e) = MapOn(disk) \ OwnOn(disk, n) /\ DirOn(e) = DirRemove(DirOn(disk), n)
    <3>1. MapOn(e) = marks
      BY <2>8 DEF MapOn
    <3>2. DirOn(e) = dir
      BY <2>2, <2>8, PartsOfDir DEF DirOn
    <3> QED BY <3>1, <3>2 DEF marks, dir
  <2>12. \A m \in OwnersAt(disk, dangling) \ {n} : OwnOn(disk, m) \cap OwnOn(disk, n) = {}
    <3> SUFFICES ASSUME NEW m \in Owners, m # n
                 PROVE  OwnOn(disk, m) \cap OwnOn(disk, n) = {}
      BY <1>5
    <3>1. CASE n \in Owners
      BY <1>5, <3>1 DEF FilesApart
    <3>2. CASE n \notin Owners
      <4>1. OwnOn(disk, m) \subseteq MapOn(disk)
        BY <1>5 DEF HasSectors
      <4> QED BY <1>7, <2>4, <3>2, <4>1
    <3> QED BY <3>1, <3>2
  <2> DEFINE rest == Owners \ {n}
  <2>13. /\ Sound(e, dangling \ {k}) /\ OwnersAt(e, dangling \ {k}) = rest
         /\ \A m \in rest : IsKept(e, disk, m, {2, 3, 4})
         /\ \A m \in rest, bytes \in Seq(Nat) : IsSaved(disk, m, bytes) => IsSaved(e, m, bytes)
         /\ ~DirOn(e)[k].inUse /\ \A i \in DirEntries \ {k} : DirOn(disk)[i] = DirOn(e)[i]
         /\ n \in Owners /\ Marked(MapOn(disk), disk, Owners) => Marked(MapOn(e), e, rest)
    <3>1. IsTakenAway(disk, e, dangling, n, k)
      BY <1>4, <1>5, <1>6, <2>9, <2>11, <2>12, Zenon DEF IsTakenAway
    <3>2. PICK d, gone, j : d = disk /\ gone = dangling /\ j = k
      OBVIOUS
    <3>3. IsTakenAway(d, e, gone, n, j)
      BY <3>1, <3>2
    <3>4. /\ Sound(e, gone \ {j}) /\ OwnersAt(e, gone \ {j}) = OwnersAt(d, gone) \ {n}
          /\ \A m \in OwnersAt(d, gone) \ {n} : IsKept(e, d, m, {2, 3, 4})
          /\ \A m \in OwnersAt(d, gone) \ {n}, bytes \in Seq(Nat) : IsSaved(d, m, bytes) => IsSaved(e, m, bytes)
          /\ j \in DirEntries /\ ~DirOn(e)[j].inUse /\ \A i \in DirEntries \ {j} : DirOn(d)[i] = DirOn(e)[i]
          /\ n \in OwnersAt(d, gone) /\ Marked(MapOn(d), d, OwnersAt(d, gone)) =>
               Marked(MapOn(e), e, OwnersAt(d, gone) \ {n})
      <4> HIDE DEF k, n
      <4> QED BY <3>3, FileIsRemoved, Zenon
    <3>5. OwnersAt(d, gone) = Owners
      BY <1>5, <3>2
    <3> HIDE DEF k
    <3> QED BY <3>2, <3>4, <3>5
  <2>14. Owners' = rest
    BY <2>1, <2>10, <2>13, Zenon DEF Owners
  <2> HIDE DEF rest
  <2>15. DOMAIN saved' = DOMAIN saved \ {n} /\ DOMAIN saved \subseteq Owners
         /\ \A m \in DOMAIN saved' : m \in rest /\ m \in DOMAIN saved /\ saved'[m] = saved[m]
    BY <1>1, <1>2 DEF FilesOK, rest
  <2>16. FsTypes'
    <3>1. DOMAIN saved' \subseteq Names /\ \A m \in DOMAIN saved' : saved'[m] \in Seq(Nat)
      BY <1>2, <2>15 DEF FsTypes
    <3>2. AreWrites(writes')
      BY <2>1, <2>8
    <3>3. dangling' \subseteq DirEntries /\ (crashes' = 0 => dangling' = {})
      BY <1>1, <1>2, <2>1 DEF FsTypes
    <3> QED BY <1>1, <1>2, <3>1, <3>2, <3>3, Zenon DEF FsTypes
  <2>17. CommandOK'
    BY <1>1, <1>2, <1>3, <1>4, <2>1, <2>15 DEF CommandOK, StagesOf
  <2>18. FileIsOpen' /\ Printed'
    BY <1>1, <1>4, <2>1 DEF FileIsOpen, Printed
  <2>19. Sound(Soon, dangling)'
    BY <2>1, <2>10, <2>13, Zenon
  <2>20. MarkedHaveOwners'
    <3>1. crashes = 0 => n \in Owners /\ Marked(MapOn(disk), disk, Owners)
      BY <1>2, <1>5, <1>7 DEF FilesOK, MarkedHaveOwners, FsTypes
    <3> QED BY <1>1, <2>10, <2>13, <2>14, <3>1, Zenon DEF MarkedHaveOwners
  <2>21. DOMAIN saved' \subseteq Owners'
    BY <2>14, <2>15
  <2>22. BytesAreSaved'
    <3>1. ASSUME NEW m \in DOMAIN saved'
          PROVE  IsSaved(e, m, saved'[m])
      <4>1. m \in rest /\ m \in DOMAIN saved /\ saved'[m] = saved[m]
        BY <2>15
      <4>2. IsSaved(disk, m, saved[m]) /\ saved[m] \in Seq(Nat)
        BY <1>2, <1>5, <4>1, Zenon DEF FilesOK, BytesAreSaved, FsTypes
      <4>3. IsSaved(e, m, saved[m])
        BY <2>13, <4>1, <4>2
      <4> QED BY <4>1, <4>3
    <3> QED BY <2>10, <3>1, Zenon DEF BytesAreSaved
  <2>23. OthersAreThere'
    <3>1. \A m \in Owners' \ {n} : IsKept(e, disk, m, {2, 3, 4})
      BY <2>13, <2>14
    <3> QED BY <1>1, <2>10, <3>1, Zenon DEF OthersAreThere
  <2>24. Sound(disk, dangling \cup HalfDone(disk))'
    <3>1. dangling' \cup HalfDone(disk) = dangling \cup HalfDone(disk)
      <4>1. k \in dangling => k \in HalfDone(disk)
        <5>1. SectorOn(disk, n) \in OwnOn(disk, n)
          BY DEF OwnOn
        <5> QED BY <1>9, <2>4, <5>1 DEF HalfDone
      <4> HIDE DEF k
      <4> QED BY <2>1, <4>1
    <3>2. Sound(disk, dangling \cup HalfDone(disk))
      BY DiskIsSound
    <3> QED BY <1>1, <3>1, <3>2
  <2>25. Pending(MapOn(Soon))'
    <3>1. DirOn(disk)[k].sector \in DataArea \ MapOn(e)
      <4>1. SectorOn(disk, n) \in OwnOn(disk, n)
        BY DEF OwnOn
      <4> QED BY <1>7, <1>9, <2>11, <4>1
    <3>2. k \in DirEntries \ dangling'
      BY <1>9, <2>1
    <3>3. n \notin Owners'
      BY <2>14 DEF rest
    <3>4. \E j \in DirEntries \ dangling' :
            /\ \A i \in DirEntries \ {j} : DirOn(disk)[i] = DirOn(e)[i]
            /\ DirOn(disk)[j].inUse => DirOn(disk)[j].sector \in DataArea \ MapOn(e)
            /\ DirOn(e)[j].inUse => DirOn(e)[j].sector \in DataArea \ MapOn(e)
            /\ n \in Owners' => FindIndex(DirOn(e), n) = j
      BY <2>13, <3>1, <3>2, <3>3, Zenon
    <3> QED BY <1>1, <2>10, <3>4, Zenon DEF Pending
  <2>26. WritesAreInOrder'
    <3>1. stage' # "open" /\ stage' # "write"
      BY <2>1
    <3> QED BY <2>10, <2>24, <2>25, <3>1, Zenon DEF WritesAreInOrder
  <2>27. FilesOK'
    BY <2>19, <2>20, <2>21, <2>22, <2>23, <2>26, Zenon DEF FilesOK
  <2> QED BY <2>16, <2>17, <2>18, <2>27, Zenon DEF Healthy
<1> QED BY <1>10, <1>11

\* Create, with its four writes pending.
LEMMA CreateInv == Healthy /\ Create => Healthy'
<1> SUFFICES ASSUME Healthy, Create
             PROVE  Healthy'
  OBVIOUS
<1> DEFINE n == command.name
           s == FindSectors(MapOn(disk), 1)[1]
           hdr == Allocated(MapOn(disk) \cup {s}, CreateSize)
           dir == DirAdd(DirOn(disk), n, s)
           marks == MapOn(disk) \cup {s} \cup ToSet(hdr.dataSectors)
           a == [sector |-> s, data |-> hdr]
           b == [sector |-> 3, data |-> FirstPart(dir)]
           c == [sector |-> 4, data |-> SecondPart(dir)]
           f == [sector |-> 2, data |-> [bits |-> marks]]
           e == After(disk, <<a, b, c, f>>)
<1>1. /\ writes = << >> /\ stage = "create" /\ ~CreateFails /\ stage' = "open"
      /\ UNCHANGED <<disk, command, file, output, saved, dangling, crashes>>
  BY DEF Create, Reaches, AfterCreate
<1>2. FsTypes /\ CommandOK /\ FilesOK
  BY DEF Healthy
<1>3. command # Idle
  BY <1>1, <1>2 DEF CommandOK
<1>4. command.prog \in {"copy", "perf"} /\ n \in Names /\ (command.prog = "copy" => command.from \in Seq(Nat))
  BY <1>1, <1>2, <1>3 DEF CommandOK, StagesOf
<1>5. IsDisk(disk) /\ Soon = disk /\ Sound(disk, dangling) /\ Owners = OwnersAt(disk, dangling)
  <2>1. Soon = disk
    BY <1>1, <1>2, DiskIsSettled
  <2> QED BY <2>1, OwnersAreThere DEF Owners
<1>6. /\ MapData = 2 /\ DirData = <<3, 4>> /\ FreeMap = MapOn(disk) /\ TheDirectory = DirOn(disk)
      /\ Exists(n) <=> FindIndex(DirOn(disk), n) # 0
  BY <1>5, OnTheDisk
<1>7. /\ FindIndex(DirOn(disk), n) = 0 /\ NumClear(MapOn(disk)) # 0 /\ FreeEntries(DirOn(disk)) # {}
      /\ ~(NumClear(MapOn(disk)) - 1 < SectorCount(CreateSize))
  BY <1>1, <1>6 DEF CreateFails, SectorCount
<1>8. CreateSize \in Nat
  BY <1>4 DEF CreateSize, InProg
<1>9. DirOn(disk) \in Directories /\ MapOn(disk) \in Maps
  BY <1>5, DiskParts
<1>10. /\ s \in DataArea /\ s \notin MapOn(disk)
       /\ hdr \in Headers /\ hdr.numBytes = CreateSize /\ ToSet(hdr.dataSectors) \cap (MapOn(disk) \cup {s}) = {}
  BY <1>7, <1>8, <1>9, AllocatedIs
<1>11. n \notin Owners
  BY <1>5, <1>7, OwnersAreThere
<1>12. writes' = <<a, b, c, f>>
  <2>1. writes' = CreateWrites(FreeMap, TheDirectory, s, hdr, n)
    BY <1>6, Zenon DEF Create
  <2>2. WriteMap(marks) = <<f>> /\ WriteDirectory(dir) = <<b, c>>
    BY <1>6 DEF WriteMap, WriteDirectory
  <2>3. CreateWrites(FreeMap, TheDirectory, s, hdr, n) = <<a>> \o WriteDirectory(dir) \o WriteMap(marks)
    BY <1>6, Zenon DEF CreateWrites
  <2> HIDE DEF a, b, c, f, marks, dir
  <2> QED BY <2>1, <2>2, <2>3, Joined, Zenon
<1>13. marks \in Maps
  <2>1. ToSet(hdr.dataSectors) \subseteq DataArea
    BY <1>10 DEF Headers, ToSet
  <2> QED BY <1>9, <1>10, <2>1, Layout DEF Maps
<1> HIDE DEF s, hdr
<1>14. dir \in Directories
  <2>1. \A i \in DirEntries : DirOn(disk)[i].inUse => DirOn(disk)[i].name # n
    BY <1>7, <1>9, FindIndexFinds, Zenon
  <2>2. s \in Sectors
    BY <1>10, Layout
  <2> QED BY <1>4, <1>7, <1>9, <2>1, <2>2, DirAdded
<1> HIDE DEF dir, marks
<1>15. a \in FitWrites /\ a.sector = s /\ a.data = hdr
  BY <1>10, WritesAre
<1>16. b \in FitWrites /\ b.sector = 3 /\ b.data = FirstPart(dir)
  BY <1>14, WritesAre
<1>17. c \in FitWrites /\ c.sector = 4 /\ c.data = SecondPart(dir)
  BY <1>14, WritesAre
<1>18. f \in FitWrites /\ f.sector = 2 /\ f.data = [bits |-> marks]
  BY <1>13, WritesAre
<1> HIDE DEF a, b, c, f
<1>19. /\ AreWrites(<<a, b, c, f>>) /\ Targets(<<a, b, c, f>>) = {s, 2, 3, 4}
       /\ Len(<<a, b, c, f>>) = 4 /\ <<a, b, c, f>>[4] = f
       /\ e[s] = hdr /\ e[2] = [bits |-> marks] /\ e[3] = FirstPart(dir) /\ e[4] = SecondPart(dir)
  BY <1>5, <1>10, <1>15, <1>16, <1>17, <1>18, FourWrites
<1>20. /\ IsDisk(e) /\ \A r \in DataArea \ {s} : e[r] = disk[r]
  <2>1. IsDisk(e) /\ \A r \in Sectors \ Targets(<<a, b, c, f>>) : e[r] = disk[r]
    BY <1>5, <1>19, AfterIs
  <2> HIDE DEF e
  <2> QED BY <1>19, <2>1, Layout
<1>21. Soon' = e /\ ToWrite' = {s, 2, 3, 4} /\ writes' # << >> /\ writes'[Len(writes')].sector = 2
  <2>1. Soon' = e /\ ToWrite' = {s, 2, 3, 4}
    BY <1>1, <1>12, <1>19 DEF Soon, ToWrite
  <2>2. Len(writes') = 4 /\ writes'[4] = f
    BY <1>12, <1>19, Zenon
  <2>3. writes' # << >>
    BY <2>2
  <2> QED BY <1>18, <2>1, <2>2, <2>3
<1> HIDE DEF e
<1>22. MapOn(e) = MapOn(disk) \cup {s} \cup ToSet(hdr.dataSectors) /\ DirOn(e) = DirAdd(DirOn(disk), n, s)
  <2>1. MapOn(e) = marks
    BY <1>19 DEF MapOn
  <2>2. DirOn(e) = dir
    BY <1>14, <1>19, PartsOfDir DEF DirOn
  <2> QED BY <2>1, <2>2 DEF marks, dir
<1>23. IsAdded(disk, e, dangling, n, s, hdr)
  <2> HIDE DEF n
  <2>1. /\ IsDisk(disk) /\ IsDisk(e) /\ Sound(disk, dangling)
        /\ n \in Names /\ FindIndex(DirOn(disk), n) = 0 /\ FreeEntries(DirOn(disk)) # {}
        /\ s \in DataArea /\ s \notin MapOn(disk)
        /\ hdr \in Headers /\ ToSet(hdr.dataSectors) \cap (MapOn(disk) \cup {s}) = {}
        /\ DirOn(e) = DirAdd(DirOn(disk), n, s) /\ MapOn(e) = MapOn(disk) \cup {s} \cup ToSet(hdr.dataSectors)
        /\ e[s] = hdr /\ \A r \in DataArea \ {s} : e[r] = disk[r]
    BY <1>4, <1>5, <1>7, <1>10, <1>19, <1>20, <1>22
  <2> QED BY <2>1, Zenon DEF IsAdded
<1>24. /\ Sound(e, dangling) /\ OwnersAt(e, dangling) = OwnersAt(disk, dangling) \cup {n} /\ HeaderOn(e, n) = hdr
       /\ \A m \in OwnersAt(disk, dangling) : m # n /\ IsKept(e, disk, m, {s, 2, 3, 4})
       /\ \A m \in OwnersAt(disk, dangling), bytes \in Seq(Nat) : IsSaved(disk, m, bytes) => IsSaved(e, m, bytes)
       /\ \E k \in DirEntries \ dangling :
            /\ \A i \in DirEntries \ {k} : DirOn(disk)[i] = DirOn(e)[i]
            /\ ~DirOn(disk)[k].inUse /\ DirOn(e)[k].sector = s /\ FindIndex(DirOn(e), n) = k
       /\ Marked(MapOn(disk), disk, OwnersAt(disk, dangling)) => Marked(MapOn(e), e, OwnersAt(e, dangling))
  <2> HIDE DEF n
  <2> QED BY <1>23, FileIsAdded, Zenon
<1>25. PICK k \in DirEntries \ dangling :
         /\ \A i \in DirEntries \ {k} : DirOn(disk)[i] = DirOn(e)[i]
         /\ ~DirOn(disk)[k].inUse /\ DirOn(e)[k].sector = s /\ FindIndex(DirOn(e), n) = k
  BY <1>24, Zenon
<1>26. Owners' = Owners \cup {n}
  BY <1>1, <1>5, <1>21, <1>24, Zenon DEF Owners
<1>27. FsTypes'
  <2>1. AreWrites(writes')
    BY <1>12, <1>19
  <2> QED BY <1>1, <1>2, <2>1, Zenon DEF FsTypes
<1>28. n \notin DOMAIN saved
  BY <1>2, <1>11 DEF FilesOK
<1>29. CommandOK'
  BY <1>1, <1>2, <1>3, <1>4, <1>28 DEF CommandOK, StagesOf
<1>30. FileIsOpen'
  <2>1. CreateSize' = CreateSize
    BY <1>1 DEF CreateSize, InProg
  <2>2. HeaderOn(Soon, command.name)' = hdr
    BY <1>1, <1>21, <1>24, Zenon
  <2>3. n \in Owners'
    BY <1>26
  <2> QED BY <1>1, <1>10, <2>1, <2>2, <2>3 DEF FileIsOpen
<1>31. Printed'
  BY <1>1, <1>4 DEF Printed
<1>32. Sound(Soon, dangling)'
  BY <1>1, <1>21, <1>24, Zenon
<1>33. MarkedHaveOwners'
  <2>1. crashes = 0 => Marked(MapOn(disk), disk, Owners)
    BY <1>2, <1>5, Zenon DEF FilesOK, MarkedHaveOwners
  <2> QED BY <1>1, <1>5, <1>21, <1>24, <1>26, <2>1, Zenon DEF MarkedHaveOwners
<1>34. DOMAIN saved' \subseteq Owners'
  BY <1>1, <1>2, <1>26 DEF FilesOK
<1>35. BytesAreSaved'
  <2>1. ASSUME NEW m \in DOMAIN saved
        PROVE  IsSaved(e, m, saved[m])
    <3>1. IsSaved(disk, m, saved[m]) /\ saved[m] \in Seq(Nat)
      BY <1>2, <1>5, Zenon DEF FilesOK, BytesAreSaved, FsTypes
    <3>2. m \in Owners
      BY <1>2 DEF FilesOK
    <3> QED BY <1>5, <1>24, <3>1, <3>2
  <2> QED BY <1>1, <1>21, <2>1, Zenon DEF BytesAreSaved
<1>36. OthersAreThere'
  <2>1. \A m \in Owners' \ {n} : IsKept(e, disk, m, {s, 2, 3, 4})
    BY <1>5, <1>24, <1>26
  <2> QED BY <1>1, <1>21, <2>1, Zenon DEF OthersAreThere
<1>37. Pending(MapOn(disk))'
  <2>1. s \in DataArea \ MapOn(disk)
    BY <1>10
  <2>2. \E j \in DirEntries \ dangling :
          /\ \A i \in DirEntries \ {j} : DirOn(disk)[i] = DirOn(e)[i]
          /\ DirOn(disk)[j].inUse => DirOn(disk)[j].sector \in DataArea \ MapOn(disk)
          /\ DirOn(e)[j].inUse => DirOn(e)[j].sector \in DataArea \ MapOn(disk)
          /\ n \in Owners' => FindIndex(DirOn(e), n) = j
    BY <1>25, <2>1, Zenon
  <2> QED BY <1>1, <1>21, <2>2, Zenon DEF Pending
<1>38. WritesAreInOrder'
  <2>1. stage' # "write" /\ stage' # "done"
    BY <1>1
  <2> QED BY <1>21, <1>37, <2>1, Zenon DEF WritesAreInOrder
<1>39. FilesOK'
  BY <1>32, <1>33, <1>34, <1>35, <1>36, <1>38, Zenon DEF FilesOK
<1> QED BY <1>27, <1>29, <1>30, <1>31, <1>39, Zenon DEF Healthy

----------------------------------------------------------------------------
\* Write changes the data sectors of one file.
LEMMA LaterSectors ==
  ASSUME NEW a \in Nat, NEW b \in Nat, a <= b
  PROVE  a \div SectorSize <= b \div SectorSize
<1> DEFINE p == a \div SectorSize
           q == b \div SectorSize
           r == a % SectorSize
           t == b % SectorSize
<1>1. /\ p \in Nat /\ r \in 0 .. SectorSize - 1 /\ a = p * SectorSize + r
      /\ q \in Nat /\ t \in 0 .. SectorSize - 1 /\ b = q * SectorSize + t
  BY SectorOfByte
<1>2. SectorSize \in Nat \ {0}
  BY FileSystemAssumption
<1> HIDE DEF p, q, r, t
<1>3. q < p => q * SectorSize + t < p * SectorSize
  BY <1>1, <1>2, RowsAreApart
<1>4. p * SectorSize \in Nat
  BY <1>1, <1>2
<1>5. ~(q < p)
  BY <1>1, <1>3, <1>4
<1> QED BY <1>1, <1>5 DEF p, q

\* The bytes of a chunk are in the sectors that WriteAt writes, the others stay.
LEMMA WriteAtIs ==
  ASSUME IsDisk(disk), NEW hdr \in Headers, NEW pos \in 0 .. hdr.numBytes - 1, NEW bytes,
         NEW chunk \in Seq(Nat), chunk # << >>, pos + Len(chunk) <= hdr.numBytes,
         \A j \in 1 .. Len(chunk) : chunk[j] = bytes[pos + j], HasBytes(disk, hdr, bytes, pos)
  PROVE  /\ Written(hdr, chunk, pos) = Len(chunk)
         /\ AreWrites(WriteAt(hdr, chunk, pos)) /\ Targets(WriteAt(hdr, chunk, pos)) \subseteq ToSet(hdr.dataSectors)
         /\ HasBytes(After(disk, WriteAt(hdr, chunk, pos)), hdr, bytes, pos + Len(chunk))
<1> DEFINE n == Len(chunk)
           size == hdr.numBytes
           sectors == hdr.dataSectors
           first == pos \div SectorSize
           last == (pos + n - 1) \div SectorSize
           firstAligned == pos = first * SectorSize
           lastAligned == pos + n = (last + 1) * SectorSize
           byte(i, o) ==
             LET p == i * SectorSize + o
             IN IF p \in pos .. pos + n - 1 THEN chunk[p - pos + 1]
                ELSE IF ReadIn(i, first, last, firstAligned, lastAligned) /\ p < size
                  THEN BytesAt(sectors[i + 1])[o]
                  ELSE 0
           buffer(i) == [o \in 0 .. SectorSize - 1 |-> byte(i, o)]
           w == [k \in 1 .. last - first + 1 |->
                  [sector |-> sectors[first + k], data |-> [bytes |-> buffer(first + k - 1)]]]
           e == After(disk, w)
<1>1. size \in Nat /\ sectors \in Seq(DataArea) /\ SectorSize \in Nat \ {0}
      /\ \A i, j \in 1 .. Len(sectors) : sectors[i] = sectors[j] => i = j
  BY FileSystemAssumption DEF Headers
<1>2. n \in Nat \ {0} /\ pos \in Nat /\ pos < size /\ pos + n - 1 \in 0 .. size - 1
  BY <1>1
<1>3. Written(hdr, chunk, pos) = n
  <2>1. ~(pos >= size) /\ size - pos \in Nat
    BY <1>1
  <2>2. Min({n, size - pos}) = n
    <3>1. n <= size - pos /\ n \in Nat /\ size - pos \in Nat
      BY <1>1, <1>2, <2>1
    <3> HIDE DEF n, size
    <3>2. Min({n, size - pos}) = IF n <= size - pos THEN n ELSE size - pos
      BY <3>1, MinOfTwo, Zenon
    <3> QED BY <3>1, <3>2
  <2> QED BY <2>1, <2>2 DEF Written
<1>4. WriteAt(hdr, chunk, pos) = w
  BY <1>2, <1>3 DEF WriteAt
<1>5. first \in Nat /\ last \in Nat /\ first <= last
  <2>1. pos + n - 1 \in Nat /\ pos <= pos + n - 1
    BY <1>2
  <2> HIDE DEF n
  <2>2. first \in Nat /\ last \in Nat
    BY <1>2, <2>1, SectorOfByte, Zenon
  <2>3. first <= last
    BY <1>2, <2>1, LaterSectors, Zenon
  <2> QED BY <2>2, <2>3
<1>6. last + 1 \in 1 .. Len(sectors)
  BY <1>2, ByteIsInFile
<1> HIDE DEF n, size, sectors, first, last, byte
<1>7. \A i \in 0 .. last : i + 1 \in 1 .. Len(sectors) /\ sectors[i + 1] \in DataArea
                           /\ sectors[i + 1] \in ToSet(sectors)
  <2>1. \A i \in 0 .. last : i + 1 \in 1 .. Len(sectors)
    BY <1>5, <1>6
  <2> QED BY <1>1, <2>1 DEF ToSet
<1>8. ASSUME NEW i \in 0 .. last, NEW o \in 0 .. SectorSize - 1
      PROVE  byte(i, o) \in Nat
  <2>1. i * SectorSize + o \in Nat
    BY <1>1, <1>5
  <2>2. PICK p \in Nat : p = i * SectorSize + o
    BY <2>1
  <2>3. p \in pos .. pos + n - 1 => chunk[p - pos + 1] \in Nat
    <3>1. p \in pos .. pos + n - 1 => p - pos + 1 \in 1 .. n
      BY <1>2
    <3> QED BY <3>1 DEF n
  <2>4. BytesAt(sectors[i + 1])[o] \in Nat
    <3>1. BytesOn(disk, sectors[i + 1]) \in Buffers
      BY <1>7, DiskParts, Zenon
    <3>2. BytesAt(sectors[i + 1]) \in Buffers
      BY <3>1, OnTheDisk, Zenon
    <3> QED BY <3>2 DEF Buffers
  <2>5. byte(i, o) \in {chunk[p - pos + 1], BytesAt(sectors[i + 1])[o], 0}
        /\ (byte(i, o) = chunk[p - pos + 1] => p \in pos .. pos + n - 1 \/ byte(i, o) \in Nat)
    BY <2>2, <2>4 DEF byte
  <2> QED BY <2>3, <2>4, <2>5
<1>9. \A i \in 0 .. last : buffer(i) \in Buffers
  BY <1>8 DEF Buffers
<1>10. ASSUME NEW k \in 1 .. last - first + 1
       PROVE  first + k \in 1 .. Len(sectors) /\ first + k - 1 \in 0 .. last /\ first + k = first + k - 1 + 1
  BY <1>5, <1>6
<1> HIDE DEF buffer
<1>11. ASSUME NEW k \in 1 .. last - first + 1
       PROVE  /\ w[k] \in FitWrites /\ w[k].sector = sectors[first + k]
              /\ w[k].data = [bytes |-> buffer(first + k - 1)] /\ sectors[first + k] \in ToSet(sectors)
  <2>1. sectors[first + k] \in DataArea /\ sectors[first + k] \in ToSet(sectors)
    BY <1>7, <1>10
  <2>2. buffer(first + k - 1) \in Buffers
    BY <1>9, <1>10
  <2>3. [bytes |-> buffer(first + k - 1)] \in [bytes : Buffers] \cup Headers
    BY <2>2
  <2>4. w[k] = [sector |-> sectors[first + k], data |-> [bytes |-> buffer(first + k - 1)]]
    OBVIOUS
  <2> HIDE DEF w
  <2> QED BY <2>1, <2>3, <2>4, WritesAre
<1>12. DOMAIN w = 1 .. last - first + 1 /\ last - first + 1 \in Nat /\ w = [k \in 1 .. last - first + 1 |-> w[k]]
  BY <1>5
<1> HIDE DEF w
<1>13. w \in Seq(FitWrites)
  <2>1. w \in [1 .. last - first + 1 -> FitWrites]
    BY <1>11, <1>12
  <2>2. PICK N \in Nat : N = last - first + 1
    BY <1>12
  <2>3. w \in [1 .. N -> FitWrites]
    BY <2>1, <2>2
  <2> QED BY <2>3
<1>14. \A j, k \in DOMAIN w : w[j].sector = w[k].sector => j = k
  <2> SUFFICES ASSUME NEW j \in DOMAIN w, NEW k \in DOMAIN w, w[j].sector = w[k].sector
               PROVE  j = k
    OBVIOUS
  <2>1. j \in 1 .. last - first + 1 /\ k \in 1 .. last - first + 1
    BY <1>12
  <2>2. sectors[first + j] = sectors[first + k]
    BY <1>11, <2>1
  <2>3. first + j = first + k
    BY <1>1, <1>10, <2>1, <2>2
  <2> QED BY <1>5, <2>1, <2>3
<1>15. AreWrites(w) /\ \A k \in DOMAIN w : e[w[k].sector] = w[k].data
  BY <1>13, <1>14, AreWritten
<1>16. Targets(w) \subseteq ToSet(sectors)
  <2> SUFFICES ASSUME NEW k \in DOMAIN w
               PROVE  w[k].sector \in ToSet(sectors)
    BY Zenon DEF Targets
  <2>1. w[k].sector = sectors[first + k] /\ sectors[first + k] \in ToSet(sectors)
    BY <1>11, <1>12, Zenon
  <2> QED BY <2>1, Zenon
<1>17. \A s \in Sectors \ Targets(w) : e[s] = disk[s]
  BY <1>15, AfterIs
<1> HIDE DEF e
<1>18. ASSUME NEW p \in 0 .. pos + n - 1
       PROVE  ByteOn(e, hdr, p) = bytes[p + 1]
  <2> DEFINE i == p \div SectorSize
             o == p % SectorSize
  <2>1. p \in Nat /\ p <= pos + n - 1 /\ pos + n - 1 \in Nat
    BY <1>2
  <2>2. /\ i \in Nat /\ o \in 0 .. SectorSize - 1 /\ p = i * SectorSize + o /\ i <= last
        /\ (p >= pos => first <= i) /\ (p < pos => i <= first)
    <3>1. i \in Nat /\ o \in 0 .. SectorSize - 1 /\ p = i * SectorSize + o
      BY <2>1, SectorOfByte, Zenon
    <3>2. i <= last
      BY <2>1, LaterSectors, Zenon DEF last
    <3>3. (pos <= p => first <= i) /\ (p <= pos => i <= first)
      BY <1>2, <2>1, LaterSectors, Zenon DEF first
    <3> HIDE DEF i, o
    <3> QED BY <1>2, <2>1, <3>1, <3>2, <3>3
  <2>3. ByteOn(e, hdr, p) = BytesOn(e, sectors[i + 1])[o]
        /\ ByteOn(disk, hdr, p) = BytesOn(disk, sectors[i + 1])[o]
    BY DEF ByteOn, sectors
  <2>4. p < pos => ByteOn(disk, hdr, p) = bytes[p + 1]
    BY <1>2, <2>1 DEF HasBytes
  <2> HIDE DEF i, o
  <2>5. CASE first <= i
    <3> DEFINE k == i - first + 1
    <3>1. k \in 1 .. last - first + 1 /\ first + k = i + 1 /\ first + k - 1 = i
      BY <1>5, <2>2, <2>5
    <3>2. e[sectors[i + 1]] = [bytes |-> buffer(i)]
      <4>1. w[k].sector = sectors[first + k] /\ w[k].data = [bytes |-> buffer(first + k - 1)]
        BY <1>11, <3>1, Zenon
      <4>2. e[w[k].sector] = w[k].data
        BY <1>12, <1>15, <3>1, Zenon
      <4>3. w[k].sector = sectors[i + 1] /\ w[k].data = [bytes |-> buffer(i)]
        <5> HIDE DEF k
        <5> QED BY <3>1, <4>1, Zenon
      <4> QED BY <4>2, <4>3, Zenon
    <3>3. BytesOn(e, sectors[i + 1]) = buffer(i)
      BY <3>2 DEF BytesOn
    <3>4. BytesOn(e, sectors[i + 1])[o] = byte(i, o)
      BY <2>2, <3>3 DEF buffer
    <3>5. CASE p >= pos
      <4>1. p - pos + 1 \in 1 .. n /\ p \in pos .. pos + n - 1 /\ pos + (p - pos + 1) = p + 1
        BY <1>2, <2>1, <3>5
      <4>2. byte(i, o) = chunk[p - pos + 1]
        BY <2>2, <4>1 DEF byte
      <4> QED BY <2>3, <3>4, <4>1, <4>2 DEF n
    <3>6. CASE p < pos
      <4>1. p \notin pos .. pos + n - 1 /\ i = first /\ p < size
        BY <1>1, <1>2, <1>5, <2>1, <2>2, <2>5, <3>6
      <4>2. ~firstAligned
        <5>1. first * SectorSize \in Nat
          BY <1>1, <1>5
        <5> QED BY <2>2, <3>6, <4>1, <5>1
      <4>3. ReadIn(i, first, last, firstAligned, lastAligned)
        BY <4>1, <4>2 DEF ReadIn
      <4>4. byte(i, o) = BytesAt(sectors[i + 1])[o]
        BY <2>2, <4>1, <4>3 DEF byte
      <4>5. BytesAt(sectors[i + 1]) = BytesOn(disk, sectors[i + 1])
        BY OnTheDisk, Zenon
      <4> QED BY <2>3, <2>4, <3>4, <3>6, <4>4, <4>5
    <3> QED BY <1>2, <2>1, <3>5, <3>6
  <2>6. CASE i < first
    <3>1. p < pos
      BY <1>2, <1>5, <2>1, <2>2, <2>6
    <3>2. sectors[i + 1] \notin Targets(w)
      <4> SUFFICES ASSUME NEW k \in 1 .. last - first + 1, w[k].sector = sectors[i + 1]
                   PROVE  FALSE
        BY <1>12 DEF Targets
      <4>1. sectors[first + k] = sectors[i + 1]
        BY <1>11
      <4>2. i + 1 \in 1 .. Len(sectors)
        <5>1. i \in 0 .. last
          BY <1>5, <2>2
        <5> QED BY <1>7, <5>1, Zenon
      <4>3. first + k = i + 1
        BY <1>1, <1>10, <4>1, <4>2
      <4> QED BY <1>5, <2>2, <2>6, <4>3
    <3>3. sectors[i + 1] \in Sectors
      <4>1. sectors[i + 1] \in DataArea
        BY <1>7, <2>2
      <4> QED BY <4>1, Layout
    <3>4. e[sectors[i + 1]] = disk[sectors[i + 1]]
      BY <1>17, <3>2, <3>3
    <3> QED BY <2>3, <2>4, <3>1, <3>4 DEF BytesOn
  <2> QED BY <1>5, <2>2, <2>5, <2>6
<1>19. HasBytes(e, hdr, bytes, pos + n)
  <2>1. 0 .. (pos + n) - 1 = 0 .. pos + n - 1
    BY <1>2
  <2> QED BY <1>18, <2>1, Zenon DEF HasBytes
<1> QED BY <1>3, <1>4, <1>15, <1>16, <1>19 DEF n, sectors, e

LEMMA WriteChunkInv == Healthy /\ WriteChunk => Healthy'
<1> SUFFICES ASSUME Healthy, WriteChunk
             PROVE  Healthy'
  OBVIOUS
<1> DEFINE n == command.name
           h == file.hdr
           pos == file.seekPosition
           from == command.from
           chunk == Chunk(pos)
           w == WriteAt(h, chunk, pos)
           m == Written(h, chunk, pos)
           e == After(disk, w)
<1>1. /\ writes = << >> /\ stage = "write" /\ pos < Len(from) /\ writes' = w
      /\ file' = [file EXCEPT !.seekPosition = @ + m]
      /\ stage' = IF command.prog = "perf" /\ m < Len(chunk) THEN "open2" ELSE "write"
      /\ UNCHANGED <<disk, command, output, saved, dangling, crashes>>
  BY Zenon DEF WriteChunk, Reaches, InProg
<1>2. FsTypes /\ CommandOK /\ FilesOK /\ FileIsOpen /\ Printed
  BY DEF Healthy
<1>3. command # Idle
  BY <1>1, <1>2 DEF CommandOK
<1>4. command.prog \in {"copy", "perf"} /\ n \in Names /\ n \notin DOMAIN saved
  BY <1>1, <1>2, <1>3 DEF CommandOK, StagesOf
<1>5. IsDisk(disk) /\ Soon = disk /\ Sound(disk, dangling) /\ Owners = OwnersAt(disk, dangling)
  <2>1. Soon = disk
    BY <1>1, <1>2, DiskIsSettled
  <2> QED BY <2>1, OwnersAreThere DEF Owners
<1>6. n \in Owners /\ h = HeaderOn(Soon, n) /\ h.numBytes = CreateSize
  BY <1>1, <1>2, <1>4, Zenon DEF FileIsOpen
<1>7. /\ h \in Headers /\ pos \in 0 .. h.numBytes /\ file = [hdr |-> h, seekPosition |-> pos]
      /\ output \in Seq(Nat)
  BY <1>2 DEF FsTypes
<1>8. file' = [hdr |-> h, seekPosition |-> pos + m] /\ file'.hdr = h /\ file'.seekPosition = pos + m
  BY <1>1, <1>7
<1>9. CreateSize' = CreateSize
  BY <1>1 DEF CreateSize, InProg
<1>10. CASE command.prog = "perf"
  <2>1. h.numBytes = 0 /\ pos = 0
    BY <1>6, <1>7, <1>10 DEF CreateSize, InProg
  <2>2. m = 0 /\ w = << >>
    <3>1. m = 0
      <4> HIDE DEF chunk
      <4> QED BY <2>1 DEF Written
    <3>2. w = << >>
      <4> HIDE DEF chunk
      <4> QED BY <3>1 DEF WriteAt
    <3> QED BY <3>1, <3>2
  <2>3. file'.hdr = h /\ file'.seekPosition = pos /\ UNCHANGED <<disk, writes, saved, dangling, crashes>>
    BY <1>1, <1>7, <1>8, <2>1, <2>2
  <2>4. Soon' = Soon /\ Owners' = Owners
    <3>1. Soon' = Soon
      BY <2>3, Zenon DEF Soon
    <3> QED BY <2>3, <3>1, Zenon DEF Owners
  <2>5. CommandOK'
    BY <1>1, <1>2, <1>3, <1>4, <1>10, <2>2 DEF CommandOK, StagesOf
  <2>6. FileIsOpen'
    <3>1. command'.name \in Owners' /\ file'.hdr = HeaderOn(Soon, command.name)'
      BY <1>1, <1>6, <2>3, <2>4
    <3>2. HeaderOn(Soon, command.name)'.numBytes = CreateSize'
      BY <1>6, <1>9, <2>3, <3>1
    <3> QED BY <1>1, <1>10, <3>1, <3>2 DEF FileIsOpen
  <2>7. Printed'
    BY <1>1, <1>10 DEF Printed
  <2>8. /\ file' = [hdr |-> file'.hdr, seekPosition |-> file'.seekPosition]
        /\ file'.hdr \in Headers /\ file'.seekPosition \in 0 .. file'.hdr.numBytes
        /\ DOMAIN saved' \subseteq DOMAIN saved /\ \A o \in DOMAIN saved' : saved'[o] = saved[o]
    BY <1>7, <1>8, <2>1, <2>2, <2>3
  <2> QED BY <1>1, <1>7, <2>3, <2>5, <2>6, <2>7, <2>8, MovesOn
<1>11. CASE command.prog = "copy"
  <2>1. from \in Seq(Nat) /\ h.numBytes = Len(from) /\ Len(from) \in Nat /\ pos \in Nat
    BY <1>2, <1>6, <1>7, <1>11 DEF CommandOK, CreateSize, InProg
  <2>2. HasBytes(disk, h, from, pos)
    BY <1>1, <1>2, <1>5, <1>11, Zenon DEF FileIsOpen
  <2>3. /\ chunk \in Seq(Nat) /\ chunk # << >> /\ pos + Len(chunk) <= h.numBytes
        /\ \A j \in 1 .. Len(chunk) : chunk[j] = from[pos + j]
    <3>1. TransferSize \in Nat \ {0}
      BY FileSystemAssumption
    <3> DEFINE end == Min({pos + TransferSize, Len(from)})
    <3>2. end \in Nat /\ end <= Len(from) /\ pos < end
      <4>1. pos + TransferSize \in Nat
        BY <2>1, <3>1
      <4>2. end = IF pos + TransferSize <= Len(from) THEN pos + TransferSize ELSE Len(from)
        BY <2>1, <4>1, MinOfTwo, Zenon
      <4> HIDE DEF end
      <4> QED BY <1>1, <2>1, <3>1, <4>2
    <3>3. chunk = SubSeq(from, pos + 1, end)
      BY DEF Chunk
    <3> HIDE DEF end, chunk, from, pos
    <3>4. chunk \in Seq(Nat) /\ Len(chunk) = end - pos /\ \A j \in 1 .. Len(chunk) : chunk[j] = from[pos + j]
      BY <2>1, <3>2, <3>3
    <3>5. chunk # << >>
      BY <2>1, <3>2, <3>4
    <3>6. pos + Len(chunk) <= Len(from)
      BY <2>1, <3>2, <3>4
    <3>7. pos + Len(chunk) <= h.numBytes
      BY <2>1, <3>6, Zenon
    <3> QED BY <3>4, <3>5, <3>7, Zenon
  <2>4. /\ m = Len(chunk) /\ AreWrites(w) /\ Targets(w) \subseteq ToSet(h.dataSectors)
        /\ HasBytes(e, h, from, pos + m)
    <3>1. pos \in 0 .. h.numBytes - 1
      BY <1>1, <1>7, <2>1
    <3> HIDE DEF chunk, h, pos, from
    <3> QED BY <1>5, <1>7, <2>2, <2>3, <3>1, WriteAtIs
  <2>5. m \in Nat /\ pos + m \in 0 .. h.numBytes
    BY <1>7, <2>1, <2>3, <2>4
  <2> HIDE DEF m, w, chunk
  <2>6. Soon' = e /\ ToWrite' = Targets(w) /\ IsDisk(e)
    BY <1>1, <1>5, <2>4, AfterIs DEF Soon, ToWrite
  <2>7. \A r \in Sectors \ Targets(w) : e[r] = disk[r]
    BY <1>5, <2>4, AfterIs
  <2> HIDE DEF e
  <2>8. IsRewritten(disk, e, dangling, n)
    <3>1. \A r \in Sectors \ ToSet(HeaderOn(disk, n).dataSectors) : e[r] = disk[r]
      BY <1>5, <1>6, <2>4, <2>7
    <3>2. n \in OwnersAt(disk, dangling)
      BY <1>5, <1>6
    <3> QED BY <1>5, <2>6, <3>1, <3>2, Zenon DEF IsRewritten
  <2>9. /\ Sound(e, dangling) /\ OwnersAt(e, dangling) = Owners /\ HeaderOn(e, n) = HeaderOn(disk, n)
        /\ \A o \in Owners : \A v : o # n /\ v \subseteq ToSet(HeaderOn(disk, n).dataSectors) => IsKept(e, disk, o, v)
        /\ \A o \in Owners : \A bytes \in Seq(Nat) : o # n /\ IsSaved(disk, o, bytes) => IsSaved(e, o, bytes)
        /\ Marked(MapOn(disk), disk, Owners) => Marked(MapOn(e), e, Owners)
    <3> HIDE DEF n
    <3>1. PICK owners : owners = OwnersAt(disk, dangling)
      OBVIOUS
    <3>2. /\ Sound(e, dangling) /\ OwnersAt(e, dangling) = owners /\ HeaderOn(e, n) = HeaderOn(disk, n)
          /\ \A o \in owners : \A v : o # n /\ v \subseteq ToSet(HeaderOn(disk, n).dataSectors) => IsKept(e, disk, o, v)
          /\ \A o \in owners : \A bytes \in Seq(Nat) : o # n /\ IsSaved(disk, o, bytes) => IsSaved(e, o, bytes)
          /\ Marked(MapOn(disk), disk, owners) => Marked(MapOn(e), e, owners)
      BY <2>8, <3>1, FileIsWritten
    <3> QED BY <1>5, <3>1, <3>2
  <2>10. stage' = "write"
    BY <1>1, <1>11
  <2>11. Owners' = Owners
    BY <1>1, <2>6, <2>9, Zenon DEF Owners
  <2>12. FsTypes'
    <3>1. AreWrites(writes')
      BY <1>1, <2>4
    <3>2. file' = [hdr |-> file'.hdr, seekPosition |-> file'.seekPosition]
          /\ file'.hdr \in Headers /\ file'.seekPosition \in 0 .. file'.hdr.numBytes
      BY <1>7, <1>8, <2>5
    <3> QED BY <1>1, <1>2, <3>1, <3>2, Zenon DEF FsTypes
  <2>13. CommandOK'
    BY <1>1, <1>2, <1>3, <1>4, <1>11, <2>10 DEF CommandOK, StagesOf
  <2>14. HeaderOn(Soon, command.name)' = h
    BY <1>1, <1>5, <1>6, <2>6, <2>9
  <2>15. FileIsOpen'
    <3>1. command'.name \in Owners' /\ file'.hdr = HeaderOn(Soon, command.name)'
      BY <1>1, <1>6, <1>8, <2>11, <2>14
    <3>2. HeaderOn(Soon, command.name)'.numBytes = CreateSize'
      BY <1>6, <1>9, <2>14
    <3>3. HasBytes(Soon, file.hdr, command.from, file.seekPosition)'
      BY <1>1, <1>8, <2>4, <2>6, Zenon
    <3> QED BY <3>1, <3>2, <3>3, Zenon DEF FileIsOpen
  <2>16. Printed'
    BY <1>1, <1>11 DEF Printed
  <2>17. Sound(Soon, dangling)'
    BY <1>1, <2>6, <2>9, Zenon
  <2>18. DOMAIN saved' \subseteq Owners'
    BY <1>1, <1>2, <2>11 DEF FilesOK
  <2>19. MarkedHaveOwners'
    <3>1. crashes = 0 => Marked(MapOn(disk), disk, Owners)
      BY <1>2, <1>5, Zenon DEF FilesOK, MarkedHaveOwners
    <3> QED BY <1>1, <2>6, <2>9, <2>11, <3>1, Zenon DEF MarkedHaveOwners
  <2>20. OthersAreThere'
    <3>1. ASSUME NEW o \in Owners \ {n}
          PROVE  IsKept(e, disk, o, Targets(w))
      <4>1. o \in Owners /\ o # n /\ Targets(w) \subseteq ToSet(HeaderOn(disk, n).dataSectors)
        BY <1>5, <1>6, <2>4
      <4> QED BY <2>9, <4>1, Zenon
    <3> QED BY <1>1, <2>6, <2>11, <3>1, Zenon DEF OthersAreThere
  <2>21. WritesAreInOrder'
    <3>1. command'.name \in Owners' /\ ToWrite' \subseteq ToSet(HeaderOn(Soon, command.name)'.dataSectors)
      BY <1>1, <1>6, <2>4, <2>6, <2>11, <2>14
    <3>2. stage' # "open" /\ stage' # "done"
      BY <2>10
    <3> QED BY <3>1, <3>2, Zenon DEF WritesAreInOrder
  <2>22. BytesAreSaved'
    <3>1. ASSUME NEW o \in DOMAIN saved
          PROVE  IsSaved(e, o, saved[o])
      <4>1. IsSaved(disk, o, saved[o]) /\ saved[o] \in Seq(Nat)
        BY <1>2, <1>5, Zenon DEF FilesOK, BytesAreSaved, FsTypes
      <4>2. o \in Owners /\ o # n
        BY <1>2, <1>4 DEF FilesOK
      <4> QED BY <2>9, <4>1, <4>2
    <3> QED BY <1>1, <2>6, <3>1, Zenon DEF BytesAreSaved
  <2>23. FilesOK'
    BY <2>17, <2>18, <2>19, <2>20, <2>21, <2>22, Zenon DEF FilesOK
  <2> QED BY <2>12, <2>13, <2>15, <2>16, <2>23, Zenon DEF Healthy
<1> QED BY <1>4, <1>10, <1>11

----------------------------------------------------------------------------
\* What is not healthy came from a crash: only the entry that one left in use
\* has sectors that are another file's.
LEMMA CorruptedByACrash == Healthy /\ FsNext /\ corrupt' /\ ~corrupt => crashes' \in Nat \ {0}
<1> SUFFICES ASSUME Healthy, FsNext, corrupt', ~corrupt
             PROVE  crashes' \in Nat \ {0}
  OBVIOUS
<1>1. FsTypes /\ CommandOK
  BY DEF Healthy
<1>2. dangling # {} => crashes \in Nat \ {0}
  BY <1>1, Layout DEF FsTypes
<1>3. CASE RemoveFile
  <2>1. /\ writes = << >> /\ stage = "remove" /\ crashes' = crashes
        /\ corrupt' # corrupt => FindIndex(TheDirectory, command.name) \in dangling
    BY <1>3 DEF RemoveFile, Reaches
  <2> QED BY <1>2, <2>1
<1>4. CASE RemoveGarbage
  <2>1. /\ writes = << >> /\ stage = "remove" /\ Exists(command.name) /\ ~IsHeader(SectorOf(command.name))
        /\ crashes' = crashes
    BY <1>4 DEF RemoveGarbage, Reaches
  <2>2. command.name \in Names
    BY <1>1, <2>1 DEF CommandOK
  <2>3. FindIndex(DirOn(disk), command.name) \in dangling
    BY <2>1, <2>2, WhatIsFound
  <2> QED BY <1>2, <2>1, <2>3
<1>5. ~RemoveFile /\ ~RemoveGarbage => corrupt' = corrupt
  BY DEF FsNext, BeginCopy, BeginPrint, BeginRemove, BeginPerf, Begin, WriteSector, Create, CreateRefused,
         Open, OpenGarbage, WriteChunk, CopyDone, ReadChunk, RemoveRefused, Finished, Crash
<1> QED BY <1>3, <1>4, <1>5

\* ... and it stays so.
LEMMA StaysCorrupt ==
  ASSUME crashes \in Nat \ {0}, [FsNext]_fsVars
  PROVE  crashes' \in Nat \ {0} /\ (corrupt => corrupt')
<1>1. ASSUME Crash
      PROVE  crashes' = crashes + 1 /\ corrupt' = corrupt
  BY <1>1 DEF Crash
<1>2. ASSUME RemoveFile \/ RemoveGarbage
      PROVE  crashes' = crashes /\ (corrupt => corrupt')
  <2>1. ASSUME RemoveFile
        PROVE  crashes' = crashes /\ (corrupt => corrupt')
    BY <2>1, Zenon DEF RemoveFile
  <2>2. ASSUME RemoveGarbage
        PROVE  crashes' = crashes /\ (corrupt => corrupt')
    BY <2>2, Zenon DEF RemoveGarbage
  <2> QED BY <1>2, <2>1, <2>2
<1>4. ASSUME FsNext, ~Crash, ~RemoveFile, ~RemoveGarbage
      PROVE  crashes' = crashes /\ corrupt' = corrupt
  BY <1>4 DEF FsNext, BeginCopy, BeginPrint, BeginRemove, BeginPerf, Begin, WriteSector, Create, CreateRefused,
         Open, OpenGarbage, WriteChunk, CopyDone, ReadChunk, RemoveRefused, Finished
<1>3. ASSUME UNCHANGED fsVars
      PROVE  crashes' = crashes /\ corrupt' = corrupt
  BY <1>3 DEF fsVars
<1> QED BY <1>1, <1>2, <1>3, <1>4

\* No step that leaves the disk uncorrupted breaks what Healthy says.
LEMMA StaysHealthy == Healthy /\ [FsNext]_fsVars /\ ~corrupt' => Healthy'
<1> SUFFICES ASSUME Healthy, [FsNext]_fsVars, ~corrupt'
             PROVE  Healthy'
  OBVIOUS
<1>1. CASE BeginCopy \/ BeginPrint \/ BeginRemove \/ BeginPerf
  BY <1>1, BeginsInv
<1>2. CASE WriteSector
  BY <1>2, WriteSectorInv
<1>3. CASE Create \/ CreateRefused
  BY <1>3, CreateInv, CreateRefusedInv
<1>4. CASE Open \/ OpenGarbage
  BY <1>4, OpenInv, OpenGarbageInv
<1>5. CASE WriteChunk
  BY <1>5, WriteChunkInv
<1>6. CASE CopyDone
  BY <1>6, CopyDoneInv
<1>7. CASE ReadChunk
  BY <1>7, ReadChunkInv
<1>8. CASE RemoveFile
  BY <1>8, RemoveFileInv
<1>9. CASE RemoveGarbage
  BY <1>9, RemoveGarbageInv
<1>10. CASE RemoveRefused
  BY <1>10, RemoveRefusedInv
<1>11. CASE Finished
  BY <1>11, FinishedInv
<1>12. CASE Crash
  BY <1>12, CrashInv
<1>13. CASE UNCHANGED fsVars
  BY <1>13, FsStutters
<1> QED BY <1>1, <1>2, <1>3, <1>4, <1>5, <1>6, <1>7, <1>8, <1>9, <1>10, <1>11, <1>12, <1>13 DEF FsNext

\* Together: what every state of the file system has in common, after every
\* command of filesys.cc and fstest.cc, between any two sector writes and after
\* any crash, also of commands that name what a crash left, for any names, files
\* (of as many sectors as a header holds), sizes of the disk, sector and
\* directory: the disk is sound, or the sectors of an entry that a crash left
\* in use were freed under another file, and then nothing is claimed.
THEOREM FileSystemInvariance == FsSpec => []FsInv
<1>1. FsInit => FsInv
  BY FsInitInv DEF FsInit, FsInv
<1>2. FsInv /\ [FsNext]_fsVars => FsInv'
  <2> SUFFICES ASSUME FsInv, [FsNext]_fsVars
               PROVE  FsInv'
    OBVIOUS
  <2>1. CASE corrupt
    <3>1. crashes' \in Nat \ {0} /\ (corrupt => corrupt')
      BY <2>1, StaysCorrupt DEF FsInv
    <3> QED BY <2>1, <3>1 DEF FsInv
  <2>2. CASE ~corrupt
    <3>1. Healthy
      BY <2>2 DEF FsInv
    <3>2. ~corrupt' => Healthy'
      BY <3>1, StaysHealthy
    <3>3. corrupt' => crashes' \in Nat \ {0}
      <4>1. corrupt' => FsNext
        BY <2>2 DEF fsVars
      <4> QED BY <2>2, <3>1, <4>1, CorruptedByACrash
    <3> QED BY <3>2, <3>3 DEF FsInv
  <2> QED BY <2>1, <2>2
<1> QED BY <1>1, <1>2, PTL DEF FsSpec

----------------------------------------------------------------------------
\* What the invariant says of the files on the disk as it is.
LEMMA SavedOnDisk ==
  ASSUME Healthy, NEW n \in DOMAIN saved
  PROVE  /\ HasSectors(disk, n) /\ FindIndex(DirOn(disk), n) # 0 /\ IsSaved(disk, n, saved[n])
         /\ saved[n] \in Seq(Nat) /\ IsDisk(disk) /\ n \in Names
         /\ n \in OwnersAt(disk, dangling)
<1>1. FsTypes /\ FilesOK /\ IsDisk(disk) /\ IsDisk(Soon) /\ n \in Owners /\ n \in Names
      /\ HasSectors(Soon, n) /\ FindIndex(DirOn(Soon), n) \notin dangling
  BY OwnersAreThere DEF FilesOK
<1>2. IsKept(Soon, disk, n, ToWrite) /\ IsSaved(Soon, n, saved[n]) /\ saved[n] \in Seq(Nat)
  BY <1>1, SavedIsKept, Zenon DEF FilesOK, BytesAreSaved, FsTypes
<1>3. \A s \in Sectors \ ToWrite : Soon[s] = disk[s]
  BY <1>1, DiskIsSettled
<1>4. HasSectors(disk, n) /\ FindIndex(DirOn(disk), n) # 0
  BY <1>1, <1>2, <1>3, KeptIsThere
<1>5. IsSaved(disk, n, saved[n])
  BY <1>1, <1>2, <1>3, KeptIsThere
<1>6. PICK i \in DirEntries : IsAt(DirOn(Soon), n, i) /\ IsAt(DirOn(disk), n, i)
  BY <1>2, Zenon DEF IsKept
<1>7. FindIndex(DirOn(Soon), n) = i /\ FindIndex(DirOn(disk), n) = i
  BY <1>1, <1>6, EntryFound, Zenon
<1>8. n \in OwnersAt(disk, dangling)
  BY <1>1, <1>4, <1>7 DEF OwnersAt
<1> QED BY <1>1, <1>2, <1>4, <1>5, <1>8

LEMMA FsInvIntact == FsInv => SavedFilesAreIntact
<1> SUFFICES ASSUME Healthy
             PROVE  SavedBytesStay /\ PrintShowsSaved
  BY DEF FsInv, SavedFilesAreIntact
<1>1. ASSUME NEW n \in DOMAIN saved
      PROVE  Exists(n) /\ HeaderOf(n).numBytes = Len(saved[n]) /\ ReadAt(HeaderOf(n), Len(saved[n]), 0) = saved[n]
  <2>1. PICK bytes : bytes = saved[n]
    OBVIOUS
  <2>2. /\ HasSectors(disk, n) /\ FindIndex(DirOn(disk), n) # 0 /\ IsSaved(disk, n, bytes)
        /\ bytes \in Seq(Nat) /\ IsDisk(disk)
    BY <2>1, SavedOnDisk
  <2>3. Exists(n) /\ HeaderOf(n) = HeaderOn(disk, n)
    BY <2>2, OnTheDisk
  <2>4. PICK hdr \in Headers : hdr = HeaderOf(n)
    BY <2>2, <2>3 DEF HasSectors
  <2>5. hdr.numBytes = Len(bytes) /\ HasBytes(disk, hdr, bytes, Len(bytes)) /\ Len(bytes) \in Nat
    BY <2>2, <2>3, <2>4 DEF IsSaved
  <2> DEFINE got == ReadAt(hdr, Len(bytes), 0)
  <2>6. CASE Len(bytes) = 0
    <3>1. got = << >> /\ bytes = << >>
      BY <2>2, <2>6 DEF ReadAt
    <3> QED BY <2>1, <2>3, <2>4, <2>5, <3>1
  <2>7. CASE Len(bytes) # 0
    <3>1. Len(bytes) \in Nat \ {0} /\ 0 \in 0 .. hdr.numBytes /\ Len(bytes) >= hdr.numBytes - 0
      BY <2>5, <2>7
    <3>2. /\ got \in Seq(Nat) /\ 0 + Len(got) = hdr.numBytes
          /\ \A j \in 1 .. Len(got) : got[j] = ByteOn(disk, hdr, 0 + j - 1)
      BY <2>2, <3>1, ReadAtIs
    <3> HIDE DEF got
    <3>3. Len(got) = Len(bytes)
      BY <2>5, <3>2
    <3>4. ASSUME NEW j \in 1 .. Len(got)
          PROVE  got[j] = bytes[j]
      <4>1. 0 + j - 1 \in 0 .. Len(bytes) - 1 /\ 0 + j - 1 + 1 = j
        BY <2>5, <3>3
      <4>2. ByteOn(disk, hdr, 0 + j - 1) = bytes[0 + j - 1 + 1]
        BY <2>5, <4>1, Zenon DEF HasBytes
      <4> QED BY <3>2, <4>1, <4>2
    <3>5. got = bytes
      BY <2>2, <3>2, <3>3, <3>4, SameSequence
    <3> QED BY <2>1, <2>3, <2>4, <2>5, <3>5 DEF got
  <2> QED BY <2>6, <2>7
<1>2. SavedBytesStay
  BY <1>1, Zenon DEF SavedBytesStay
<1>3. Printed
  BY DEF Healthy
<1>4. PrintShowsSaved
  BY <1>3 DEF Printed, PrintShowsSaved, InProg
<1> QED BY <1>2, <1>4

\* A header names as many sectors as it has entries.
LEMMA SectorsOfHeader ==
  ASSUME NEW h \in Headers
  PROVE  IsFiniteSet(ToSet(h.dataSectors)) /\ Cardinality(ToSet(h.dataSectors)) = SectorCount(h.numBytes)
<1> DEFINE s == h.dataSectors
           n == SectorCount(h.numBytes)
           T == ToSet(s)
<1>1. s \in Seq(DataArea) /\ Len(s) = n /\ n \in Nat /\ \A i, j \in 1 .. n : s[i] = s[j] => i = j
  BY SectorOfByte DEF Headers
<1> HIDE DEF s, n
<1>2. DOMAIN s = 1 .. n /\ s = [i \in 1 .. n |-> s[i]] /\ T = {s[i] : i \in 1 .. n}
  BY <1>1 DEF ToSet
<1> HIDE DEF T
<1>3. s \in [1 .. n -> T]
  BY <1>2
<1>4. s \in Injection(1 .. n, T)
  BY <1>1, <1>2, <1>3 DEF Injection, IsInjective
<1>5. s \in Surjection(1 .. n, T)
  BY <1>2, <1>3 DEF Surjection
<1>6. IsFiniteSet(1 .. n) /\ Cardinality(1 .. n) = n
  <2>1. 1 \in Int /\ n \in Int
    BY <1>1
  <2>2. IsFiniteSet(1 .. n) /\ Cardinality(1 .. n) = IF 1 > n THEN 0 ELSE n - 1 + 1
    BY <2>1, FS_Interval
  <2> QED BY <1>1, <2>2
<1>7. IsFiniteSet(T) /\ Cardinality(T) = Cardinality(1 .. n)
  BY <1>4, <1>5, <1>6, FS_Surjection, Zenon
<1> QED BY <1>6, <1>7 DEF s, n, T

LEMMA HealthyTypes == Healthy => FsTypeOK
<1> SUFFICES ASSUME Healthy
             PROVE  FsTypeOK
  OBVIOUS
<1>1. FsTypes /\ CommandOK
  BY DEF Healthy
<1>2. DOMAIN disk = Sectors
  BY <1>1 DEF FsTypes, IsDisk
<1>3. \A i \in DOMAIN writes : writes[i].sector \in Sectors
  <2>1. Targets(writes) \subseteq Sectors
    <3>1. IsDisk(disk) /\ AreWrites(writes)
      BY <1>1, DiskIsSettled
    <3> QED BY <3>1, AfterIs
  <2> QED BY <2>1 DEF Targets
<1>4. /\ command.prog \in {"none", "copy", "print", "remove", "perf"}
      /\ command.name \in Names \cup {NoName}
      /\ stage \in {"idle", "create", "open", "open2", "write", "read", "remove", "done", "aborted", "undefined"}
  <2>1. CASE command = Idle
    BY <1>1, <2>1 DEF CommandOK, Idle
  <2>2. CASE command # Idle
    BY <1>1, <2>2 DEF CommandOK, StagesOf
  <2> QED BY <2>1, <2>2
<1>5. /\ file.seekPosition \in 0 .. file.hdr.numBytes /\ DOMAIN saved \subseteq Names
      /\ dangling \subseteq 1 .. NumDirEntries
      /\ output \in Seq(Nat) /\ crashes \in 0 .. MaxCrashes
  BY <1>1 DEF FsTypes, DirEntries
<1> QED BY <1>2, <1>3, <1>4, <1>5 DEF FsTypeOK

\* Two accounted files have no sector in common, and each has what its header
\* names.
LEMMA FsInvOneOwner == FsInv => SectorsHaveOneOwner
<1> SUFFICES ASSUME Healthy
             PROVE  /\ FsTypeOK /\ DOMAIN saved \subseteq Accounted
                    /\ \A n \in Accounted :
                         /\ IsHeader(SectorOf(n))
                         /\ OwnSectors(n) \subseteq FreeMap \ SystemSectors
                         /\ Cardinality(OwnSectors(n)) = 1 + DivRoundUp(HeaderOf(n).numBytes, SectorSize)
                         /\ \A m \in Accounted \ {n} : OwnSectors(n) \cap OwnSectors(m) = {}
                    /\ stage = "aborted" => FindIndex(TheDirectory, command.name) \in dangling
  BY DEF FsInv, SectorsHaveOneOwner
<1> DEFINE gone == dangling \cup HalfDone(disk)
<1>1. FsTypes /\ CommandOK /\ IsDisk(disk) /\ DirOn(disk) \in Directories
  BY OwnersAreThere, DiskParts
<1>2. /\ FreeMap = MapOn(disk) /\ SystemSectors = 0 .. 4 /\ TheDirectory = DirOn(disk)
      /\ \A n : /\ Exists(n) <=> FindIndex(DirOn(disk), n) # 0
                /\ SectorOf(n) = SectorOn(disk, n) /\ HeaderOf(n) = HeaderOn(disk, n)
                /\ OwnSectors(n) = OwnOn(disk, n)
  BY <1>1, OnTheDisk
<1>3. FilesApart(disk, OwnersAt(disk, gone))
  BY DiskIsSound, Zenon DEF Sound
<1>4. Accounted \subseteq OwnersAt(disk, gone)
  <2> SUFFICES ASSUME NEW n \in Names, FindIndex(DirOn(disk), n) # 0, FindIndex(DirOn(disk), n) \notin dangling,
                      SectorOn(disk, n) \in MapOn(disk)
               PROVE  n \in OwnersAt(disk, gone)
    BY <1>2 DEF Accounted
  <2>1. FindIndex(DirOn(disk), n) \notin HalfDone(disk)
    BY DEF HalfDone, SectorOn
  <2> QED BY <2>1 DEF OwnersAt
<1>5. DOMAIN saved \subseteq Accounted
  <2> SUFFICES ASSUME NEW n \in DOMAIN saved
               PROVE  n \in Accounted
    OBVIOUS
  <2>1. HasSectors(disk, n) /\ n \in Names /\ n \in OwnersAt(disk, dangling)
    BY SavedOnDisk
  <2>2. SectorOn(disk, n) \in MapOn(disk)
    BY <2>1 DEF HasSectors, OwnOn
  <2> QED BY <1>2, <2>1, <2>2 DEF Accounted, OwnersAt
<1> HIDE DEF gone
<1>6. ASSUME NEW n \in Accounted
      PROVE  /\ IsHeader(SectorOf(n))
             /\ OwnSectors(n) \subseteq FreeMap \ SystemSectors
             /\ Cardinality(OwnSectors(n)) = 1 + DivRoundUp(HeaderOf(n).numBytes, SectorSize)
             /\ \A m \in Accounted \ {n} : OwnSectors(n) \cap OwnSectors(m) = {}
  <2>1. HasSectors(disk, n)
    BY <1>3, <1>4, Zenon DEF FilesApart
  <2>2. IsHeader(SectorOf(n))
    <3>1. SectorOn(disk, n) \in DataArea /\ disk[SectorOn(disk, n)] \in Headers
      BY <2>1 DEF HasSectors, HeaderOn
    <3>2. "dataSectors" \in DOMAIN disk[SectorOn(disk, n)]
      BY <1>1, <3>1, HeaderIs, Zenon
    <3> QED BY <1>2, <3>2 DEF IsHeader, HeaderAt
  <2>3. OwnSectors(n) \subseteq FreeMap \ SystemSectors
    <3>1. OwnOn(disk, n) \subseteq MapOn(disk) /\ OwnOn(disk, n) \subseteq DataArea
      BY <1>1, <2>1, OwnersSectors DEF HasSectors
    <3> QED BY <1>2, <3>1, Layout
  <2>4. Cardinality(OwnSectors(n)) = 1 + DivRoundUp(HeaderOf(n).numBytes, SectorSize)
    <3> DEFINE h == HeaderOn(disk, n)
               s == SectorOn(disk, n)
               T == ToSet(h.dataSectors)
    <3>1. h \in Headers /\ s \notin T
      BY <2>1 DEF HasSectors
    <3>2. IsFiniteSet(T) /\ Cardinality(T) = SectorCount(h.numBytes)
      <4> HIDE DEF h
      <4> QED BY <3>1, SectorsOfHeader
    <3>3. SectorCount(h.numBytes) \in Nat
      BY <3>2, FS_CardinalityType
    <3>4. OwnSectors(n) = T \cup {s} /\ HeaderOf(n) = h
      BY <1>2 DEF OwnOn
    <3> HIDE DEF T, s, h
    <3>5. Cardinality(T \cup {s}) = Cardinality(T) + 1
      BY <3>1, <3>2, FS_AddElement DEF T
    <3> QED BY <3>2, <3>3, <3>4, <3>5 DEF SectorCount
  <2>5. ASSUME NEW m \in Accounted \ {n}
        PROVE  OwnSectors(n) \cap OwnSectors(m) = {}
    <3>1. n \in OwnersAt(disk, gone) /\ m \in OwnersAt(disk, gone) /\ n # m
      BY <1>4, <2>5
    <3>2. OwnOn(disk, n) \cap OwnOn(disk, m) = {}
      BY <1>3, <3>1, Zenon DEF FilesApart
    <3> QED BY <1>2, <3>2
  <2> QED BY <2>2, <2>3, <2>4, <2>5
<1>7. stage = "aborted" => FindIndex(TheDirectory, command.name) \in dangling
  BY <1>1, <1>2 DEF CommandOK
<1> QED BY <1>5, <1>6, <1>7, HealthyTypes

\* Nothing is marked that no file has, without a crash.
LEMMA FsInvNoLeaks == FsInv => NoSectorLeaks
<1> SUFFICES ASSUME FsInv, command = Idle, crashes = 0
             PROVE  FreeMap = SystemSectors \cup UNION {OwnSectors(n) : n \in {m \in Names : Exists(m)}}
  BY DEF NoSectorLeaks
<1>1. Healthy
  BY DEF FsInv
<1>2. FsTypes /\ CommandOK /\ FilesOK /\ Owners \subseteq Names
  BY <1>1, OwnersAreThere
<1>3. writes = << >> /\ dangling = {}
  BY <1>2 DEF CommandOK, FsTypes
<1>4. IsDisk(disk) /\ Soon = disk
  BY <1>2, <1>3, DiskIsSettled
<1>5. /\ FreeMap = MapOn(disk) /\ SystemSectors = 0 .. 4 /\ \A n : OwnSectors(n) = OwnOn(disk, n)
      /\ \A n : Exists(n) <=> FindIndex(DirOn(disk), n) # 0
  BY <1>4, OnTheDisk, Zenon
<1>6. \A n \in Names : Exists(n) <=> n \in Owners
  BY <1>1, <1>3, <1>4, <1>5, OwnersAreThere
<1>7. {m \in Names : Exists(m)} = Owners
  BY <1>2, <1>6
<1>8. Marked(MapOn(disk), disk, Owners)
  BY <1>2, <1>4, Zenon DEF FilesOK, MarkedHaveOwners
<1>9. {OwnSectors(n) : n \in Owners} = {OwnOn(disk, n) : n \in Owners}
  BY <1>5, Zenon
<1> QED BY <1>5, <1>7, <1>8, <1>9, Zenon DEF Marked

----------------------------------------------------------------------------
\* Every file that Copy of fstest.cc has written to its end is on the disk, byte
\* by byte, until Remove: whatever Create, WriteAt and Remove of filesys.cc and
\* openfile.cc write for other files, wherever a crash cuts their writes off and
\* whatever file is named then.  Print, when it comes to its end, has shown
\* those bytes.  All this until a Remove frees, for an entry that a crash left
\* in use, sectors that a later Create has taken: the corruption of the disk
\* that filesys.cc:38-40 speaks of.
THEOREM SavedFilesStayIntact == FsSpec => []SavedFilesAreIntact
BY FileSystemInvariance, FsInvIntact, PTL

\* Until then a sector of a file that the directory and the map agree about is
\* marked and is in no other such file: Find never gives it out, and a Remove
\* meets a header that is none, or a mark that Deallocate asserts and that is
\* not there, only at an entry that a crash left in use.  Between commands,
\* before any crash, every marked sector is the file system's or a file's:
\* neither a refused Create nor a Remove leaves one behind.
THEOREM NoSectorIsLost == FsSpec => []SectorsAreAccountedFor
<1>1. FsInv => SectorsAreAccountedFor
  BY FsInvOneOwner, FsInvNoLeaks DEF SectorsAreAccountedFor
<1> QED BY FileSystemInvariance, <1>1, PTL
=============================================================================
