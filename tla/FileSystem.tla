----------------------------- MODULE FileSystem -----------------------------
(***************************************************************************)
(* The real file system of filesys/: file headers, the bitmap of free      *)
(* sectors, the flat directory, open files, and the commands of main.cc    *)
(* that use them (-cp, -p, -r, -t).  Main runs one command after the       *)
(* other; the disk outlives nachos, which may be stopped at any moment and *)
(* started again without -f.                                               *)
(*                                                                         *)
(* What a crash can cut in two is a sequence of sector writes, so a step   *)
(* reads whatever the code reads and computes the writes that follow, and  *)
(* each sector write is a step of its own.  Bytes are members of Byte.     *)
(***************************************************************************)
EXTENDS Integers, Sequences, FiniteSets, SequencesExt, FiniteSetsExt

CONSTANTS
  Names,           \* file names (of at most FileNameMaxLen characters)
  PerfName,        \* FileName of PerformanceTest, one of Names
  NoName,          \* in a directory entry that was never used
  Sources,         \* the UNIX files that are copied, as sequences of bytes
  Contents,        \* the bytes PerformanceTest writes at a time
  PerfChunks,      \* how many times
  NumSectors, SectorSize, TransferSize, NumDirEntries,
  Straddling,      \* the directory entry that lies on two sectors
  MaxCrashes       \* bound: how often nachos is stopped in a command

Sectors == 0 .. NumSectors - 1
FreeMapSector == 0
DirectorySector == 1
DivRoundUp(n, s) == (n + s - 1) \div s

ASSUME FileSystemAssumption ==
  /\ PerfName \in Names /\ NoName \notin Names
  /\ Straddling \in 1 .. NumDirEntries
  /\ NumDirEntries \in Nat /\ MaxCrashes \in Nat
  /\ NumSectors \in Nat /\ NumSectors > 5
  /\ SectorSize \in Nat \ {0} /\ TransferSize \in Nat \ {0}
  /\ \A s \in Sources \cup {Contents} : s \in Seq(Nat)

VARIABLES
  disk,      \* the contents of every sector
  writes,    \* the sector writes the running operation still has to do
  command,   \* the command main is in: its name, the file, the source
  stage,     \* how far it is
  file,      \* the open file: its header and seekPosition
  output,    \* what the command has read: what Print prints
  saved,     \* history: the files that were copied in and not touched since
  dangling,  \* history: entries a crash left in use, their header's sector not marked
  corrupt,   \* history: the sectors of such an entry were freed when others had them
  crashes    \* history: how often nachos was stopped

fsVars == <<disk, writes, command, stage, file, output, saved, dangling, corrupt, crashes>>

Idle == [prog |-> "none", name |-> NoName, from |-> << >>]
Closed == [hdr |-> [numBytes |-> 0, dataSectors |-> << >>], seekPosition |-> 0]
Zeros == [bytes |-> [o \in 0 .. SectorSize - 1 |-> 0]]

----------------------------------------------------------------------------
\* BitMap: the set of marked sectors.
NumClear(map) == NumSectors - Cardinality(map)

\* The n sectors that n calls of Find return: each the lowest that is clear.
ClearBelow(map, s) == {r \in Sectors \ map : r < s}
FindSectors(map, n) ==
  [k \in 1 .. n |-> CHOOSE s \in Sectors \ map : Cardinality(ClearBelow(map, s)) = k - 1]

\* FileHeader::Allocate, when there is room.
Allocated(map, size) ==
  [numBytes |-> size, dataSectors |-> FindSectors(map, DivRoundUp(size, SectorSize))]

\* FileHeader::Deallocate and its ASSERT.
\* (Mutant of Deallocated: the data sectors stay marked.)
DeallocatedNot(map, hdr) == map
DeallocateAllowed(map, hdr) == ToSet(hdr.dataSectors) \subseteq map
Deallocated(map, hdr) == map \ ToSet(hdr.dataSectors)

\* Directory: a sequence of entries.
EmptyDirectory ==
  [i \in 1 .. NumDirEntries |-> [inUse |-> FALSE, sector |-> 0, name |-> NoName]]
FindIndex(dir, name) ==
  LET is == {i \in 1 .. NumDirEntries : dir[i].inUse /\ dir[i].name = name}
  IN IF is = {} THEN 0 ELSE Min(is)
FreeEntries(dir) == {i \in 1 .. NumDirEntries : ~dir[i].inUse}
DirAdd(dir, name, sector) ==
  [dir EXCEPT ![Min(FreeEntries(dir))] = [inUse |-> TRUE, sector |-> sector, name |-> name]]
DirRemove(dir, name) ==
  [dir EXCEPT ![FindIndex(dir, name)].inUse = FALSE]

\* The directory file takes two sectors, and an entry lies on both: its flag
\* and sector number on the first, its name on the second.
FirstPart(dir) ==
  [slots |-> [i \in 1 .. Straddling |-> <<dir[i].inUse, dir[i].sector>>],
   labels |-> [i \in 1 .. Straddling - 1 |-> dir[i].name]]
SecondPart(dir) ==
  [slots |-> [i \in Straddling + 1 .. NumDirEntries |-> <<dir[i].inUse, dir[i].sector>>],
   labels |-> [i \in Straddling .. NumDirEntries |-> dir[i].name]]

----------------------------------------------------------------------------
\* What is found on the disk.
HeaderAt(sector) == disk[sector]
BytesAt(sector) ==  \* (of a sector that held something else: any bytes)
  IF "bytes" \in DOMAIN disk[sector] THEN disk[sector].bytes ELSE Zeros.bytes
MapData == HeaderAt(FreeMapSector).dataSectors[1]
DirData == HeaderAt(DirectorySector).dataSectors
FreeMap == disk[MapData].bits
TheDirectory ==
  LET one == disk[DirData[1]]
      two == disk[DirData[2]]
  IN [i \in 1 .. NumDirEntries |->
       LET slot == IF i <= Straddling THEN one.slots[i] ELSE two.slots[i]
       IN [inUse |-> slot[1], sector |-> slot[2],
           name |-> IF i < Straddling THEN one.labels[i] ELSE two.labels[i]]]
Exists(name) == FindIndex(TheDirectory, name) # 0
SectorOf(name) == TheDirectory[FindIndex(TheDirectory, name)].sector
\* (A crash may have left an entry whose header's sector another file now has.)
IsHeader(sector) == "dataSectors" \in DOMAIN HeaderAt(sector)

\* Directory::WriteBack and BitMap::WriteBack, as the sector writes they are.
WriteDirectory(dir) ==
  << [sector |-> DirData[1], data |-> FirstPart(dir)],
     [sector |-> DirData[2], data |-> SecondPart(dir)] >>
WriteMap(map) == << [sector |-> MapData, data |-> [bits |-> map]] >>

\* The formatted disk: FileSystem::FileSystem with -f.
Formatted ==
  LET mapHdr == [numBytes |-> 1, dataSectors |-> <<2>>]
      dirHdr == [numBytes |-> 1, dataSectors |-> <<3, 4>>]
  IN [s \in Sectors |->
       CASE s = FreeMapSector -> mapHdr
         [] s = DirectorySector -> dirHdr
         [] s = 2 -> [bits |-> 0 .. 4]
         [] s = 3 -> FirstPart(EmptyDirectory)
         [] s = 4 -> SecondPart(EmptyDirectory)
         [] OTHER -> Zeros]

FsInit ==
  /\ disk = Formatted
  /\ writes = << >>
  /\ command = Idle
  /\ stage = "idle"
  /\ file = Closed
  /\ output = << >>
  /\ saved = << >>
  /\ dangling = {}
  /\ corrupt = FALSE
  /\ crashes = 0

----------------------------------------------------------------------------
\* OpenFile::ReadAt: the bytes of the request that the file has.
ReadAt(hdr, numBytes, position) ==
  IF numBytes <= 0 \/ position >= hdr.numBytes
    THEN << >>
    ELSE [k \in 1 .. Min({numBytes, hdr.numBytes - position}) |->
           LET p == position + k - 1
           IN BytesAt(hdr.dataSectors[p \div SectorSize + 1])[p % SectorSize]]

\* OpenFile::WriteAt: the number of bytes it writes, and its sector writes.
\* The first and the last sector are read first where they are written in part;
\* what a buffer holds past the end of the file is undefined, and is 0 here.
Written(hdr, from, position) ==
  IF from = << >> \/ position >= hdr.numBytes THEN 0
  ELSE Min({Len(from), hdr.numBytes - position})

\* Mutant of ReadIn: the last sector only, the first is overwritten unread.
ReadInLast(i, first, last, firstAligned, lastAligned) == i = last /\ ~lastAligned

\* The sectors WriteAt reads before it changes a part of them.
ReadIn(i, first, last, firstAligned, lastAligned) ==
  \/ i = first /\ ~firstAligned
  \/ i = last /\ ~lastAligned /\ (first # last \/ firstAligned)

WriteAt(hdr, from, position) ==
  LET n == Written(hdr, from, position)
      first == position \div SectorSize
      last == (position + n - 1) \div SectorSize
      firstAligned == position = first * SectorSize
      lastAligned == position + n = (last + 1) * SectorSize
      byte(i, o) ==
        LET p == i * SectorSize + o
        IN IF p \in position .. position + n - 1 THEN from[p - position + 1]
           ELSE IF ReadIn(i, first, last, firstAligned, lastAligned) /\ p < hdr.numBytes
             THEN BytesAt(hdr.dataSectors[i + 1])[o]
             ELSE 0
  IN IF n = 0 THEN << >>
     ELSE [k \in 1 .. last - first + 1 |->
            [sector |-> hdr.dataSectors[first + k],
             data |-> [bytes |-> [o \in 0 .. SectorSize - 1 |-> byte(first + k - 1, o)]]]]

----------------------------------------------------------------------------
\* Main reads the next command.
Begin(prog, name, from, first) ==
  /\ command = Idle
  /\ command' = [prog |-> prog, name |-> name, from |-> from]
  /\ stage' = first
  /\ UNCHANGED <<disk, writes, file, output, saved, dangling, corrupt, crashes>>

BeginCopy == \E name \in Names, from \in Sources : Begin("copy", name, from, "create")
BeginPrint == \E name \in Names : Begin("print", name, << >>, "open")
BeginRemove == \E name \in Names : Begin("remove", name, << >>, "remove")
BeginPerf ==
  Begin("perf", PerfName, FlattenSeq([k \in 1 .. PerfChunks |-> Contents]), "create")

\* A sector write: Disk::WriteRequest puts the data on the disk at once, and
\* SynchDisk::WriteSector comes back after the interrupt.
WriteSector ==
  /\ writes # << >>
  /\ disk' = [disk EXCEPT ![Head(writes).sector] = Head(writes).data]
  /\ writes' = Tail(writes)
  /\ UNCHANGED <<command, stage, file, output, saved, dangling, corrupt, crashes>>

Reaches(s) == writes = << >> /\ stage = s
InProg(p) == command.prog = p
Without(f, name) == [n \in DOMAIN f \ {name} |-> f[n]]

\* The command ends.
Return(newSaved) ==
  /\ command' = Idle
  /\ stage' = "idle"
  /\ file' = Closed
  /\ output' = << >>
  /\ saved' = newSaved

\* Where a command goes on when Create has returned.
AfterCreate == "open"
AfterFailure == IF InProg("perf") THEN "open2" ELSE "done"

\* Mutant of CreateWrites: the header's sector is not marked in the map.
CreateForgetsHeader(map, dir, sector, hdr, name) ==
  << [sector |-> sector, data |-> hdr] >>
    \o WriteDirectory(DirAdd(dir, name, sector))
    \o WriteMap(map \cup ToSet(hdr.dataSectors))

\* The order in which Create flushes its changes.
CreateWrites(map, dir, sector, hdr, name) ==
  << [sector |-> sector, data |-> hdr] >>
    \o WriteDirectory(DirAdd(dir, name, sector))
    \o WriteMap(map \cup {sector} \cup ToSet(hdr.dataSectors))

\* FileSystem::Create of a file that is as long as the source, or empty in the
\* performance test: a header sector, a directory entry, the data sectors.
CreateSize == IF InProg("perf") THEN 0 ELSE Len(command.from)
CreateFails ==
  \/ Exists(command.name)
  \/ NumClear(FreeMap) = 0
  \/ FreeEntries(TheDirectory) = {}
  \/ NumClear(FreeMap) - 1 < DivRoundUp(CreateSize, SectorSize)

Create ==
  /\ Reaches("create")
  /\ ~CreateFails
  /\ LET sector == FindSectors(FreeMap, 1)[1]
     IN writes' = CreateWrites(FreeMap, TheDirectory, sector,
                               Allocated(FreeMap \cup {sector}, CreateSize), command.name)
  /\ stage' = AfterCreate
  /\ UNCHANGED <<disk, command, file, output, saved, dangling, corrupt, crashes>>

CreateRefused ==
  /\ Reaches("create")
  /\ CreateFails
  /\ stage' = AfterFailure
  /\ UNCHANGED <<disk, writes, command, file, output, saved, dangling, corrupt, crashes>>

\* FileSystem::Open; FileRead opens the file a second time.
OpenNext ==
  CASE InProg("print") \/ stage = "open2" -> "read"
    [] OTHER -> "write"
OpenFailed == IF InProg("perf") THEN "remove" ELSE "done"

Open ==
  /\ Reaches("open") \/ Reaches("open2")
  /\ Exists(command.name) => IsHeader(SectorOf(command.name))
  /\ IF Exists(command.name)
       THEN /\ file' = [hdr |-> HeaderAt(SectorOf(command.name)), seekPosition |-> 0]
            /\ stage' = OpenNext
       ELSE /\ stage' = OpenFailed
            /\ UNCHANGED file
  /\ UNCHANGED <<disk, writes, command, output, saved, dangling, corrupt, crashes>>

\* The bytes of another file are taken for a header: the file that is opened has
\* any length and any sectors.  It is only read, or a sector number out of range
\* stops nachos.
OpenGarbage ==
  /\ Reaches("open") \/ Reaches("open2")
  /\ Exists(command.name)
  /\ ~IsHeader(SectorOf(command.name))
  /\ stage' \in {OpenFailed, "aborted"}
  /\ UNCHANGED <<disk, writes, command, file, output, saved, dangling, corrupt, crashes>>

\* Mutant of WriteChunk: the position advances by what was asked for.
WriteChunkSkips ==
  /\ Reaches("write")
  /\ file.seekPosition < Len(command.from)
  /\ LET chunk == SubSeq(command.from, file.seekPosition + 1,
                         Min({file.seekPosition + TransferSize, Len(command.from)}))
         n == Written(file.hdr, chunk, file.seekPosition)
     IN /\ writes' = WriteAt(file.hdr, chunk, file.seekPosition)
        /\ file' = [file EXCEPT !.seekPosition = @ + Len(chunk)]
        /\ stage' = IF InProg("perf") /\ n < Len(chunk) THEN "open2" ELSE "write"
  /\ UNCHANGED <<disk, command, output, saved, dangling, corrupt, crashes>>

\* OpenFile::Write of the next chunk of the source.  Copy goes on whatever
\* Write returns; FileWrite gives up when it is less than a chunk.
Chunk(position) ==
  SubSeq(command.from, position + 1, Min({position + TransferSize, Len(command.from)}))
WriteChunk ==
  /\ Reaches("write")
  /\ file.seekPosition < Len(command.from)
  /\ LET chunk == Chunk(file.seekPosition)
         n == Written(file.hdr, chunk, file.seekPosition)
     IN /\ writes' = WriteAt(file.hdr, chunk, file.seekPosition)
        /\ file' = [file EXCEPT !.seekPosition = @ + n]
        /\ stage' = IF InProg("perf") /\ n < Len(chunk) THEN "open2" ELSE "write"
  /\ UNCHANGED <<disk, command, output, saved, dangling, corrupt, crashes>>

\* Copy and FileWrite close the file.
CopyDone ==
  /\ Reaches("write")
  /\ file.seekPosition = Len(command.from)
  /\ IF InProg("copy")
       THEN LET newSaved == [n \in DOMAIN saved \cup {command.name} |->
                              IF n = command.name THEN command.from ELSE saved[n]]
            IN Return(newSaved)
       ELSE stage' = "open2" /\ UNCHANGED <<command, file, output, saved>>
  /\ UNCHANGED <<disk, writes, dangling, corrupt, crashes>>

\* OpenFile::Read of the next chunk: Print prints what it gets until there is
\* nothing more, FileRead compares it with what FileWrite wrote.
ReadChunk ==
  /\ Reaches("read")
  /\ LET got == ReadAt(file.hdr, TransferSize, file.seekPosition)
         more == IF InProg("perf") THEN got = Chunk(file.seekPosition) ELSE got # << >>
     IN /\ output' = output \o got
        /\ file' = [file EXCEPT !.seekPosition = @ + Len(got)]
        /\ stage' = CASE InProg("perf") /\ (~more \/ Len(output') = Len(command.from)) -> "remove"
                      [] ~InProg("perf") /\ ~more -> "done"
                      [] OTHER -> "read"
  /\ UNCHANGED <<disk, writes, command, saved, dangling, corrupt, crashes>>

\* FileSystem::Remove: the sectors are freed and the entry is cleared.  From
\* here on the file is not one that must be there.  Of an entry that a crash left
\* dangling no sector was ever marked: a mark that is cleared is another file's.
RemoveFile ==
  /\ Reaches("remove")
  /\ Exists(command.name)
  /\ IsHeader(SectorOf(command.name))
  /\ LET index == FindIndex(TheDirectory, command.name)
         sector == SectorOf(command.name)
         hdr == HeaderAt(sector)
         freed == Deallocated(FreeMap, hdr) \ {sector}
     IN IF DeallocateAllowed(FreeMap, hdr)
          THEN /\ writes' = WriteMap(freed) \o WriteDirectory(DirRemove(TheDirectory, command.name))
               /\ stage' = "done"
               /\ dangling' = dangling \ {index}
               /\ corrupt' = (corrupt \/ (index \in dangling /\ freed # FreeMap))
          ELSE /\ stage' = "aborted"
               /\ UNCHANGED <<writes, dangling, corrupt>>
  /\ saved' = Without(saved, command.name)
  /\ UNCHANGED <<disk, command, file, output, crashes>>

\* The bytes of another file are taken for the header: any sectors are freed,
\* those of the map and the directory too, and what comes then is not modelled;
\* or the ASSERT stops nachos.
RemoveGarbage ==
  /\ Reaches("remove")
  /\ Exists(command.name)
  /\ ~IsHeader(SectorOf(command.name))
  /\ stage' \in {"undefined", "aborted"}
  /\ corrupt' = (corrupt \/ stage' = "undefined")
  /\ saved' = Without(saved, command.name)
  /\ UNCHANGED <<disk, writes, command, file, output, dangling, crashes>>

RemoveRefused ==
  /\ Reaches("remove")
  /\ ~Exists(command.name)
  /\ stage' = "done"
  /\ UNCHANGED <<disk, writes, command, file, output, saved, dangling, corrupt, crashes>>

Finished ==
  /\ Reaches("done")
  /\ Return(saved)
  /\ UNCHANGED <<disk, writes, dangling, corrupt, crashes>>

\* Nachos is stopped, in a command or by an ASSERT: what is in memory is gone.
\* Started again it finds the map and the directory where they are on the disk.
\* Create writes the directory before the map, and Remove the map before the
\* directory: what is left half done is an entry of sectors that are not marked.
Dangles(i) == TheDirectory[i].inUse /\ TheDirectory[i].sector \notin FreeMap
Crash ==
  /\ command # Idle /\ stage # "undefined"
  /\ crashes < MaxCrashes
  /\ crashes' = crashes + 1
  /\ dangling' = dangling \cup {i \in 1 .. NumDirEntries : Dangles(i)}
  /\ writes' = << >>
  /\ Return(saved)
  /\ UNCHANGED <<disk, corrupt>>

FsNext ==
  \/ BeginCopy \/ BeginPrint \/ BeginRemove \/ BeginPerf
  \/ WriteSector
  \/ Create \/ CreateRefused
  \/ Open \/ OpenGarbage
  \/ WriteChunk \/ CopyDone
  \/ ReadChunk
  \/ RemoveFile \/ RemoveGarbage \/ RemoveRefused
  \/ Finished
  \/ Crash

FsSpec == FsInit /\ [][FsNext]_fsVars

----------------------------------------------------------------------------
\* The variables have their types, an open file's position is within the file.
FsTypeOK ==
  /\ DOMAIN disk = Sectors
  /\ \A i \in DOMAIN writes : writes[i].sector \in Sectors
  /\ command.prog \in {"none", "copy", "print", "remove", "perf"}
  /\ command.name \in Names \cup {NoName}
  /\ stage \in {"idle", "create", "open", "open2", "write", "read", "remove", "done", "aborted", "undefined"}
  /\ file.seekPosition \in 0 .. file.hdr.numBytes
  /\ DOMAIN saved \subseteq Names /\ dangling \subseteq 1 .. NumDirEntries
  /\ output \in Seq(Nat)
  /\ crashes \in 0 .. MaxCrashes

\* Where a file is on the disk.
HeaderOf(name) == HeaderAt(SectorOf(name))
OwnSectors(name) == {SectorOf(name)} \cup ToSet(HeaderOf(name).dataSectors)
SystemSectors == {FreeMapSector, DirectorySector, MapData} \cup ToSet(DirData)

\* A file that Copy wrote is on the disk byte by byte until it is removed,
\* whatever happens to other files: the commands that create, write and remove
\* them, and a crash between any two of their sector writes.
SavedBytesStay ==
  \A n \in DOMAIN saved :
    /\ Exists(n)
    /\ HeaderOf(n).numBytes = Len(saved[n])
    /\ ReadAt(HeaderOf(n), Len(saved[n]), 0) = saved[n]

\* ... and Print shows them.
PrintShowsSaved ==
  InProg("print") /\ stage = "done" /\ command.name \in DOMAIN saved => output = saved[command.name]

\* Both hold until the sectors of a dangling entry are freed that another file
\* has taken meanwhile: that much filesys.cc says ("may corrupt the disk").
SavedFilesAreIntact == ~corrupt => SavedBytesStay /\ PrintShowsSaved

\* The files that the directory and the map agree about: the saved ones and
\* those that a crash cut short when Create was done with them.
Accounted ==
  {n \in Names : Exists(n) /\ FindIndex(TheDirectory, n) \notin dangling /\ SectorOf(n) \in FreeMap}

\* Also in the middle of a command every sector of such a file is marked in the
\* map and belongs to it alone, so that Remove finds a sector that "ought to be
\* marked" free, or a header that is none, only when the entry is dangling.
SectorsHaveOneOwner ==
  ~corrupt =>
    /\ FsTypeOK
    /\ DOMAIN saved \subseteq Accounted
    /\ \A n \in Accounted :
         /\ IsHeader(SectorOf(n))
         /\ OwnSectors(n) \subseteq FreeMap \ SystemSectors
         /\ Cardinality(OwnSectors(n)) = 1 + DivRoundUp(HeaderOf(n).numBytes, SectorSize)
         /\ \A m \in Accounted \ {n} : OwnSectors(n) \cap OwnSectors(m) = {}
    /\ stage = "aborted" => FindIndex(TheDirectory, command.name) \in dangling

\* Between commands, as long as none was cut short, the map marks the sectors
\* of the files in the directory and no other: failed and finished commands
\* leave no sector that nobody can free.
NoSectorLeaks ==
  command = Idle /\ crashes = 0 =>
    FreeMap = SystemSectors \cup UNION {OwnSectors(n) : n \in {m \in Names : Exists(m)}}

\* The map and the headers agree: see the two parts.
SectorsAreAccountedFor == SectorsHaveOneOwner /\ NoSectorLeaks

\* The performance test writes its file and reads it back before it removes it.
PerformanceTestReadsBack ==
  InProg("perf") /\ stage = "remove" /\ Exists(command.name) /\ command.name \notin DOMAIN saved
    => output = command.from
=============================================================================
