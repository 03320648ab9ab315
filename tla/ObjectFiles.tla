---------------------------- MODULE ObjectFiles ----------------------------
(***************************************************************************)
(* From the object file a program is linked into to the memory it runs in, *)
(* along three ways: bin/coff2noff.c and the constructor of AddrSpace,     *)
(* bin/coff2flat.c, whose output is an image of memory, and load_program   *)
(* of bin/main.c.  A byte is <<section, offset>>.                          *)
(***************************************************************************)
EXTENDS Integers, Sequences, FiniteSets, FiniteSetsExt, Functions

CONSTANTS
  ObjectFile,   \* the COFF files: what the two magic numbers say, the sections
  PageBytes, FrameCount,  \* PageSize and NumPhysPages
  StackBytes,   \* UserStackSize
  FlatStack,    \* StackSize of coff2flat.c
  MemSize       \* MEMSIZE of bin/int.h

WordBytes == 4
Zero == <<"zero", 0>>
Old == <<"old", 0>>        \* what another process left in a page
EndOfFile == <<"EOF", 0>>

EndOf(s) == s.paddr + s.size
HasData(s) == s.name \notin {".bss", ".sbss"}

\* What test/script makes: the sections one after the other from address 0 on,
\* one of a name, those without data behind the others.
IsLinked(sections) ==
  /\ sections \in Seq([name : STRING, paddr : Nat, size : Nat, there : Nat])
  /\ \A i \in DOMAIN sections :
       sections[i].paddr = IF i = 1 THEN 0 ELSE EndOf(sections[i - 1])
  /\ \A i, j \in DOMAIN sections :
       /\ sections[i].name = sections[j].name => i = j
       /\ i < j /\ sections[i].size # 0 /\ HasData(sections[j]) => HasData(sections[i])

ASSUME ObjectAssumption ==
  /\ PageBytes \in Nat \ {0} /\ FrameCount \in Nat \ {0} /\ StackBytes \in Nat \ {0}
  /\ FlatStack \in Nat /\ FlatStack >= WordBytes /\ MemSize \in Nat
  /\ \A file \in ObjectFile : /\ file.mipsel \in BOOLEAN /\ file.omagic \in BOOLEAN
                               /\ IsLinked(file.sections)

VARIABLES
  coff,       \* the object file
  loader,     \* which way it takes
  loading,      \* what is done with it
  next,       \* the sections, or pages, dealt with so far
  noff,       \* noffH of coff2noff
  written,    \* the bytes of the file that is written, without the NOFF header
  bitmap,     \* the marked frames
  frames,     \* the frame of each page of the new space
  memory      \* Machine::mainMemory, or mem of the interpreter

objectVars == <<coff, loader, loading, next, noff, written, bitmap, frames, memory>>

Segment(addr, offset, n) ==
  [virtualAddr |-> addr, inFileAddr |-> offset, size |-> n]
NoSegment == Segment(0, 0, 0)
DivUp(n, s) == (n + s - 1) \div s

\* Memory as earlier programs left it; the interpreter's is static, so zero.
ObjectsBegin ==
  /\ loading = "magic" /\ next = 0
  /\ noff = [code |-> NoSegment, initData |-> NoSegment, uninitData |-> NoSegment]
  /\ written = << >>
  /\ bitmap \in IF loader = "AddrSpace" THEN SUBSET (0 .. FrameCount - 1) ELSE {{}}
  /\ frames = << >>
  /\ memory = IF loader = "AddrSpace" THEN [a \in 0 .. FrameCount * PageBytes - 1 |-> Old]
                                      ELSE [a \in 0 .. MemSize - 1 |-> Zero]

ObjectInit ==
  /\ coff \in ObjectFile
  /\ loader \in {"AddrSpace", "coff2flat", "load_program"}
  /\ ObjectsBegin

----------------------------------------------------------------------------
Sections == coff.sections
Section == Sections[next + 1]
Data(s) == [i \in 1 .. s.size |-> <<s.name, i>>]
Top == Max({0} \cup {EndOf(Sections[i]) : i \in DOMAIN Sections})

\* Read() of a tool ends it when the file ends first.
IsThere(s) == s.there >= s.size

AtSection(tool) == loading = "sections" /\ loader = tool /\ next < Len(Sections)
AllSections(tool) == loading = "sections" /\ loader = tool /\ next = Len(Sections)

\* The headers: load_program looks at one magic number, the others at two.
Recognised == coff.mipsel /\ (coff.omagic \/ loader = "load_program")

CheckMagic ==
  /\ loading = "magic"
  /\ loading' = IF Recognised THEN "sections" ELSE "refused"
  /\ UNCHANGED <<coff, loader, next, noff, written, bitmap, frames, memory>>

----------------------------------------------------------------------------
\* coff2noff: a section with instructions or data goes to the end of the file,
\* one without is only measured.  With two of the latter, the second must not
\* follow the first.
CopySegment(segment) ==
  /\ IsThere(Section)
  /\ noff' = [noff EXCEPT ![segment] = Segment(Section.paddr, Len(written), Section.size)]
  /\ written' = written \o Data(Section)
  /\ UNCHANGED loading

Bss == noff.uninitData

MeasureSegment ==
  /\ \/ Bss.size = 0 /\ noff' = [noff EXCEPT !.uninitData = Segment(Section.paddr, 0, Section.size)]
     \/ /\ Bss.size # 0 /\ Section.paddr # Bss.virtualAddr + Bss.size
        /\ noff' = [noff EXCEPT !.uninitData.size = @ + Section.size]
  /\ UNCHANGED <<written, loading>>

SecondInitData == Section.name \in {".data", ".rdata"} /\ noff.initData.size # 0
SecondBss == ~HasData(Section) /\ Bss.size # 0 /\ Section.paddr = Bss.virtualAddr + Bss.size
Unknown == Section.name \notin {".text", ".data", ".rdata", ".bss", ".sbss"}

ConvertSection ==
  /\ AtSection("AddrSpace")
  /\ \/ Section.size = 0 /\ UNCHANGED <<noff, written, loading>>
     \/ /\ Section.size # 0
        /\ \/ Section.name = ".text" /\ CopySegment("code")
           \/ /\ Section.name \in {".data", ".rdata"} /\ ~SecondInitData
              /\ CopySegment("initData")
           \/ ~HasData(Section) /\ MeasureSegment
           \/ /\ SecondInitData \/ SecondBss \/ Unknown \/ (HasData(Section) /\ ~IsThere(Section))
              /\ loading' = "refused" /\ UNCHANGED <<noff, written>>
  /\ next' = next + 1
  /\ UNCHANGED <<coff, loader, bitmap, frames, memory>>

\* The header is written; later AddrSpace finds it, and that the program fits.
ProgramSize == noff.code.size + noff.initData.size + noff.uninitData.size
numPages == DivUp(ProgramSize, PageBytes) + DivUp(StackBytes, PageBytes)

ConversionEnds ==
  /\ AllSections("AddrSpace")
  /\ loading' = IF numPages <= FrameCount THEN "pages" ELSE "refused"
  /\ next' = 0
  /\ UNCHANGED <<coff, loader, noff, written, bitmap, frames, memory>>

\* Mutant of PlaceOf: the page goes where its virtual address says.
PlaceIsVirtual(frame) == next * PageBytes

\* Where in mainMemory a page of the file is read into.
PlaceOf(frame) == frame * PageBytes

\* ReadAt reads as much of a page as the file has.
ReadPage(frame) ==
  [a \in DOMAIN memory |->
     LET i == next * PageBytes + a - PlaceOf(frame) + 1
     IN  IF a \in PlaceOf(frame) .. PlaceOf(frame) + PageBytes - 1 /\ i <= Len(written)
           THEN written[i] ELSE memory[a]]

\* One round of the loop of AddrSpace::AddrSpace.
LoadPage ==
  /\ loading = "pages" /\ next < numPages
  /\ LET clear == (0 .. FrameCount - 1) \ bitmap
         frame == Min(clear)
     IN  \/ /\ clear # {}
            /\ bitmap' = bitmap \cup {frame}
            /\ frames' = Append(frames, frame)
            /\ memory' = ReadPage(frame)
            /\ next' = next + 1
            /\ UNCHANGED loading
         \/ /\ clear = {}
            /\ loading' = "incomplete"
            /\ UNCHANGED <<bitmap, frames, memory, next>>
  /\ UNCHANGED <<coff, loader, noff, written>>

PagesLoaded ==
  /\ loading = "pages" /\ next = numPages
  /\ loading' = "loaded"
  /\ UNCHANGED <<coff, loader, next, noff, written, bitmap, frames, memory>>

----------------------------------------------------------------------------
\* coff2flat: everything but .bss and .sbss one after the other, and at last a
\* word at the end of the stack, so that what is not written is zero.
FlattenSection ==
  /\ AtSection("coff2flat")
  /\ \/ ~HasData(Section) /\ UNCHANGED <<written, loading>>
     \/ HasData(Section) /\ IsThere(Section) /\ written' = written \o Data(Section) /\ UNCHANGED loading
     \/ HasData(Section) /\ ~IsThere(Section) /\ loading' = "refused" /\ UNCHANGED written
  /\ next' = next + 1
  /\ UNCHANGED <<coff, loader, noff, bitmap, frames, memory>>

FlatEnds ==
  /\ AllSections("coff2flat")
  /\ written' = [i \in 1 .. Top + FlatStack |->
                   IF i <= Len(written) /\ i <= Top + FlatStack - WordBytes
                     THEN written[i] ELSE Zero]
  /\ loading' = "loaded"
  /\ UNCHANGED <<coff, loader, next, noff, bitmap, frames, memory>>

----------------------------------------------------------------------------
\* load_program: the sections it knows, in its order, at their addresses, if
\* they have a place in the file; getc goes on after the end of the file.
LoadOrder == <<".text", ".rdata", ".data", ".sdata", ".sbss", ".bss">>

ByteAt(s, i) == IF i <= s.there THEN Data(s)[i] ELSE EndOfFile

LoadSection ==
  /\ loading = "sections" /\ loader = "load_program" /\ next < Len(LoadOrder)
  /\ LET found == {i \in DOMAIN Sections : Sections[i].name = LoadOrder[next + 1]
                                             /\ HasData(Sections[i])}
     IN  \/ found = {} /\ UNCHANGED <<memory, loading>>
         \/ \E i \in found :
              LET s == Sections[i] IN
              /\ memory' = [a \in DOMAIN memory |->
                              IF a \in s.paddr .. EndOf(s) - 1 THEN ByteAt(s, a - s.paddr + 1)
                                                               ELSE memory[a]]
              /\ loading' = IF EndOf(s) >= MemSize THEN "refused" ELSE loading
  /\ next' = next + 1
  /\ UNCHANGED <<coff, loader, noff, written, bitmap, frames>>

SectionsLoaded ==
  /\ loading = "sections" /\ loader = "load_program" /\ next = Len(LoadOrder)
  /\ loading' = "loaded"
  /\ UNCHANGED <<coff, loader, next, noff, written, bitmap, frames, memory>>

ObjectNext ==
  \/ CheckMagic
  \/ ConvertSection
  \/ ConversionEnds
  \/ LoadPage
  \/ PagesLoaded
  \/ FlattenSection
  \/ FlatEnds
  \/ LoadSection
  \/ SectionsLoaded

ObjectSpec == ObjectInit /\ [][ObjectNext]_objectVars

----------------------------------------------------------------------------
\* The byte at a virtual address of the program, once it is loaded.
Image(a) ==
  CASE loader = "AddrSpace" -> memory[frames[a \div PageBytes + 1] * PageBytes + (a % PageBytes)]
    [] loader = "coff2flat" -> written[a + 1]
    [] loader = "load_program" -> memory[a]

\* What coff2noff.c says it takes: at most text, one segment of initialised data
\* and one of uninitialised data; and there is room.
Filled(names) == {i \in DOMAIN Sections : Sections[i].name \in names /\ Sections[i].size # 0}
IsProper ==
  /\ coff.mipsel /\ coff.omagic
  /\ \A i \in DOMAIN Sections : HasData(Sections[i]) => IsThere(Sections[i])
  /\ Cardinality(Filled({".data", ".rdata"})) <= 1
  /\ Cardinality(Filled({".bss", ".sbss"})) <= 1
  /\ Filled({".text", ".data", ".rdata", ".bss", ".sbss"}) = Filled({s.name : s \in Range(Sections)})
  /\ Top < MemSize
  /\ DivUp(Top, PageBytes) + DivUp(StackBytes, PageBytes) <= FrameCount

\* "the flat file can then be copied directly to virtual memory and executed"
\* (coff2flat.c:8), "recording where each segment is in the NOFF file, and where
\* it is to go" (coff2noff.c:5): whichever way a program takes, and whichever
\* frames it gets, each of its instructions and initialised data is found at
\* the address it was linked for, and no proper file is refused.
ProgramIsLoaded ==
  /\ loading = "loaded" =>
       \A s \in Range(Sections) : s.name \in {".text", ".data", ".rdata"} =>
         \A i \in 1 .. s.size : IsThere(s) => Image(s.paddr + i - 1) = <<s.name, i>>
  /\ loading = "refused" => ~IsProper

\* "uninitialized data segment -- should be zero'ed before use" (noff.h:24).
UninitialisedDataIsZero ==
  loading = "loaded" =>
    \A s \in Range(Sections) : ~HasData(s) => \A i \in 1 .. s.size : Image(s.paddr + i - 1) = Zero

=============================================================================
