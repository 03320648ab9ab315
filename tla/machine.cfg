SPECIFICATION Spec
CONSTANTS
  Excused <- KnownNachos
  t1 = t1
  t2 = t2
  t3 = t3
  Threads = {t1, t2}
  ByteBits = 2
  Region = 128
  XRegion = 128
  Answers = {5, 250}
  SC <- SystemCalls
  threadArgs <- Given
  Keys = {1, 2}
  XExitCall = 1
  PageSize = 16
  NumPhysPages = 8
  ObjectFile <- Programs
  PageBytes = 4
  FrameCount = 5
  StackBytes = 4
  FlatStack = 6
  MemSize = 16
  Names = {"TestFile", "g", "h"}
  PerfName = "TestFile"
  NoName = ""
  Sources <- OnUnix
  Contents <- AChunk
  PerfChunks = 1
  NumSectors = 10
  SectorSize = 4
  TransferSize = 3
  NumDirEntries = 2
  Straddling = 2
  MaxCrashes = 1
  Callers = {t1, t2, t3}
  NoThread = NoThread
  Files = {f1, f2, f3}
  NoFile = NoFile
  Garbage = Garbage
  Size = 4
  KeepsIds = TRUE
  NoLock = NoLock
  NoCond = NoCond
  NoSem = NoSem
  Waiters = 2
  MaxSlices = 3
CHECK_DEADLOCK FALSE
INVARIANTS
  ProgramIsLoaded
  SavedFilesAreIntact
  SectorsAreAccountedFor
  ThreadsResume
  FilesKeepTheirSlots
  SuiteComesOut
PROPERTIES
  RunsAsIfAlone
  ExecutesTheIsa
