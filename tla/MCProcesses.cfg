SPECIFICATION ProcessSpec
CONSTANTS
  t1 = t1
  t2 = t2
  t3 = t3
  t4 = t4
  Threads = {t1, t2, t3, t4}
  Main = t1
  NoThread = NoThread
  Locks = {0, 1, 2}
  kernelLock = 0
  NoLock = NoLock
  Conds = {}
  NoCond = NoCond
  MaxProcesses = 2
  MaxProcessCount = 1
  NumPhysPages = 5
  ProgramPages = 1
  StackPages = 1
INVARIANTS
  MemoryIsShared
  UserSeesItsSpace
  CountsAgree
  NobodyIsStuck
PROPERTY HaltsWhenAllAreGone
