SPECIFICATION LockTableSpec
CONSTANTS
  t1 = t1
  t2 = t2
  t3 = t3
  Threads = {t1, t2, t3}
  Main = t1
  NoThread = NoThread
  locksLock = locksLock
  MaxLockCount = 1
  InitialLocks = 1
  SysCalls = {"Acquire", "Release", "DestroyLock"}
  Locks = {locksLock, 0}
  NoLock = NoLock
  Conds = {}
  NoCond = NoCond
  LockIndices = {0}
INVARIANT NoUseAfterDestroy
