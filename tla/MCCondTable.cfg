SPECIFICATION CondTableSpec
CONSTANTS
  t1 = t1
  t2 = t2
  t3 = t3
  Threads = {t1, t2, t3}
  Main = t1
  NoThread = NoThread
  locksLock = locksLock
  condsLock = condsLock
  MaxLockCount = 1
  InitialLocks = 0
  Locks = {locksLock, condsLock, 0}
  NoLock = NoLock
  MaxCondCount = 1
  InitialConds = 0
  Conds = {0}
  NoCond = NoCond
  LockIndices = {0}
  CondIndices = {0}
  SysCalls = {"CreateCondition", "CreateLock", "Acquire", "Release", "DestroyLock", "Wait", "Signal", "Broadcast", "DestroyCondition"}
SYMMETRY Symmetry
INVARIANTS
  CondTableIsProtected
  NoCondDestroyForgotten
PROPERTIES
  DestroyWaitsForUsers
