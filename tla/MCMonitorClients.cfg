SPECIFICATION FairClientSpec
CONSTANTS
  t1 = t1
  t2 = t2
  t3 = t3
  t4 = t4
  la = la
  ca = ca
  Threads = {t1, t2, t3, t4}
  Main = t1
  NoThread = NoThread
  Locks = {la}
  NoLock = NoLock
  Conds = {ca}
  NoCond = NoCond
  LockOf <- TheLock
PROPERTIES
  BroadcastEnds
  LockWaiterServed
  ImplementsMonitor
