SPECIFICATION Spec
CONSTANTS
  t1 = t1
  t2 = t2
  t3 = t3
  t4 = t4
  Threads = {t1, t2, t3, t4}
  Main = t1
  NoThread = NoThread
  Locks = {la, lb}
  NoLock = NoLock
  Conds = {ca, cb}
  NoCond = NoCond
SYMMETRY Symmetry
INVARIANTS
  EveryThreadInItsPlace
  MonitorsConsistent
PROPERTY LockHandedOverInOrder
