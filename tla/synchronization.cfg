SPECIFICATION PartsSpec
CONSTANTS
  t1 = t1
  t2 = t2
  t3 = t3
  sa = sa
  sb = sb
  Threads = {t1, t2, t3}
  Main = t1
  NoThread = NoThread
  Sems = {sa, sb}
  NoSem = NoSem
  InitialValue <- Values
  MaxInterrupts <- Interrupts
  MaxV = 1
  lock = la
  Locks = {la}
  NoLock = NoLock
  listEmpty = ca
  Conds = {ca}
  NoCond = NoCond
  MaxItems = 3
INVARIANTS
  UnitsAreConserved
  NoLostWakeup
  NoItemForgotten
PROPERTIES
  SleepersGetUnits
  OperationsReturn
