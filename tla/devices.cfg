SPECIFICATION Spec
CONSTANTS
  t1 = t1
  t2 = t2
  t3 = t3
  x = x
  y = y
  nl = nl
  Threads = {t1, t2, t3}
  NoThread = NoThread
  Scenarios <- Both
  Input <- Typed
  EOF = EOF
  Newline = nl
  TimerTicks = 1
  ConsoleTime = 2
  DiskTimes = {1, 3}
  SectorsPerTrack = 3
  NumTracks = 3
  RotationTime = 3
  SeekTime = 2
  MaxTicks = 40
  m1 = m1
  m2 = m2
  c1 = c1
  c2 = c2
  c3 = c3
  c4 = c4
  Machines = {m1, m2}
  Boxes = {0, 1}
  Clients = {c1, c2, c3, c4}
  NoClient = NoClient
  Setups <- Networks
  MaxLost = 1
  Elements = {e1, e2, e3}
  Items = {i1, i2}
  Keys = {0, 1}
  NoItem = NoItem
  NULL = NULL
CHECK_DEADLOCK FALSE
INVARIANTS
  TransferIsReal
  OneRequestAtATime
  LinesAreWhole
  HaltsWhenDone
  MailIsKept
PROPERTIES
  CallsReturn
  ProgramsEnd
  ListIsASequence
