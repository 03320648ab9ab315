SPECIFICATION PartsSpec
CONSTANTS
  CustomerCount = 2
  Offices <- OnlyDesk
  KernelOffices = {}
  Money = {600}
  LongLines = 1
  MaxMessUps = 1
  NoCustomer = NoCustomer
INVARIANTS
  CounterKeepsGoing
