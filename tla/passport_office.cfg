SPECIFICATION PartsSpec
CONSTANTS
  CustomerCount = 2
  Offices <- Counters
  KernelOffices <- KernelParts
  Money = {600}
  LongLines = 1
  MaxMessUps = 1
  NoCustomer = NoCustomer
INVARIANTS
  OfficeCountsAreExact
  SalesAddUp
  OpenUntilAllAreDone
  SenatorGoesFirst
PROPERTIES
  ClerksComeBack
