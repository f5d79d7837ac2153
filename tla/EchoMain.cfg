SPECIFICATION FairSpec
CONSTANTS
  DhcpTimeout = 24
  FastTicks = 5
  SlowTicks = 10
  FineTicks = 10
  CoarseTicks = 20
  AcdTicks = 2
INVARIANTS
  AddressBeforeStart
  FallbackLast
  TicksAccounted
PROPERTY StartsOrReturns
