CONSTANTS
  Intervals = {0, 1}
  Worlds <- MCWorlds
SPECIFICATION FairSpec
INVARIANTS
  PeriodicCounted
  NoDanglingFlag
PROPERTIES
  IntervalsServed
