CONSTANTS
  Thread = {t1, t2}
  Main = Main
  Job = {j1, j2, j3}
  NoJob = NoJob
  NMutex = 2
  Fuel = 2
  MaxRoms = 1
SPECIFICATION FairSpec
INVARIANTS
  RingIsOneCycle
  MutualExclusion
  PreemptionBalanced
PROPERTIES
  RomUndisturbed
  ImplementsHardwareSetup
  EventuallyBoots
