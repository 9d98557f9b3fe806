CONSTANTS
  Word = 256
  SegWord = 64
  KbWord = 128
  MinAlign = 4
  DetailSize = 3
  DataOff = 1
  PageSize = 4
  Kb = 4
  RomAlign = 4
  HeaderReserve = 4
  Layouts <- MCLayouts
  Handles = {h1}
  DefaultHandle = DefaultHandle
SPECIFICATION Spec
INVARIANTS
  ZonesIntact
  PmmTellsTruth
  MemoryKept
PROPERTIES
  ImplementsAllocator
CONSTRAINT
  MCUntilOverdrawn
