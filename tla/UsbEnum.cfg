CONSTANTS
  Ports <- MCPorts
  Hubs <- MCHubs
  Parent <- MCParent
  USB_MAXADDR = 3
  DeviceOom = TRUE
SPECIFICATION FairSpec
INVARIANTS
  AddressesExclusive
  HubOutlivesThreads
  PipesAndDriversKept
PROPERTIES
  EndsWithMemory
CHECK_DEADLOCK FALSE
