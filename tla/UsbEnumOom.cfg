CONSTANTS
  Ports <- MCPorts
  Hubs <- MCHubs
  Parent <- MCParent
  USB_MAXADDR = 3
  DeviceOom = TRUE
SPECIFICATION FairSpec
PROPERTIES
  EnumerationEnds
CHECK_DEADLOCK FALSE
