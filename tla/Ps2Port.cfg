SPECIFICATION FairSpec
CONSTANTS
  Ops = {"leds", "enable", "disable", "init", "install", "remove", "rate"}
  MaxCalls = 3
  MaxCommands = 2
  MaxKeys = 2
  MaxPackets = 2
  MaxFaults = 1
INVARIANTS
  PortRestored
  HandlerPresent
  BytesDelivered
PROPERTIES
  CommandsEnd
CHECK_DEADLOCK FALSE
