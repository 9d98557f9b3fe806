CONSTANTS
  Intervals = {0, 2}
  Worlds <- StaleWorlds
SPECIFICATION Spec
PROPERTIES
  ServicesKeepPeriodic
