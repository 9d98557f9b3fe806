SPECIFICATION Spec
CONSTANTS
  Keys = {"RCtrl", "LAlt", "NumLock", "Delete", "Pause", "PrtScr"}
  Services = {"00", "11", "05"}
  Slots = 3
  MaxPresses = 3
INVARIANTS
  FlagsTellKeys
PROPERTY ImplementsKeyQueue
CHECK_DEADLOCK FALSE
