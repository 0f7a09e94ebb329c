SPECIFICATION Spec
CONSTANTS
  Handles = {h1, h2}
  SlotCount = 2
  Capacity = 1
  Monitored = {}
  MaxFaults = 1
  NoPlacement = NoPlacement
PROPERTIES
  HealthySlotChosen
CHECK_DEADLOCK FALSE
