SPECIFICATION Spec
CONSTANTS
  Handles = {h1, h2}
  SlotCount = 2
  Capacity = 1
  Monitored = {1}
  MaxFaults = 2
  NoPlacement = NoPlacement
INVARIANTS
  TypeOK
  CapacityRespected
  LoadExact
  NoZombieSession
  NoContextLeak
  NoOrphanBrowser
PROPERTIES
  AllocatorSpec
  SlotRecovers
CHECK_DEADLOCK FALSE
