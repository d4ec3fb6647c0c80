SPECIFICATION Spec
CONSTANTS
  ue4 = ue4
  other = other
  NotFound = NotFound
  UE = ue4
  Named = {ue4}
  PageBytes = 64
  PhOff = 16
  FileMem = 4096
  Worlds <- WorldsMC
  Wanted <- WantedMC
  MaxEvents = 3
INVARIANTS
  BootTypeOK
  ResolvedRight
  FaultsExplained
  EventOnce
  AllOrNothing
PROPERTIES
  BootEnds
CHECK_DEADLOCK FALSE
