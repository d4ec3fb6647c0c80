SPECIFICATION Spec
CONSTANTS
  t1 = t1
  t2 = t2
  HalfBits = 4
  ImmBits = 8
  PageBytes = 64
  Targets = {t1, t2}
  At <- AtMC
  Programs <- ProgramsMC
  RelocAt <- RelocAtMC
  TrampAt <- TrampAtMC
  EntryAt <- EntryAtMC
  BridgeAt = 16384
  HandlerAt = 20480
  Callee <- CalleeMC
  Machines <- MachinesMC
  Writes <- WritesMC
  FullPacks = {TRUE, FALSE}
  MaxDepth = 2
INVARIANTS
  InstrumentTypeOK
  HandlerContext
  Transparent
  FramesKept
PROPERTIES
  ActivationEnds
CHECK_DEADLOCK FALSE
