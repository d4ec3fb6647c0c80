SPECIFICATION Safety
CONSTANTS
  r1 = r1
  r2 = r2
  h1 = h1
  None = None
  FnLen = 5
  Target <- TargetApart
  Handlers = {h1}
  NormalKinds = {"adrp", "ldr"}
  NearPlugin = TRUE
  PageWords = 3
  MaxHooks = 3
  Discipline = "calls"
  Stacking = "one"
  ArenaFails = TRUE
INVARIANTS
  ChainOrder
  PatchFaultsExplained
