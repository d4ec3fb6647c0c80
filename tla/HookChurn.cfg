SPECIFICATION Spec
CONSTANTS
  r1 = r1
  r2 = r2
  h1 = h1
  None = None
  FnLen = 5
  Target <- TargetApart
  Handlers = {h1}
  NormalKinds = {"adrp"}
  NearPlugin = FALSE
  PageWords = 8
  MaxHooks = 4
  Discipline = "words"
  Stacking = "distinct"
  ArenaFails = FALSE
INVARIANTS
  HookTypeOK
  NothingFaults
  BodyRunsOnce
  ChainOrder
  CodeMatchesEntries
PROPERTIES
  CallReturns
