SPECIFICATION Spec
CONSTANTS
  w1 = w1
  w2 = w2
  q1 = q1
  q2 = q2
  d1 = d1
  d2 = d2
  Windows = {w1, w2}
  Queues = {q1, q2}
  Data = {d1, d2}
  AsyncCmds = {"CONFIG_CHANGED"}
  PipeCap = 4
  MaxAsync = 2
  EmptyMain = FALSE
  NULL = NULL
INVARIANTS
  TypeOK
  NoUseAfterFree
  WindowAlive
  QueueAlive
  WindowInHandler
  SavedStateBlock
  NoStaleCommand
PROPERTIES
  SavedStateReturned
  CallbackReturns
  WindowImplementsHandoff
  QueueImplementsHandoff
  StateImplementsHandoff
