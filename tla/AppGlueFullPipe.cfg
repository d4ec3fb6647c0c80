SPECIFICATION Spec
CONSTANTS
  w1 = w1
  w2 = w2
  q1 = q1
  q2 = q2
  d1 = d1
  d2 = d2
  Windows = {w1, w2}
  Queues = {q1}
  Data = {d1}
  AsyncCmds = {"LOW_MEMORY"}
  PipeCap = 2
  MaxAsync = 2
  EmptyMain = FALSE
  NULL = NULL
PROPERTIES
  CallbackReturns
CHECK_DEADLOCK FALSE
