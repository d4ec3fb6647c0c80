SPECIFICATION Safety
CONSTANTS
  lib = lib
  app = app
  stack = stack
  Free = Free
  None = None
  PageSize = 24
  NumPages = 8
  Image <- ImageFull
  Files = {lib, app, stack}
  Code = {lib}
  Zeros = {}
  Sizes = {8, 24}
  NearSizes = {4, 8}
  Sites = {120}
  AllocRange = 96
  MmapFails = FALSE
  Garbage = FALSE
  MaxChunks = 3
PROPERTIES
  NearTakesUnused
CHECK_DEADLOCK FALSE
