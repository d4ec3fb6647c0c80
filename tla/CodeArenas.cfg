SPECIFICATION Safety
CONSTANTS
  lib = lib
  app = app
  stack = stack
  Free = Free
  None = None
  PageSize = 24
  NumPages = 8
  Image <- ImageGaps
  Files = {lib, app, stack}
  Code = {lib}
  Zeros <- ZerosAcross
  Sizes = {8, 24}
  NearSizes = {4, 8}
  Sites = {108, 180}
  AllocRange = 96
  MmapFails = TRUE
  Garbage = TRUE
  MaxChunks = 3
INVARIANTS
  ArenaTypeOK
  ChunksDisjoint
  ChunksMapped
  NearInRange
  SearchOnceMore
CHECK_DEADLOCK FALSE
