CONSTANTS
  f1 = f1
  f2 = f2
  f3 = f3
  Sources = {s1}
  Frames <- TwoFrames
  MaxWorkers = 2
  Chunks = 1
  Requests = {"pause", "unpause"}
  MayClose = {}
  MayVanish = FALSE
  NULL = NULL
SPECIFICATION Spec
INVARIANT OrphanedMeansClosed
CHECK_DEADLOCK FALSE
