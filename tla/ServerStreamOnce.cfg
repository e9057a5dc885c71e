\* A stream that is started once, on a source that stays open.
CONSTANTS
  f1 = f1
  f2 = f2
  f3 = f3
  Sources = {s1}
  Frames <- ThreeFrames
  MaxWorkers = 1
  Chunks = 2
  Requests = {"pause", "unpause", "getInfo", "close"}
  MayClose = {}
  MayVanish = TRUE
  NULL = NULL
SPECIFICATION LiveSpec
INVARIANT NoFault
PROPERTY PauseEndsWorkers
CHECK_DEADLOCK FALSE
