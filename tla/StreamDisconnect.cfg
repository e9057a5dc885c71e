CONSTANTS
  f1 = f1
  f2 = f2
  f3 = f3
  Sources = {s1}
  Frames <- TwoFrames
  MaxWorkers = 1
  Chunks = 2
  Requests = {"unpause"}
  MayClose = {}
  MayVanish = TRUE
  NULL = NULL
SPECIFICATION LiveSpec
PROPERTY DisconnectEnds
CHECK_DEADLOCK FALSE
