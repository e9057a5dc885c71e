\* Two starts and two sources, one of which closes; all requests.
CONSTANTS
  f1 = f1
  f2 = f2
  f3 = f3
  Sources = {s1, s2}
  Frames <- TwoFrames
  MaxWorkers = 2
  Chunks = 1
  Requests = {"pause", "unpause", "attach", "resize", "getInfo", "close"}
  MayClose = {s1}
  MayVanish = FALSE
  NULL = NULL
SPECIFICATION Spec
SYMMETRY FrameSymmetry
INVARIANTS TypeOK FrameRefsExact FramesInUseKept AttachedSourceAlive
CHECK_DEADLOCK FALSE
