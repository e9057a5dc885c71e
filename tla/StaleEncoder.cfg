\* The application sends a frame of the wrong size before any other.
CONSTANTS
  Props = {2, 5}
  JpegSizes = {1, 2, 4}
  LengthBytes = 2
  PayloadSize = 3
  MaxFrames = 3
  MaxSets = 3
  EarlyMisfit = TRUE
  NULL = NULL
SPECIFICATION Spec
CHECK_DEADLOCK FALSE
INVARIANT EncodedAsAgreed
