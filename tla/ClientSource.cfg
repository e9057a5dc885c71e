\* Frames of two sizes, in one message and in several; a jpeg may fill its last message
\* to the byte.
CONSTANTS
  Props = {2, 5}
  JpegSizes = {1, 2, 4}
  LengthBytes = 2
  PayloadSize = 3
  MaxFrames = 3
  MaxSets = 3
  EarlyMisfit = FALSE
  NULL = NULL
SPECIFICATION FairSpec
CHECK_DEADLOCK FALSE
INVARIANTS TypeOK NoOverrun FramesInOrder EncodedAsAgreed
PROPERTY AllDecoded
