\* Two rows of two bytes and one of padding; two frames and more, through a ring that
\* wraps and grows, in chunks that end within rows and span frames.
CONSTANTS
  RowBytes = 2
  Padding = 1
  Height = 2
  Junk = Junk
  MaxBytes = 15
  MaxProvide = 3
  MaxBuffered = 5
  MaxHeld = 2
SPECIFICATION Spec
CHECK_DEADLOCK FALSE
INVARIANTS TypeOK FramesWhole
PROPERTY ImplementsFifo
