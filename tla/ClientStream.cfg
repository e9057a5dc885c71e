\* A stream that is started twice, with a change of its format: frames of its first
\* decoder are out when it gets the second, and the worker of the first start may
\* outlive the second's.
CONSTANTS
  NULL = NULL
  MaxStarts = 2
  MaxSets = 1
  MaxData = 2
  PerMessage = {0, 2}
  MaxHeld = 1
  Requests = {"set", "unpause", "pause", "close"}
SPECIFICATION Spec
CHECK_DEADLOCK FALSE
INVARIANTS TypeOK ImageOnce NewestFrame NoFault ListUnlocked DataInFormat NoWakeUpMissed
