CONSTANTS
  Thread = {t1, t2}
  Messages <- MCMessages
  Modulus = 8
  MaxSent = 3
  NULL = NULL
SPECIFICATION FairSpec
CHECK_DEADLOCK FALSE
INVARIANTS TypeOK ReceivedInOrder NoSendAfterClose
PROPERTY AllReceived
