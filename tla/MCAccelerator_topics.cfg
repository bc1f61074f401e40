SPECIFICATION AcceleratorLiveSpec
CONSTANTS
  c1 = c1
  t1 = t1
  t2 = t2
  Client = {c1}
  Topic = {t1, t2}
  RingSize = 2
  PipeSize = 1
  MaxMsgs = 3
CHECK_DEADLOCK FALSE
INVARIANTS
  AcceleratorTypeOK
  NoSilentGap
  NoSubscriptionCut
PROPERTIES
  EveryMessageArrives
  EverySubscriptionAcknowledged
