SPECIFICATION AcceleratorLiveSpec
CONSTANTS
  c1 = c1
  t1 = t1
  t2 = t2
  Client = {c1}
  Topic = {t1}
  RingSize = 2
  PipeSize = 2
  MaxMsgs = 1
CHECK_DEADLOCK FALSE
PROPERTIES
  TasksEnd
