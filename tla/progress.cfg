SPECIFICATION FairSpec
CONSTANTS
  i1 = i1  i2 = i2
  p1 = p1  p2 = p2
  a = a  b = b  c = c  d = d
  NoOwner = NoOwner
  Keys = {a, b, c, d}
  Instances = {i1, i2}
  Partitions = {p1}
  Log <- TailLog
  BatchSize = 2
  QueueSize = 1
  MaxProcessRetries = 0
  ServiceErrors = {}
  DLQWriter = TRUE
  MaxFaults <- CrashAndRebalance
INVARIANTS OnlyBadMessagesDeadLettered
PROPERTIES EveryMessageHandled
CHECK_DEADLOCK FALSE
