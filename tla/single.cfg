SPECIFICATION Spec
CONSTANTS
  i1 = i1  i2 = i2
  p1 = p1  p2 = p2
  a = a  b = b  c = c  d = d
  NoOwner = NoOwner
  Keys = {a, b, c, d}
  Instances = {i1}
  Partitions = {p1}
  Log <- GarbageLog
  BatchSize = 2
  QueueSize = 1
  MaxProcessRetries = 1
  ServiceErrors = {"ErrDBUnavailable", "DeadlineExceeded"}
  DLQWriter = TRUE
  MaxFaults <- CrashAndSignal
INVARIANTS TypeOK OneInstanceInv LossOnlyBehindFlush LossWithinOneBatch HandledInOrder FetchedBounded
PROPERTIES CommitsNeverRewind
CHECK_DEADLOCK FALSE
