SPECIFICATION LoopFairSpec
CONSTANTS
  i1 = i1  i2 = i2
  p1 = p1  p2 = p2
  a = a  b = b  c = c  d = d
  NoOwner = NoOwner
  Keys = {a, b, c, d}
  Instances = {i1}
  Partitions = {p1, p2}
  Log <- TwoLogs
  BatchSize = 2
  QueueSize = 1
  MaxProcessRetries = 1
  ServiceErrors = {"ErrDBUnavailable", "DeadlineExceeded"}
  DLQWriter = FALSE
  MaxFaults <- CrashAndSignal
INVARIANTS NoLoss
PROPERTIES InstancesAreProcesses ShutdownCompletes
CHECK_DEADLOCK FALSE
