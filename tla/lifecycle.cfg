SPECIFICATION FairSpec
CONSTANTS
  p1 = p1  p2 = p2
  Partitions = {p1, p2}
  QueueSize = 1
INVARIANTS TypeOK ExitCodeTellsWhy
PROPERTIES EndsWhenTold ImplementsProcess
CHECK_DEADLOCK FALSE
