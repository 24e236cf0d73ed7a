SPECIFICATION FairSpec
CONSTANTS
  r1 = r1  r2 = r2  r3 = r3
  Requests = {r1, r2, r3}
  MaxOpenConns = 2
INVARIANTS TypeOK GracefulStopIsHarmless
PROPERTIES StopsInTheEnd
CHECK_DEADLOCK FALSE
