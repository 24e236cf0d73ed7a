SPECIFICATION Spec
CONSTANTS
  h1 = h1  h2 = h2
  p1 = p1  p2 = p2
  NoValue = NoValue
  Handlers = {h1, h2}
  Durations = {1, 2, 4}
  MaxRequests = 3
  Partitions = {p1, p2}
  BatchSize = 2
  WorkDurations = {1, 3}
  MaxMessages = 3
  MaxNoise = 1
  Counters <- CounterKeys
  Gauges <- GaugeKeys
  Timers <- TimerKeys
SYMMETRY Symmetry
INVARIANTS NothingLostOrDoubled StatsDescribeWindow LittleIsLeftAtRest
  InflightWithinWork StaleGaugeBounded
CHECK_DEADLOCK FALSE
