SPECIFICATION Spec
CONSTANTS
  c1 = c1
  u1 = u1  u2 = u2
  e1 = e1  e2 = e2  e3 = e3  e4 = e4
  None = None
  Nothing = Nothing
  Clients = {c1}
  Users = {u1, u2}
  Events = {e1, e2, e3, e4}
  Event <- Wagers
  Writes <- Spellings
  Micro = 2  Milli = 4  Second = 8  Day = 40
  MillisAbove = 10
  ZeroTime <- YearOne
INVARIANTS AnswersAreComplete NewestFirst
CHECK_DEADLOCK FALSE
