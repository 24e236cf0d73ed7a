SPECIFICATION Spec
CONSTANTS
  w1 = w1  w2 = w2
  c1 = c1  c2 = c2
  MaxInt = 1012
  Digits = {"0", "1", "2"}
  MaxChars = 6
  Sleepers = {w1, w2}
  Millisecond = 2
  MaxRetryDelay = 50
  RetryBaseDelayMs = 1
  JitterSettings <- Jitters
  MaxProcessRetries = 10
  Values <- SettingValues
  Unset = Unset
  Malformed = Malformed
  Callers = {c1, c2}
  NoConfig = NoConfig
  MaxEdits = 1
  u1 = u1  u2 = u2
  e1 = e1  e2 = e2  e3 = e3  e4 = e4  e5 = e5  e6 = e6  e7 = e7
  None = None
  Users = {u1, u2}
  Events = {e1, e2, e3, e4, e5, e6, e7}
  Event <- Wagers
  Writes <- Spellings
  Micro = 2  Milli = 4  Second = 8  Day = 40
  MillisAbove = 10
  ZeroTime <- YearOne
INVARIANTS SupportedAmountsParsed OnlyStraySignsSlipThrough DelaysGrow
  SettingsInRange DefaultsAgree EnvironmentOverrides OneConfigForAll
  InstantsSurvive OnlyRepetitionsMerge
CHECK_DEADLOCK FALSE
