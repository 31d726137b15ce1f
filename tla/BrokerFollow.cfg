SPECIFICATION Spec
CONSTANTS
  Sessions = {s1, s2}
  Kinds = {"follow"}
  Habits = {"call", "notify"}
  None = None
  Shares = FALSE
  FollowLimit = 1
  MaxRequests = 2
  MaxEvents = 2
  MaxGarbled = 1
  MaxEarlyTokens = 2
  MaxEarlyEvents = 2
SYMMETRY Symmetry
INVARIANTS HoldingsAgree AnsweredOnce FollowLimitKept HeardAll
PROPERTIES GoneIsQuiet
CHECK_DEADLOCK FALSE
