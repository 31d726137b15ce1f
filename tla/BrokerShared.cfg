SPECIFICATION FairSpec
CONSTANTS
  Sessions = {s1, s2}
  Kinds = {"watch"}
  Habits = {}
  None = None
  Shares = TRUE
  FollowLimit = 1
  MaxRequests = 2
  MaxEvents = 2
  MaxGarbled = 0
  MaxEarlyTokens = 1
  MaxEarlyEvents = 2
INVARIANTS HeardInOrder
PROPERTIES AnswersCome UnheldEnds
CHECK_DEADLOCK FALSE
