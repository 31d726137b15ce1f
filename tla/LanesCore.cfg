SPECIFICATION Spec
CONSTANTS
  Consumers = {c1, c2}
  None = None
  FollowLimit = 1
  Reports = {"connecting", "connected", "disconnected"}
  Failing = {"build", "connect", "close", "open"}
  MaxLanes = 3
  MaxFollows = 2
INVARIANTS LimitKept SessionsAgree EveryLaneFollows
CHECK_DEADLOCK FALSE
