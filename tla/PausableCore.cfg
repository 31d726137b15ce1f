SPECIFICATION FairSpec
CONSTANTS
  Methods = {"follow", "unpin"}
  None = None
  Reuses = TRUE
  MaxRequests = 3
  MaxGeneration = 3
INVARIANTS RequestsAreKept HoldingsAgree
PROPERTIES AnswersCome
CHECK_DEADLOCK FALSE
