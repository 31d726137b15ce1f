SPECIFICATION FairSpec
CONSTANTS
  MaxConns = 2
  MaxSends = 2
  MaxTimeouts = 1
  Limit = 1
INVARIANTS BooksAgree AnswersAddUp
PROPERTIES GoneIsQuiet LostIsHeard
CHECK_DEADLOCK FALSE
