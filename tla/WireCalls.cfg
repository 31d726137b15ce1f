SPECIFICATION FairSpec
CONSTANTS
  Requests = {r1}
  Subscriptions = {s1}
  MaxOffers <- Offers
  MaxValues = 2
  MaxCloses = 1
INVARIANTS HeardInOrder CallsAgree
PROPERTIES EndedIsQuiet RequestsEnd
CHECK_DEADLOCK FALSE
