SPECIFICATION FairPageSpec
CONSTANTS
  Leases = {l1, l2}
  Products = {p, q}
  Nil = Nil
  Retries = 1
  MaxDials = 4
  MaxChanges = 1
INVARIANTS CoresAreHeld RuntimeGoesOnce
PROPERTIES DownIsReplaced RequestsEnd
CHECK_DEADLOCK FALSE
