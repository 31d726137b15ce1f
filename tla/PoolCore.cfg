SPECIFICATION Spec
CONSTANTS
  Chains = {c1}
  Entries = {e1, e2, e3}
  Leases = {l1, l2}
  Watchers = {w1}
  None = None
  Delay = "finite"
  Failing = {"pause", "connect", "release", "resume"}
  MaxDepth = 3
  MaxLost = 1
SYMMETRY Symmetry
INVARIANTS LeasesCounted PauseIsComplete WatchingIsCurrent NothingIsStranded
PROPERTIES LeasePromise
