SPECIFICATION Spec
CONSTANTS
  Chains = {c1, c2}
  Entries = {e1, e2, e3, e4, e5}
  Leases = {l1, l2}
  Watchers = {}
  None = None
  Delay = "finite"
  Failing = {"resume"}
  MaxDepth = 4
  MaxLost = 0
PROPERTY CountdownClosesUnleased
