SPECIFICATION SessionSpec
CONSTANTS
  Sessions = {s1, s2}
  NoSession = NoSession
  Failed = Failed
  MaxWrites = 1
  MaxCores = 1
  MaxFails = 1
  MaxEvents = 1
  MaxTogether = 3
SYMMETRY Symmetry
INVARIANT PageSettles
PROPERTIES CoreKeepsThePage
CHECK_DEADLOCK FALSE
