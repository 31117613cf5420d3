SPECIFICATION Spec
CONSTANTS
  Event = {e1, e2}
  Torn = Torn
  BatchLimit = 1
  Tears = FALSE
  MaxAppends = 2
  MaxFaults = 1
  Unstorable = {}
  PageSize = 2
  MaxFailures = 1
  OtherKinds = {}
  MaxOthers = 0
INVARIANTS
  NoEventLost
PROPERTIES
  ImplementsSafety
SYMMETRY EventSymmetry
VIEW Relevant
