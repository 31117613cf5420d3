SPECIFICATION FairSpec
CONSTANTS
  Event = {e1}
  Torn = Torn
  BatchLimit = 1
  Tears = FALSE
  MaxAppends = 1
  MaxFaults = 1
  Unstorable = {}
  PageSize = 2
  MaxFailures = 0
  OtherKinds = {"foreign"}
  MaxOthers = 1
PROPERTIES
  ImplementsRelay
