SPECIFICATION Spec
CONSTANTS
  Rule = {plain}
  Unstorable = {}
  MaxInitial = 1
  MaxMail = 2
  MaxFailures = 1
PROPERTIES LaterMailIsStaged
