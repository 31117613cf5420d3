SPECIFICATION Spec
CONSTANTS
  Key = {k1}
  NoKey = NoKey
  Window = 1
  Limit = 4
  MaxTime = 3
  MaxRows = 5
INVARIANTS
  TypeOK
  TagsDependOnRowsOnly
PROPERTIES
  RepeatingChangesNothing
  MatchLostOnlyToRival
