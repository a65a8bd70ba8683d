SPECIFICATION Spec
CONSTANTS
  Null = Null
  Torn = Torn
  MinSize = 2
  Conns = {c1, c2}
  MaxRequests = 2
  MaxBoots = 2
SYMMETRY Symmetry
CONSTRAINT Telling
INVARIANTS
  TypeOK
  
  NullOnlyAfterDamage
  RestartKeeps
  TornIsPrefix
  UsersConsistent
