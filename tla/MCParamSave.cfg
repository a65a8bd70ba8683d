SPECIFICATION Spec
CONSTANTS
  Null = Null
  Torn = Torn
  MinSize = 2
  Conns = {c1}
  MaxRequests = 1
  MaxBoots = 2
INVARIANT SavesCurrentParameters
