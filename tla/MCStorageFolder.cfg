SPECIFICATION FairSpec
CHECK_DEADLOCK FALSE
CONSTANTS
  NFolders = 1
  Names = {a, b}
  Times = {1, 2}
  Spaces = {0, 1}
  Limit <- LimitOne
  Slack = 0
  Capacity = 2
  DelMin = 1
  DelMax = 2
  MaxFiles = 2
  MaxRemovals = 1
  MaxAdds = 2
CONSTRAINT OneScan
INVARIANTS
  ListSorted
  TotalsExact
  NoDuplicateNames
  GhostsHealed
PROPERTIES
  QuotaEnforced
  RemovalReturns
