SPECIFICATION FairSpec
CHECK_DEADLOCK FALSE
CONSTANTS
  NFolders = 1
  Names = {a, b, c}
  Times = {1}
  Spaces = {1}
  Limit <- LimitHalf
  Slack = 0
  Capacity = 4
  DelMin = 1
  DelMax = 2
  MaxFiles = 0
  MaxRemovals = 0
  MaxAdds = 0
PROPERTIES
  DeletionStopsAtMax
