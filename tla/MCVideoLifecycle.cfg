SPECIFICATION FairSpec
CONSTANTS
  MaxRestarts = 1
  MaxSets = 2
  MaxPhotos = 1
INVARIANTS
  ChannelsUnused
  TerminateOnlyByLeftover
PROPERTIES
  RestartReturns
  PhotoServed
