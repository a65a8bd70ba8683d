SPECIFICATION FairSpec
CONSTANTS
  MaxRestarts = 1
  MaxSets = 0
  MaxPhotos = 0
INVARIANTS
  InferenceRuns
