SPECIFICATION RknnSpec
CONSTANTS
  Threads = {t1, t2, t3}
  NoThread = NoThread
  MaxThreads = 2
  MaxTasks = 4
  PutEvery = 2
  ViDepth = 7
INVARIANTS
  RknnTypeOK
  ModelExclusive
  OverlayFresh
PROPERTIES
  InferenceReturns
