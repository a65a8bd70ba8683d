SPECIFICATION FairSpec
CONSTANTS
  Threads = {t1, t2, t3, t4}
  NoThread = NoThread
  MaxThreads = 2
  MaxTasks = 4
INVARIANTS
  TypeOK
  CountersExact
  NoLostWakeup
  JoinableKeys
  ThreadMapBound
  DestructorOwnsMap
  DestroyedDrained
PROPERTIES
  EveryTaskRuns
  DestructorReturns
  ImplementsExecutor
