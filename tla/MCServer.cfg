SPECIFICATION ServerSpec
CONSTANTS
  w1 = w1
  w2 = w2
  t1 = t1
  t2 = t2
  c1 = c1
  c2 = c2
  Tasks <- MCTasks
  Workers <- MCWorkers
  Watched = w1
  Requests <- MCRequests
  Procs <- MCWorkers
  Conns <- MCConns
  Nobody = Nobody
  NCms = 2
  NStartup = 2
  NShutdown = 2
  MayFail <- MCAllFail
  MaxCalls = 9
INVARIANTS NoLostWakeup ChildrenReaped HooksAfterDrain LoadConserved ServesOnlyWhenUp RestartsClean
PROPERTIES ShutdownEnds ConnResolved LifespansUnwound
CHECK_DEADLOCK FALSE
