SPECIFICATION FairSpec
CONSTANTS
  t1 = t1
  t2 = t2
  r1 = r1
  r2 = r2
  r3 = r3
  Threads <- MCThreads
  Reqs <- MCReqs
  SpuriousWakeups = TRUE
  Nobody = Nobody
INVARIANTS TypeOK NoLostWakeup FlagMeansEnded
PROPERTIES ImplementsRequestLife WaitReturns
