SPECIFICATION Spec
CONSTANTS
  n1 = n1
  n2 = n2
  n3 = n3
  n4 = n4
  Nodes <- MCNodes
  Cached <- MCCached
  runThread = runThread
  prober = prober
  Finders <- MCFinders
  NULL = NULL
INVARIANTS WellLinked NodeInOnePlace OnlySecondRemovalAborts
PROPERTIES ImplementsQueue
