\* The threads of the FreelistAtomic test, two pushers and one consumer; the
\* consumer also uses popAll.
SPECIFICATION FairSpec
CONSTANTS
  t1 = t1  t2 = t2  t3 = t3  n1 = n1  n2 = n2  n3 = n3
  Null = Null
  Node <- ThreeNodes
  Pushers <- TwoThreads
  Poppers <- LastThread
  Drainers <- LastThread
  SpuriousFailure = FALSE
PROPERTIES AllConsumed
