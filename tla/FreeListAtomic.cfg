\* Two pushers and the one consumer, which calls pop and popAll and also
\* pushes, so nodes come back onto the list while pushers are between load and
\* swap.
SPECIFICATION Spec
CONSTANTS
  t1 = t1  t2 = t2  t3 = t3  n1 = n1  n2 = n2  n3 = n3
  Null = Null
  Node <- ThreeNodes
  Pushers <- AllThreads
  Poppers <- LastThread
  Drainers <- LastThread
  SpuriousFailure = TRUE
INVARIANTS ChainsIntact OnePlace PopStable
PROPERTIES IsAtomicStack
