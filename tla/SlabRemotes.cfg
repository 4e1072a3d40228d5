\* One page of three objects, the owner and two other threads pushing at once.
SPECIFICATION FairSpec
CONSTANTS
  g1 = g1  g2 = g2  o1 = o1  r1 = r1  r2 = r2
  Null = Null
  Page <- OnePage
  MaxCount = 3
  Thread <- TwoRemotes
  Owner = o1
  SpuriousFailure = FALSE
INVARIANTS PageAccountingExact RemoteListIntact
PROPERTIES ReclaimReturns
