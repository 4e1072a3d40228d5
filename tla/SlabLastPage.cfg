\* One page of two objects and its owner alone.
SPECIFICATION Spec
CONSTANTS
  g1 = g1  g2 = g2  o1 = o1  r1 = r1  r2 = r2
  Null = Null
  Page <- OnePage
  MaxCount = 2
  Thread <- OwnerOnly
  Owner = o1
  SpuriousFailure = FALSE
INVARIANTS OnePageLeft
