\* One page of three objects, the owner and one other thread.
SPECIFICATION HeapSpec
CONSTANTS
  g1 = g1  o1 = o1  r1 = r1
  Null = Null
  Page <- OnePage
  MaxCount = 3
  Thread <- OwnerAndAnother
  Owner = o1
  SpuriousFailure = FALSE
PROPERTIES NeverHandedOutTwice
