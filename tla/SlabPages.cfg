\* Two pages of two objects, the owner and one other thread.
SPECIFICATION Spec
CONSTANTS
  g1 = g1  g2 = g2  o1 = o1  r1 = r1  r2 = r2
  Null = Null
  Page <- TwoPages
  MaxCount = 2
  Thread <- OneRemote
  Owner = o1
  SpuriousFailure = TRUE
INVARIANTS NoUseAfterRelease PagePlacement
PROPERTIES IsObjectPool
