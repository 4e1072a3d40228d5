SPECIFICATION HeapsSpec
CHECK_DEADLOCK FALSE
CONSTANTS
  Thread = {t1, t2, t3}
  MaxHeaps = 3
  HeapArraySize = 1
INVARIANTS OneOwner
