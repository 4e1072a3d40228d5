\* Two threads, two heaps, and the workloads of MCRpHeap: small classes of two
\* and three blocks in a span, large ones of one to three spans, oversized of four.
\* Two threads are too few for two owners of one heap, which RpOrphan.cfg shows.
SPECIFICATION Spec
\* A thread waits in _memory_map for ever when the system has no span left.
CHECK_DEADLOCK FALSE
CONSTANTS
  t1 = t1  t2 = t2
  a1 = a1  b1 = b1  b2 = b2  d1 = d1  d2 = d2  e1 = e1  f1 = f1
  Null = Null
  Thread = {t1, t2}
  MaxHeaps = 2
  HeapArraySize = 1
  Span = {a1, b1, b2, d1, d2, e1, f1}
  SpanCount <- Units
  SizeClassCount = 2
  BlockCount <- Blocks
  LargeClassCount = 3
  MaxRelease = 2
  Workload <- Workloads
SYMMETRY Symmetry
INVARIANTS SpanPlacement BlocksIntact HeapsFound
PROPERTIES IsBlockPool FinalizeUnmapsAll
