\* The hash map grows from two buckets to sixteen: 3 and 11, 7 and 15 collide in
\* every smaller table, all four in a table of four, and 6, 7 and 15 probe
\* around the end.  Four nodes for the lists: inner ones with two neighbours,
\* and one being written over.  A chunk of eight smallest blocks: four classes.
SPECIFICATION StructuresSpec
CONSTANTS
  v1 = v1  v2 = v2
  Key = {1, 3, 6, 7, 11, 15}
  Val <- TwoValues
  Null = Null
  InitialBuckets = 2
  LoadNum = 3
  LoadDen = 4
  Node = {n1, n2, n3, n4}
  End = End
  Garbage = {End, n1}
  MinAllocSize = 1
  PageSize = 8
  RequestSizes = {1, 2, 4, 8}
INVARIANTS ForwardListIntact RingIntact SpanListIntact ResizeIsEnough EntriesReachable ChunkConsistent
PROPERTIES IsPartialMap CallsReturn FreeTellsReclaim FailsOnlyWhenFull
