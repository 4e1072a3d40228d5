\* The supplier has three chunks of four smallest blocks of two units each,
\* the limit is two of the chunks; addresses are used again after a release.
SPECIFICATION Spec
\* The destructor ends the allocator.
CHECK_DEADLOCK FALSE
CONSTANTS
  c1 = c1  c2 = c2  c3 = c3  b1 = b1  b2 = b2  b3 = b3
  Null = Null
  Chunk <- ThreeChunks
  Meta <- ThreeMetas
  MinAllocSize = 2
  PageSize = 8
  AllocLimit = 16
  Modulus = 64
  RequestSizes = {2, 4, 8}
SYMMETRY AddressSymmetry
INVARIANTS FreeSpaceListed MemoryTiled FreeRangeIsFound ChunksAccounted LimitRespected
PROPERTIES IsBlockPool
