\* Four spans: sublists of two, a remainder, and a global cache that is full.
SPECIFICATION FairSpec
\* With every span in use a thread waits in _memory_map for ever.
CHECK_DEADLOCK FALSE
CONSTANTS
  Thread = {t1, t2}
  Span = {s1, s2, s3, s4}
  Null = Null
  Token = Token
  MaxCount = 3
  MaxRelease = 2
INVARIANTS CachesIntact
PROPERTIES IsSpanPool TokenReleased CleanupReleasesAll
