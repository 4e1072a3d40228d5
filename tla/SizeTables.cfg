\* All sizes up to rpmalloc's largest with a size class.  They include the
\* sizes SlabSizeClass.h has an entry for, and their multiples reach the spans
\* and the pages of larger blocks.
SPECIFICATION RpSpec
CONSTANT MaxSize = 32720
INVARIANTS BestClass PageServesClass RpClassServes ReallocFits
