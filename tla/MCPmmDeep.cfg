SPECIFICATION Spec
CONSTANTS
  NUM_BITMAPS = 4
  PAGE_SIZE = 15
  HOLE = 0
  MMap <- MapDeep
  Sizes = {1, 3, 6, 8}
INVARIANTS BooksBalance
PROPERTY ImplementsPageAllocator
CHECK_DEADLOCK TRUE
