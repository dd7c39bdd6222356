SPECIFICATION Spec
CONSTANTS
  NUM_BITMAPS = 3
  PAGE_SIZE = 4
  HOLE = 0
  MMap <- MapSmall
  Sizes = {0, 1, 2, 3, 4, 5}
INVARIANTS BooksBalance FreeBuddiesMerged BitmapNotHandedOut IndexInBitmap
PROPERTY ImplementsPageAllocator
CHECK_DEADLOCK TRUE
