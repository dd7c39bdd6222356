SPECIFICATION Spec
CONSTANTS
  NUM_BITMAPS = 3
  PAGE_SIZE = 8
  HOLE = 0
  MMap <- MapOdd
  Sizes = {1, 2}
INVARIANT IndexInBitmap
CHECK_DEADLOCK TRUE
