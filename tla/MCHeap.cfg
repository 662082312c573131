SPECIFICATION Spec
CONSTANTS
  HeapSize = 13
  Hdr = 2
  SizeMod = 16
  NULL = NULL
  Byte = {0, 1}
  HdrCell = HdrCell
  Sizes = {0, 1, 6}
INVARIANTS
  TypeOK
  Tiles
  NoAdjacentFree
  EmptyHeapIsWhole
  NoFalseExhaustion
  LoopsAgree
  StatsAddUp
  UsedIsLive
  HeadersIntact
PROPERTY AllocatorSpec
