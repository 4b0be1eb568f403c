\* Three pages of two records with a spare bit, five records at a time.
CONSTANTS
  NumberRecords = 2
  BitmapBits = 3
  MaxPages = 3
  MaxPins = 1
  MaxTotal = 5
  Values = {v1, v2}
  Matching = {v1}
  Blank = blank
  Absent = absent
SPECIFICATION ScanSpec
INVARIANTS NothingSkipped RecordsKept FreeListExact
PROPERTY ReturnsEachOnce
