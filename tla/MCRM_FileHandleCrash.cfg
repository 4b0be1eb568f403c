\* Two pages of one record and a spare bit, a crash at any time.
CONSTANTS
  NumberRecords = 1
  BitmapBits = 2
  MaxPages = 2
  MaxPins = 1
  MaxTotal = 2
  Values = {v1, v2}
  Blank = blank
  Absent = absent
SPECIFICATION Spec
INVARIANTS ForcedRecordsSurvive ClosedFileExact
CONSTRAINT InsidePages
SYMMETRY Symmetric
