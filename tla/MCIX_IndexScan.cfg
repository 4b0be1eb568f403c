\* Seven rows in nodes of two keys, two rows with the same key.
CONSTANTS
  Rows <- SevenRows
  Key <- TwoAlike
  degree = 3
  MaxNodes = 18
SPECIFICATION IndexSpec
INVARIANTS SearchExact FullScanExact ScansSound
CHECK_DEADLOCK FALSE
