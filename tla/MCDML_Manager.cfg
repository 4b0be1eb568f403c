SPECIFICATION Spec
CONSTANTS
  Tables = {t1, t2}
  AttrCount = 2
  Rows = {r1, r2}
  Key <- OneAlike
  NoRow = NoRow
  NoFile = NoFile
INVARIANTS
  TablesHaveFiles
  
  IndexesExact
  
SYMMETRY Symmetric
CONSTRAINT OneOutOfOrder
