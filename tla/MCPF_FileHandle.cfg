\* Three pages, one with contents: free lists of every order, reuse, reopening.
CONSTANTS
  MaxPages = 3
  MaxPins = 1
  Data = {zero, d1}
  Zero = zero
  Absent = absent
SPECIFICATION Spec
INVARIANTS FreeListExact ClosedFileSound
PROPERTIES ForcedFileSound UsedPageKept
VIEW AllButReturnCode
CONSTRAINT OnePageWithData
