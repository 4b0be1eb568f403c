\* Two frames, three pages in two files, two pins, I/O errors at any time.
CONSTANTS
  Keys <- ThreePages
  Values = {zero, v1}
  NumPages = 2
  MaxPins = 2
  Zero = zero
  Torn = torn
  Absent = absent
  NoPage = noPage
SPECIFICATION Spec
INVARIANTS SlotsPartitioned HashExact CleanMatchesDisk PinsBalanced
PROPERTIES NoBufMeansAllHeld PinnedFrameStable LoopDelivers Implements
VIEW AllButReturnCode
