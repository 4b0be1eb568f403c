\* Two places, two values and two classes on three pages.
CONSTANTS
  Places = {a1, a2}
  Classes = {0, 1}
  KeptClasses = {0}
  NumRecords <- PageSizes
  BitmapBits <- SpareBit
  MaxPages = 3
  Values = {v1, v2}
  None = none
  NoAttr = noAttr
SPECIFICATION Spec
INVARIANTS ValuesKept RoomListsSound
SYMMETRY Symmetry
CONSTRAINT NotLeaked
