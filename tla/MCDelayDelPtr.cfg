\* The clock and the versions have bounds, where writers stop.
SPECIFICATION Spec
CHECK_DEADLOCK FALSE
CONSTANTS
  Writers = {w1, w2}
  Readers = {r1}
  Objects = {o1, o2, o3, o4}
  NoObj = null
  Delay = 2
  MaxTime = 5
  MaxVersion = 3
SYMMETRY Symmetry
INVARIANTS WellFormed SafeToUse Owned NeverOlder
