\* A destroyed pool takes no more calls, and the objects of the model run out.
SPECIFICATION Spec
CHECK_DEADLOCK FALSE
CONSTANTS
  Threads = {t1, t2}
  Objects = {o1, o2, o3, o4, o5, o6, o7, o8, o9}
  NoObj = null
  Junk = junk
  MaxBlocks = 4
  ObjsPerBlock = 2
  InitObjs = 5
VIEW Shape
INVARIANTS WellFormed OneOwner NothingLost FixedPoolKeeps
