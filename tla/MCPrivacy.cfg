\* No call is made after the destructor.
SPECIFICATION FairSpec
CHECK_DEADLOCK FALSE
CONSTANTS
  Threads = {t1, t2}
  Nos = {0, 1}
INVARIANTS WellFormed Stable NothingLost
PROPERTY GetReturns
