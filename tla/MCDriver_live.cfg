\* A destroyed driver takes no more calls.
SPECIFICATION FairSpec
CHECK_DEADLOCK FALSE
CONSTANTS
  Fds = {f1, f2}
  Contexts = {c1, c2}
  Null = null
  Signs = {s1, s2}
  NoSign = zero
  Timeouts <- Timeo
  MaxTime = 3
  Careful = TRUE
INVARIANTS WellFormed InStep ReadyHasContext
PROPERTIES TimersFire
