\* A destroyed driver takes no more calls.
SPECIFICATION Spec
CHECK_DEADLOCK FALSE
CONSTANTS
  Fds = {f1, f2}
  Contexts = {c1, c2}
  Null = null
  Signs = {s1, s2, s3}
  NoSign = zero
  Timeouts <- Timeo
  MaxTime = 3
  Careful = FALSE
SYMMETRY Symmetry
INVARIANT ReadyHasContext
