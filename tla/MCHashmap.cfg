SPECIFICATION Spec
CONSTANTS
  Keys = {k1, k2, k3}
  Vals = {v1, v2}
  NoVal = null
  Blank = blank
  Erased = erased
  Crash = crash
  Primes <- SmallPrimes
  Hashes = {0, 1, 4}
  InitSizes = {1, 2, 3}
  MaxSize = 4
SYMMETRY Symmetry
INVARIANTS WellFormed
PROPERTY ImplementsMap
