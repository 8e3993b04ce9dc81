SPECIFICATION Spec
CONSTANTS
  a = a
  one = one
  none = none
  Vars = {x, y}
  Null = null
  Keys = {a}
  Indexes = {0}
  Scalars <- SmallScalars
  RefLimit = 65536
  Number = one
  Documents <- Printed
  Texts <- DamagedTexts
  LengthLeft = 2
  MaxDepth = 3
  MaxPath = 2
  MaxPathFrom = 1
  MaxNodes = 4
  MaxPool = 1
VIEW Nameless
CHECK_DEADLOCK FALSE
INVARIANTS Lifetimes ReadsBack FailsWell
PROPERTIES ImplementsValues OthersKept
