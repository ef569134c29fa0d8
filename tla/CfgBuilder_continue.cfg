\* A continue of a while loop whose body ends in an expression.
CONSTANTS
  Kinds = {"while"}
  DeadCode = FALSE
  MaxNodes = 8
SPECIFICATION Spec
INVARIANTS ContinueResumesItsLoop
CHECK_DEADLOCK FALSE
