\* break in a for (;;) inside another loop.
CONSTANTS
  Kinds = {"while", "forever"}
  DeadCode = FALSE
  MaxNodes = 9
SPECIFICATION Spec
INVARIANTS BreakLeavesItsLoop
CHECK_DEADLOCK FALSE
