\* A getter called twice on a path.
CONSTANTS
  Functions = {"main", "other", "f", "g"}
  StateVars <- MCStateVars
  Entries <- MCEntries
  Programs <- MCPrograms
  MaxItems = 40
  MaxDepth = 3
SPECIFICATION Spec
INVARIANT OnlyWritesFound
CHECK_DEADLOCK FALSE
