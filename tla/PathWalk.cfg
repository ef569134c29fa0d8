\* Two outer functions, two internal ones, two structs in storage.
CONSTANTS
  Functions = {"main", "other", "f", "g"}
  StateVars <- MCStateVars
  Entries <- MCEntries
  Programs <- MCPrograms
  MaxItems = 40
  MaxDepth = 3
SPECIFICATION Spec
INVARIANTS TypeOK WritesFound WritesReal TraceIsARun
PROPERTY WalkEnds
CHECK_DEADLOCK FALSE
