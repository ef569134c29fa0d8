\* Every kind of loop; the graphs, their SSA form and the paths through them.
CONSTANTS
  Kinds = {"while", "for", "do", "forever"}
  DeadCode = FALSE
  MaxNodes = 8
SPECIFICATION WalkSpec
INVARIANTS TypeOK FathersMirrorSons LiveJumpsFound JumpsKeepToTheirLoop NoAloneEndif DominanceExact SsaRight PathsAreReal EveryBranchWalked
CHECK_DEADLOCK FALSE
