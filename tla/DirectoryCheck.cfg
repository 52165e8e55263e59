SPECIFICATION Spec
CONSTANTS
  Trees <- MCTrees
  Lower <- MCLower
INVARIANTS OrderIsIrrelevant ReportsExactlyDangling
