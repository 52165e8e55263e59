SPECIFICATION FormatSpec
CONSTANTS
  Files <- ModelFiles
  Inputs <- TypedInputs
  FormatSource <- Format
INVARIANT FormatEnds
