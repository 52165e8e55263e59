SPECIFICATION FormatSpec
CONSTANTS
  Files <- ModelFiles
  Inputs <- ModelInputs
  FormatSource <- Format
INVARIANTS
  NeighboursSurvive
  
  FormatSettles
