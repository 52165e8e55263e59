SPECIFICATION Spec
CONSTANTS
    Names = {"A", "B", "C"}
    Capabilities = {"x", "y"}
    Inputs <- TwoFiles
    Nothing = Nothing
INVARIANT ToolsSeparated
CHECK_DEADLOCK FALSE
