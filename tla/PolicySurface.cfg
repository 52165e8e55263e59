SPECIFICATION Spec
CONSTANTS
    Names = {"A", "B", "C"}
    Capabilities = {"x", "y"}
    Inputs <- AllInputs
    Nothing = Nothing
INVARIANTS
    CedarSeparated
    DelegationsContained
    SchemaFitsPolicies
    ToolsArePolicies
    AllPoliciesWritten
CHECK_DEADLOCK FALSE
