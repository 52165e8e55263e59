SPECIFICATION Spec
CONSTANTS
    AllNames = {"A", "B", "C", "D", "E", "Unknown"}
    Inputs <- SomeInputs
    NoRing = NoRing
    MaxNodes = 5
    MaxReferences = 1
    MaxFree = 3
INVARIANTS Acyclic BudgetSuffices ReportsAreRight
PROPERTIES RefusesExactlyCycles PassEnds
CHECK_DEADLOCK FALSE
