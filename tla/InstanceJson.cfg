SPECIFICATION Spec
CONSTANTS
    Schemas <- SomeModels
    Values = {"zero", "one"}
    Default = "zero"
    NoOpposite = NoOpposite
    NonFinite = {}
    Null = Null
    NestingLimit = 127
    Invalid = Invalid
    Universes <- SomeUniverses
    IntMax = 3
    LongMax = 7
INVARIANTS NoDuplicates OppositesAgree RoundTrip BodiesRun
PROPERTY ListsKeepOrder
CHECK_DEADLOCK FALSE
