SPECIFICATION Spec
CONSTANTS
    Sources = {"iso:4217", "iso:3166"}
    Versions = {"v1", "v2"}
    Sanitize <- Stem
    ModelTexts <- SomeTexts
    Models = {m1}
    Editions = {1, 2}
    Providers = {"dir", "http"}
    Nothing = Nothing
    Torn = Torn
    MaxChanges = 3
INVARIANT CleanAfterFetch
PROPERTY ReproducibleBuilds
CHECK_DEADLOCK FALSE
