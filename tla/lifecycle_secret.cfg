SPECIFICATION Spec
CONSTANTS
    Kinds <- OnlyCatalogIntegration
    Handlers <- MCHandlers
    Describing <- MCDescribing
    Objects = {1}
    Foreign = {}
    Parts = {"first", "second"}
    Values = {"a", "b"}
    MaxFaults = 1
INVARIANT EmptyPlanIsTrue
