SPECIFICATION Spec
CONSTANTS
    Kinds <- OnlyAuthorization
    Handlers <- MCHandlers
    Describing <- MCDescribing
    Objects = {1}
    Foreign = {}
    Parts = {"first"}
    Values = {"a", "b"}
    MaxFaults = 1
PROPERTY UpdatedMeansApplied
