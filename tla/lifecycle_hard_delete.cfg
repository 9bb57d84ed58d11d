SPECIFICATION Spec
CONSTANTS
    Kinds <- OnlySchemaHard
    Handlers <- MCHandlers
    Describing <- MCDescribing
    Objects = {1}
    Foreign = {}
    Parts = {"first"}
    Values = {"a", "b"}
    MaxFaults = 1
INVARIANT HardDeleted
