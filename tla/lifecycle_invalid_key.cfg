SPECIFICATION Spec
CONSTANTS
    Kinds <- OnlyEnvironment
    Handlers <- MCHandlers
    Describing = {}
    Objects = {1}
    Foreign = {}
    Parts = {"first"}
    Values = {"a", "b"}
    MaxFaults = 1
PROPERTY ForgottenOnlyIfGone
